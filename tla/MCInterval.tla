----------------------------- MODULE MCInterval -----------------------------
(* Up to five periods.                                                      *)
EXTENDS Interval
=============================================================================

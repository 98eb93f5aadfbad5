---------------------------- MODULE MCAnyDriver ----------------------------
(* Two handles that share a slab of tokens, one of them read from and the  *)
(* other written to, and two tasks.                                        *)
EXTENDS AnyDriver, TLC

CONSTANTS h1, h2

OneDirectionEach == h1 :> {"read"} @@ h2 :> {"write"}
=============================================================================

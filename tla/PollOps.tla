------------------------------ MODULE PollOps ------------------------------
(***************************************************************************)
(* The operations as they work on a handle in poll mode, each by what its  *)
(* poll_poll does:                                                         *)
(*                                                                         *)
(*   blocked_on  the readiness its system call needs                       *)
(*   waits_for   the interest it passes to submit_poll when the call would *)
(*               block                                                     *)
(*   elsewhere   whether the call may block on something else than the     *)
(*               handle it is submitted for                                *)
(*                                                                         *)
(* ReadAtOp, WriteAtOp, FsyncOp and the operations on paths have no        *)
(* poll_poll: the default of the trait returns an error.                   *)
(***************************************************************************)

ReadOp ==
  [blocked_on |-> "read", waits_for |-> "read", elsewhere |-> FALSE]

RecvOp ==
  [blocked_on |-> "read", waits_for |-> "read", elsewhere |-> FALSE]

ReadvOp ==
  [blocked_on |-> "read", waits_for |-> "read", elsewhere |-> FALSE]

RecvfromOp ==
  [blocked_on |-> "read", waits_for |-> "read", elsewhere |-> FALSE]

AcceptOp ==
  [blocked_on |-> "read", waits_for |-> "read", elsewhere |-> FALSE]

AcceptUnixOp ==
  [blocked_on |-> "read", waits_for |-> "read", elsewhere |-> FALSE]

WriteOp ==
  [blocked_on |-> "write", waits_for |-> "write", elsewhere |-> FALSE]

SendOp ==
  [blocked_on |-> "write", waits_for |-> "write", elsewhere |-> FALSE]

WritevOp ==
  [blocked_on |-> "write", waits_for |-> "write", elsewhere |-> FALSE]

SendtoOp ==
  [blocked_on |-> "write", waits_for |-> "write", elsewhere |-> FALSE]

\* The connection is started by the first poll only; SO_ERROR and
\* getpeername tell whether it is made, which makes the socket writable.
ConnectOp ==
  [blocked_on |-> "write", waits_for |-> "write", elsewhere |-> FALSE]

\* Waits for the destination, also when the source would block.
SpliceOp ==
  [blocked_on |-> "write", waits_for |-> "write", elsewhere |-> TRUE]

SendfileOp ==
  [blocked_on |-> "write", waits_for |-> "write", elsewhere |-> FALSE]

AllPollOps ==
  { ReadOp, RecvOp, ReadvOp, RecvfromOp, AcceptOp, AcceptUnixOp, WriteOp,
    SendOp, WritevOp, SendtoOp, ConnectOp, SpliceOp, SendfileOp }
=============================================================================

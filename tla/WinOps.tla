------------------------------- MODULE WinOps -------------------------------
(***************************************************************************)
(* The operations that can be submitted to IOCP, described as in module    *)
(* Ops: by what their submit_windows passes to the system, and by what     *)
(* Drop hands to the driver.  The OVERLAPPED is the driver's own, and the  *)
(* request is taken when it is submitted, so nothing is read later; what   *)
(* describes the buffers (WSABUF) is read before the call returns.         *)
(***************************************************************************)

ReadOp ==
  [on |-> TRUE, held |-> {"buf"}, read |-> {}, handed |-> {"buf"}]

RecvOp ==
  [on |-> TRUE, held |-> {"buf"}, read |-> {}, handed |-> {"buf"}]

WriteOp ==
  [on |-> TRUE, held |-> {"buf"}, read |-> {}, handed |-> {"buf"}]

SendOp ==
  [on |-> TRUE, held |-> {"buf"}, read |-> {}, handed |-> {"buf"}]

ReadAtOp ==
  [on |-> TRUE, held |-> {"buf"}, read |-> {}, handed |-> {"buf"}]

WriteAtOp ==
  [on |-> TRUE, held |-> {"buf"}, read |-> {}, handed |-> {"buf"}]

ReadvOp ==
  [on |-> TRUE, held |-> {"bufs"}, read |-> {}, handed |-> {"bufs"}]

WritevOp ==
  [on |-> TRUE, held |-> {"bufs"}, read |-> {}, handed |-> {"bufs"}]

RecvfromOp ==
  [on |-> TRUE, held |-> {"completion_state", "buf"}, read |-> {},
   handed |-> {"completion_state", "buf"}]

SendtoOp ==
  [on |-> TRUE, held |-> {"completion_state", "buf"}, read |-> {},
   handed |-> {"completion_state", "buf"}]

\* The address is read by ConnectEx before it returns.
ConnectOp ==
  [on |-> TRUE, held |-> {}, read |-> {}, handed |-> {}]

\* ReadFile and WriteFile work on one staging buffer, that belongs to the
\* operation and is not handed over.
ReadvOp_file ==
  [on |-> TRUE, held |-> {"staging"}, read |-> {}, handed |-> {}]

WritevOp_file ==
  [on |-> TRUE, held |-> {"staging"}, read |-> {}, handed |-> {}]

\* The address buffer is not handed over; the socket that is to be accepted
\* is closed, which cancels the operation.
AcceptOp ==
  [on |-> TRUE, held |-> {"accept_output_buffer"}, read |-> {}, handed |-> {}]

\* The operations that free what the system may still use when they are
\* dropped while pending.
FreeingOps == {ReadvOp_file, WritevOp_file, AcceptOp}

AllOps ==
  { ReadOp, RecvOp, WriteOp, SendOp, ReadAtOp, WriteAtOp, ReadvOp, WritevOp,
    RecvfromOp, SendtoOp, ConnectOp } \cup FreeingOps
=============================================================================

---------------------------- MODULE ObjectTypes ----------------------------
(***************************************************************************)
(* The objects that have a registered handle, each by what its type offers *)
(* besides from_std, which asks for completions:                           *)
(*                                                                         *)
(*   poll      the modes that the constructors of its poll-only type ask   *)
(*             for; {} if there is no such constructor                     *)
(*   converts  into_poll, into_adaptive and into_completion                *)
(*   clones    try_clone                                                   *)
(*   rebinds   connect, which on Windows changes the mode for a while      *)
(*   checked   an O_NONBLOCK that cannot be set is an error                *)
(***************************************************************************)

TcpStream ==
  [poll |-> {"Poll"}, converts |-> TRUE, clones |-> FALSE, rebinds |-> FALSE,
   checked |-> TRUE]

\* from_std_poll makes a TcpListener that polls, on Windows.
TcpListener ==
  [poll |-> {"Poll"}, converts |-> FALSE, clones |-> FALSE, rebinds |-> FALSE,
   checked |-> TRUE]

\* PollUnixStream::from_std asks for Poll, UnixStream::from_std_poll for what
\* the driver prefers.
UnixStream ==
  [poll |-> {"Poll", "Completion"}, converts |-> TRUE, clones |-> FALSE,
   rebinds |-> FALSE, checked |-> TRUE]

UnixListener ==
  [poll |-> {}, converts |-> FALSE, clones |-> FALSE, rebinds |-> FALSE,
   checked |-> TRUE]

UdpSocket ==
  [poll |-> {"Poll"}, converts |-> TRUE, clones |-> TRUE, rebinds |-> TRUE,
   checked |-> TRUE]

\* That fcntl fails is ignored.
Pipe ==
  [poll |-> {}, converts |-> TRUE, clones |-> FALSE, rebinds |-> FALSE,
   checked |-> FALSE]

AllTypes ==
  {TcpStream, TcpListener, UnixStream, UnixListener, UdpSocket, Pipe}
=============================================================================

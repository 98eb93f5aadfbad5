--------------------------------- MODULE Ops ---------------------------------
(***************************************************************************)
(* The operations that can be submitted to io_uring, each by the memory    *)
(* its submission entry points to and by what its Drop implementation      *)
(* hands to the driver while the operation is pending:                     *)
(*                                                                         *)
(*   held    what the kernel may use until the operation has completed     *)
(*   read    what it reads when it takes the entry, and not after that     *)
(*   handed  which of these Drop passes to ignore_completion; the rest is  *)
(*           freed with the operation                                      *)
(*   on      whether the operation works on a registered handle            *)
(***************************************************************************)

\* Mutant: the vector of buffers is freed with the operation.
ReadvOp_losing_iovecs ==
  [on |-> TRUE, held |-> {"iovecs", "bufs"}, read |-> {}, handed |-> {"bufs"}]

ReadOp ==
  [on |-> TRUE, held |-> {"buf"}, read |-> {}, handed |-> {"buf"}]

ReadAtOp ==
  [on |-> TRUE, held |-> {"buf"}, read |-> {}, handed |-> {"buf"}]

RecvOp ==
  [on |-> TRUE, held |-> {"buf"}, read |-> {}, handed |-> {"buf"}]

WriteOp ==
  [on |-> TRUE, held |-> {"buf"}, read |-> {}, handed |-> {"buf"}]

WriteAtOp ==
  [on |-> TRUE, held |-> {"buf"}, read |-> {}, handed |-> {"buf"}]

SendOp ==
  [on |-> TRUE, held |-> {"buf"}, read |-> {}, handed |-> {"buf"}]

ReadvOp ==
  [on |-> TRUE, held |-> {"iovecs", "bufs"}, read |-> {},
   handed |-> {"iovecs", "bufs"}]

WritevOp ==
  [on |-> TRUE, held |-> {"iovecs", "bufs"}, read |-> {},
   handed |-> {"iovecs", "bufs"}]

RecvfromOp ==
  [on |-> TRUE, held |-> {"msghdr", "buf"}, read |-> {},
   handed |-> {"msghdr", "buf"}]

SendtoOp ==
  [on |-> TRUE, held |-> {"msghdr", "buf"}, read |-> {},
   handed |-> {"msghdr", "buf"}]

\* The address belongs to the future of connect, and goes with it.
ConnectOp ==
  [on |-> TRUE, held |-> {}, read |-> {"addr"}, handed |-> {}]

AcceptOp ==
  [on |-> TRUE, held |-> {}, read |-> {}, handed |-> {}]

AcceptUnixOp ==
  [on |-> TRUE, held |-> {}, read |-> {}, handed |-> {}]

FsyncOp ==
  [on |-> TRUE, held |-> {}, read |-> {}, handed |-> {}]

SpliceOp ==
  [on |-> TRUE, held |-> {}, read |-> {}, handed |-> {}]

\* The operations on paths own the names that their entries point to, and free
\* them when they are dropped.
StatxOp ==
  [on |-> FALSE, held |-> {"statxbuf"}, read |-> {"paths"},
   handed |-> {"statxbuf"}]

OpenOp ==
  [on |-> FALSE, held |-> {}, read |-> {"paths"}, handed |-> {}]

MkDirOp ==
  [on |-> FALSE, held |-> {}, read |-> {"paths"}, handed |-> {}]

UnlinkOp ==
  [on |-> FALSE, held |-> {}, read |-> {"paths"}, handed |-> {}]

RenameOp ==
  [on |-> FALSE, held |-> {}, read |-> {"paths"}, handed |-> {}]

HardLinkOp ==
  [on |-> FALSE, held |-> {}, read |-> {"paths"}, handed |-> {}]

SymlinkOp ==
  [on |-> FALSE, held |-> {}, read |-> {"paths"}, handed |-> {}]

\* The operations that do not hand over what a queued entry points to.
FreeingOps ==
  { ConnectOp, StatxOp, OpenOp, MkDirOp, UnlinkOp, RenameOp, HardLinkOp,
    SymlinkOp }

AllOps ==
  { ReadOp, ReadAtOp, RecvOp, WriteOp, WriteAtOp, SendOp, ReadvOp, WritevOp,
    RecvfromOp, SendtoOp, AcceptOp, AcceptUnixOp, FsyncOp, SpliceOp }
  \cup FreeingOps
=============================================================================

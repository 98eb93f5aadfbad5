--------------------------- MODULE AnyCompletion ---------------------------
(***************************************************************************)
(* Completion-based operations on whichever driver the runtime has:        *)
(* io_uring or IOCP.  The mio driver has no completions.                   *)
(***************************************************************************)
EXTENDS CompletionTasks

CONSTANT RingSizes  \* the sizes a builder may ask for

ASSUME AnyCompletionAssumption == RingSizes \subseteq Nat \ {0}

VARIABLES driver, entries, sq, pending_submissions

queueVars == <<sq, pending_submissions>>
built == <<driver, entries>>
vars == <<built, taskVars, queueVars>>

IoUring == INSTANCE UringOps
Iocp == INSTANCE IocpOps

\* Every kind of operation of either driver.
Kinds == IoUring!AllOps \cup Iocp!AllOps

\* What a place for a future holds.
OpType ==
  [kind : Kinds, fd : Fds \cup {None}, request : Nat,
   completion_token : Tokens \cup {None}, result : Nat \cup {None},
   polled_by : Tasks \cup {None}, on : Nat]

\* What an occupied slot of the slab holds.
SlotType ==
  [waiter : Tasks \cup {None}, completed : Nat \cup {None},
   ignored_data : {kind.handed : kind \in Kinds} \cup {None}, request : Nat]

\* An entry of the submission queue, a request that io_uring has taken, and
\* what either driver's queue of completions holds.
EntryType ==
  [token : Tokens, request : Nat, kind : Kinds, fd : Fds \cup {None},
   meant : Nat]

TakenType ==
  [token : Tokens, request : Nat, kind : Kinds, file : Nat, meant : Nat]

CompletionType == [token : Tokens, request : Nat]

\* None is no record of these and no set of buffers.
ASSUME NoneAssumption ==
  None \notin OpType \cup SlotType \cup {kind.handed : kind \in Kinds}

Init ==
  /\ driver \in {"IoUring", "Iocp"}
  /\ entries \in IF driver = "IoUring" THEN RingSizes ELSE {0}
  /\ TasksInit
  /\ IoUring!DriverInit

Next ==
  \/ TaskStep /\ UNCHANGED <<built, queueVars>>
  \/ driver = "IoUring" /\ IoUring!DriverStep /\ UNCHANGED built
  \/ driver = "Iocp" /\ Iocp!DriverStep /\ UNCHANGED <<built, queueVars>>

Spec == Init /\ [][Next]_vars

\* Both drivers keep the operations, the slab and the queues well typed; the
\* submission queue is io_uring's, and never longer than the ring
\* (driver/uring.rs, driver/iocp.rs).
TypeOK ==
  /\ op \in [Slots -> OpType \cup {None}]
  /\ completions \in [Tokens -> SlotType \cup {None}]
  /\ file \in [Fds -> 0..MaxFiles]
  /\ files \in 0..MaxFiles
  /\ requests \in Nat
  /\ woken \subseteq Tasks
  /\ sq \in Seq(EntryType)
  /\ entries \in Nat /\ Len(sq) <= entries
  /\ cq \in Seq(CompletionType)
  /\ pending_submissions \in BOOLEAN
  /\ \/ /\ driver = "IoUring" /\ entries \in RingSizes
        /\ kernel \subseteq TakenType
     \/ driver = "Iocp" /\ sq = <<>> /\ kernel \subseteq EntryType

-----------------------------------------------------------------------------
\* The result that an operation finds in the slab and returns is that of its
\* own request, although slots of the slab are reused and operations are
\* dropped while the kernel still works on them (uring.rs:353-367, 636-659,
\* iocp.rs:587-603, 867-901).
ResultIsOwn ==
  \A o \in Slots :
    op[o] # None =>
      /\ op[o].result \in {None, op[o].request}
      /\ op[o].completion_token # None =>
           completions[op[o].completion_token].completed
             \in {None, op[o].request}

\* What the kernel may still use of a request: until the end what it holds, and
\* as long as the entry is queued also what it will read when it takes it.
PointsTo(r) ==
  r.kind.held \cup (IF r \in ToSet(sq) THEN r.kind.read ELSE {})

\* Memory the kernel may still use for a request belongs to a live operation
\* that waits for this request, or was handed to the driver for as long as the
\* request takes (the Drop implementations under op/, and uring.rs:358-361,
\* iocp.rs:600-602).  The memory that these operations free when they are
\* dropped is not owned then, and only what they do hand over is: on io_uring
\* the paths of open, mkdir, unlink, rename, hard_link, symlink and statx and
\* the address of connect, if the entry is still queued (open.rs:76, 91,
\* rename.rs:71-89, unlink.rs:72-86, statx.rs:95-115, connect.rs:511-526); on
\* Windows the staging buffer of readv and writev on files and the address
\* buffer of accept (readv.rs:364-378, writev.rs:358-372, accept.rs:670-681).
MemoryIsOwned ==
  \A r \in IoUring!Outstanding :
    OwnedMemory(r, IF r.kind \in IoUring!FreeingOps \cup Iocp!FreeingOps
                     THEN PointsTo(r) \cap r.kind.handed
                     ELSE PointsTo(r))

\* An operation that is pending has the waker of the task that polled it
\* last in the slab and its request on the way, or that task is awake
\* (uring.rs:626-651, 354-361, iocp.rs:594-599, 880-886).
PendingWillWake ==
  \A o \in Slots :
    (op[o] # None /\ op[o].completion_token # None) =>
      WakeIsComing(o, IoUring!Outstanding)

\* Entries that wait in the submission queue are announced by
\* pending_submissions, or block_on would not flush them
\* (uring.rs:184, 262-266, executor.rs:826).
QueueIsAnnounced == IoUring!QueueIsAnnounced

\* On io_uring the kernel works on the file that an operation was made for,
\* as long as the operation lives: the queue holds descriptor numbers, and
\* deregister_handle does not reach it (uring.rs:184, 500-511).
ActsOnOwnFile == driver = "IoUring" => IoUring!ActsOnOwnFile
=============================================================================

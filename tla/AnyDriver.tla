----------------------------- MODULE AnyDriver -----------------------------
(***************************************************************************)
(* The driver of a runtime is one of several, chosen when the runtime is   *)
(* built, and every call is passed on to it.  Whichever it is, it has to   *)
(* keep the promise of PollDriver.  The mock driver registers no handle    *)
(* and is left out.                                                        *)
(***************************************************************************)
EXTENDS PollTasks, Naturals

CONSTANTS Gone, MaxPolls, PollTokens

ASSUME AnyDriverAssumption ==
  /\ Gone \notin Handles
  /\ None \notin PollTokens
  /\ MaxPolls \in Nat

VARIABLES
  driver,             \* the variant of the enum
  registrations,      \* the slab that each driver has
  polls, cq,          \* of UringPoll
  registered, event,  \* of MioPoll
  poll_ops, posted    \* of IocpPoll

uringVars == <<polls, cq>>
mioVars == <<registered, event>>
iocpVars == <<poll_ops, posted>>
vars == <<driver, taskVars, registrations, uringVars, mioVars, iocpVars>>

IoUring == INSTANCE UringPoll
Mio == INSTANCE MioPoll
Iocp == INSTANCE IocpPoll

\* None is none of the records of the slabs, and no operation.
ASSUME NoneAssumption ==
  None \notin IoUring!PollRegistration \cup Mio!Registration
                \cup Iocp!PollRegistration \cup Iocp!PollOp
                \cup [task : Tasks, handle : Handles, needs : Directions,
                      direction : Directions]
                \cup [task : Tasks, handle : Handles, direction : Directions]

\* new_best: io_uring if the kernel has it, mio on other Unix systems (or
\* where the builder asks for it), IOCP on Windows.
Init ==
  /\ driver \in {"IoUring", "Mio", "Iocp"}
  /\ TasksInit
  /\ IoUring!DriverInit
  /\ Mio!DriverInit
  /\ Iocp!DriverInit

\* A step of one of the drivers.
UringDoes(A) ==
  /\ driver = "IoUring"
  /\ A
  /\ UNCHANGED <<driver, mioVars, iocpVars>>

MioDoes(A) ==
  /\ driver = "Mio"
  /\ A
  /\ UNCHANGED <<driver, uringVars, iocpVars>>

IocpDoes(A) ==
  /\ driver = "Iocp"
  /\ A
  /\ UNCHANGED <<driver, uringVars, mioVars>>

Next ==
  \/ TaskStep /\ UNCHANGED <<driver, registrations, uringVars, mioVars, iocpVars>>
  \/ UringDoes(IoUring!DriverStep)
  \/ MioDoes(Mio!DriverStep)
  \/ IocpDoes(Iocp!DriverStep)

submit_poll ==
  \/ UringDoes(IoUring!submit_poll)
  \/ MioDoes(Mio!submit_poll)
  \/ IocpDoes(Iocp!submit_poll)

submit_poll_failed ==
  \/ UringDoes(IoUring!submit_poll_failed)
  \/ MioDoes(Mio!submit_poll_failed)
  \/ IocpDoes(Iocp!submit_poll_failed)

\* The kernel completes a poll of h.
KernelReports(h) ==
  \/ UringDoes(\E r \in IoUring!Requests :
                 r.of = h /\ IoUring!PollCompletes(r))
  \/ IocpDoes(\E p \in PollTokens :
                 poll_ops[p] # None /\ poll_ops[p].of = h
                                   /\ Iocp!PollCompletes(p))

\* The driver takes what the kernel has for h.
DriverTakes(h) ==
  /\ Live(h)
  /\ \/ UringDoes(IoUring!drain_cq(token[h]))
     \/ MioDoes(Mio!wait_timeout(h))
     \/ IocpDoes(\E p \in posted : poll_ops[p].of = h /\ Iocp!process_entries(p))

\* block_on is about to call a function of the driver that takes all that the
\* kernel has.  mio and IOCP flush after every batch of tasks.  io_uring does
\* so only after a batch that has pushed an entry; what it is sure of is that
\* the driver waits when no task is left to be run.
Looks == driver = "IoUring" => woken = {}

\* The kernel completes what is ready (a poll that io_uring has pushed is
\* submitted after the batch that pushed it), and the runtime's thread goes on
\* with an operation that it has begun.  The driver takes what there is for a
\* handle if it looks again and again, although other operations disable the
\* step in between: strong fairness.
Fairness ==
  /\ WF_vars(submit_poll \/ submit_poll_failed)
  /\ \A h \in Handles : WF_vars(KernelReports(h))
  /\ \A h \in Handles : SF_vars(Looks /\ DriverTakes(h))

Spec == Init /\ [][Next]_vars /\ Fairness

-----------------------------------------------------------------------------
TypeOK ==
  /\ driver = "IoUring" => IoUring!TypeOK
  /\ driver = "Mio" => Mio!TypeOK
  /\ driver = "Iocp" => Iocp!TypeOK

waiting ==
  CASE driver = "IoUring" -> IoUring!waiting
    [] driver = "Mio" -> Mio!waiting
    [] driver = "Iocp" -> Iocp!waiting

Promise == INSTANCE PollDriver WITH live <- {h \in Handles : Live(h)}

\* A waker that submit_poll accepts is owed its wake: the promise alone would
\* let it go as if it had been refused.
AcceptedIsOwed ==
  [][submit_poll =>
       waiting'[trying.handle][trying.needs] = trying.task]_vars

\* Whichever driver a runtime has keeps the promise to poll-based operations:
\* waiters go away only by being woken, replaced, refused or deregistered,
\* and the waiter of a handle that stays ready for what its operation needs
\* is woken: on mio and IOCP always, on io_uring if all tasks are asleep again
\* and again.  (A task that always wakes itself and submits nothing keeps
\* io_uring from draining its completion queue: uring.rs:413-415,
\* executor.rs:773-806, 826.)  Tokens are reused while completions of an
\* earlier owner are on their way, edges of epoll are consumed when nobody
\* waits, and each operation has to name the interest its system call was
\* blocked on
\* (uring.rs:328-351, 530-602, mio.rs:74-99, 199-227, iocp.rs:550-606,
\* 826-865, io_util.rs:57-76).
KeepsPromise ==
  /\ Promise!Keeps
  /\ []<>Looks => Promise!Wakes
  /\ AcceptedIsOwed

\* A registration that says it is armed (io_uring) or has a poll_token (IOCP)
\* has a request in flight, or a completion to be taken, of its own;
\* otherwise submit_poll would never again push one for it (uring.rs:567-578,
\* iocp.rs:411-507, 826-865).
ArmedHasRequest ==
  /\ driver = "IoUring" => IoUring!ArmedHasRequest
  /\ driver = "Iocp" => Iocp!ArmedHasRequest
=============================================================================

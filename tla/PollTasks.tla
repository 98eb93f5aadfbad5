----------------------------- MODULE PollTasks -----------------------------
(***************************************************************************)
(* What the poll-based drivers have in common: handles with their token,   *)
(* the readiness that the kernel knows of, and tasks that poll operations. *)
(*                                                                         *)
(* One thread runs the tasks and owns the driver.  An operation makes its  *)
(* system call in one step (Try) and submits in the next, as readiness may *)
(* change between the two.  The modules that extend this one add a driver. *)
(***************************************************************************)
EXTENDS PollOps

CONSTANTS
  Handles, Tasks, None,
  Tokens,      \* the keys of the registrations slab
  Uses         \* the directions that each handle is used in

Directions == {"read", "write"}

ASSUME PollTasksAssumption ==
  /\ Uses \in [Handles -> SUBSET Directions]
  /\ None \notin Tokens \cup Tasks

VARIABLES
  token,    \* InnerRawHandle::token; None where no handle lives
  trying,   \* the operation between its system call and submit_poll
  ready,    \* readiness of every handle, by direction
  woken     \* tasks that have been woken and have not run since

taskVars == <<token, trying, ready, woken>>

Masks == (SUBSET Directions) \ {{}}

\* The interests that a handle can be registered with: its wrapper names what
\* it is used for, or both.
Interests(h) == {m \in Masks : Uses[h] \subseteq m}

Live(h) == token[h] # None

\* Register, deregister and wait happen on the runtime's thread, which is
\* in the middle of an operation while trying # None.
Idle == trying = None

Readiness(h) ==
  {r \in [Directions -> BOOLEAN] : \A d \in Directions \ Uses[h] : ~r[d]}

TasksInit ==
  /\ token = [h \in Handles |-> None]
  /\ trying = None
  /\ ready = [h \in Handles |-> [d \in Directions |-> FALSE]]
  /\ woken = Tasks

\* A handle is given its token, with whatever readiness it has.
Adopt(h, k) ==
  /\ token' = [token EXCEPT ![h] = k]
  /\ \E r \in Readiness(h) : ready' = [ready EXCEPT ![h] = r]
  /\ UNCHANGED <<trying, woken>>

\* An operation is polled by t on h.
Polls(t, h, op) ==
  /\ Idle
  /\ t \in woken
  /\ Live(h)
  /\ op.blocked_on \in Uses[h]

\* Its system call works while the handle is ready, and may use its
\* readiness up.
TryReady(t, h, op) ==
  /\ Polls(t, h, op)
  /\ ready[h][op.blocked_on]
  /\ ready' = [ready EXCEPT ![h][op.blocked_on] = FALSE]
  /\ UNCHANGED <<token, trying, woken>>

TryBlocked(t, h, op) ==
  /\ Polls(t, h, op)
  /\ ~ready[h][op.blocked_on] \/ op.elsewhere
  /\ trying' = [task |-> t, handle |-> h, needs |-> op.blocked_on,
                direction |-> op.waits_for]
  /\ UNCHANGED <<token, ready, woken>>

\* Asks without a system call, whether or not the handle is ready.
ReadinessOp(t, h, d) ==
  /\ Idle
  /\ t \in woken
  /\ Live(h)
  /\ d \in Uses[h]
  /\ trying' = [task |-> t, handle |-> h, needs |-> d, direction |-> d]
  /\ UNCHANGED <<token, ready, woken>>

\* The task's poll returns Pending.
Pend(t) ==
  /\ Idle
  /\ t \in woken
  /\ woken' = woken \ {t}
  /\ UNCHANGED <<token, trying, ready>>

TaskStep ==
  \/ \E t \in Tasks, h \in Handles, op \in AllPollOps :
       TryReady(t, h, op) \/ TryBlocked(t, h, op)
  \/ \E t \in Tasks, h \in Handles, d \in Directions : ReadinessOp(t, h, d)
  \/ \E t \in Tasks : Pend(t)

TasksTypeOK ==
  /\ token \in [Handles -> Tokens \cup {None}]
  /\ trying \in [task : Tasks, handle : Handles, needs : Directions,
                 direction : Directions] \cup {None}
  /\ ready \in [Handles -> [Directions -> BOOLEAN]]
  /\ woken \subseteq Tasks

\* What the operation in progress expects of its driver: to be woken when
\* the readiness that its system call needs is there.
asking ==
  IF trying = None THEN None
  ELSE [task |-> trying.task, handle |-> trying.handle,
        direction |-> trying.needs]
=============================================================================

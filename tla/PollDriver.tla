----------------------------- MODULE PollDriver -----------------------------
(***************************************************************************)
(* What a driver promises to poll-based I/O (the Driver trait's            *)
(* submit_poll): a waker that was accepted for a handle and a direction    *)
(* stays until it is woken, until a newer waker for the same handle and    *)
(* direction replaces it, or until the handle is removed; and it is woken  *)
(* if the handle stays ready in that direction.  AnyDriver says for each   *)
(* driver on which condition it does the second, and the drivers are       *)
(* checked to implement this.                                              *)
(***************************************************************************)
CONSTANTS
  Handles,     \* the places an InnerRawHandle can be in
  Directions,  \* the interests that are submitted
  Tasks,       \* the owners of wakers
  None

VARIABLES
  live,     \* the handles that are registered
  ready,    \* their readiness, as the kernel knows it
  asking,   \* the submit_poll that is about to be made
  waiting,  \* the waker that is owed a wake, per handle and direction
  woken     \* tasks that have been woken and have not run since

vars == <<live, ready, asking, waiting, woken>>

NoWaiters == [d \in Directions |-> None]

Init ==
  /\ live = {}
  /\ ready \in [Handles -> [Directions -> BOOLEAN]]
  /\ asking = None
  /\ waiting = [h \in Handles |-> NoWaiters]
  /\ woken = Tasks

Register(h) ==
  /\ h \notin live
  /\ live' = live \cup {h}
  /\ ready' \in {[ready EXCEPT ![h] = r] : r \in [Directions -> BOOLEAN]}
  /\ UNCHANGED <<asking, waiting, woken>>

Deregister(h) ==
  /\ h \in live
  /\ live' = live \ {h}
  /\ waiting' = [waiting EXCEPT ![h] = NoWaiters]
  /\ UNCHANGED <<ready, asking, woken>>

Ask(t, h, d) ==
  /\ asking = None
  /\ h \in live
  /\ asking' = [task |-> t, handle |-> h, direction |-> d]
  /\ UNCHANGED <<live, ready, waiting, woken>>

\* submit_poll takes the waker, or returns an error and has nobody wait.
Answer ==
  /\ asking # None
  /\ \E waiter \in {asking.task, None} :
       waiting' = [waiting EXCEPT ![asking.handle][asking.direction] = waiter]
  /\ asking' = None
  /\ UNCHANGED <<live, ready, woken>>

\* Waking when the handle is not ready is allowed.
Wake(h, d) ==
  /\ waiting[h][d] # None
  /\ waiting' = [waiting EXCEPT ![h][d] = None]
  /\ woken' = woken \cup {waiting[h][d]}
  /\ UNCHANGED <<live, ready, asking>>

\* So is waking a task that nothing is owed to.
Spurious(t) ==
  /\ woken' = woken \cup {t}
  /\ UNCHANGED <<live, ready, asking, waiting>>

Readiness(h, d) ==
  /\ ready' = [ready EXCEPT ![h][d] = ~ready[h][d]]
  /\ UNCHANGED <<live, asking, waiting, woken>>

Run(t) ==
  /\ woken' = woken \ {t}
  /\ UNCHANGED <<live, ready, asking, waiting>>

Next ==
  \/ \E h \in Handles : Register(h) \/ Deregister(h)
  \/ \E t \in Tasks, h \in Handles, d \in Directions : Ask(t, h, d)
  \/ Answer
  \/ \E h \in Handles, d \in Directions : Wake(h, d) \/ Readiness(h, d)
  \/ \E t \in Tasks : Run(t) \/ Spurious(t)

ReadyWake(h, d) == ready[h][d] /\ Wake(h, d)

\* What may become of a waker.
Keeps == Init /\ [][Next]_vars /\ WF_vars(Answer)

\* The waiter of a handle that stays ready is woken.
Wakes == \A h \in Handles, d \in Directions : WF_vars(ReadyWake(h, d))
=============================================================================

------------------------------ MODULE UringPoll ------------------------------
(***************************************************************************)
(* Poll-based I/O on the io_uring driver: registrations in Poll mode with  *)
(* one waiter and one `armed` flag per direction, the one-shot PollAdd     *)
(* requests that submit_poll pushes, and drain_cq, which is told the token *)
(* of a completed poll but not its direction and goes by the mask of the   *)
(* registration.                                                           *)
(*                                                                         *)
(* One thread owns the driver, so each of its operations is one step; the  *)
(* kernel and the readiness of the handles move in between.  An operation  *)
(* makes its system call in one step (Try) and submits in the next, as     *)
(* readiness may change between the two.  A request is in flight from the  *)
(* push into the submission queue on: whether it waits there or in the     *)
(* kernel, all it can do is produce its completion.                        *)
(***************************************************************************)
EXTENDS PollTasks, Naturals, FiniteSetsExt

CONSTANTS
  Gone,        \* what a request polls once its handle was deregistered
  MaxPolls     \* bound on the requests and completions of one token

VARIABLES
  registrations,  \* DriverState::registrations; None where vacant
  polls,          \* PollAdd requests in flight
  cq              \* completions of polls, not yet drained, per token

driverVars == <<registrations, polls, cq>>
vars == <<taskVars, driverVars>>

PollRegistration ==
  [poll_mask : Masks,
   waiter : [Directions -> Tasks \cup {None}],
   armed : [Directions -> BOOLEAN]]

Requests == [token : Tokens, direction : Directions, of : Handles \cup {Gone}]

DriverInit ==
  /\ registrations = [k \in Tokens |-> None]
  /\ polls = [r \in Requests |-> 0]
  /\ cq = [k \in Tokens |-> 0]

register_handle_with_mode(h, k, interest) ==
  /\ Idle
  /\ ~Live(h)
  /\ registrations[k] = None
  /\ registrations' =
       [registrations EXCEPT ![k] =
          [poll_mask |-> interest,
           waiter |-> [d \in Directions |-> None],
           armed |-> [d \in Directions |-> FALSE]]]
  /\ Adopt(h, k)
  /\ UNCHANGED <<polls, cq>>

\* The requests of h still count against their token, but no longer poll h,
\* and which direction they were for makes no difference any more.
Orphan(h, p) ==
  [r \in Requests |->
     IF r.of = h THEN 0
     ELSE IF r.of = Gone /\ r.direction = "read"
       THEN p[r] + p[[r EXCEPT !.of = h]]
              + p[[r EXCEPT !.of = h, !.direction = "write"]]
     ELSE p[r]]

\* register_sync_cancel cancels at most one request of the handle.
deregister_handle(h) ==
  /\ Idle
  /\ Live(h)
  /\ \/ polls' = Orphan(h, polls) /\ cq' = cq
     \/ \E r \in Requests :
          /\ r.of = h /\ polls[r] > 0
          /\ polls' = Orphan(h, [polls EXCEPT ![r] = @ - 1])
          /\ cq' = [cq EXCEPT ![r.token] = @ + 1]
  /\ registrations' = [registrations EXCEPT ![token[h]] = None]
  /\ token' = [token EXCEPT ![h] = None]
  /\ UNCHANGED <<trying, ready, woken>>

Outstanding(k) ==
  cq[k] + MapThenSumSet(LAMBDA r : polls[r], {r \in Requests : r.token = k})

WithWaiter(r, d, t) ==
  [poll_mask |-> {d}, waiter |-> [r.waiter EXCEPT ![d] = t],
   armed |-> [r.armed EXCEPT ![d] = TRUE]]

\* An armed direction has a request already, and none is pushed.
submit_poll ==
  /\ trying # None
  /\ LET k == token[trying.handle]
         d == trying.direction
         request == [token |-> k, direction |-> d, of |-> trying.handle]
     IN /\ registrations' =
             [registrations EXCEPT ![k] = WithWaiter(@, d, trying.task)]
        /\ IF registrations[k].armed[d]
             THEN polls' = polls
             ELSE /\ Outstanding(k) < MaxPolls
                  /\ polls' = [polls EXCEPT ![request] = @ + 1]
  /\ trying' = None
  /\ UNCHANGED <<token, cq, ready, woken>>

\* Mutant: the error path forgets to take the armed flag back.
submit_poll_failed_armed ==
  /\ trying # None
  /\ LET k == token[trying.handle]
         d == trying.direction
     IN /\ ~registrations[k].armed[d]
        /\ registrations' = [registrations EXCEPT ![k] = WithWaiter(@, d, None)]
  /\ trying' = None
  /\ UNCHANGED <<token, polls, cq, ready, woken>>

\* push_entry fails: the operation returns the error to its caller.
submit_poll_failed ==
  /\ trying # None
  /\ LET k == token[trying.handle]
         d == trying.direction
     IN /\ ~registrations[k].armed[d]
        /\ registrations' =
             [registrations EXCEPT ![k] =
                [poll_mask |-> {d}, waiter |-> [@.waiter EXCEPT ![d] = None],
                 armed |-> @.armed]]
  /\ trying' = None
  /\ UNCHANGED <<token, polls, cq, ready, woken>>

\* drain_cq on one completion.  With both directions in the mask the read
\* waiter is taken and dropped.
Disarmed(r) ==
  [r EXCEPT
     !.armed = [d \in Directions |-> @[d] /\ d \notin r.poll_mask],
     !.waiter = [d \in Directions |-> IF d \in r.poll_mask THEN None ELSE @[d]]]

\* Mutant: the wakers are taken out and dropped.
WokenByNobody(r) == {}

WokenBy(r) ==
  LET d == IF "write" \in r.poll_mask THEN "write" ELSE "read"
  IN {r.waiter[d]} \ {None}

\* Mutant: a completion is processed twice.
drain_cq_twice(k) ==
  /\ Idle
  /\ cq[k] > 0
  /\ cq' = [cq EXCEPT ![k] = @ - 2]
  /\ UNCHANGED <<registrations, woken, token, trying, polls, ready>>

drain_cq(k) ==
  /\ Idle
  /\ cq[k] > 0
  /\ cq' = [cq EXCEPT ![k] = @ - 1]
  /\ IF registrations[k] = None
       THEN UNCHANGED <<registrations, woken>>
       ELSE /\ registrations' = [registrations EXCEPT ![k] = Disarmed(@)]
            /\ woken' = woken \cup WokenBy(registrations[k])
  /\ UNCHANGED <<token, trying, polls, ready>>

\* The kernel: a poll completes when its handle is ready; one whose handle
\* is gone may complete at any time, or never.
PollCompletes(r) ==
  /\ polls[r] > 0
  /\ r.of # Gone => ready[r.of][r.direction]
  /\ polls' = [polls EXCEPT ![r] = @ - 1]
  /\ cq' = [cq EXCEPT ![r.token] = @ + 1]
  /\ UNCHANGED <<registrations, token, trying, ready, woken>>

ReadinessChanges(h, d) ==
  /\ Live(h)
  /\ d \in Uses[h]
  /\ ready' = [ready EXCEPT ![h][d] = ~@]
  /\ UNCHANGED <<registrations, token, trying, polls, cq, woken>>

DriverStep ==
  \/ \E h \in Handles, k \in Tokens : \E interest \in Interests(h) :
       register_handle_with_mode(h, k, interest)
  \/ \E h \in Handles : deregister_handle(h)
  \/ submit_poll \/ submit_poll_failed
  \/ \E k \in Tokens : drain_cq(k)
  \/ \E r \in Requests : PollCompletes(r)
  \/ \E h \in Handles, d \in Directions : ReadinessChanges(h, d)

Init == TasksInit /\ DriverInit

Next ==
  \/ TaskStep /\ UNCHANGED driverVars
  \/ DriverStep

\* The kernel completes what is ready; the runtime's thread goes on with an
\* operation it has begun.  The completion queue is drained after a batch only
\* if the batch has pushed an entry (should_flush), but always by the wait for
\* which block_on has to find no task to run: strong fairness of a drain while
\* all tasks sleep, as the operations of other batches come in between.
Fairness ==
  /\ WF_vars(submit_poll \/ submit_poll_failed)
  /\ \A k \in Tokens : SF_vars(woken = {} /\ drain_cq(k))
  /\ \A r \in {x \in Requests : x.of # Gone} : WF_vars(PollCompletes(r))

Spec == Init /\ [][Next]_vars /\ Fairness

TypeOK ==
  /\ TasksTypeOK
  /\ registrations \in [Tokens -> PollRegistration \cup {None}]
  /\ polls \in [Requests -> Nat]
  /\ cq \in [Tokens -> Nat]

-----------------------------------------------------------------------------
\* A completion that drain_cq will see, or a request that will lead to one
\* as soon as h is ready in direction d.
Covered(h, d) ==
  LET k == token[h]
  IN \/ cq[k] > 0
     \/ polls[[token |-> k, direction |-> d, of |-> h]] > 0

\* Whoever is owed a wake: a waiter that nothing will ever take does not
\* count, so losing the request that covers a waiter is losing the waiter.
waiting ==
  [h \in Handles |->
     [d \in Directions |->
        IF Live(h) /\ Covered(h, d)
          THEN registrations[token[h]].waiter[d]
          ELSE None]]

\* A direction that is armed has a request in flight, or a completion to
\* be drained, for its own registration; otherwise submit_poll would never
\* again push a request for it (uring.rs:567-578).
ArmedHasRequest ==
  \A h \in Handles, d \in Directions :
    (Live(h) /\ registrations[token[h]].armed[d]) => Covered(h, d)

\* A task that was told to wait and has not run since is woken if the handle
\* stays ready in the direction it waits for, whatever the other direction
\* of the same handle is used for (uring.rs:331-346), as long as the tasks do
\* not keep the runtime from ever waiting.
ReadyWaiterIsWoken ==
  []<>(woken = {}) =>
  \A h \in Handles, d \in Directions, t \in Tasks :
    LET Waits == /\ Live(h)
                 /\ registrations[token[h]].waiter[d] = t
                 /\ t \notin woken
                 /\ ready[h][d]
    IN Waits ~> ~Waits
=============================================================================

------------------------------ MODULE IocpPoll ------------------------------
(***************************************************************************)
(* Poll-based I/O on the IOCP driver: a registration has one waiter and at *)
(* most one AFD poll in flight, whose slab key it keeps in poll_token.  An *)
(* AFD poll is one-shot and level-triggered; its completion names the poll *)
(* and the poll names the registration it was made for, by a token that    *)
(* may belong to another handle by then.                                   *)
(***************************************************************************)
EXTENDS PollTasks

CONSTANTS
  PollTokens,  \* the keys of the poll_ops slab
  Gone         \* what a poll watches once its handle was deregistered

VARIABLES
  registrations,  \* DriverState::registrations; None where vacant
  poll_ops,       \* DriverState::poll_ops; None where vacant
  posted          \* polls whose completion is in the port

driverVars == <<registrations, poll_ops, posted>>
vars == <<taskVars, driverVars>>

\* The interest that is kept with a registration is never read.
PollRegistration ==
  [waiter : Tasks \cup {None}, poll_token : PollTokens \cup {None}]

PollOp ==
  [registration_token : Tokens, events : SUBSET Directions,
   of : Handles \cup {Gone}]

DriverInit ==
  /\ registrations = [k \in Tokens |-> None]
  /\ poll_ops = [p \in PollTokens |-> None]
  /\ posted = {}

register_handle_with_mode(h, k) ==
  /\ Idle
  /\ ~Live(h)
  /\ registrations[k] = None
  /\ registrations' = [registrations EXCEPT ![k] =
       [waiter |-> None, poll_token |-> None]]
  /\ Adopt(h, k)
  /\ UNCHANGED <<poll_ops, posted>>

\* The poll stays in the slab until its completion arrives; that the kernel
\* is told to cancel it makes it complete whatever the handle does.
cancel_poll_operation(p) ==
  [poll_ops EXCEPT ![p].of = Gone, ![p].events = {}]

deregister_handle(h) ==
  /\ Idle
  /\ Live(h)
  /\ LET p == registrations[token[h]].poll_token
     IN poll_ops' = IF p = None THEN poll_ops ELSE cancel_poll_operation(p)
  /\ registrations' = [registrations EXCEPT ![token[h]] = None]
  /\ token' = [token EXCEPT ![h] = None]
  /\ UNCHANGED <<posted, trying, ready, woken>>

\* A registration that has a poll in flight keeps it, whatever it watches.
arm_poll_operation(k, p, d, h) ==
  IF registrations[k].poll_token # None
    THEN /\ registrations' = [registrations EXCEPT ![k].waiter = trying.task]
         /\ UNCHANGED poll_ops
    ELSE /\ poll_ops[p] = None
         /\ poll_ops' = [poll_ops EXCEPT ![p] =
              [registration_token |-> k, events |-> {d}, of |-> h]]
         /\ registrations' = [registrations EXCEPT ![k] =
              [waiter |-> trying.task, poll_token |-> p]]

submit_poll ==
  /\ trying # None
  /\ \E p \in PollTokens :
       arm_poll_operation(token[trying.handle], p, trying.direction,
                          trying.handle)
  /\ trying' = None
  /\ UNCHANGED <<posted, token, ready, woken>>

\* The poll cannot be started: it is taken back and the error returned, but
\* the waker stays.
submit_poll_failed ==
  /\ trying # None
  /\ LET k == token[trying.handle]
     IN /\ registrations[k].poll_token = None
        /\ registrations' = [registrations EXCEPT ![k].waiter = trying.task]
  /\ trying' = None
  /\ UNCHANGED <<poll_ops, posted, token, ready, woken>>

\* The waiter is woken although the poll may be that of a former owner of
\* the token; only the poll's own registration forgets it.
process_entries(p) ==
  /\ Idle
  /\ p \in posted
  /\ posted' = posted \ {p}
  /\ poll_ops' = [poll_ops EXCEPT ![p] = None]
  /\ LET k == poll_ops[p].registration_token
         r == registrations[k]
     IN IF r = None
          THEN UNCHANGED <<registrations, woken>>
          ELSE /\ registrations' = [registrations EXCEPT ![k] =
                    [waiter |-> None,
                     poll_token |-> IF r.poll_token = p THEN None
                                    ELSE r.poll_token]]
               /\ woken' = woken \cup ({r.waiter} \ {None})
  /\ UNCHANGED <<token, trying, ready>>

\* The kernel completes a poll whose handle is ready, or that was cancelled.
PollCompletes(p) ==
  /\ poll_ops[p] # None
  /\ p \notin posted
  /\ LET h == poll_ops[p].of
     IN h # Gone => \E d \in poll_ops[p].events : ready[h][d]
  /\ posted' = posted \cup {p}
  /\ UNCHANGED <<registrations, poll_ops, taskVars>>

ReadinessChanges(h, d) ==
  /\ Live(h)
  /\ d \in Uses[h]
  /\ ready' = [ready EXCEPT ![h][d] = ~@]
  /\ UNCHANGED <<driverVars, token, trying, woken>>

DriverStep ==
  \/ \E h \in Handles, k \in Tokens : register_handle_with_mode(h, k)
  \/ \E h \in Handles : deregister_handle(h)
  \/ submit_poll \/ submit_poll_failed
  \/ \E p \in PollTokens : process_entries(p) \/ PollCompletes(p)
  \/ \E h \in Handles, d \in Directions : ReadinessChanges(h, d)

TypeOK ==
  /\ TasksTypeOK
  /\ registrations \in [Tokens -> PollRegistration \cup {None}]
  /\ poll_ops \in [PollTokens -> PollOp \cup {None}]
  /\ posted \subseteq PollTokens

-----------------------------------------------------------------------------
\* A waiter is owed a wake by the poll of its registration, for what that
\* poll watches.
waiting ==
  [h \in Handles |->
     [d \in Directions |->
        IF /\ Live(h)
           /\ registrations[token[h]].poll_token # None
           /\ poll_ops[registrations[token[h]].poll_token] # None
           /\ d \in poll_ops[registrations[token[h]].poll_token].events
          THEN registrations[token[h]].waiter
          ELSE None]]

\* A registration with a poll_token has that poll in flight, on its own
\* handle: otherwise it would never again start one.
ArmedHasRequest ==
  \A h \in Handles :
    LET p == registrations[token[h]].poll_token
    IN (Live(h) /\ p # None) =>
         /\ poll_ops[p] # None
         /\ poll_ops[p].of = h
         /\ poll_ops[p].registration_token = token[h]
=============================================================================

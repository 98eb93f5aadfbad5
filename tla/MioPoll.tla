------------------------------- MODULE MioPoll -------------------------------
(***************************************************************************)
(* Poll-based I/O on the mio driver: a registration has one waiter and the *)
(* interest that was last registered for it, and the kernel's epoll is     *)
(* edge-triggered, so an event that is taken does not come again until the *)
(* handle becomes ready anew or is registered again.                       *)
(***************************************************************************)
EXTENDS PollTasks

VARIABLES
  registrations,  \* DriverState::registrations; None where vacant
  registered,     \* the interest the kernel knows of, per handle
  event           \* handles on the kernel's list of ready ones

driverVars == <<registrations, registered, event>>
vars == <<taskVars, driverVars>>

Registration ==
  [waiter : Tasks \cup {None}, interest : Masks \cup {{}}]

ReadyIn(h, interest) == \E d \in interest : ready[h][d]

DriverInit ==
  /\ registrations = [k \in Tokens |-> None]
  /\ registered = [h \in Handles |-> {}]
  /\ event = {}

\* epoll_ctl with EPOLL_CTL_ADD or EPOLL_CTL_MOD: the readiness is looked at
\* afresh.
KernelRegister(h, interest) ==
  /\ registered' = [registered EXCEPT ![h] = interest]
  /\ event' = IF \E d \in interest : ready'[h][d]
                THEN event \cup {h} ELSE event \ {h}

register_handle(h, k, interest) ==
  /\ Idle
  /\ ~Live(h)
  /\ registrations[k] = None
  /\ registrations' =
       [registrations EXCEPT ![k] = [waiter |-> None, interest |-> interest]]
  /\ Adopt(h, k)
  /\ KernelRegister(h, interest)

\* The caller lets go of the handle whatever the result, and closing it takes
\* it out of the epoll set; if the registry could not, the slab keeps the
\* registration.
deregister_handle(h) ==
  /\ Idle
  /\ Live(h)
  /\ registered' = [registered EXCEPT ![h] = {}]
  /\ event' = event \ {h}
  /\ \/ registrations' = [registrations EXCEPT ![token[h]] = None]
     \/ /\ \E k \in Tokens : registrations[k] = None  \* bounds the leak
        /\ UNCHANGED registrations
  /\ token' = [token EXCEPT ![h] = None]
  /\ UNCHANGED <<trying, ready, woken>>

\* The handle is registered again only if its interest has changed.
submit_poll ==
  /\ trying # None
  /\ LET h == trying.handle
         k == token[h]
         interest == {trying.direction}
     IN /\ UNCHANGED ready
        /\ IF registrations[k].interest = interest
             THEN UNCHANGED <<registered, event>>
             ELSE KernelRegister(h, interest)
        /\ registrations' =
             [registrations EXCEPT
                ![k] = [waiter |-> trying.task, interest |-> interest]]
  /\ trying' = None
  /\ UNCHANGED <<token, woken>>

\* The kernel refuses to register the handle again: the waiter stays as it is.
submit_poll_failed ==
  /\ trying # None
  /\ registrations[token[trying.handle]].interest # {trying.direction}
  /\ trying' = None
  /\ UNCHANGED <<registrations, token, registered, event, ready, woken>>

\* The body of the loop over the events.  An empty interest is `None`.
event_handled(h) ==
  /\ registrations' = [registrations EXCEPT ![token[h]] =
                         [waiter |-> None, interest |-> {}]]
  /\ woken' = woken \cup ({registrations[token[h]].waiter} \ {None})

\* The kernel drops an event from its list without reporting it if the
\* handle is no longer ready.
wait_timeout(h) ==
  /\ Idle
  /\ h \in event
  /\ event' = event \ {h}
  /\ IF ReadyIn(h, registered[h])
       THEN event_handled(h)
       ELSE UNCHANGED <<registrations, woken>>
  /\ UNCHANGED <<token, trying, registered, ready>>

ReadinessChanges(h, d) ==
  /\ Live(h)
  /\ d \in Uses[h]
  /\ ready' = [ready EXCEPT ![h][d] = ~@]
  /\ event' = IF ready'[h][d] /\ d \in registered[h]
                THEN event \cup {h} ELSE event
  /\ UNCHANGED <<registrations, token, trying, registered, woken>>

DriverStep ==
  \/ \E h \in Handles, k \in Tokens : \E interest \in Interests(h) :
       register_handle(h, k, interest)
  \/ \E h \in Handles : deregister_handle(h) \/ wait_timeout(h)
  \/ submit_poll \/ submit_poll_failed
  \/ \E h \in Handles, d \in Directions : ReadinessChanges(h, d)

TypeOK ==
  /\ TasksTypeOK
  /\ registrations \in [Tokens -> Registration \cup {None}]
  /\ registered \in [Handles -> SUBSET Directions]
  /\ event \subseteq Handles

-----------------------------------------------------------------------------
\* A waiter is owed a wake for the one direction its interest names, as long
\* as the kernel watches that direction and has not lost its event.
waiting ==
  [h \in Handles |->
     [d \in Directions |->
        IF /\ Live(h)
           /\ registrations[token[h]].interest = {d}
           /\ d \in registered[h]
           /\ ready[h][d] => h \in event
          THEN registrations[token[h]].waiter
          ELSE None]]
=============================================================================

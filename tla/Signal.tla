------------------------------- MODULE Signal -------------------------------
(***************************************************************************)
(* Unix signal listeners (signal/unix.rs) for one signal number: the       *)
(* process-wide registry under its mutex, the self-pipe that the signal    *)
(* handler writes to, the dispatch thread, and listeners that live on      *)
(* different runtimes' threads.  Each step is one critical section, one    *)
(* atomic access or one system call.                                       *)
(***************************************************************************)
EXTENDS Naturals, FiniteSets

CONSTANTS
  Listeners,   \* Signal values, each on a thread of its own
  States,      \* SignalState allocations
  NoState,     \* None
  PipeCap,     \* what the pipe holds, in signals (at most the 32 of one read)
  MaxRaised    \* bound on the signals raised

VARIABLES
  handler,     \* the installed sigaction: "previous" or "vibeio"
  entry,       \* state of the registry's entry, NoState when there is none
  refs,        \* RegisteredSignal::refs
  prev_action, \* RegisteredSignal::prev_action
  counter,     \* SignalState::counter
  wakers,      \* SignalState::wakers: whose wakers are in it
  lpc,         \* where each listener is
  state,       \* Signal::state
  last_seen,   \* Signal::last_seen
  saved,       \* the action unregister_signal is about to restore
  woken,       \* the listener's task was woken since its last poll
  pipe,        \* signals in the self-pipe
  pending,     \* signals read from it by dispatch_loop and not dispatched
  dpc, dstate, dwake,  \* the dispatch thread, its SignalState and its wakers
  raised,      \* signals raised so far
  received     \* Ready results of each listener (history)

regVars == <<handler, entry, refs, prev_action>>
lisVars == <<lpc, state, last_seen, saved, received>>
disVars == <<pipe, pending, dpc, dstate, dwake>>
vars == <<regVars, counter, wakers, lisVars, woken, disVars, raised>>

\* Listeners whose Signal exists.
Live == {l \in Listeners : lpc[l] \in {"idle", "loaded", "pending"}}

-----------------------------------------------------------------------------
(* Listeners.                                                              *)

\* register_signal, under the lock: join the entry, or install the handler
\* and make one with a new SignalState.
Register(l) ==
  /\ lpc[l] = "none"
  /\ IF entry # NoState
     THEN /\ refs' = refs + 1
          /\ state' = [state EXCEPT ![l] = entry]
          /\ UNCHANGED <<handler, entry, prev_action, counter, wakers>>
     ELSE \E s \in States :
          /\ counter[s] = NoState
          /\ prev_action' = handler
          /\ handler' = "vibeio"
          /\ entry' = s /\ refs' = 1
          /\ counter' = [counter EXCEPT ![s] = 0]
          /\ wakers' = [wakers EXCEPT ![s] = {}]
          /\ state' = [state EXCEPT ![l] = s]
  /\ lpc' = [lpc EXCEPT ![l] = "registered"]
  /\ UNCHANGED <<last_seen, saved, received, woken, disVars, raised>>

\* Mutant: a new listener starts from zero on a shared counter.
NewListenerSeenNothing(l) ==
  /\ lpc[l] = "registered"
  /\ lpc' = [lpc EXCEPT ![l] = "idle"]
  /\ last_seen' = [last_seen EXCEPT ![l] = 0]
  /\ UNCHANGED <<regVars, counter, wakers, state, saved, received, woken,
                 disVars, raised>>

\* Signal::new: the counter is read after the registration.
NewListenerSeen(l) ==
  /\ lpc[l] = "registered"
  /\ lpc' = [lpc EXCEPT ![l] = "idle"]
  /\ last_seen' = [last_seen EXCEPT ![l] = counter[state[l]]]
  /\ UNCHANGED <<regVars, counter, wakers, state, saved, received, woken,
                 disVars, raised>>

\* poll_recv, first half: the counter is loaded.
PollLoad(l) ==
  /\ lpc[l] \in {"idle", "pending"}
  /\ woken' = [woken EXCEPT ![l] = FALSE]
  /\ IF counter[state[l]] # last_seen[l]
     THEN /\ last_seen' = [last_seen EXCEPT ![l] = counter[state[l]]]
          /\ received' = [received EXCEPT ![l] = @ + 1]
          /\ lpc' = [lpc EXCEPT ![l] = "idle"]
     ELSE /\ lpc' = [lpc EXCEPT ![l] = "loaded"]
          /\ UNCHANGED <<last_seen, received>>
  /\ UNCHANGED <<regVars, counter, wakers, state, saved, disVars, raised>>

\* poll_recv, second half: register_waker, and Pending.  The counter is not
\* looked at again.
PollRegister(l) ==
  /\ lpc[l] = "loaded"
  /\ lpc' = [lpc EXCEPT ![l] = "pending"]
  /\ wakers' = [wakers EXCEPT ![state[l]] = @ \cup {l}]
  /\ UNCHANGED <<regVars, counter, state, last_seen, saved, received, woken,
                 disVars, raised>>

\* Mutant: the entry goes with the first of its listeners.
UnregisterFirst(l) ==
  /\ lpc[l] \in {"idle", "pending"}
  /\ entry # NoState
  /\ lpc' = [lpc EXCEPT ![l] = "restore"]
  /\ saved' = [saved EXCEPT ![l] = prev_action]
  /\ entry' = NoState /\ refs' = 0
  /\ UNCHANGED <<handler, prev_action, counter, wakers, state, last_seen,
                 received, woken, disVars, raised>>

\* Drop for Signal, in the lock: the last reference removes the entry.  What
\* the fields of the Signal were is of no use any more.
Unregister(l) ==
  /\ lpc[l] \in {"idle", "pending"}
  /\ entry # NoState
  /\ IF refs > 1
     THEN /\ refs' = refs - 1
          /\ lpc' = [lpc EXCEPT ![l] = "none"]
          /\ UNCHANGED <<entry, saved>>
     ELSE /\ entry' = NoState /\ refs' = 0
          /\ saved' = [saved EXCEPT ![l] = prev_action]
          /\ lpc' = [lpc EXCEPT ![l] = "restore"]
  /\ state' = [state EXCEPT ![l] = NoState]
  /\ last_seen' = [last_seen EXCEPT ![l] = 0]
  /\ woken' = [woken EXCEPT ![l] = FALSE]
  /\ UNCHANGED <<handler, prev_action, counter, wakers, received, disVars,
                 raised>>

\* restore_handler, after the lock was released.
Restore(l) ==
  /\ lpc[l] = "restore"
  /\ lpc' = [lpc EXCEPT ![l] = "none"]
  /\ handler' = saved[l]
  /\ saved' = [saved EXCEPT ![l] = "previous"]
  /\ UNCHANGED <<entry, refs, prev_action, counter, wakers, state, last_seen,
                 received, woken, disVars, raised>>

-----------------------------------------------------------------------------
(* The signal handler and the dispatch thread.                             *)

\* signal_handler: a write to the non-blocking pipe, lost when it is full.
Raise ==
  /\ raised < MaxRaised
  /\ raised' = raised + 1
  /\ pipe' = IF handler = "vibeio" /\ pipe < PipeCap THEN pipe + 1 ELSE pipe
  /\ UNCHANGED <<regVars, counter, wakers, lisVars, woken, pending, dpc, dstate,
                 dwake>>

\* dispatch_loop: one read empties the pipe, up to 128 bytes of it.
DispatchRead ==
  /\ dpc = "read"
  /\ pending = 0
  /\ pipe > 0
  /\ pending' = pipe /\ pipe' = 0
  /\ UNCHANGED <<regVars, counter, wakers, lisVars, woken, dpc, dstate, dwake,
                 raised>>

\* dispatch_signal for the next signal read: the state is looked up.
DispatchLookup ==
  /\ dpc = "read"
  /\ pending > 0
  /\ pending' = pending - 1
  /\ dstate' = entry
  /\ dpc' = IF entry = NoState THEN "read" ELSE "count"
  /\ UNCHANGED <<regVars, counter, wakers, lisVars, woken, pipe, dwake, raised>>

DispatchCount ==
  /\ dpc = "count"
  /\ dpc' = "take"
  /\ counter' = [counter EXCEPT ![dstate] = @ + 1]
  /\ UNCHANGED <<regVars, wakers, lisVars, woken, pipe, pending, dstate, dwake,
                 raised>>

\* Mutant: only one waker is taken, the rest is thrown away.
DispatchTakeOne ==
  /\ dpc = "take"
  /\ dpc' = "wake"
  /\ \E d \in SUBSET wakers[dstate] : Cardinality(d) <= 1 /\ dwake' = d
  /\ wakers' = [wakers EXCEPT ![dstate] = {}]
  /\ UNCHANGED <<regVars, counter, lisVars, woken, pipe, pending, dstate, raised>>

DispatchTake ==
  /\ dpc = "take"
  /\ dpc' = "wake"
  /\ dwake' = wakers[dstate]
  /\ wakers' = [wakers EXCEPT ![dstate] = {}]
  /\ UNCHANGED <<regVars, counter, lisVars, woken, pipe, pending, dstate, raised>>

DispatchWake ==
  /\ dpc = "wake"
  /\ IF dwake = {}
     THEN dpc' = "read" /\ dstate' = NoState /\ UNCHANGED <<woken, dwake>>
     ELSE \E l \in dwake :
            /\ woken' = [woken EXCEPT ![l] = TRUE]
            /\ dwake' = dwake \ {l}
            /\ UNCHANGED <<dpc, dstate>>
  /\ UNCHANGED <<regVars, counter, wakers, lisVars, pipe, pending, raised>>

-----------------------------------------------------------------------------
Init ==
  /\ handler = "previous"
  /\ entry = NoState /\ refs = 0 /\ prev_action = "previous"
  /\ counter = [s \in States |-> NoState]
  /\ wakers = [s \in States |-> {}]
  /\ lpc = [l \in Listeners |-> "none"]
  /\ state = [l \in Listeners |-> NoState]
  /\ last_seen = [l \in Listeners |-> 0]
  /\ saved = [l \in Listeners |-> "previous"]
  /\ received = [l \in Listeners |-> 0]
  /\ woken = [l \in Listeners |-> FALSE]
  /\ pipe = 0 /\ pending = 0
  /\ dpc = "read" /\ dstate = NoState /\ dwake = {}
  /\ raised = 0

Dispatch ==
  \/ DispatchRead \/ DispatchLookup \/ DispatchCount
  \/ DispatchTake \/ DispatchWake

Next ==
  \/ Raise \/ Dispatch
  \/ \E l \in Listeners :
       \/ Register(l) \/ NewListenerSeen(l)
       \/ PollLoad(l) \/ PollRegister(l)
       \/ Unregister(l) \/ Restore(l)

Spec == Init /\ [][Next]_vars

-----------------------------------------------------------------------------
(* Properties.                                                             *)

Counting == Live \cup {l \in Listeners : lpc[l] = "registered"}

\* The registry counts exactly the listeners that exist, and they all share
\* the SignalState of its entry, so a signal reaches every one of them.
RegistryCountsListeners ==
  /\ refs = Cardinality(Counting)
  /\ (entry = NoState) = (refs = 0)
  /\ \A l \in Counting : state[l] = entry

\* A listener that waits and has not been woken has its waker in the list, or
\* the dispatch thread is about to call it: the next signal wakes it.
WaiterIsListed ==
  \A l \in Listeners :
    lpc[l] = "pending" /\ ~woken[l] => l \in wakers[state[l]] \cup dwake

\* No listener hears of more signals than were raised: neither a shared
\* counter nor a reused registration makes one up.
NoInventedSignal == \A l \in Listeners : received[l] <= raised

\* "resolves when the signal is received": a listener that waits with a
\* counted signal it has not seen has been woken, or the dispatch thread is
\* about to wake it.
ReceivedSignalWakes ==
  \A l \in Listeners :
    lpc[l] = "pending" /\ counter[state[l]] # last_seen[l] =>
      \/ woken[l]
      \/ l \in dwake
      \/ dpc = "take" /\ dstate = state[l] /\ l \in wakers[state[l]]
=============================================================================

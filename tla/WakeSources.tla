---------------------------- MODULE WakeSources ----------------------------
(***************************************************************************)
(* What wakes a task from outside of the driver: the Sleeps that a Timer   *)
(* keeps in its timing wheel, intervals, and Unix signals; and a timing    *)
(* wheel by itself, larger than the Timer's and used in any way its        *)
(* interface allows.  They share no state, so a behaviour is about one of  *)
(* them; the others stay as they begin.                                    *)
(***************************************************************************)
EXTENDS Naturals, FiniteSets

CONSTANTS
  None,
  NUM_LEVELS, SLOTS_PER_LEVEL, Keys,   \* the Timer's wheel
  LEVELS, SLOTS, MaxTick, MaxTimers,   \* the wheel by itself
  Sleeps, Yielding, Res, MaxClock, Durations, MaxGeneration,
  Periods, MaxNow, MaxTicks,
  Listeners, States, NoState, PipeCap, MaxRaised

ASSUME WakeSourcesAssumption ==
  /\ {NUM_LEVELS, SLOTS_PER_LEVEL, LEVELS, SLOTS, Res} \subseteq Nat \ {0}
  /\ {MaxGeneration, MaxTick, MaxTimers, MaxClock, MaxNow, MaxTicks, PipeCap,
      MaxRaised} \subseteq Nat
  /\ Keys \subseteq Nat /\ Durations \subseteq Nat /\ Periods \subseteq Nat
  /\ None \notin Nat \cup [slab_index : Keys, generation : Nat]
  /\ Yielding \subseteq Sleeps
  /\ NoState \notin States \cup Nat

\* A fact of arithmetic, stated because the provers know nothing of powers:
\* one slot of a level stands for at least one tick.
ASSUME WidthAssumption ==
  /\ \A l \in 0..(NUM_LEVELS - 1) : SLOTS_PER_LEVEL ^ l \in Nat \ {0}
  /\ \A l \in 0..(LEVELS - 1) : SLOTS ^ l \in Nat \ {0}

VARIABLES
  part,
  clock, instant, wheel, owner, life, deadline, handle, fired,
  yield_scheduled, waits, woken,                        \* Sleep
  bare_wheel, handles, due, early,                      \* WheelUse
  now, period, missed_tick_behavior, next_deadline, target, origin, counted,
  skipped,                                              \* Interval
  handler, entry, refs, prev_action, counter, wakers, lpc, state, last_seen,
  saved, listener_woken, pipe, pending, dpc, dstate, dwake, raised,
  received                                              \* Signal

Timers == INSTANCE Sleep
Wheels == INSTANCE WheelUse WITH
            wheel <- bare_wheel, MaxGeneration <- MaxTimers,
            NUM_LEVELS <- LEVELS, SLOTS_PER_LEVEL <- SLOTS
Intervals == INSTANCE Interval
Signals == INSTANCE Signal WITH woken <- listener_woken

timerVars == <<clock, instant, wheel, owner, life, deadline, handle, fired,
               yield_scheduled, waits, woken>>
wheelVars == <<bare_wheel, handles, due, early>>
intervalVars == <<now, period, missed_tick_behavior, next_deadline, target,
                  origin, counted, skipped>>
signalVars == <<handler, entry, refs, prev_action, counter, wakers, lpc, state,
                last_seen, saved, listener_woken, pipe, pending, dpc, dstate,
                dwake, raised, received>>
vars == <<part, timerVars, wheelVars, intervalVars, signalVars>>

Init ==
  /\ part \in {"sleep", "wheel", "interval", "signal"}
  /\ Timers!Init
  /\ Wheels!WheelInit
  /\ Intervals!Init
  /\ Signals!Init
  /\ part # "interval" => period = 0 /\ missed_tick_behavior = "Skip"

Next ==
  \/ part = "sleep" /\ Timers!Next
       /\ UNCHANGED <<part, wheelVars, intervalVars, signalVars>>
  \/ part = "wheel" /\ Wheels!WheelNext
       /\ UNCHANGED <<part, timerVars, intervalVars, signalVars>>
  \/ part = "interval" /\ Intervals!Next
       /\ UNCHANGED <<part, timerVars, wheelVars, signalVars>>
  \/ part = "signal" /\ Signals!Next
       /\ UNCHANGED <<part, timerVars, wheelVars, intervalVars>>

Spec == Init /\ [][Next]_vars

-----------------------------------------------------------------------------
(* The properties of the parts.                                            *)

\* A pending Sleep was woken or has its own timer in the wheel, through any
\* mix of spurious polls, resets, drops and lagging spins (time/sleep.rs).
PendingSleepHasTimer == Timers!PendingSleepHasTimer

\* A Sleep never completes a full millisecond before its deadline.
EarlyByLessThanATick == Timers!EarlyByLessThanATick

\* However far the wheel lags, it never runs ahead of the clock: while whole
\* milliseconds are left, the ticks an entry has to go cover them.
WheelNeverAhead == Timers!WheelNeverAhead

\* Every entry of the wheel is filed in exactly the slot that its record
\* names, so remove and the cascades find it (timer.rs).
FiledWhereRecorded == Wheels!FiledWhereRecorded

\* The wheel holds exactly the timers that were neither fired nor removed by
\* their own handle, although handles go stale and slab indices are reused.
HoldsWhatIsDue == Wheels!HoldsWhatIsDue

\* advance never returns the waker of a timer that is not due.
NeverEarly == Wheels!NeverEarly

\* The cached minimum is the earliest expiration: the runtime never sleeps
\* past it.
MinimumIsExact == Wheels!MinimumIsExact

\* No timer stays in the wheel for a whole turn of level 0 after it was due.
LateByLessThanATurn == Wheels!LateByLessThanATurn

\* Every deadline of an interval is a whole number of periods after the first
\* and none is counted twice, however late the program is and whatever it
\* drops (interval.rs:64-141).
KeepsCadence == Intervals!KeepsCadence

\* The signal registry counts exactly the listeners that exist, and they all
\* share the SignalState of its entry (signal/unix.rs).
RegistryCountsListeners == Signals!RegistryCountsListeners

\* A listener that waits and has not been woken has its waker in the list, or
\* the dispatch thread is about to call it.
WaiterIsListed == Signals!WaiterIsListed

\* No listener hears of more signals than were raised.
NoInventedSignal == Signals!NoInventedSignal
=============================================================================

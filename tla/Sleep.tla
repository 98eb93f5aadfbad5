------------------------------- MODULE Sleep -------------------------------
(***************************************************************************)
(* Timer (timer.rs) and the Sleep future (time/sleep.rs) on top of the     *)
(* timing wheel, with the real clock they read.  The clock runs in units   *)
(* of which `Res` make a millisecond, because Timer truncates durations to *)
(* whole milliseconds.  Each Sleep is polled by a task of its own; a task  *)
(* may be polled at any time, by its timer's wake or for another reason.   *)
(***************************************************************************)
EXTENDS TimingWheel

CONSTANTS
  Sleeps,
  Yielding,       \* those with ZeroBehavior::Yield; the rest are Immediate
  Res,            \* clock units per millisecond
  MaxClock,       \* bound on the clock
  Durations,      \* the durations slept, in clock units
  MaxGeneration   \* bound on the number of timers submitted

VARIABLES
  clock,            \* Instant::now()
  instant,          \* Timer::instant
  wheel,            \* Timer::wheel
  owner,            \* generation -> the Sleep whose waker the entry holds
  life,             \* "none", "alive" or "dropped"
  deadline, handle, fired, yield_scheduled,   \* the fields of each Sleep
  waits,            \* its last poll returned Pending (history)
  woken             \* its waker was called since its last poll (history)

timerVars == <<instant, wheel, owner>>
sleepVars == <<life, deadline, handle, fired, yield_scheduled>>
vars == <<clock, timerVars, sleepVars, waits, woken>>

-----------------------------------------------------------------------------
(* Timer.                                                                  *)

\* Timer::submit: whole milliseconds from the timer's own instant.
Millis(s) == saturating_sub(deadline[s], instant) \div Res

\* Timer::cancel on an optional handle.
Canceled(w, h) == IF h = None THEN w ELSE remove(w, h)

Tick ==
  /\ clock < MaxClock
  /\ clock' = clock + 1
  /\ UNCHANGED <<timerVars, sleepVars, waits, woken>>

\* Mutant: the wakers that advance returns are dropped instead of called.
SpinWithoutWaking ==
  /\ instant' = clock
  /\ wheel' = IF is_empty(wheel) THEN wheel
              ELSE advance(wheel, (clock - instant) \div Res)
  /\ UNCHANGED <<clock, owner, sleepVars, waits, woken>>

\* Timer::spin_and_get_deadline.  An empty wheel is not advanced; otherwise
\* the whole milliseconds since the last spin are, and the rest of the elapsed
\* time is forgotten.
Spin ==
  LET ticks == (clock - instant) \div Res IN
  /\ instant' = clock
  /\ IF is_empty(wheel)
     THEN UNCHANGED <<wheel, woken>>
     ELSE /\ wheel' = refresh_min_expiration(advance(wheel, ticks))
          /\ LET gens == ExpiredWakers(wheel, ticks)
             IN woken' = [s \in Sleeps |->
                            woken[s] \/ \E g \in gens : owner[g] = s]
  /\ UNCHANGED <<clock, owner, sleepVars, waits>>

-----------------------------------------------------------------------------
(* Sleep.                                                                  *)

\* Sleep::new and new_with_zero_behavior.
NewSleep(s, d) ==
  /\ life[s] = "none"
  /\ life' = [life EXCEPT ![s] = "alive"]
  /\ deadline' = [deadline EXCEPT ![s] = clock + d]
  /\ UNCHANGED <<clock, timerVars, handle, fired, yield_scheduled, waits, woken>>

\* A poll returns Ready.
Complete(s) ==
  /\ fired' = [fired EXCEPT ![s] = TRUE]
  /\ waits' = [waits EXCEPT ![s] = FALSE]

\* A poll submits the timer to wheel `w` and returns Pending.
SubmitTo(w, s) ==
  \E i \in VacantKeys(w) :
    /\ w.generation_counter < MaxGeneration
    /\ wheel' = insert(w, i, w.current_tick + Millis(s))
    /\ handle' = [handle EXCEPT ![s] = HandleOf(w, i)]
    /\ owner' = [g \in DOMAIN owner \cup {w.generation_counter + 1} |->
                   IF g \in DOMAIN owner THEN owner[g] ELSE s]
    /\ waits' = [waits EXCEPT ![s] = TRUE]
    /\ woken' = [woken EXCEPT ![s] = FALSE]
    /\ UNCHANGED <<fired, yield_scheduled>>

CanPoll(s) == life[s] = "alive" /\ ~fired[s]

\* First poll, more than a millisecond to go.
PollSubmits(s) ==
  /\ CanPoll(s)
  /\ handle[s] = None
  /\ Millis(s) >= 1
  /\ SubmitTo(wheel, s)
  /\ UNCHANGED <<clock, instant, life, deadline>>

\* Mutant: one millisecond to go counts as none.
PollImmediateTooSoon(s) ==
  /\ CanPoll(s)
  /\ handle[s] = None
  /\ Millis(s) <= 1
  /\ woken' = [woken EXCEPT ![s] = TRUE]
  /\ Complete(s)
  /\ UNCHANGED <<clock, timerVars, life, deadline, handle, yield_scheduled>>

\* First poll, less than a millisecond to go: submit wakes at once, and
\* handle_immediate_wakeup completes or, the first time round, yields.
PollImmediate(s) ==
  /\ CanPoll(s)
  /\ handle[s] = None
  /\ Millis(s) < 1
  /\ woken' = [woken EXCEPT ![s] = TRUE]
  /\ IF s \in Yielding /\ ~yield_scheduled[s]
     THEN /\ yield_scheduled' = [yield_scheduled EXCEPT ![s] = TRUE]
          /\ waits' = [waits EXCEPT ![s] = TRUE]
          /\ UNCHANGED fired
     ELSE Complete(s) /\ UNCHANGED yield_scheduled
  /\ UNCHANGED <<clock, timerVars, life, deadline, handle>>

\* A later poll, the deadline has passed: the handle is forgotten, and the
\* wheel keeps the entry if it has not fired yet.
PollReached(s) ==
  /\ CanPoll(s)
  /\ handle[s] # None
  /\ clock >= deadline[s]
  /\ handle' = [handle EXCEPT ![s] = None]
  /\ woken' = [woken EXCEPT ![s] = FALSE]
  /\ Complete(s)
  /\ UNCHANGED <<clock, timerVars, life, deadline, yield_scheduled>>

\* A later poll before the deadline: the old timer is canceled and a new one
\* submitted; the Sleep completes when less than a millisecond is left.
PollSpurious(s) ==
  /\ CanPoll(s)
  /\ handle[s] # None
  /\ clock < deadline[s]
  /\ LET w == remove(wheel, handle[s]) IN
     IF Millis(s) >= 1
     THEN SubmitTo(w, s)
     ELSE /\ wheel' = w
          /\ handle' = [handle EXCEPT ![s] = None]
          /\ woken' = [woken EXCEPT ![s] = TRUE]
          /\ Complete(s)
          /\ UNCHANGED <<owner, yield_scheduled>>
  /\ UNCHANGED <<clock, instant, life, deadline>>

\* Mutant: the outstanding timer is left in the wheel with its handle.
ResetKeepingTimer(s, d) ==
  /\ life[s] = "alive"
  /\ deadline' = [deadline EXCEPT ![s] = clock + d]
  /\ fired' = [fired EXCEPT ![s] = FALSE]
  /\ yield_scheduled' = [yield_scheduled EXCEPT ![s] = FALSE]
  /\ waits' = [waits EXCEPT ![s] = FALSE]
  /\ UNCHANGED <<clock, timerVars, life, handle, woken>>

\* Sleep::reset: to be scheduled again by the next poll.
Reset(s, d) ==
  /\ life[s] = "alive"
  /\ deadline' = [deadline EXCEPT ![s] = clock + d]
  /\ fired' = [fired EXCEPT ![s] = FALSE]
  /\ yield_scheduled' = [yield_scheduled EXCEPT ![s] = FALSE]
  /\ wheel' = Canceled(wheel, handle[s])
  /\ handle' = [handle EXCEPT ![s] = None]
  /\ waits' = [waits EXCEPT ![s] = FALSE]
  /\ UNCHANGED <<clock, instant, owner, life, woken>>

\* Drop for Sleep; what its fields were is of no use any more.
DropSleep(s) ==
  /\ life[s] = "alive"
  /\ life' = [life EXCEPT ![s] = "dropped"]
  /\ wheel' = Canceled(wheel, handle[s])
  /\ handle' = [handle EXCEPT ![s] = None]
  /\ deadline' = [deadline EXCEPT ![s] = 0]
  /\ fired' = [fired EXCEPT ![s] = FALSE]
  /\ yield_scheduled' = [yield_scheduled EXCEPT ![s] = FALSE]
  /\ waits' = [waits EXCEPT ![s] = FALSE]
  /\ woken' = [woken EXCEPT ![s] = FALSE]
  /\ UNCHANGED <<clock, instant, owner>>

-----------------------------------------------------------------------------
Init ==
  /\ clock = 0 /\ instant = 0
  /\ wheel = NewWheel
  /\ owner = [g \in {} |-> None]
  /\ life = [s \in Sleeps |-> "none"]
  /\ deadline = [s \in Sleeps |-> 0]
  /\ handle = [s \in Sleeps |-> None]
  /\ fired = [s \in Sleeps |-> FALSE]
  /\ yield_scheduled = [s \in Sleeps |-> FALSE]
  /\ waits = [s \in Sleeps |-> FALSE]
  /\ woken = [s \in Sleeps |-> FALSE]

Next ==
  \/ Tick \/ Spin
  \/ \E s \in Sleeps :
       \/ PollSubmits(s) \/ PollImmediate(s) \/ PollReached(s) \/ PollSpurious(s)
       \/ DropSleep(s)
       \/ \E d \in Durations : NewSleep(s, d) \/ Reset(s, d)

Spec == Init /\ [][Next]_vars

-----------------------------------------------------------------------------
(* Properties.                                                             *)

\* A Sleep that returned Pending will hear of it again: its waker has been
\* called, or the wheel holds an entry with its waker under the handle the
\* Sleep holds, through any mix of spurious polls, resets, drops, reused slab
\* indices and lagging spins.
PendingSleepHasTimer ==
  \A s \in Sleeps :
    waits[s] => \/ woken[s]
                \/ /\ handle[s] # None
                   /\ Holds(wheel, handle[s])
                   /\ owner[handle[s].generation] = s

\* Truncation to whole milliseconds costs less than one: a Sleep never
\* completes a full millisecond before its deadline.
EarlyByLessThanATick ==
  \A s \in Sleeps : fired[s] => deadline[s] < clock + Res

\* However far the wheel lags, it never runs ahead of the clock: as long as
\* whole milliseconds are left, the ticks an entry still has to go cover them.
\* (Once none is left the entry may be overdue: advance visits level 0 slots by
\* absolute tick, and the slot of an entry comes from its delay.)
WheelNeverAhead ==
  \A s \in Sleeps :
    handle[s] # None /\ Holds(wheel, handle[s]) /\ Millis(s) >= 1 =>
      wheel.entries[handle[s].slab_index].expiration_tick
        >= wheel.current_tick + Millis(s)
=============================================================================

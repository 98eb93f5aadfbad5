------------------------------ MODULE Interval ------------------------------
(***************************************************************************)
(* Interval::tick (time/interval.rs), called again and again by a program  *)
(* that may be late, drop the future of tick while it sleeps, or reset the *)
(* interval.  A Sleep ends less than a millisecond early at most, or late. *)
(***************************************************************************)
EXTENDS Naturals

CONSTANTS
  Periods,    \* the periods to choose from, in clock units
  MaxNow,     \* bound on the clock
  MaxTicks,   \* bound on the ticks that have been counted before a tick
  None

VARIABLES
  now,
  period, missed_tick_behavior, next_deadline,   \* the fields of Interval
  target,     \* the deadline tick sleeps for, None outside of the sleep
  origin,     \* the first deadline since the start or a reset (history)
  counted,    \* the ticks returned since then (history)
  skipped     \* the deadlines that Skip passed over since then (history)

fields == <<period, missed_tick_behavior>>
vars == <<now, fields, next_deadline, target, origin, counted, skipped>>

Init ==
  /\ now = 0
  /\ period \in Periods
  /\ missed_tick_behavior \in {"Skip", "CatchUp"}
  /\ next_deadline = None
  /\ target = None
  /\ origin = None
  /\ counted = 0 /\ skipped = 0

Pass ==
  /\ now < MaxNow
  /\ now' = now + 1
  /\ UNCHANGED <<fields, next_deadline, target, origin, counted, skipped>>

set_missed_tick_behavior(behavior) ==
  /\ target = None
  /\ missed_tick_behavior' = behavior
  /\ UNCHANGED <<now, period, next_deadline, target, origin, counted, skipped>>

base_next == IF next_deadline = None THEN now + period ELSE next_deadline

\* How many whole periods there are from base_next to the present, and one.
missed == (now - base_next) \div period + 1

\* The first deadline fixes the cadence.
Begin == origin' = IF next_deadline = None THEN base_next ELSE origin

\* A poll of tick sleeps until `deadline'.
SleepUntil(deadline) ==
  /\ target' = deadline
  /\ Begin
  /\ UNCHANGED <<now, fields, next_deadline, counted, skipped>>

\* The deadline is ahead: both behaviours sleep until then.
TickAhead ==
  /\ target = None
  /\ base_next > now
  /\ SleepUntil(base_next)

\* Skip, and it has passed: the first one that has not.
TickSkips ==
  /\ target = None
  /\ missed_tick_behavior = "Skip"
  /\ base_next <= now
  /\ SleepUntil(IF period = 0 THEN now ELSE base_next + missed * period)

\* CatchUp, and it has passed: tick returns at once.
CatchUp ==
  /\ target = None
  /\ missed_tick_behavior = "CatchUp"
  /\ base_next <= now
  /\ counted < MaxTicks
  /\ Begin
  /\ IF period = 0
       THEN next_deadline' = now /\ counted' = counted + 1
       ELSE /\ next_deadline' = base_next + missed * period + period
            /\ counted' = counted + missed
  /\ UNCHANGED <<now, fields, target, skipped>>

\* The deadlines between the one that was due and the one slept for.
Passes ==
  skipped' = IF next_deadline = None \/ period = 0 THEN skipped
             ELSE skipped + (target - next_deadline) \div period

\* Mutant: the deadline that the sleep was for remains the next.
SleepEnds_unmoved ==
  /\ target # None
  /\ counted < MaxTicks
  /\ now + 1 >= target
  /\ next_deadline' = target
  /\ counted' = counted + 1
  /\ target' = None
  /\ Passes
  /\ UNCHANGED <<now, fields, origin>>

\* The sleep is over, at the earliest with less than a millisecond to go.
SleepEnds ==
  /\ target # None
  /\ counted < MaxTicks
  /\ now + 1 >= target
  /\ next_deadline' = target + period
  /\ counted' = counted + 1
  /\ target' = None
  /\ Passes
  /\ UNCHANGED <<now, fields, origin>>

\* The future of tick is dropped; the first deadline is forgotten then.
DropTick ==
  /\ target # None
  /\ target' = None
  /\ origin' = IF next_deadline = None THEN None ELSE origin
  /\ UNCHANGED <<now, fields, next_deadline, counted, skipped>>

reset ==
  /\ target = None
  /\ next_deadline' = None
  /\ origin' = None
  /\ counted' = 0 /\ skipped' = 0
  /\ UNCHANGED <<now, fields, target>>

Next ==
  \/ Pass \/ TickAhead \/ TickSkips \/ CatchUp \/ SleepEnds \/ DropTick \/ reset
  \/ \E b \in {"Skip", "CatchUp"} : set_missed_tick_behavior(b)

Spec == Init /\ [][Next]_vars

-----------------------------------------------------------------------------
\* Every deadline is a whole number of periods after the first one, and none
\* is counted twice: the ticks returned and the deadlines passed over are at
\* most those before the next.  So however late the program is, whatever it
\* drops and however early a sleep ends (interval.rs:64-141).
KeepsCadence ==
  (period > 0 /\ next_deadline # None) =>
     /\ (next_deadline - origin) % period = 0
     /\ origin + (counted + skipped) * period <= next_deadline

\* What CatchUp promises: the missed ticks are returned, so that the program
\* can make up for all that Skip did not pass over (interval.rs:12-13).
CatchesUp ==
  (period > 0 /\ next_deadline # None) =>
     next_deadline = origin + (counted + skipped) * period
=============================================================================

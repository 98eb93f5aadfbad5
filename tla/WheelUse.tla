------------------------------ MODULE WheelUse ------------------------------
(***************************************************************************)
(* A timing wheel used in every way its interface allows: timers inserted  *)
(* at any future tick, handles used at any later time (dead ones too), the *)
(* tick advanced by any amount.                                            *)
(***************************************************************************)
EXTENDS TimingWheel

CONSTANTS
  MaxTick,           \* bound on current_tick
  MaxGeneration      \* bound on generation_counter

VARIABLES
  wheel,
  handles,    \* the handles given out: a caller may keep and use a dead one
  due,        \* generation -> expiration of the timers not fired or removed
  early       \* a timer fired before its expiration (history)

wvars == <<wheel, handles, due, early>>

WheelInit ==
  /\ wheel = NewWheel
  /\ handles = {}
  /\ due = [g \in {} |-> 0]
  /\ early = FALSE

Insert(i, expiration_tick) ==
  /\ wheel.generation_counter < MaxGeneration
  /\ i \in VacantKeys(wheel)
  /\ wheel' = insert(wheel, i, expiration_tick)
  /\ handles' = handles \cup {HandleOf(wheel, i)}
  /\ due' = [g \in DOMAIN due \cup {wheel.generation_counter + 1} |->
               IF g \in DOMAIN due THEN due[g] ELSE expiration_tick]
  /\ UNCHANGED early

Remove(handle) ==
  /\ wheel' = remove(wheel, handle)
  /\ due' = [g \in DOMAIN due \ {handle.generation} |-> due[g]]
  /\ UNCHANGED <<handles, early>>

Advance(ticks) ==
  /\ wheel.current_tick + ticks <= MaxTick
  /\ wheel' = advance(wheel, ticks)
  /\ LET gens == ExpiredWakers(wheel, ticks)
     IN /\ due' = [g \in DOMAIN due \ gens |-> due[g]]
        /\ early' = (early \/ \E g \in gens :
                       g \notin DOMAIN due \/ due[g] > wheel.current_tick + ticks)
  /\ UNCHANGED handles

WheelNext ==
  \/ \E i \in Keys, d \in 1..MaxTick :
       wheel.current_tick + d <= MaxTick /\ Insert(i, wheel.current_tick + d)
  \/ \E h \in handles : Remove(h)
  \/ \E n \in 0..MaxTick : Advance(n)

WheelSpec == WheelInit /\ [][WheelNext]_wvars

-----------------------------------------------------------------------------
(* Properties.                                                             *)

\* Every entry is filed in exactly the slot that its record names, so remove
\* and the cascades find it, and a slot holds nothing but entries.
FiledWhereRecorded ==
  \A p \in Places :
    wheel.wheels[p] = {i \in DOMAIN wheel.entries :
                         <<wheel.entries[i].level, wheel.entries[i].slot>> = p}

\* The wheel holds exactly the timers that were neither fired nor removed by
\* their own handle: a stale handle or a reused slab index never takes another
\* timer with it, and no timer fires twice.
HoldsWhatIsDue ==
  /\ {wheel.entries[i].generation : i \in DOMAIN wheel.entries} = DOMAIN due
  /\ \A i \in DOMAIN wheel.entries :
       due[wheel.entries[i].generation] = wheel.entries[i].expiration_tick
  /\ \A i, j \in DOMAIN wheel.entries :
       wheel.entries[i].generation = wheel.entries[j].generation => i = j

\* advance never returns the waker of a timer that is not due.
NeverEarly == ~early

\* min_expiration_tick, kept up by inserts, removals and lazily popped heap
\* elements, is the earliest expiration: the runtime never sleeps past it.
MinimumIsExact ==
  IF DOMAIN due = {} THEN wheel.min_expiration_tick = None
  ELSE /\ \E g \in DOMAIN due : wheel.min_expiration_tick = due[g]
       /\ \A g \in DOMAIN due : wheel.min_expiration_tick <= due[g]

\* No timer stays in the wheel for a whole turn of level 0 after it was due.
LateByLessThanATurn ==
  \A g \in DOMAIN due : wheel.current_tick < due[g] + SLOTS_PER_LEVEL
=============================================================================

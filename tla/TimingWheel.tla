---------------------------- MODULE TimingWheel ----------------------------
(***************************************************************************)
(* The hierarchical timing wheel of timer.rs as functions on a record: the *)
(* slab of entries, the slots of every level, the tick, the generation     *)
(* counter, the lazily cleaned expiration heap and the cached minimum.     *)
(* The number of levels and of slots are parameters (7 and 64 in the       *)
(* code); everything else is the code's.  The order of the entries inside  *)
(* a slot only decides in which order wakers are called and is left out.   *)
(***************************************************************************)
EXTENDS Naturals, FiniteSets

CONSTANTS
  NUM_LEVELS,        \* 7
  SLOTS_PER_LEVEL,   \* 64, a power of two
  Keys,              \* slab indices, a set of naturals
  None               \* Option::None

Levels == 0..(NUM_LEVELS - 1)
Slots  == 0..(SLOTS_PER_LEVEL - 1)
Places == Levels \X Slots

TimerEntry == [expiration_tick : Nat, generation : Nat, level : Levels,
               slot : Slots]
TimerHandle == [slab_index : Keys, generation : Nat]

\* How many ticks one slot of a level stands for: 1 << (6 * level).
Width(level) == SLOTS_PER_LEVEL ^ level

\* Does the delay fit in the level?  Everything fits in the top one.
Fits(delay, level) ==
  level = NUM_LEVELS - 1 \/ delay <= SLOTS_PER_LEVEL * Width(level) - 1

\* The lowest level the delay fits in, and the slot its bits select there.
\* The slot comes from the delay, not from the absolute tick.
calculate_level_and_slot(delay) ==
  LET level == CHOOSE l \in Levels :
                 Fits(delay, l) /\ \A k \in Levels : k < l => ~Fits(delay, k)
  IN <<level, (delay \div Width(level)) % SLOTS_PER_LEVEL>>

saturating_sub(a, b) == IF a >= b THEN a - b ELSE 0

NewWheel ==
  [ entries             |-> [i \in {} |-> None],
    wheels              |-> [p \in Places |-> {}],
    current_tick        |-> 0,
    generation_counter  |-> 0,
    min_expiration_tick |-> None,
    expiration_heap     |-> {} ]

is_empty(w) == DOMAIN w.entries = {}

-----------------------------------------------------------------------------
(* The expiration heap holds <<expiration_tick, slab_index, generation>>.  *)

Before(a, b) ==
  \/ a[1] < b[1]
  \/ a[1] = b[1] /\ a[2] < b[2]
  \/ a[1] = b[1] /\ a[2] = b[2] /\ a[3] < b[3]

\* A heap element is current when its entry is still there in the same
\* generation; a slab index that was reused makes it stale.
IsCurrent(w, h) ==
  h[2] \in DOMAIN w.entries /\ w.entries[h[2]].generation = h[3]

\* Pops stale elements off the top until a current one shows; the minimum is
\* then its entry's expiration.
refresh_min_expiration(w) ==
  LET current == {h \in w.expiration_heap : IsCurrent(w, h)}
  IN IF current = {}
     THEN [w EXCEPT !.expiration_heap = {}, !.min_expiration_tick = None]
     ELSE LET top == CHOOSE h \in current : \A g \in current : g = h \/ Before(h, g)
          IN [w EXCEPT
                !.expiration_heap = {h \in @ : h = top \/ Before(top, h)},
                !.min_expiration_tick = w.entries[top[2]].expiration_tick]

\* NonZeroU64::new(0) is None.
nearest_wakeup(w) ==
  LET m == refresh_min_expiration(w).min_expiration_tick
  IN IF m = 0 THEN None ELSE m

-----------------------------------------------------------------------------
(* Operations.  `i` is the vacant slab index that Slab::insert returns.    *)

VacantKeys(w) == Keys \ DOMAIN w.entries

insert(w, i, expiration_tick) ==
  LET delay == saturating_sub(expiration_tick, w.current_tick)
      place == calculate_level_and_slot(delay)
      gen   == w.generation_counter + 1
      entry == [expiration_tick |-> expiration_tick, generation |-> gen,
                level |-> place[1], slot |-> place[2]]
  IN [w EXCEPT
        !.entries = [k \in DOMAIN w.entries \cup {i} |->
                       IF k = i THEN entry ELSE w.entries[k]],
        !.wheels[place] = @ \cup {i},
        !.generation_counter = gen,
        !.expiration_heap = @ \cup {<<expiration_tick, i, gen>>},
        !.min_expiration_tick =
          IF @ = None \/ expiration_tick < @ THEN expiration_tick ELSE @]

\* The handle that insert returns.
HandleOf(w, i) == [slab_index |-> i, generation |-> w.generation_counter + 1]

Holds(w, handle) ==
  /\ handle.slab_index \in DOMAIN w.entries
  /\ w.entries[handle.slab_index].generation = handle.generation

\* Mutant: a handle of an earlier generation removes the entry as well.
removeAnyGeneration(w, handle) ==
  LET i == handle.slab_index IN
  IF i \notin DOMAIN w.entries THEN w
  ELSE LET e == w.entries[i]
       IN refresh_min_expiration(
            [w EXCEPT !.wheels[<<e.level, e.slot>>] = @ \ {i},
                      !.entries = [k \in DOMAIN w.entries \ {i} |-> w.entries[k]]])

\* Mutant: the cached minimum is not refreshed.
removeKeepingMinimum(w, handle) ==
  LET i == handle.slab_index IN
  IF ~Holds(w, handle) THEN w
  ELSE LET e == w.entries[i]
       IN [w EXCEPT !.wheels[<<e.level, e.slot>>] = @ \ {i},
                    !.entries = [k \in DOMAIN w.entries \ {i} |-> w.entries[k]]]

\* Only a handle of the entry's own generation removes it.
remove(w, handle) ==
  LET i == handle.slab_index IN
  IF ~Holds(w, handle) THEN w
  ELSE LET e == w.entries[i]
       IN refresh_min_expiration(
            [w EXCEPT !.wheels[<<e.level, e.slot>>] = @ \ {i},
                      !.entries = [k \in DOMAIN w.entries \ {i} |-> w.entries[k]]])

\* Mutant: after a wrap only the slots from 0 on are processed.
Level0RangeHalfWrap(start, ticks) ==
  LET first == start % SLOTS_PER_LEVEL
      last  == (start + ticks) % SLOTS_PER_LEVEL
  IN IF ticks >= SLOTS_PER_LEVEL THEN Slots
     ELSE IF first <= last THEN first..last
     ELSE 0..last

\* The level 0 slots that an advance from `start` by `ticks` processes.
Level0Range(start, ticks) ==
  LET first == start % SLOTS_PER_LEVEL
      last  == (start + ticks) % SLOTS_PER_LEVEL
  IN IF ticks >= SLOTS_PER_LEVEL THEN Slots
     ELSE IF first <= last THEN first..last
     ELSE (first..(SLOTS_PER_LEVEL - 1)) \cup (0..last)

\* The entries that an advance by `ticks` looks at: cascade_all_levels takes
\* every slot of the levels above 0, and process_slot_at_level_0 those level 0
\* slots that the range names.
Visited(w, ticks) ==
  {i \in DOMAIN w.entries :
     \/ w.entries[i].level > 0
     \/ w.entries[i].slot \in Level0Range(w.current_tick, ticks)}

\* Mutant: entries fire one tick before they are due.
ExpiredEarly(w, ticks) ==
  {i \in Visited(w, ticks) :
     w.entries[i].expiration_tick <= w.current_tick + ticks + 1}

\* Those of them that are due at the new tick.
Expired(w, ticks) ==
  {i \in Visited(w, ticks) :
     w.entries[i].expiration_tick <= w.current_tick + ticks}

\* Mutant: an entry is moved without its record being told the new place.
advanceStaleRecord(w, ticks) ==
  IF ticks = 0 THEN w
  ELSE LET now     == w.current_tick + ticks
           expired == Expired(w, ticks)
           moved   == Visited(w, ticks) \ expired
           place   == [i \in moved |->
                         calculate_level_and_slot(w.entries[i].expiration_tick - now)]
       IN refresh_min_expiration(
            [w EXCEPT
               !.current_tick = now,
               !.entries = [i \in DOMAIN w.entries \ expired |-> w.entries[i]],
               !.wheels = [p \in Places |->
                             (w.wheels[p] \ Visited(w, ticks))
                               \cup {i \in moved : place[i] = p}]])

\* advance: the tick moves first; every entry that is visited either expires
\* or is placed again by the delay that is left.
advance(w, ticks) ==
  IF ticks = 0 THEN w
  ELSE LET now     == w.current_tick + ticks
           expired == Expired(w, ticks)
           moved   == Visited(w, ticks) \ expired
           place   == [i \in moved |->
                         calculate_level_and_slot(w.entries[i].expiration_tick - now)]
       IN refresh_min_expiration(
            [w EXCEPT
               !.current_tick = now,
               !.entries = [i \in DOMAIN w.entries \ expired |->
                              IF i \in moved
                              THEN [w.entries[i] EXCEPT !.level = place[i][1],
                                                        !.slot = place[i][2]]
                              ELSE w.entries[i]],
               !.wheels = [p \in Places |->
                             (w.wheels[p] \ Visited(w, ticks))
                               \cup {i \in moved : place[i] = p}]])

\* The generations of the timers whose wakers advance returns.
ExpiredWakers(w, ticks) ==
  IF ticks = 0 THEN {} ELSE {w.entries[i].generation : i \in Expired(w, ticks)}

=============================================================================

---------------------------- MODULE TimerProofs ----------------------------
(***************************************************************************)
(* Proofs about the timing wheel and the Sleeps (WakeSources): for every   *)
(* number of levels, slots, timers and Sleeps, every duration and however  *)
(* late the runtime spins the timer.                                       *)
(***************************************************************************)
EXTENDS WakeSources, TLAPS

BareWheel == INSTANCE WheelProofs WITH
               NUM_LEVELS <- LEVELS, SLOTS_PER_LEVEL <- SLOTS
TimerWheel == INSTANCE WheelProofs

LEMMA Constants ==
  BareWheel!WheelConstants /\ TimerWheel!WheelConstants
<1>1. /\ LEVELS \in Nat \ {0} /\ SLOTS \in Nat \ {0}
      /\ NUM_LEVELS \in Nat \ {0} /\ SLOTS_PER_LEVEL \in Nat \ {0}
      /\ Keys \subseteq Nat /\ None \notin Nat
  BY WakeSourcesAssumption DEF WakeSourcesAssumption
<1>2. \A l \in BareWheel!Levels : BareWheel!Width(l) \in Nat \ {0}
  BY WidthAssumption DEF WidthAssumption, BareWheel!Levels, BareWheel!Width
<1>3. \A l \in TimerWheel!Levels : TimerWheel!Width(l) \in Nat \ {0}
  BY WidthAssumption DEF WidthAssumption, TimerWheel!Levels, TimerWheel!Width
<1> QED
  BY <1>1, <1>2, <1>3
     DEF BareWheel!WheelConstants, TimerWheel!WheelConstants

-----------------------------------------------------------------------------
(* The wheels that the components use are these.                           *)

LEMMA BareWheelIs ==
  /\ Wheels!NewWheel = BareWheel!NewWheel
  /\ \A w : Wheels!VacantKeys(w) = BareWheel!VacantKeys(w)
  /\ \A w, h : Wheels!Holds(w, h) <=> BareWheel!Holds(w, h)
  /\ \A w, i, e : Wheels!insert(w, i, e) = BareWheel!insert(w, i, e)
  /\ \A w, h : Wheels!remove(w, h) = BareWheel!remove(w, h)
  /\ \A w, n : Wheels!advance(w, n) = BareWheel!advance(w, n)
  /\ \A w, n : Wheels!Expired(w, n) = BareWheel!Expired(w, n)
<1>1. Wheels!NewWheel = BareWheel!NewWheel
  BY DEF Wheels!NewWheel, BareWheel!NewWheel, Wheels!Places, BareWheel!Places,
         Wheels!Levels, BareWheel!Levels, Wheels!Slots, BareWheel!Slots
<1>2. \A w : Wheels!VacantKeys(w) = BareWheel!VacantKeys(w)
  BY DEF Wheels!VacantKeys, BareWheel!VacantKeys
<1>3. \A w, h : Wheels!Holds(w, h) <=> BareWheel!Holds(w, h)
  BY DEF Wheels!Holds, BareWheel!Holds
<1>4. \A d : Wheels!calculate_level_and_slot(d) = BareWheel!calculate_level_and_slot(d)
  BY DEF Wheels!calculate_level_and_slot, BareWheel!calculate_level_and_slot,
         Wheels!Fits, BareWheel!Fits, Wheels!Width, BareWheel!Width,
         Wheels!Levels, BareWheel!Levels
<1>5. \A w : Wheels!refresh_min_expiration(w) = BareWheel!refresh_min_expiration(w)
  BY DEF Wheels!refresh_min_expiration, BareWheel!refresh_min_expiration,
         Wheels!IsCurrent, BareWheel!IsCurrent, Wheels!Before, BareWheel!Before
<1>6. \A w, i, e : Wheels!insert(w, i, e) = BareWheel!insert(w, i, e)
  BY DEF Wheels!insert, BareWheel!insert, Wheels!saturating_sub,
         BareWheel!saturating_sub, Wheels!calculate_level_and_slot,
         BareWheel!calculate_level_and_slot, Wheels!Fits, BareWheel!Fits,
         Wheels!Width, BareWheel!Width, Wheels!Levels, BareWheel!Levels
<1>7. \A w, h : Wheels!remove(w, h) = BareWheel!remove(w, h)
  BY <1>3, <1>5 DEF Wheels!remove, BareWheel!remove
<1>8. \A w, n : Wheels!Visited(w, n) = BareWheel!Visited(w, n)
  BY DEF Wheels!Visited, BareWheel!Visited, Wheels!Level0Range,
         BareWheel!Level0Range, Wheels!Slots, BareWheel!Slots
<1>9. \A w, n : Wheels!Expired(w, n) = BareWheel!Expired(w, n)
  BY <1>8 DEF Wheels!Expired, BareWheel!Expired
<1>10. \A w, n : Wheels!advance(w, n) = BareWheel!advance(w, n)
  <2> SUFFICES ASSUME NEW w, NEW n
               PROVE  Wheels!advance(w, n) = BareWheel!advance(w, n)
    OBVIOUS
  <2> DEFINE
        a == Wheels!Visited(w, n)
        x == Wheels!Expired(w, n)
        b == BareWheel!Visited(w, n)
        y == BareWheel!Expired(w, n)
        tick == w.current_tick + n
        p == [i \in a \ x |->
                Wheels!calculate_level_and_slot(w.entries[i].expiration_tick - tick)]
        q == [i \in b \ y |->
                BareWheel!calculate_level_and_slot(w.entries[i].expiration_tick - tick)]
        Moved(P, visited, expired, place) ==
          [w EXCEPT
             !.current_tick = tick,
             !.entries = [i \in DOMAIN w.entries \ expired |->
                            IF i \in visited \ expired
                            THEN [w.entries[i] EXCEPT !.level = place[i][1],
                                                      !.slot = place[i][2]]
                            ELSE w.entries[i]],
             !.wheels = [r \in P |->
                           (w.wheels[r] \ visited)
                             \cup {i \in visited \ expired : place[i] = r}]]
  <2>1. Wheels!advance(w, n) =
          IF n = 0 THEN w
          ELSE Wheels!refresh_min_expiration(Moved(Wheels!Places, a, x, p))
    BY DEF Wheels!advance
  <2>2. BareWheel!advance(w, n) =
          IF n = 0 THEN w
          ELSE BareWheel!refresh_min_expiration(Moved(BareWheel!Places, b, y, q))
    BY DEF BareWheel!advance
  <2>3. a = b /\ x = y
    BY <1>8, <1>9
  <2>4. Wheels!Places = BareWheel!Places
    BY DEF Wheels!Places, BareWheel!Places, Wheels!Levels, BareWheel!Levels,
           Wheels!Slots, BareWheel!Slots
  <2> HIDE DEF a, b, x, y, tick
  <2>5. p = q
    BY <1>4, <2>3
  <2> HIDE DEF p, q, Moved
  <2> QED
    BY <1>5, <2>1, <2>2, <2>3, <2>4, <2>5
<1> QED
  BY <1>1, <1>2, <1>3, <1>6, <1>7, <1>9, <1>10

-----------------------------------------------------------------------------
(* The wheel by itself: the inductive invariant.                           *)

\* A handle that was given out names a timer by its generation: when the
\* timer is in the wheel, it is under the slab index of the handle.
HandlesFit ==
  \A h \in handles :
    /\ h.generation \in Nat /\ h.generation <= bare_wheel.generation_counter
    /\ \A i \in DOMAIN bare_wheel.entries :
         bare_wheel.entries[i].generation = h.generation => i = h.slab_index

BareWheelInv ==
  BareWheel!GoodWheel(bare_wheel) /\ HoldsWhatIsDue /\ HandlesFit /\ NeverEarly

LEMMA BareEntries ==
  ASSUME BareWheelInv
  PROVE  /\ bare_wheel.current_tick \in Nat
         /\ bare_wheel.generation_counter \in Nat
         /\ \A i \in DOMAIN bare_wheel.entries :
              /\ bare_wheel.entries[i].expiration_tick \in Nat
              /\ bare_wheel.entries[i].generation \in Nat
              /\ bare_wheel.entries[i].generation <= bare_wheel.generation_counter
              /\ bare_wheel.entries[i].generation \in DOMAIN due
              /\ due[bare_wheel.entries[i].generation] =
                   bare_wheel.entries[i].expiration_tick
         /\ \A g \in DOMAIN due : \E i \in DOMAIN bare_wheel.entries :
              g = bare_wheel.entries[i].generation
         /\ \A i, j \in DOMAIN bare_wheel.entries :
              bare_wheel.entries[i].generation = bare_wheel.entries[j].generation
                => i = j
<1>1. bare_wheel \in BareWheel!WheelType
  BY DEF BareWheelInv, BareWheel!GoodWheel
<1>2. /\ bare_wheel.current_tick \in Nat
      /\ bare_wheel.generation_counter \in Nat
  BY <1>1 DEF BareWheel!WheelType
<1>3. \A i \in DOMAIN bare_wheel.entries :
        /\ bare_wheel.entries[i].expiration_tick \in Nat
        /\ bare_wheel.entries[i].generation \in Nat
        /\ bare_wheel.entries[i].generation <= bare_wheel.generation_counter
  BY <1>1, BareWheel!EntriesType
     DEF BareWheelInv, BareWheel!GoodWheel, BareWheel!Generations
<1> QED
  BY <1>2, <1>3 DEF BareWheelInv, HoldsWhatIsDue, Wheels!HoldsWhatIsDue

\* What is left to show after a step.
LEMMA BareWheelAgrees ==
  ASSUME BareWheel!GoodWheel(bare_wheel)',
         \A i \in DOMAIN bare_wheel'.entries :
           /\ bare_wheel'.entries[i].generation \in DOMAIN due'
           /\ due'[bare_wheel'.entries[i].generation] =
                bare_wheel'.entries[i].expiration_tick,
         \A g \in DOMAIN due' : \E i \in DOMAIN bare_wheel'.entries :
           g = bare_wheel'.entries[i].generation
  PROVE  HoldsWhatIsDue'
<1>1. \A i, j \in DOMAIN bare_wheel'.entries :
        bare_wheel'.entries[i].generation = bare_wheel'.entries[j].generation
          => i = j
  BY DEF BareWheel!GoodWheel, BareWheel!Generations
<1>2. {bare_wheel'.entries[i].generation : i \in DOMAIN bare_wheel'.entries}
        = DOMAIN due'
  OBVIOUS
<1> QED
  BY <1>1, <1>2 DEF HoldsWhatIsDue, Wheels!HoldsWhatIsDue

LEMMA WheelInserts ==
  ASSUME BareWheelInv, NEW i \in Keys, NEW d \in 1..MaxTick,
         Wheels!Insert(i, bare_wheel.current_tick + d)
  PROVE  BareWheelInv'
<1> DEFINE e == bare_wheel.current_tick + d
           gen == bare_wheel.generation_counter + 1
<1>0. /\ bare_wheel.current_tick \in Nat /\ bare_wheel.generation_counter \in Nat
      /\ e \in Nat /\ e > bare_wheel.current_tick /\ gen \in Nat
  BY BareEntries, WakeSourcesAssumption DEF WakeSourcesAssumption
<1>1. /\ i \in BareWheel!VacantKeys(bare_wheel)
      /\ bare_wheel' = BareWheel!insert(bare_wheel, i, e)
      /\ handles' = handles \cup {[slab_index |-> i, generation |-> gen]}
      /\ due' = [g \in DOMAIN due \cup {gen} |->
                   IF g \in DOMAIN due THEN due[g] ELSE e]
      /\ early' = early
  BY BareWheelIs DEF Wheels!Insert, Wheels!HandleOf
<1> HIDE DEF e
<1>2. /\ BareWheel!GoodWheel(bare_wheel')
      /\ DOMAIN bare_wheel'.entries = DOMAIN bare_wheel.entries \cup {i}
      /\ bare_wheel'.entries[i].expiration_tick = e
      /\ bare_wheel'.entries[i].generation = gen
      /\ \A k \in DOMAIN bare_wheel.entries :
           k # i /\ bare_wheel'.entries[k] = bare_wheel.entries[k]
      /\ bare_wheel'.generation_counter = gen
  BY <1>0, <1>1, Constants, BareWheel!Inserts DEF BareWheelInv
<1>3. gen \notin DOMAIN due
  BY <1>0, BareEntries
<1>4. DOMAIN due' = DOMAIN due \cup {gen} /\ due'[gen] = e
      /\ \A g \in DOMAIN due : due'[g] = due[g]
  BY <1>1, <1>3
<1>5. HoldsWhatIsDue'
  <2>1. \A k \in DOMAIN bare_wheel'.entries :
          /\ bare_wheel'.entries[k].generation \in DOMAIN due'
          /\ due'[bare_wheel'.entries[k].generation] =
               bare_wheel'.entries[k].expiration_tick
    BY <1>2, <1>4, BareEntries
  <2>2. \A g \in DOMAIN due' : \E k \in DOMAIN bare_wheel'.entries :
          g = bare_wheel'.entries[k].generation
    BY <1>2, <1>4, BareEntries
  <2> QED
    BY <1>2, <2>1, <2>2, BareWheelAgrees
<1>6. HandlesFit'
  <2> SUFFICES ASSUME NEW h \in handles'
               PROVE  /\ h.generation \in Nat
                      /\ h.generation <= bare_wheel'.generation_counter
                      /\ \A k \in DOMAIN bare_wheel'.entries :
                           bare_wheel'.entries[k].generation = h.generation
                             => k = h.slab_index
    BY DEF HandlesFit
  <2>1. CASE h \in handles
    <3>1. h.generation \in Nat /\ h.generation <= bare_wheel.generation_counter
      BY <2>1 DEF BareWheelInv, HandlesFit
    <3>2. h.generation # gen
      BY <1>0, <3>1
    <3> QED
      BY <1>0, <1>2, <2>1, <3>1, <3>2 DEF BareWheelInv, HandlesFit
  <2>2. CASE h = [slab_index |-> i, generation |-> gen]
    <3>1. h.slab_index = i /\ h.generation = gen
      BY <2>2
    <3>2. \A k \in DOMAIN bare_wheel.entries :
            bare_wheel.entries[k].generation # gen
      BY <1>0, BareEntries
    <3> QED
      BY <1>0, <1>2, <3>1, <3>2
  <2> QED
    BY <1>1, <2>1, <2>2
<1>7. NeverEarly'
  BY <1>1 DEF BareWheelInv, NeverEarly, Wheels!NeverEarly
<1> QED
  BY <1>2, <1>5, <1>6, <1>7 DEF BareWheelInv

LEMMA WheelRemoves ==
  ASSUME BareWheelInv, NEW h \in handles, Wheels!Remove(h)
  PROVE  BareWheelInv'
<1>1. /\ bare_wheel' = BareWheel!remove(bare_wheel, h)
      /\ due' = [g \in DOMAIN due \ {h.generation} |-> due[g]]
      /\ handles' = handles /\ early' = early
  BY BareWheelIs DEF Wheels!Remove
<1>2. DOMAIN due' = DOMAIN due \ {h.generation}
      /\ \A g \in DOMAIN due' : due'[g] = due[g]
  BY <1>1
<1>3. NeverEarly'
  BY <1>1 DEF BareWheelInv, NeverEarly, Wheels!NeverEarly
<1>4. \A i \in DOMAIN bare_wheel.entries :
        bare_wheel.entries[i].generation = h.generation => i = h.slab_index
  BY DEF BareWheelInv, HandlesFit
<1>5. CASE BareWheel!Holds(bare_wheel, h)
  <2>1. /\ BareWheel!GoodWheel(bare_wheel')
        /\ DOMAIN bare_wheel'.entries =
             DOMAIN bare_wheel.entries \ {h.slab_index}
        /\ \A k \in DOMAIN bare_wheel'.entries :
             bare_wheel'.entries[k] = bare_wheel.entries[k]
        /\ bare_wheel'.generation_counter = bare_wheel.generation_counter
    BY <1>1, <1>5, Constants, BareWheel!Removes DEF BareWheelInv
  <2>2. h.slab_index \in DOMAIN bare_wheel.entries
        /\ bare_wheel.entries[h.slab_index].generation = h.generation
    BY <1>5 DEF BareWheel!Holds
  <2>3. HoldsWhatIsDue'
    <3>1. \A k \in DOMAIN bare_wheel'.entries :
            /\ bare_wheel'.entries[k].generation \in DOMAIN due'
            /\ due'[bare_wheel'.entries[k].generation] =
                 bare_wheel'.entries[k].expiration_tick
      BY <1>2, <1>4, <2>1, BareEntries
    <3>2. \A g \in DOMAIN due' : \E k \in DOMAIN bare_wheel'.entries :
            g = bare_wheel'.entries[k].generation
      BY <1>2, <2>1, <2>2, BareEntries
    <3> QED
      BY <2>1, <3>1, <3>2, BareWheelAgrees
  <2>4. HandlesFit'
    BY <1>1, <2>1 DEF BareWheelInv, HandlesFit
  <2> QED
    BY <1>3, <2>1, <2>3, <2>4 DEF BareWheelInv
<1>6. CASE ~BareWheel!Holds(bare_wheel, h)
  <2>1. bare_wheel' = bare_wheel
    BY <1>1, <1>6 DEF BareWheel!remove
  <2>2. \A i \in DOMAIN bare_wheel.entries :
          bare_wheel.entries[i].generation # h.generation
    BY <1>4, <1>6 DEF BareWheel!Holds
  <2>3. h.generation \notin DOMAIN due
    BY <2>2, BareEntries
  <2>4. HoldsWhatIsDue'
    <3>1. DOMAIN due' = DOMAIN due
      BY <1>2, <2>3
    <3> QED
      BY <1>2, <2>1, <3>1
         DEF BareWheelInv, HoldsWhatIsDue, Wheels!HoldsWhatIsDue
  <2> QED
    BY <1>1, <1>3, <2>1, <2>4 DEF BareWheelInv, HandlesFit
<1> QED
  BY <1>5, <1>6

LEMMA WheelAdvances ==
  ASSUME BareWheelInv, NEW n \in Nat, Wheels!Advance(n)
  PROVE  BareWheelInv'
<1> DEFINE gens == Wheels!ExpiredWakers(bare_wheel, n)
<1>1. /\ bare_wheel' = BareWheel!advance(bare_wheel, n)
      /\ due' = [g \in DOMAIN due \ gens |-> due[g]]
      /\ early' = (early \/ \E g \in gens :
                     g \notin DOMAIN due \/ due[g] > bare_wheel.current_tick + n)
      /\ handles' = handles
  BY BareWheelIs DEF Wheels!Advance
<1>2. DOMAIN due' = DOMAIN due \ gens /\ \A g \in DOMAIN due' : due'[g] = due[g]
  BY <1>1
<1>3. CASE n = 0
  <2>1. bare_wheel' = bare_wheel /\ gens = {}
    BY <1>1, <1>3 DEF BareWheel!advance, Wheels!ExpiredWakers
  <2>2. ~early'
    <3>1. ~early
      BY DEF BareWheelInv, NeverEarly, Wheels!NeverEarly
    <3> HIDE DEF gens
    <3>2. ~(\E g \in gens :
              g \notin DOMAIN due \/ due[g] > bare_wheel.current_tick + n)
      BY <2>1
    <3> QED
      BY <1>1, <3>1, <3>2 DEF gens
  <2>3. HoldsWhatIsDue'
    BY <1>2, <2>1 DEF BareWheelInv, HoldsWhatIsDue, Wheels!HoldsWhatIsDue
  <2> QED
    BY <1>1, <2>1, <2>2, <2>3
       DEF BareWheelInv, HandlesFit, NeverEarly, Wheels!NeverEarly
<1>4. CASE n # 0
  <2> DEFINE expired == BareWheel!Expired(bare_wheel, n)
  <2>1. gens = {bare_wheel.entries[i].generation : i \in expired}
    <3>1. Wheels!Expired(bare_wheel, n) = expired
      BY BareWheelIs
    <3>2. gens = {bare_wheel.entries[i].generation :
                    i \in Wheels!Expired(bare_wheel, n)}
      BY <1>4 DEF Wheels!ExpiredWakers
    <3> HIDE DEF expired, gens
    <3> QED
      BY <3>1, <3>2
  <2>2. /\ expired \subseteq DOMAIN bare_wheel.entries
        /\ \A i \in expired :
             bare_wheel.entries[i].expiration_tick <= bare_wheel.current_tick + n
    BY DEF BareWheel!Expired, BareWheel!Visited
  <2>3. /\ BareWheel!GoodWheel(bare_wheel')
        /\ DOMAIN bare_wheel'.entries = DOMAIN bare_wheel.entries \ expired
        /\ \A k \in DOMAIN bare_wheel'.entries :
             /\ bare_wheel'.entries[k].expiration_tick =
                  bare_wheel.entries[k].expiration_tick
             /\ bare_wheel'.entries[k].generation =
                  bare_wheel.entries[k].generation
        /\ bare_wheel'.generation_counter = bare_wheel.generation_counter
    BY <1>1, <1>4, Constants, BareWheel!AdvancesSome DEF BareWheelInv
  <2> HIDE DEF gens, expired
  <2>4. \A i \in DOMAIN bare_wheel.entries :
          bare_wheel.entries[i].generation \in gens <=> i \in expired
    BY <2>1, <2>2, BareEntries
  <2>5. HoldsWhatIsDue'
    <3>1. \A k \in DOMAIN bare_wheel'.entries :
            /\ bare_wheel'.entries[k].generation \in DOMAIN due'
            /\ due'[bare_wheel'.entries[k].generation] =
                 bare_wheel'.entries[k].expiration_tick
      BY <1>2, <2>3, <2>4, BareEntries
    <3>2. \A g \in DOMAIN due' : \E k \in DOMAIN bare_wheel'.entries :
            g = bare_wheel'.entries[k].generation
      BY <1>2, <2>3, <2>4, BareEntries
    <3> QED
      BY <2>3, <3>1, <3>2, BareWheelAgrees
  <2>6. HandlesFit'
    BY <1>1, <2>3 DEF BareWheelInv, HandlesFit
  <2>7. \A g \in gens :
          g \in DOMAIN due /\ ~(due[g] > bare_wheel.current_tick + n)
    <3> SUFFICES ASSUME NEW i \in expired
                 PROVE  /\ bare_wheel.entries[i].generation \in DOMAIN due
                        /\ ~(due[bare_wheel.entries[i].generation]
                               > bare_wheel.current_tick + n)
      BY <2>1
    <3>1. /\ bare_wheel.entries[i].generation \in DOMAIN due
          /\ due[bare_wheel.entries[i].generation] =
               bare_wheel.entries[i].expiration_tick
          /\ bare_wheel.entries[i].expiration_tick \in Nat
          /\ bare_wheel.current_tick \in Nat
      BY <2>2, BareEntries
    <3> QED
      BY <2>2, <3>1
  <2>8. NeverEarly'
    <3>1. ~(\E g \in gens :
              g \notin DOMAIN due \/ due[g] > bare_wheel.current_tick + n)
      BY <2>7
    <3>2. ~early
      BY DEF BareWheelInv, NeverEarly, Wheels!NeverEarly
    <3> QED
      BY <1>1, <3>1, <3>2 DEF NeverEarly, Wheels!NeverEarly, gens
  <2> QED
    BY <2>3, <2>5, <2>6, <2>8 DEF BareWheelInv
<1> QED
  BY <1>3, <1>4

-----------------------------------------------------------------------------
(* The theorems about the wheel by itself.                                 *)

\* A wheel used in any order of insert, remove and advance, with handles that
\* went stale and slab indices that are reused (timer.rs), stays well formed
\* and holds exactly the timers that are due.
THEOREM BareWheelInvariant == Spec => []BareWheelInv
<1>1. Init => BareWheelInv
  <2> SUFFICES ASSUME Wheels!WheelInit PROVE BareWheelInv
    BY DEF Init
  <2>1. bare_wheel = BareWheel!NewWheel /\ handles = {} /\ early = FALSE
        /\ DOMAIN due = {}
    BY BareWheelIs DEF Wheels!WheelInit
  <2>2. BareWheel!GoodWheel(bare_wheel) /\ DOMAIN bare_wheel.entries = {}
    BY <2>1, Constants, BareWheel!NewWheelIsGood
  <2>3. HoldsWhatIsDue
    BY <2>1, <2>2 DEF HoldsWhatIsDue, Wheels!HoldsWhatIsDue
  <2> QED
    BY <2>1, <2>2, <2>3
       DEF BareWheelInv, HandlesFit, NeverEarly, Wheels!NeverEarly
<1>2. BareWheelInv /\ [Next]_vars => BareWheelInv'
  <2> SUFFICES ASSUME BareWheelInv, [Next]_vars PROVE BareWheelInv'
    OBVIOUS
  <2>1. Wheels!WheelNext \/ UNCHANGED wheelVars
    BY DEF Next, vars
  <2>2. CASE Wheels!WheelNext
    <3>1. ASSUME NEW n \in 0..MaxTick, Wheels!Advance(n) PROVE BareWheelInv'
      <4>1. n \in Nat
        BY WakeSourcesAssumption DEF WakeSourcesAssumption
      <4> QED
        BY <3>1, <4>1, WheelAdvances
    <3> QED
      BY <2>2, <3>1, WheelInserts, WheelRemoves DEF Wheels!WheelNext
  <2>3. CASE UNCHANGED wheelVars
    BY <2>3 DEF wheelVars, BareWheelInv, HandlesFit, HoldsWhatIsDue,
                Wheels!HoldsWhatIsDue, NeverEarly, Wheels!NeverEarly
  <2> QED
    BY <2>1, <2>2, <2>3
<1> QED
  BY <1>1, <1>2, PTL DEF Spec

\* Every entry is in the slot that its record names, through all the cascades
\* of advance (timer.rs:167-274).
THEOREM EntriesStayFiled == Spec => []FiledWhereRecorded
<1>1. BareWheelInv => FiledWhereRecorded
  BY DEF BareWheelInv, BareWheel!GoodWheel, BareWheel!Filed, BareWheel!Places,
         BareWheel!Levels, BareWheel!Slots, FiledWhereRecorded,
         Wheels!FiledWhereRecorded, Wheels!Places, Wheels!Levels, Wheels!Slots
<1> QED
  BY <1>1, BareWheelInvariant, PTL

\* The wheel holds exactly the timers that were neither fired nor removed by
\* their own handle (the generation check of remove, timer.rs:145-165).
THEOREM WheelHoldsWhatIsDue == Spec => []HoldsWhatIsDue
<1>1. BareWheelInv => HoldsWhatIsDue
  BY DEF BareWheelInv
<1> QED
  BY <1>1, BareWheelInvariant, PTL

\* advance returns no waker before its expiration_tick (timer.rs:231, 257).
THEOREM WheelIsNeverEarly == Spec => []NeverEarly
<1>1. BareWheelInv => NeverEarly
  BY DEF BareWheelInv
<1> QED
  BY <1>1, BareWheelInvariant, PTL

\* min_expiration_tick is the earliest expiration, although the heap behind it
\* is cleaned lazily (refresh_min_expiration, timer.rs:101-115).
THEOREM MinimumStaysExact == Spec => []MinimumIsExact
<1>1. BareWheelInv => MinimumIsExact
  <2> SUFFICES ASSUME BareWheelInv PROVE MinimumIsExact
    OBVIOUS
  <2>1. BareWheel!MinimumFits(bare_wheel)
    BY DEF BareWheelInv, BareWheel!GoodWheel
  <2>2. DOMAIN due = {} <=> DOMAIN bare_wheel.entries = {}
    BY BareEntries
  <2>3. CASE DOMAIN due = {}
    BY <2>1, <2>2, <2>3
       DEF BareWheel!MinimumFits, MinimumIsExact, Wheels!MinimumIsExact
  <2>4. CASE DOMAIN due # {}
    <3>1. \E i \in DOMAIN bare_wheel.entries :
            bare_wheel.min_expiration_tick = bare_wheel.entries[i].expiration_tick
      BY <2>1, <2>2, <2>4 DEF BareWheel!MinimumFits
    <3>2. \E g \in DOMAIN due : bare_wheel.min_expiration_tick = due[g]
      BY <3>1, BareEntries
    <3>3. \A g \in DOMAIN due : bare_wheel.min_expiration_tick <= due[g]
      BY <2>1, BareEntries DEF BareWheel!MinimumFits
    <3> QED
      BY <2>4, <3>2, <3>3 DEF MinimumIsExact, Wheels!MinimumIsExact
  <2> QED
    BY <2>3, <2>4
<1> QED
  BY <1>1, BareWheelInvariant, PTL

\* No timer is in the wheel a whole turn of level 0 after it was due: advance
\* visits every slot that the ticks it passes through select
\* (timer.rs:183-206).
THEOREM LateByLessThanThat == Spec => []LateByLessThanATurn
<1>1. BareWheelInv => LateByLessThanATurn
  <2> SUFFICES ASSUME BareWheelInv, NEW g \in DOMAIN due
               PROVE  bare_wheel.current_tick < due[g] + SLOTS
    BY DEF LateByLessThanATurn, Wheels!LateByLessThanATurn
  <2>1. PICK i \in DOMAIN bare_wheel.entries :
          due[g] = bare_wheel.entries[i].expiration_tick
    BY BareEntries
  <2>2. bare_wheel.current_tick < bare_wheel.entries[i].expiration_tick + SLOTS
    BY Constants, BareWheel!LateByLess DEF BareWheelInv
  <2> QED
    BY <2>1, <2>2
<1> QED
  BY <1>1, BareWheelInvariant, PTL

LEMMA TimerWheelIs ==
  /\ Timers!NewWheel = TimerWheel!NewWheel
  /\ \A w : Timers!VacantKeys(w) = TimerWheel!VacantKeys(w)
  /\ \A w, h : Timers!Holds(w, h) <=> TimerWheel!Holds(w, h)
  /\ \A w, i, e : Timers!insert(w, i, e) = TimerWheel!insert(w, i, e)
  /\ \A w, h : Timers!remove(w, h) = TimerWheel!remove(w, h)
  /\ \A w, n : Timers!advance(w, n) = TimerWheel!advance(w, n)
  /\ \A w, n : Timers!Expired(w, n) = TimerWheel!Expired(w, n)
  /\ \A w : Timers!refresh_min_expiration(w) = TimerWheel!refresh_min_expiration(w)
<1>1. Timers!NewWheel = TimerWheel!NewWheel
  BY DEF Timers!NewWheel, TimerWheel!NewWheel, Timers!Places, TimerWheel!Places,
         Timers!Levels, TimerWheel!Levels, Timers!Slots, TimerWheel!Slots
<1>2. \A w : Timers!VacantKeys(w) = TimerWheel!VacantKeys(w)
  BY DEF Timers!VacantKeys, TimerWheel!VacantKeys
<1>3. \A w, h : Timers!Holds(w, h) <=> TimerWheel!Holds(w, h)
  BY DEF Timers!Holds, TimerWheel!Holds
<1>4. \A d : Timers!calculate_level_and_slot(d) = TimerWheel!calculate_level_and_slot(d)
  BY DEF Timers!calculate_level_and_slot, TimerWheel!calculate_level_and_slot,
         Timers!Fits, TimerWheel!Fits, Timers!Width, TimerWheel!Width,
         Timers!Levels, TimerWheel!Levels
<1>5. \A w : Timers!refresh_min_expiration(w) = TimerWheel!refresh_min_expiration(w)
  BY DEF Timers!refresh_min_expiration, TimerWheel!refresh_min_expiration,
         Timers!IsCurrent, TimerWheel!IsCurrent, Timers!Before, TimerWheel!Before
<1>6. \A w, i, e : Timers!insert(w, i, e) = TimerWheel!insert(w, i, e)
  BY DEF Timers!insert, TimerWheel!insert, Timers!saturating_sub,
         TimerWheel!saturating_sub, Timers!calculate_level_and_slot,
         TimerWheel!calculate_level_and_slot, Timers!Fits, TimerWheel!Fits,
         Timers!Width, TimerWheel!Width, Timers!Levels, TimerWheel!Levels
<1>7. \A w, h : Timers!remove(w, h) = TimerWheel!remove(w, h)
  BY <1>3, <1>5 DEF Timers!remove, TimerWheel!remove
<1>8. \A w, n : Timers!Visited(w, n) = TimerWheel!Visited(w, n)
  BY DEF Timers!Visited, TimerWheel!Visited, Timers!Level0Range,
         TimerWheel!Level0Range, Timers!Slots, TimerWheel!Slots
<1>9. \A w, n : Timers!Expired(w, n) = TimerWheel!Expired(w, n)
  BY <1>8 DEF Timers!Expired, TimerWheel!Expired
<1>10. \A w, n : Timers!advance(w, n) = TimerWheel!advance(w, n)
  <2> SUFFICES ASSUME NEW w, NEW n
               PROVE  Timers!advance(w, n) = TimerWheel!advance(w, n)
    OBVIOUS
  <2> DEFINE
        a == Timers!Visited(w, n)
        x == Timers!Expired(w, n)
        b == TimerWheel!Visited(w, n)
        y == TimerWheel!Expired(w, n)
        tick == w.current_tick + n
        p == [i \in a \ x |->
                Timers!calculate_level_and_slot(w.entries[i].expiration_tick - tick)]
        q == [i \in b \ y |->
                TimerWheel!calculate_level_and_slot(w.entries[i].expiration_tick - tick)]
        Moved(P, visited, expired, place) ==
          [w EXCEPT
             !.current_tick = tick,
             !.entries = [i \in DOMAIN w.entries \ expired |->
                            IF i \in visited \ expired
                            THEN [w.entries[i] EXCEPT !.level = place[i][1],
                                                      !.slot = place[i][2]]
                            ELSE w.entries[i]],
             !.wheels = [r \in P |->
                           (w.wheels[r] \ visited)
                             \cup {i \in visited \ expired : place[i] = r}]]
  <2>1. Timers!advance(w, n) =
          IF n = 0 THEN w
          ELSE Timers!refresh_min_expiration(Moved(Timers!Places, a, x, p))
    BY DEF Timers!advance
  <2>2. TimerWheel!advance(w, n) =
          IF n = 0 THEN w
          ELSE TimerWheel!refresh_min_expiration(Moved(TimerWheel!Places, b, y, q))
    BY DEF TimerWheel!advance
  <2>3. a = b /\ x = y
    BY <1>8, <1>9
  <2>4. Timers!Places = TimerWheel!Places
    BY DEF Timers!Places, TimerWheel!Places, Timers!Levels, TimerWheel!Levels,
           Timers!Slots, TimerWheel!Slots
  <2> HIDE DEF a, b, x, y, tick
  <2>5. p = q
    BY <1>4, <2>3
  <2> HIDE DEF p, q, Moved
  <2> QED
    BY <1>5, <2>1, <2>2, <2>3, <2>4, <2>5
<1> QED
  BY <1>1, <1>2, <1>3, <1>5, <1>6, <1>7, <1>9, <1>10

-----------------------------------------------------------------------------
(* The Sleeps: the inductive invariant.                                    *)

SleepType ==
  /\ clock \in Nat /\ instant \in Nat /\ instant <= clock
  /\ life \in [Sleeps -> {"none", "alive", "dropped"}]
  /\ deadline \in [Sleeps -> Nat]
  /\ handle \in [Sleeps -> [slab_index : Keys, generation : Nat] \cup {None}]
  /\ fired \in [Sleeps -> BOOLEAN]
  /\ waits \in [Sleeps -> BOOLEAN]
  /\ woken \in [Sleeps -> BOOLEAN]

\* A generation belongs to the Sleep whose waker was submitted with it.
Owners == \A g \in DOMAIN owner : g \in Nat /\ g <= wheel.generation_counter

\* Its timer is in the wheel under the handle the Sleep holds.
Held(s) == handle[s] # None /\ TimerWheel!Holds(wheel, handle[s])

\* The handle was made for this Sleep, by a timer that may be gone.
HandleIsOwn(s) ==
  handle[s] # None =>
    handle[s].generation \in DOMAIN owner /\ owner[handle[s].generation] = s

Fresh(s) == life[s] = "none" => fired[s] = FALSE /\ handle[s] = None

IsWoken(s) == waits[s] = TRUE => woken[s] = TRUE \/ Held(s)

IsInTime(s) == fired[s] = TRUE => deadline[s] < clock + Res

IsCovered(s) ==
  Held(s) /\ Timers!Millis(s) >= 1 =>
    wheel.entries[handle[s].slab_index].expiration_tick
      >= wheel.current_tick + Timers!Millis(s)

SleepOk(s) ==
  HandleIsOwn(s) /\ Fresh(s) /\ IsWoken(s) /\ IsInTime(s) /\ IsCovered(s)

SleepInv ==
  /\ SleepType /\ TimerWheel!GoodWheel(wheel) /\ Owners
  /\ \A s \in Sleeps : SleepOk(s)

-----------------------------------------------------------------------------
(* Facts that the steps use.                                               *)

LEMMA SleepConstants ==
  Res \in Nat \ {0} /\ Durations \subseteq Nat /\ None \notin Nat
BY WakeSourcesAssumption DEF WakeSourcesAssumption

LEMMA MillisType ==
  ASSUME SleepInv, NEW s \in Sleeps
  PROVE  /\ Timers!Millis(s) \in Nat
         /\ deadline[s] \in Nat
         /\ Timers!Millis(s) < 1 => deadline[s] < clock + Res
<1>1. deadline[s] \in Nat /\ instant \in Nat /\ clock \in Nat /\ instant <= clock
  BY DEF SleepInv, SleepType
<1>2. CASE deadline[s] >= instant
  <2>1. PICK d \in Nat : d = deadline[s] - instant
    BY <1>1, <1>2
  <2>2. Timers!Millis(s) = d \div Res
    BY <1>2, <2>1 DEF Timers!Millis, Timers!saturating_sub
  <2>3. d \div Res \in Nat /\ (d \div Res < 1 => d < Res)
    BY SleepConstants
  <2> QED
    BY <1>1, <2>1, <2>2, <2>3, SleepConstants
<1>3. CASE deadline[s] < instant
  <2>1. Timers!Millis(s) = 0 \div Res
    BY <1>1, <1>3 DEF Timers!Millis, Timers!saturating_sub
  <2>2. 0 \div Res = 0
    BY SleepConstants
  <2> QED
    BY <1>1, <1>3, <2>1, <2>2, SleepConstants
<1> QED
  BY <1>1, <1>2, <1>3

\* A handle that a Sleep holds has a generation given out before.
LEMMA HandleType ==
  ASSUME SleepInv, NEW s \in Sleeps, handle[s] # None
  PROVE  /\ handle[s].generation \in Nat /\ handle[s].slab_index \in Keys
         /\ handle[s].generation <= wheel.generation_counter
         /\ \A r \in Sleeps : r # s /\ handle[r] # None =>
              handle[r].generation # handle[s].generation
<1>1. handle[s] \in [slab_index : Keys, generation : Nat]
  BY DEF SleepInv, SleepType
<1>2. HandleIsOwn(s) /\ \A r \in Sleeps : HandleIsOwn(r)
  BY DEF SleepInv, SleepOk
<1> QED
  BY <1>1, <1>2 DEF HandleIsOwn, SleepInv, Owners

\* A Sleep that the step is not about: its timer is carried over.
Untouched(r) ==
  /\ life'[r] = life[r] /\ deadline'[r] = deadline[r] /\ handle'[r] = handle[r]
  /\ fired'[r] = fired[r] /\ waits'[r] = waits[r] /\ woken'[r] = woken[r]

LEMMA OtherSleep ==
  ASSUME SleepInv, NEW r \in Sleeps, Untouched(r),
         clock' = clock, instant' = instant,
         wheel'.current_tick = wheel.current_tick,
         \A g \in DOMAIN owner : g \in DOMAIN owner' /\ owner'[g] = owner[g],
         handle[r] # None => TimerWheel!Carries(wheel, wheel', handle[r])
  PROVE  SleepOk(r)'
<1>1. SleepOk(r)
  BY DEF SleepInv
<1>2. HandleIsOwn(r)' /\ Fresh(r)' /\ IsInTime(r)'
  BY <1>1 DEF SleepOk, HandleIsOwn, Fresh, IsInTime, Untouched
<1>3. Held(r)' <=> Held(r)
  BY DEF Held, TimerWheel!Carries, Untouched
<1>4. IsWoken(r)'
  BY <1>1, <1>3 DEF SleepOk, IsWoken, Untouched
<1>5. Timers!Millis(r)' = Timers!Millis(r)
  BY DEF Timers!Millis, Timers!saturating_sub, Untouched
<1>6. IsCovered(r)'
  BY <1>1, <1>3, <1>5 DEF SleepOk, IsCovered, Held, TimerWheel!Carries, Untouched
<1> QED
  BY <1>2, <1>4, <1>6 DEF SleepOk

-----------------------------------------------------------------------------
(* The steps of a Sleep.                                                   *)

\* Steps that leave the timer alone.
LEMMA TimerSame ==
  ASSUME SleepInv, UNCHANGED <<clock, instant, wheel, owner>>
  PROVE  /\ TimerWheel!GoodWheel(wheel)' /\ Owners'
         /\ \A r \in Sleeps : Untouched(r) => SleepOk(r)'
<1>1. TimerWheel!GoodWheel(wheel)' /\ Owners'
  BY DEF SleepInv, Owners
<1>2. \A h : TimerWheel!Carries(wheel, wheel', h)
  BY DEF TimerWheel!Carries
<1> QED
  BY <1>1, <1>2, OtherSleep

LEMMA ClockTicks ==
  ASSUME SleepInv, Timers!Tick
  PROVE  SleepInv'
<1>1. /\ clock' = clock + 1
      /\ UNCHANGED <<instant, wheel, owner, life, deadline, handle, fired, waits,
                     woken>>
  BY DEF Timers!Tick, Timers!timerVars, Timers!sleepVars
<1>2. SleepType' /\ TimerWheel!GoodWheel(wheel)' /\ Owners'
  BY <1>1 DEF SleepInv, SleepType, Owners
<1>3. ASSUME NEW s \in Sleeps PROVE SleepOk(s)'
  <2>1. SleepOk(s) /\ deadline[s] \in Nat /\ clock \in Nat /\ Res \in Nat
    BY SleepConstants DEF SleepInv, SleepType
  <2>2. IsInTime(s)'
    BY <1>1, <2>1 DEF SleepOk, IsInTime
  <2>3. (Held(s)' <=> Held(s)) /\ Timers!Millis(s)' = Timers!Millis(s)
    BY <1>1 DEF Held, Timers!Millis, Timers!saturating_sub
  <2>4. HandleIsOwn(s)' /\ Fresh(s)' /\ IsWoken(s)' /\ IsCovered(s)'
    BY <1>1, <2>1, <2>3 DEF SleepOk, HandleIsOwn, Fresh, IsWoken, IsCovered
  <2> QED
    BY <2>2, <2>4 DEF SleepOk
<1> QED
  BY <1>2, <1>3 DEF SleepInv

LEMMA Begins ==
  ASSUME SleepInv, NEW s \in Sleeps, NEW d \in Durations, Timers!NewSleep(s, d)
  PROVE  SleepInv'
<1>1. /\ life[s] = "none" /\ life' = [life EXCEPT ![s] = "alive"]
      /\ deadline' = [deadline EXCEPT ![s] = clock + d]
      /\ UNCHANGED <<clock, instant, wheel, owner, handle, fired, waits, woken>>
  BY DEF Timers!NewSleep, Timers!timerVars
<1>2. SleepType'
  BY <1>1, SleepConstants DEF SleepInv, SleepType
<1>3. \A r \in Sleeps : r # s => Untouched(r)
  BY <1>1 DEF SleepInv, SleepType, Untouched
<1>4. SleepOk(s)'
  <2>1. SleepOk(s) /\ fired[s] = FALSE /\ handle[s] = None /\ life'[s] = "alive"
    BY <1>1 DEF SleepInv, SleepType, SleepOk, Fresh
  <2>2. ~Held(s)' /\ ~Held(s)
    BY <1>1, <2>1 DEF Held
  <2> QED
    BY <1>1, <2>1, <2>2
       DEF SleepOk, HandleIsOwn, Fresh, IsWoken, IsInTime, IsCovered
<1> QED
  BY <1>1, <1>2, <1>3, <1>4, TimerSame DEF SleepInv

\* submit: the wheel w is the timer's, or what canceling left of it.
LEMMA Submits ==
  ASSUME SleepInv, NEW s \in Sleeps, NEW w, Timers!SubmitTo(w, s),
         Timers!Millis(s) >= 1, life[s] = "alive",
         UNCHANGED <<clock, instant, life, deadline>>,
         TimerWheel!GoodWheel(w), w.current_tick = wheel.current_tick,
         w.generation_counter = wheel.generation_counter,
         \A r \in Sleeps : r # s /\ handle[r] # None =>
           TimerWheel!Carries(wheel, w, handle[r])
  PROVE  SleepInv'
<1> DEFINE e == w.current_tick + Timers!Millis(s)
           gen == w.generation_counter + 1
<1>0. /\ w.current_tick \in Nat /\ w.generation_counter \in Nat /\ gen \in Nat
      /\ Timers!Millis(s) \in Nat /\ e \in Nat /\ e > w.current_tick
  BY MillisType DEF TimerWheel!GoodWheel, TimerWheel!WheelType
<1>1. PICK i \in TimerWheel!VacantKeys(w) :
        /\ wheel' = TimerWheel!insert(w, i, e)
        /\ handle' = [handle EXCEPT
                        ![s] = [slab_index |-> i, generation |-> gen]]
        /\ owner' = [g \in DOMAIN owner \cup {gen} |->
                       IF g \in DOMAIN owner THEN owner[g] ELSE s]
        /\ waits' = [waits EXCEPT ![s] = TRUE]
        /\ woken' = [woken EXCEPT ![s] = FALSE]
        /\ UNCHANGED fired
  BY TimerWheelIs DEF Timers!SubmitTo, Timers!HandleOf
<1>2. i \in Keys
  BY DEF TimerWheel!VacantKeys
<1> HIDE DEF e
<1>3. /\ TimerWheel!GoodWheel(wheel')
      /\ i \in DOMAIN wheel'.entries
      /\ wheel'.entries[i].expiration_tick = e
      /\ wheel'.entries[i].generation = gen
      /\ wheel'.current_tick = w.current_tick
      /\ wheel'.generation_counter = gen
  BY <1>0, <1>1, Constants, TimerWheel!Inserts
<1>4. SleepType'
  <2>1. handle' \in [Sleeps -> [slab_index : Keys, generation : Nat] \cup {None}]
    BY <1>0, <1>1, <1>2 DEF SleepInv, SleepType
  <2> QED
    BY <1>1, <2>1 DEF SleepInv, SleepType
<1>5. /\ gen \notin DOMAIN owner
      /\ DOMAIN owner' = DOMAIN owner \cup {gen} /\ owner'[gen] = s
      /\ \A g \in DOMAIN owner : owner'[g] = owner[g]
  BY <1>0, <1>1 DEF SleepInv, Owners
<1>6. Owners'
  BY <1>0, <1>3, <1>5 DEF SleepInv, Owners
<1>7. ASSUME NEW r \in Sleeps, r # s PROVE SleepOk(r)'
  <2>1. Untouched(r)
    BY <1>1, <1>7 DEF SleepInv, SleepType, Untouched
  <2>2. handle[r] # None => TimerWheel!Carries(wheel, wheel', handle[r])
    <3> SUFFICES ASSUME handle[r] # None
                 PROVE  TimerWheel!Carries(wheel, wheel', handle[r])
      OBVIOUS
    <3>1. TimerWheel!Carries(wheel, w, handle[r])
      BY <1>7
    <3>2. /\ handle[r].generation \in Nat
          /\ handle[r].generation <= w.generation_counter
      BY HandleType
    <3>3. TimerWheel!Carries(w, wheel', handle[r])
      BY <1>0, <1>1, <3>2, Constants, TimerWheel!InsertCarries
    <3> QED
      BY <3>1, <3>3 DEF TimerWheel!Carries
  <2> QED
    BY <1>3, <1>5, <2>1, <2>2, OtherSleep
<1>8. SleepOk(s)'
  <2>1. /\ handle'[s] = [slab_index |-> i, generation |-> gen]
        /\ waits'[s] = TRUE /\ fired'[s] = fired[s] /\ life'[s] = "alive"
    BY <1>1 DEF SleepInv, SleepType
  <2>2. handle'[s].slab_index = i /\ handle'[s].generation = gen
    BY <2>1
  <2>3. handle'[s] # None
    BY <1>0, <1>2, <2>1, WakeSourcesAssumption DEF WakeSourcesAssumption
  <2>4. Held(s)'
    BY <1>3, <2>2, <2>3 DEF Held, TimerWheel!Holds
  <2>5. Timers!Millis(s)' = Timers!Millis(s)
    BY DEF Timers!Millis, Timers!saturating_sub
  <2>6. IsCovered(s)'
    BY <1>0, <1>3, <2>2, <2>5 DEF IsCovered, e
  <2>7. IsInTime(s)'
    BY <2>1 DEF SleepInv, SleepOk, IsInTime
  <2>8. HandleIsOwn(s)'
    BY <1>5, <2>2 DEF HandleIsOwn
  <2> QED
    BY <2>1, <2>4, <2>6, <2>7, <2>8 DEF SleepOk, Fresh, IsWoken
<1> QED
  BY <1>3, <1>4, <1>6, <1>7, <1>8 DEF SleepInv

\* What canceling a Sleep's timer leaves of the wheel has every other Sleep's.
LEMMA Cancels ==
  ASSUME SleepInv, NEW s \in Sleeps
  PROVE  LET w == Timers!Canceled(wheel, handle[s]) IN
         /\ TimerWheel!GoodWheel(w)
         /\ w.current_tick = wheel.current_tick
         /\ w.generation_counter = wheel.generation_counter
         /\ \A r \in Sleeps : r # s /\ handle[r] # None =>
              TimerWheel!Carries(wheel, w, handle[r])
<1>1. CASE handle[s] = None
  BY <1>1 DEF Timers!Canceled, SleepInv, TimerWheel!Carries
<1>2. CASE handle[s] # None
  <2>1. Timers!Canceled(wheel, handle[s]) = TimerWheel!remove(wheel, handle[s])
    BY <1>2, TimerWheelIs DEF Timers!Canceled
  <2>2. TimerWheel!GoodWheel(wheel)
    BY DEF SleepInv
  <2>3. \A r \in Sleeps : r # s /\ handle[r] # None =>
          handle[r].generation # handle[s].generation
    BY <1>2, HandleType
  <2>4. LET w == TimerWheel!remove(wheel, handle[s]) IN
        /\ TimerWheel!GoodWheel(w)
        /\ w.current_tick = wheel.current_tick
        /\ w.generation_counter = wheel.generation_counter
        /\ \A h : h.generation # handle[s].generation =>
             TimerWheel!Carries(wheel, w, h)
    BY <2>2, Constants, TimerWheel!RemoveCarries
  <2> QED
    BY <2>1, <2>3, <2>4
<1> QED
  BY <1>1, <1>2

\* A step after which Sleep s has no timer: nothing is left to wait for.
LEMMA Settles ==
  ASSUME SleepInv, NEW s \in Sleeps, SleepType',
         wheel' = wheel \/ wheel' = Timers!Canceled(wheel, handle[s]),
         UNCHANGED <<clock, instant, owner>>,
         \A r \in Sleeps : r # s => Untouched(r),
         handle'[s] = None, life'[s] # "none",
         waits'[s] = TRUE => woken'[s] = TRUE,
         fired'[s] = TRUE => deadline'[s] < clock + Res
  PROVE  SleepInv'
<1>1. /\ TimerWheel!GoodWheel(wheel')
      /\ wheel'.current_tick = wheel.current_tick
      /\ wheel'.generation_counter = wheel.generation_counter
      /\ \A r \in Sleeps : r # s /\ handle[r] # None =>
           TimerWheel!Carries(wheel, wheel', handle[r])
  <2>1. CASE wheel' = wheel
    BY <2>1 DEF SleepInv, TimerWheel!Carries
  <2>2. CASE wheel' = Timers!Canceled(wheel, handle[s])
    BY <2>2, Cancels
  <2> QED
    BY <2>1, <2>2
<1>2. Owners'
  BY <1>1 DEF SleepInv, Owners
<1>3. ASSUME NEW r \in Sleeps, r # s PROVE SleepOk(r)'
  BY <1>1, <1>3, OtherSleep
<1>4. SleepOk(s)'
  BY DEF SleepOk, HandleIsOwn, Fresh, IsWoken, IsInTime, IsCovered, Held
<1> QED
  BY <1>1, <1>2, <1>3, <1>4 DEF SleepInv

LEMMA FirstPoll ==
  ASSUME SleepInv, NEW s \in Sleeps,
         Timers!PollSubmits(s) \/ Timers!PollImmediate(s)
  PROVE  SleepInv'
<1>1. CASE Timers!PollSubmits(s)
  <2>1. /\ Timers!SubmitTo(wheel, s) /\ Timers!Millis(s) >= 1 /\ life[s] = "alive"
        /\ UNCHANGED <<clock, instant, life, deadline>>
    BY <1>1 DEF Timers!PollSubmits, Timers!CanPoll
  <2>2. TimerWheel!GoodWheel(wheel)
    BY DEF SleepInv
  <2>3. \A h : TimerWheel!Carries(wheel, wheel, h)
    BY DEF TimerWheel!Carries
  <2> QED
    BY <2>1, <2>2, <2>3, Submits
<1>2. CASE Timers!PollImmediate(s)
  <2>1. /\ handle[s] = None /\ Timers!Millis(s) < 1 /\ life[s] = "alive"
        /\ woken' = [woken EXCEPT ![s] = TRUE]
        /\ \/ waits' = [waits EXCEPT ![s] = TRUE] /\ fired' = fired
           \/ /\ waits' = [waits EXCEPT ![s] = FALSE]
              /\ fired' = [fired EXCEPT ![s] = TRUE]
        /\ UNCHANGED <<clock, instant, wheel, owner, life, deadline, handle>>
    BY <1>2 DEF Timers!PollImmediate, Timers!CanPoll, Timers!Complete,
                Timers!timerVars
  <2>2. SleepType'
    BY <2>1 DEF SleepInv, SleepType
  <2>3. \A r \in Sleeps : r # s => Untouched(r)
    BY <2>1 DEF SleepInv, SleepType, Untouched
  <2>4. woken'[s] = TRUE /\ deadline'[s] < clock + Res
    BY <2>1, MillisType DEF SleepInv, SleepType
  <2> QED
    BY <2>1, <2>2, <2>3, <2>4, Settles
<1> QED
  BY <1>1, <1>2

LEMMA LaterPoll ==
  ASSUME SleepInv, NEW s \in Sleeps,
         Timers!PollReached(s) \/ Timers!PollSpurious(s)
  PROVE  SleepInv'
<1>1. life[s] = "alive" /\ handle[s] # None
      /\ UNCHANGED <<clock, instant, life, deadline>>
  BY DEF Timers!PollReached, Timers!PollSpurious, Timers!CanPoll, Timers!timerVars
<1>2. ASSUME wheel' = wheel \/ wheel' = Timers!Canceled(wheel, handle[s]),
             owner' = owner, deadline[s] < clock + Res, Timers!Complete(s),
             handle' = [handle EXCEPT ![s] = None],
             \/ woken' = [woken EXCEPT ![s] = FALSE]
             \/ woken' = [woken EXCEPT ![s] = TRUE]
      PROVE  SleepInv'
  <2>1. /\ fired' = [fired EXCEPT ![s] = TRUE]
        /\ waits' = [waits EXCEPT ![s] = FALSE]
    BY <1>2 DEF Timers!Complete
  <2>2. SleepType'
    BY <1>1, <1>2, <2>1 DEF SleepInv, SleepType
  <2>3. \A r \in Sleeps : r # s => Untouched(r)
    BY <1>1, <1>2, <2>1 DEF SleepInv, SleepType, Untouched
  <2>4. handle'[s] = None /\ waits'[s] = FALSE /\ life'[s] = "alive"
    BY <1>1, <1>2, <2>1 DEF SleepInv, SleepType
  <2> QED
    BY <1>1, <1>2, <2>2, <2>3, <2>4, Settles
<1>3. CASE Timers!PollReached(s)
  <2>1. deadline[s] \in Nat /\ clock \in Nat /\ Res \in Nat \ {0}
    BY SleepConstants DEF SleepInv, SleepType
  <2>2. clock >= deadline[s]
    BY <1>3 DEF Timers!PollReached
  <2>3. deadline[s] < clock + Res
    BY <2>1, <2>2
  <2> QED
    BY <1>2, <1>3, <2>3 DEF Timers!PollReached, Timers!timerVars
<1>4. CASE Timers!PollSpurious(s)
  <2> DEFINE w == Timers!Canceled(wheel, handle[s])
  <2>1. w = Timers!remove(wheel, handle[s])
    BY <1>1 DEF Timers!Canceled
  <2>2. /\ TimerWheel!GoodWheel(w)
        /\ w.current_tick = wheel.current_tick
        /\ w.generation_counter = wheel.generation_counter
        /\ \A r \in Sleeps : r # s /\ handle[r] # None =>
             TimerWheel!Carries(wheel, w, handle[r])
    BY Cancels
  <2> HIDE DEF w
  <2>3. CASE Timers!Millis(s) >= 1
    <3>1. Timers!SubmitTo(w, s)
      BY <1>4, <2>1, <2>3 DEF Timers!PollSpurious
    <3> QED
      BY <1>1, <2>2, <2>3, <3>1, Submits
  <2>4. CASE ~(Timers!Millis(s) >= 1)
    <3>1. /\ wheel' = w /\ owner' = owner /\ Timers!Complete(s)
          /\ handle' = [handle EXCEPT ![s] = None]
          /\ woken' = [woken EXCEPT ![s] = TRUE]
      BY <1>4, <2>1, <2>4 DEF Timers!PollSpurious
    <3>2. deadline[s] < clock + Res
      BY <2>4, MillisType
    <3> QED
      BY <1>2, <3>1, <3>2 DEF w
  <2> QED
    BY <2>3, <2>4
<1> QED
  BY <1>3, <1>4

LEMMA Resets ==
  ASSUME SleepInv, NEW s \in Sleeps, NEW d \in Durations, Timers!Reset(s, d)
  PROVE  SleepInv'
<1>1. /\ life[s] = "alive"
      /\ deadline' = [deadline EXCEPT ![s] = clock + d]
      /\ fired' = [fired EXCEPT ![s] = FALSE]
      /\ wheel' = Timers!Canceled(wheel, handle[s])
      /\ handle' = [handle EXCEPT ![s] = None]
      /\ waits' = [waits EXCEPT ![s] = FALSE]
      /\ UNCHANGED <<clock, instant, owner, life, woken>>
  BY DEF Timers!Reset
<1>2. SleepType'
  BY <1>1, SleepConstants DEF SleepInv, SleepType
<1>3. \A r \in Sleeps : r # s => Untouched(r)
  BY <1>1 DEF SleepInv, SleepType, Untouched
<1>4. /\ handle'[s] = None /\ life'[s] = "alive"
      /\ waits'[s] = FALSE /\ fired'[s] = FALSE
  BY <1>1 DEF SleepInv, SleepType
<1> QED
  BY <1>1, <1>2, <1>3, <1>4, Settles

LEMMA Drops ==
  ASSUME SleepInv, NEW s \in Sleeps, Timers!DropSleep(s)
  PROVE  SleepInv'
<1>1. /\ life' = [life EXCEPT ![s] = "dropped"]
      /\ deadline' = [deadline EXCEPT ![s] = 0]
      /\ fired' = [fired EXCEPT ![s] = FALSE]
      /\ wheel' = Timers!Canceled(wheel, handle[s])
      /\ handle' = [handle EXCEPT ![s] = None]
      /\ waits' = [waits EXCEPT ![s] = FALSE]
      /\ woken' = [woken EXCEPT ![s] = FALSE]
      /\ UNCHANGED <<clock, instant, owner>>
  BY DEF Timers!DropSleep
<1>2. SleepType'
  BY <1>1 DEF SleepInv, SleepType
<1>3. \A r \in Sleeps : r # s => Untouched(r)
  BY <1>1 DEF SleepInv, SleepType, Untouched
<1>4. /\ handle'[s] = None /\ life'[s] = "dropped"
      /\ waits'[s] = FALSE /\ fired'[s] = FALSE
  BY <1>1 DEF SleepInv, SleepType
<1> QED
  BY <1>1, <1>2, <1>3, <1>4, Settles

-----------------------------------------------------------------------------
(* A spin.                                                                 *)

\* Two truncated durations are no more than their sum truncated.
LEMMA TruncationLoses ==
  ASSUME NEW a \in Nat, NEW b \in Nat, NEW r \in Nat \ {0}
  PROVE  (a \div r) + (b \div r) <= (a + b) \div r
OBVIOUS

\* A spin moves the instant by at least the ticks it advances by, for as long
\* as whole milliseconds are left.
LEMMA SpinTakesNoMore ==
  ASSUME SleepInv, NEW s \in Sleeps, instant' = clock, deadline' = deadline
  PROVE  /\ (clock - instant) \div Res \in Nat
         /\ Timers!Millis(s)' \in Nat
         /\ Timers!Millis(s)' >= 1 =>
              Timers!Millis(s)' + ((clock - instant) \div Res) <= Timers!Millis(s)
<1>1. deadline[s] \in Nat /\ instant \in Nat /\ clock \in Nat /\ instant <= clock
      /\ Res \in Nat \ {0}
  BY SleepConstants DEF SleepInv, SleepType
<1>2. PICK a \in Nat : a = clock - instant
  BY <1>1
<1>3. a \div Res \in Nat
  BY <1>1
<1>4. CASE deadline[s] >= clock
  <2>1. PICK b \in Nat : b = deadline[s] - clock
    BY <1>1, <1>4
  <2>2. Timers!Millis(s)' = b \div Res
    BY <1>4, <2>1 DEF Timers!Millis, Timers!saturating_sub
  <2>3. Timers!Millis(s) = (b + a) \div Res
    <3>1. deadline[s] >= instant /\ deadline[s] - instant = b + a
      BY <1>1, <1>2, <1>4, <2>1
    <3> QED
      BY <3>1 DEF Timers!Millis, Timers!saturating_sub
  <2>4. b \div Res \in Nat /\ (b \div Res) + (a \div Res) <= (b + a) \div Res
    BY <1>1, TruncationLoses
  <2> QED
    BY <1>2, <1>3, <2>2, <2>3, <2>4
<1>5. CASE deadline[s] < clock
  <2>1. Timers!Millis(s)' = 0 \div Res
    BY <1>1, <1>5 DEF Timers!Millis, Timers!saturating_sub
  <2>2. 0 \div Res = 0
    BY <1>1
  <2> QED
    BY <1>2, <1>3, <2>1, <2>2
<1> QED
  BY <1>1, <1>4, <1>5

LEMMA Spins ==
  ASSUME SleepInv, Timers!Spin
  PROVE  SleepInv'
<1> DEFINE ticks == (clock - instant) \div Res
           expired == IF ticks = 0 THEN {} ELSE TimerWheel!Expired(wheel, ticks)
           gens == Timers!ExpiredWakers(wheel, ticks)
<1>1. /\ instant' = clock
      /\ UNCHANGED <<clock, owner, life, deadline, handle, fired, waits>>
      /\ IF DOMAIN wheel.entries = {}
         THEN UNCHANGED <<wheel, woken>>
         ELSE /\ wheel' = TimerWheel!refresh_min_expiration(
                            TimerWheel!advance(wheel, ticks))
              /\ woken' = [s \in Sleeps |->
                             woken[s] \/ \E g \in gens : owner[g] = s]
  BY TimerWheelIs DEF Timers!Spin, Timers!sleepVars, Timers!is_empty
<1>2. ticks \in Nat
  BY SleepConstants DEF SleepInv, SleepType
<1>3. TimerWheel!GoodWheel(wheel) /\ wheel.current_tick \in Nat
  BY DEF SleepInv, TimerWheel!GoodWheel, TimerWheel!WheelType
<1>4. gens = {wheel.entries[i].generation : i \in expired}
  BY TimerWheelIs DEF Timers!ExpiredWakers
<1> HIDE DEF ticks, gens
<1>5. SleepType'
  <2>1. woken \in [Sleeps -> BOOLEAN]
    BY DEF SleepInv, SleepType
  <2>2. \A s \in Sleeps : (woken[s] \/ \E g \in gens : owner[g] = s) \in BOOLEAN
    OBVIOUS
  <2>3. [s \in Sleeps |-> woken[s] \/ \E g \in gens : owner[g] = s]
          \in [Sleeps -> BOOLEAN]
    BY <2>2, Zenon
  <2>4. woken' \in [Sleeps -> BOOLEAN]
    BY <1>1, <2>1, <2>3
  <2> QED
    BY <1>1, <2>4 DEF SleepInv, SleepType
<1>6. CASE DOMAIN wheel.entries = {}
  <2>1. wheel' = wheel /\ woken' = woken
    BY <1>1, <1>6
  <2>2. Owners' /\ TimerWheel!GoodWheel(wheel')
    BY <1>1, <1>3, <2>1 DEF SleepInv, Owners
  <2>3. ASSUME NEW s \in Sleeps PROVE SleepOk(s)'
    <3>1. SleepOk(s) /\ ~Held(s) /\ ~Held(s)'
      BY <1>1, <1>6, <2>1 DEF SleepInv, Held, TimerWheel!Holds
    <3> QED
      BY <1>1, <2>1, <3>1
         DEF SleepOk, HandleIsOwn, Fresh, IsWoken, IsInTime, IsCovered
  <2> QED
    BY <1>5, <2>2, <2>3 DEF SleepInv
<1>7. CASE DOMAIN wheel.entries # {}
  <2> DEFINE v == TimerWheel!advance(wheel, ticks)
  <2>1. /\ TimerWheel!GoodWheel(v)
        /\ DOMAIN v.entries = DOMAIN wheel.entries \ expired
        /\ \A k \in DOMAIN v.entries :
             /\ v.entries[k].expiration_tick = wheel.entries[k].expiration_tick
             /\ v.entries[k].generation = wheel.entries[k].generation
        /\ v.current_tick = wheel.current_tick + ticks
        /\ v.generation_counter = wheel.generation_counter
    <3>1. CASE ticks = 0
      <4>1. v = wheel /\ expired = {}
        BY <3>1 DEF TimerWheel!advance
      <4> QED
        BY <1>3, <3>1, <4>1
    <3>2. CASE ticks # 0
      BY <1>2, <1>3, <3>2, Constants, TimerWheel!AdvancesSome
    <3> QED
      BY <3>1, <3>2
  <2> HIDE DEF v, expired
  <2>2. /\ TimerWheel!GoodWheel(wheel')
        /\ wheel'.entries = v.entries
        /\ wheel'.current_tick = v.current_tick
        /\ wheel'.generation_counter = v.generation_counter
    <3>1. /\ v \in TimerWheel!WheelType /\ TimerWheel!Filed(v)
          /\ TimerWheel!Generations(v) /\ TimerWheel!HeapFits(v)
          /\ TimerWheel!Punctual(v)
      BY <2>1 DEF TimerWheel!GoodWheel
    <3>2. wheel' = TimerWheel!refresh_min_expiration(v)
      BY <1>1, <1>7 DEF v
    <3> QED
      BY <3>1, <3>2, Constants, TimerWheel!Refreshes, TimerWheel!RefreshedIsGood
  <2>3. Owners'
    BY <1>1, <2>1, <2>2 DEF SleepInv, Owners
  <2>4. ASSUME NEW s \in Sleeps PROVE SleepOk(s)'
    <3>1. SleepOk(s) /\ woken[s] \in BOOLEAN /\ woken'[s] \in BOOLEAN
      BY <1>5 DEF SleepInv, SleepType
    <3>2. HandleIsOwn(s)' /\ Fresh(s)' /\ IsInTime(s)'
      BY <1>1, <3>1 DEF SleepOk, HandleIsOwn, Fresh, IsInTime
    <3>3. Held(s)' =>
            /\ Held(s)
            /\ wheel'.entries[handle[s].slab_index].expiration_tick =
                 wheel.entries[handle[s].slab_index].expiration_tick
      BY <1>1, <2>1, <2>2 DEF Held, TimerWheel!Holds
    <3>4. ASSUME Held(s), ~Held(s)' PROVE woken'[s] = TRUE
      <4>1. /\ handle[s] # None /\ handle[s].slab_index \in expired
            /\ wheel.entries[handle[s].slab_index].generation =
                 handle[s].generation
        BY <1>1, <2>1, <2>2, <3>4 DEF Held, TimerWheel!Holds
      <4>2. handle[s].generation \in gens
        BY <1>4, <4>1
      <4>3. owner[handle[s].generation] = s
        BY <3>1, <4>1 DEF SleepOk, HandleIsOwn
      <4>4. woken'[s] = (woken[s] \/ \E g \in gens : owner[g] = s)
        BY <1>1, <1>7
      <4>5. \E g \in gens : owner[g] = s
        BY <4>2, <4>3
      <4> QED
        BY <4>4, <4>5
    <3>5. woken[s] = TRUE => woken'[s] = TRUE
      <4>1. woken'[s] = (woken[s] \/ \E g \in gens : owner[g] = s)
        BY <1>1, <1>7
      <4> QED
        BY <4>1
    <3>6. IsWoken(s)'
      BY <1>1, <3>1, <3>4, <3>5 DEF SleepOk, IsWoken
    <3>7. IsCovered(s)'
      <4> SUFFICES ASSUME Held(s)', Timers!Millis(s)' >= 1
                   PROVE  wheel'.entries[handle'[s].slab_index].expiration_tick
                            >= wheel'.current_tick + Timers!Millis(s)'
        BY DEF IsCovered
      <4>1. /\ Timers!Millis(s) \in Nat /\ Timers!Millis(s)' \in Nat
            /\ Timers!Millis(s)' + ticks <= Timers!Millis(s)
        BY <1>1, MillisType, SpinTakesNoMore DEF ticks
      <4>2. Held(s) /\ Timers!Millis(s) >= 1
        BY <1>2, <3>3, <4>1
      <4>3. wheel.entries[handle[s].slab_index].expiration_tick
              >= wheel.current_tick + Timers!Millis(s)
        BY <3>1, <4>2 DEF SleepOk, IsCovered
      <4>4. wheel.entries[handle[s].slab_index].expiration_tick \in Nat
        BY <1>3, <4>2, Constants, TimerWheel!EntriesType
           DEF Held, TimerWheel!Holds, TimerWheel!GoodWheel
      <4> HIDE DEF v
      <4> QED
        BY <1>1, <1>2, <1>3, <2>1, <2>2, <3>3, <4>1, <4>3, <4>4
    <3> QED
      BY <3>2, <3>6, <3>7 DEF SleepOk
  <2> QED
    BY <1>5, <2>2, <2>3, <2>4 DEF SleepInv
<1> QED
  BY <1>6, <1>7

-----------------------------------------------------------------------------
(* The theorems about Sleeps.                                              *)

\* Through any mix of polls, resets, drops, reused slab indices and spins that
\* lag behind the clock (timer.rs, time/sleep.rs), a Sleep's handle is its own,
\* what it waits for will come, and the wheel covers the time left.
THEOREM SleepInvariant == Spec => []SleepInv
<1>1. Init => SleepInv
  <2> SUFFICES ASSUME Timers!Init PROVE SleepInv
    BY DEF Init
  <2>1. /\ clock = 0 /\ instant = 0 /\ wheel = TimerWheel!NewWheel
        /\ DOMAIN owner = {}
        /\ life = [s \in Sleeps |-> "none"]
        /\ deadline = [s \in Sleeps |-> 0]
        /\ handle = [s \in Sleeps |-> None]
        /\ fired = [s \in Sleeps |-> FALSE]
        /\ waits = [s \in Sleeps |-> FALSE]
        /\ woken = [s \in Sleeps |-> FALSE]
    BY TimerWheelIs DEF Timers!Init
  <2>2. TimerWheel!GoodWheel(wheel)
    BY <2>1, Constants, TimerWheel!NewWheelIsGood
  <2>3. SleepType /\ Owners
    BY <2>1 DEF SleepType, Owners
  <2>4. \A s \in Sleeps : SleepOk(s)
    BY <2>1 DEF SleepOk, HandleIsOwn, Fresh, IsWoken, IsInTime, IsCovered, Held
  <2> QED
    BY <2>2, <2>3, <2>4 DEF SleepInv
<1>2. SleepInv /\ [Next]_vars => SleepInv'
  <2> SUFFICES ASSUME SleepInv, [Next]_vars PROVE SleepInv'
    OBVIOUS
  <2>1. Timers!Next \/ UNCHANGED timerVars
    BY DEF Next, vars
  <2>2. CASE Timers!Next
    BY <2>2, ClockTicks, Spins, FirstPoll, LaterPoll, Drops, Begins, Resets
       DEF Timers!Next
  <2>3. CASE UNCHANGED timerVars
    <3>1. UNCHANGED <<clock, instant, wheel, owner, life, deadline, handle, fired,
                      waits, woken>>
      BY <2>3 DEF timerVars
    <3>2. SleepType' /\ \A s \in Sleeps : Untouched(s)
      BY <3>1 DEF SleepInv, SleepType, Untouched
    <3> QED
      BY <3>1, <3>2, TimerSame DEF SleepInv
  <2> QED
    BY <2>1, <2>2, <2>3
<1> QED
  BY <1>1, <1>2, PTL DEF Spec

\* A Sleep that returned Pending has been woken, or its own timer is in the
\* wheel under the handle it holds (time/sleep.rs, timer.rs:326-346).
THEOREM PendingSleepIsTimed == Spec => []PendingSleepHasTimer
<1>1. SleepInv => PendingSleepHasTimer
  <2> SUFFICES ASSUME SleepInv, NEW s \in Sleeps, waits[s], ~woken[s]
               PROVE  /\ handle[s] # None
                      /\ Timers!Holds(wheel, handle[s])
                      /\ owner[handle[s].generation] = s
    BY DEF PendingSleepHasTimer, Timers!PendingSleepHasTimer
  <2>1. SleepOk(s) /\ waits[s] \in BOOLEAN /\ woken[s] \in BOOLEAN
    BY DEF SleepInv, SleepType
  <2>2. Held(s) /\ HandleIsOwn(s)
    BY <2>1 DEF SleepOk, IsWoken
  <2> QED
    BY <2>2, TimerWheelIs DEF Held, HandleIsOwn
<1> QED
  BY <1>1, SleepInvariant, PTL

\* A Sleep never completes a full millisecond before its deadline, although
\* submit and spin both truncate (timer.rs:326-372).
THEOREM EarlyByLessThanThat == Spec => []EarlyByLessThanATick
<1>1. SleepInv => EarlyByLessThanATick
  <2> SUFFICES ASSUME SleepInv, NEW s \in Sleeps, fired[s]
               PROVE  deadline[s] < clock + Res
    BY DEF EarlyByLessThanATick, Timers!EarlyByLessThanATick
  <2> QED
    BY DEF SleepInv, SleepType, SleepOk, IsInTime
<1> QED
  BY <1>1, SleepInvariant, PTL

\* The wheel never runs ahead of the clock: the rest of the elapsed time that
\* each spin forgets (timer.rs:363-369) only makes it lag.
THEOREM WheelStaysBehind == Spec => []WheelNeverAhead
<1>1. SleepInv => WheelNeverAhead
  BY TimerWheelIs
     DEF SleepInv, SleepOk, IsCovered, Held, WheelNeverAhead,
         Timers!WheelNeverAhead
<1> QED
  BY <1>1, SleepInvariant, PTL
=============================================================================

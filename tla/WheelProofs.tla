---------------------------- MODULE WheelProofs ----------------------------
(***************************************************************************)
(* What the operations of a timing wheel return and preserve, for every    *)
(* number of levels, slots and slab indices.  WakeSources uses two wheels, *)
(* the Timer's and one by itself: their proofs take these lemmas from two  *)
(* instances of this module, so that the constants are a hypothesis here.  *)
(***************************************************************************)
EXTENDS TimingWheel, WellFoundedInduction, TLAPS

WheelConstants ==
  /\ NUM_LEVELS \in Nat \ {0} /\ SLOTS_PER_LEVEL \in Nat \ {0}
  /\ Keys \subseteq Nat /\ None \notin Nat
  /\ \A l \in Levels : Width(l) \in Nat \ {0}

WheelType ==
  [ entries             : UNION {[D -> TimerEntry] : D \in SUBSET Keys},
    wheels              : [Places -> SUBSET Keys],
    current_tick        : Nat,
    generation_counter  : Nat,
    min_expiration_tick : Nat \cup {None},
    expiration_heap     : SUBSET (Nat \X Keys \X Nat) ]

-----------------------------------------------------------------------------
(* Least elements.                                                         *)

LEMMA LeastNat ==
  ASSUME NEW T \in SUBSET Nat, T # {}
  PROVE  \E x \in T : \A y \in T : x <= y
<1>1. PICK x \in T : \A y \in T : ~(<<y, x>> \in OpToRel(<, Nat))
  BY WFMin, NatLessThanWellFounded
<1>2. \A y \in T : ~(y < x)
  BY <1>1 DEF OpToRel
<1> QED
  BY <1>2

\* The heap has a top: the least expiration, and of those with the same
\* expiration the least slab index and then the least generation.
LEMMA TopExists ==
  ASSUME WheelConstants, NEW C \in SUBSET (Nat \X Keys \X Nat), C # {}
  PROVE  \E h \in C : \A g \in C : g = h \/ Before(h, g)
<1>0. \A h \in C : /\ h = <<h[1], h[2], h[3]>>
                   /\ h[1] \in Nat /\ h[2] \in Nat /\ h[3] \in Nat
  <2>1. \A h \in Nat \X Keys \X Nat :
          h = <<h[1], h[2], h[3]>> /\ h[1] \in Nat /\ h[2] \in Keys /\ h[3] \in Nat
    OBVIOUS
  <2> QED
    BY <2>1 DEF WheelConstants
<1>1. PICK a \in C : \A g \in C : a[1] <= g[1]
  <2> DEFINE T == {h[1] : h \in C}
  <2>1. T \in SUBSET Nat /\ T # {}
    BY <1>0
  <2>2. PICK x \in T : \A y \in T : x <= y
    BY <2>1, LeastNat
  <2> QED
    BY <2>2
<1> DEFINE A == {h \in C : h[1] = a[1]}
<1>2. PICK b \in A : \A g \in A : b[2] <= g[2]
  <2> DEFINE T == {h[2] : h \in A}
  <2>1. T \in SUBSET Nat /\ T # {}
    BY <1>0
  <2>2. PICK x \in T : \A y \in T : x <= y
    BY <2>1, LeastNat
  <2> QED
    BY <2>2
<1> DEFINE B == {h \in A : h[2] = b[2]}
<1>3. PICK c \in B : \A g \in B : c[3] <= g[3]
  <2> DEFINE T == {h[3] : h \in B}
  <2>1. T \in SUBSET Nat /\ T # {}
    BY <1>0
  <2>2. PICK x \in T : \A y \in T : x <= y
    BY <2>1, LeastNat
  <2> QED
    BY <2>2
<1>4. c \in C /\ c[1] = a[1] /\ c[2] = b[2]
  OBVIOUS
<1>5. ASSUME NEW g \in C PROVE g = c \/ Before(c, g)
  <2>1. /\ g = <<g[1], g[2], g[3]>> /\ g[1] \in Nat /\ g[2] \in Nat /\ g[3] \in Nat
        /\ c = <<c[1], c[2], c[3]>> /\ c[1] \in Nat /\ c[2] \in Nat /\ c[3] \in Nat
    BY <1>0, <1>4
  <2>2. c[1] <= g[1]
    BY <1>1, <1>4
  <2>3. c[1] = g[1] => c[2] <= g[2]
    BY <1>2, <1>4
  <2>4. c[1] = g[1] /\ c[2] = g[2] => c[3] <= g[3]
    BY <1>3, <1>4
  <2>5. c[1] = g[1] /\ c[2] = g[2] /\ c[3] = g[3] => g = c
    BY <2>1
  <2> HIDE DEF A, B
  <2> QED
    BY <2>1, <2>2, <2>3, <2>4, <2>5 DEF Before
<1> QED
  BY <1>4, <1>5

\* Every delay has a level, the lowest it fits in, and a slot there.
LEMMA PlaceIsAPlace ==
  ASSUME WheelConstants, NEW delay \in Nat
  PROVE  /\ calculate_level_and_slot(delay) \in Places
         /\ calculate_level_and_slot(delay)[1] \in Levels
         /\ calculate_level_and_slot(delay)[2] \in Slots
         /\ calculate_level_and_slot(delay) =
              <<calculate_level_and_slot(delay)[1],
                calculate_level_and_slot(delay)[2]>>
<1> DEFINE T == {l \in Levels : Fits(delay, l)}
           Lowest(l) == Fits(delay, l) /\ \A k \in Levels : k < l => ~Fits(delay, k)
           level == CHOOSE l \in Levels : Lowest(l)
           slot == (delay \div Width(level)) % SLOTS_PER_LEVEL
<1>1. NUM_LEVELS - 1 \in T /\ T \in SUBSET Nat
  BY DEF WheelConstants, Levels, Fits
<1>2. PICK l \in T : \A k \in T : l <= k
  BY <1>1, LeastNat
<1>3. l \in Levels /\ Lowest(l)
  BY <1>1, <1>2
<1>4. level \in Levels
  BY <1>3
<1>5. slot \in Slots
  <2>1. Width(level) \in Nat \ {0} /\ SLOTS_PER_LEVEL \in Nat \ {0}
    BY <1>4 DEF WheelConstants
  <2>2. delay \div Width(level) \in Nat
    BY <2>1
  <2> QED
    BY <2>1, <2>2 DEF Slots
<1>6. calculate_level_and_slot(delay) = <<level, slot>>
  BY DEF calculate_level_and_slot
<1> HIDE DEF level, slot
<1> QED
  BY <1>4, <1>5, <1>6 DEF Places

-----------------------------------------------------------------------------
(* What holds of a wheel between two operations.                           *)

\* Every entry is in the slot that its record names.
Filed(w) ==
  \A p \in Places :
    w.wheels[p] = {i \in DOMAIN w.entries :
                     <<w.entries[i].level, w.entries[i].slot>> = p}

\* No two entries have the same generation, and none has a later one.
Generations(w) ==
  /\ \A i \in DOMAIN w.entries : w.entries[i].generation <= w.generation_counter
  /\ \A i, j \in DOMAIN w.entries :
       w.entries[i].generation = w.entries[j].generation => i = j

\* The heap has an element for every entry; those of entries that are gone
\* are not current any more, and never will be.
HeapFits(w) ==
  /\ \A h \in w.expiration_heap :
       /\ h[3] <= w.generation_counter
       /\ IsCurrent(w, h) => h[1] = w.entries[h[2]].expiration_tick
  /\ \A i \in DOMAIN w.entries :
       <<w.entries[i].expiration_tick, i, w.entries[i].generation>>
         \in w.expiration_heap

\* The cached minimum is the earliest expiration.
MinimumFits(w) ==
  /\ DOMAIN w.entries = {} => w.min_expiration_tick = None
  /\ DOMAIN w.entries # {} =>
       \E i \in DOMAIN w.entries :
         w.min_expiration_tick = w.entries[i].expiration_tick
  /\ \A i \in DOMAIN w.entries :
       w.min_expiration_tick <= w.entries[i].expiration_tick

LEMMA EntriesType ==
  ASSUME NEW w \in WheelType
  PROVE  /\ DOMAIN w.entries \subseteq Keys
         /\ w.entries \in [DOMAIN w.entries -> TimerEntry]
         /\ \A i \in DOMAIN w.entries :
              /\ w.entries[i] \in TimerEntry
              /\ w.entries[i].expiration_tick \in Nat
              /\ w.entries[i].generation \in Nat
<1>1. w.entries \in UNION {[D -> TimerEntry] : D \in SUBSET Keys}
  BY DEF WheelType
<1>2. PICK D \in SUBSET Keys : w.entries \in [D -> TimerEntry]
  BY <1>1
<1>3. DOMAIN w.entries = D
  BY <1>2
<1>4. \A i \in D : w.entries[i] \in TimerEntry
  BY <1>2
<1> QED
  BY <1>2, <1>3, <1>4 DEF TimerEntry

\* refresh_min_expiration pops elements of the heap that are not current, and
\* finds the minimum.
LEMMA Refreshes ==
  ASSUME WheelConstants, NEW w \in WheelType, HeapFits(w)
  PROVE  /\ refresh_min_expiration(w) \in WheelType
         /\ refresh_min_expiration(w).entries = w.entries
         /\ refresh_min_expiration(w).wheels = w.wheels
         /\ refresh_min_expiration(w).current_tick = w.current_tick
         /\ refresh_min_expiration(w).generation_counter = w.generation_counter
         /\ HeapFits(refresh_min_expiration(w))
         /\ MinimumFits(refresh_min_expiration(w))
<1> DEFINE current == {h \in w.expiration_heap : IsCurrent(w, h)}
           ElementOf(i) == <<w.entries[i].expiration_tick, i, w.entries[i].generation>>
<1>1. \A i \in DOMAIN w.entries : ElementOf(i) \in current
  BY DEF HeapFits, IsCurrent
<1>2. current \in SUBSET (Nat \X Keys \X Nat)
  BY DEF WheelType
<1>3. CASE current = {}
  <2>1. refresh_min_expiration(w) =
          [w EXCEPT !.expiration_heap = {}, !.min_expiration_tick = None]
    BY <1>3 DEF refresh_min_expiration
  <2> DEFINE r == [w EXCEPT !.expiration_heap = {}, !.min_expiration_tick = None]
  <2>2. /\ r \in WheelType /\ r.entries = w.entries /\ r.wheels = w.wheels
        /\ r.current_tick = w.current_tick
        /\ r.generation_counter = w.generation_counter
        /\ r.expiration_heap = {} /\ r.min_expiration_tick = None
    BY DEF WheelType
  <2>3. DOMAIN w.entries = {}
    BY <1>1, <1>3
  <2> HIDE DEF r
  <2>4. HeapFits(r) /\ MinimumFits(r)
    BY <2>2, <2>3 DEF HeapFits, MinimumFits
  <2> QED
    BY <2>1, <2>2, <2>4 DEF r
<1>4. CASE current # {}
  <2> DEFINE IsTop(h) == \A g \in current : g = h \/ Before(h, g)
             top == CHOOSE h \in current : IsTop(h)
             heap == {h \in w.expiration_heap : h = top \/ Before(top, h)}
             m == w.entries[top[2]].expiration_tick
             r == [w EXCEPT !.expiration_heap = heap, !.min_expiration_tick = m]
  <2>1. refresh_min_expiration(w) = r
    BY <1>4 DEF refresh_min_expiration
  <2>2. top \in current /\ IsTop(top)
    <3>1. \E h \in current : IsTop(h)
      BY <1>2, <1>4, TopExists
    <3> QED
      BY <3>1
  <2>3. top[2] \in DOMAIN w.entries /\ top[1] = m
    BY <2>2 DEF HeapFits, IsCurrent
  <2>4. m \in Nat
    BY <2>3, EntriesType
  <2> HIDE DEF top
  <2>5. heap \subseteq w.expiration_heap /\ current \subseteq heap
    BY <2>2
  <2> HIDE DEF heap, m
  <2>6. /\ r \in WheelType /\ r.entries = w.entries /\ r.wheels = w.wheels
        /\ r.current_tick = w.current_tick
        /\ r.generation_counter = w.generation_counter
        /\ r.expiration_heap = heap /\ r.min_expiration_tick = m
    BY <2>4, <2>5 DEF WheelType
  <2> HIDE DEF r
  <2>7. HeapFits(r)
    BY <1>1, <2>5, <2>6 DEF HeapFits, IsCurrent
  <2>8. ASSUME NEW i \in DOMAIN w.entries
        PROVE  m <= w.entries[i].expiration_tick
    <3>1. ElementOf(i) = top \/ Before(top, ElementOf(i))
      BY <1>1, <2>2
    <3>2. /\ w.entries[i].expiration_tick \in Nat
          /\ ElementOf(i)[1] = w.entries[i].expiration_tick
      BY EntriesType
    <3> HIDE DEF ElementOf
    <3>3. top[1] = ElementOf(i)[1] \/ top[1] < ElementOf(i)[1]
      BY <3>1 DEF Before
    <3> QED
      BY <2>3, <2>4, <3>2, <3>3
  <2>9. MinimumFits(r)
    <3>1. \E i \in DOMAIN w.entries : m = w.entries[i].expiration_tick
      BY <2>3 DEF m
    <3> QED
      BY <2>6, <2>8, <3>1 DEF MinimumFits
  <2> QED
    BY <2>1, <2>6, <2>7, <2>9
<1> QED
  BY <1>3, <1>4

\* An entry was placed at a tick t before it is due.  Since then the wheel has
\* not moved; or the entry is on level 0, and none of the ticks that the wheel
\* has passed through selects its slot.
Placed(w, i, t) ==
  /\ t \in Nat /\ t < w.entries[i].expiration_tick /\ t <= w.current_tick
  /\ \/ t = w.current_tick
     \/ /\ w.entries[i].level = 0
        /\ \A u \in t..w.current_tick : u % SLOTS_PER_LEVEL # w.entries[i].slot

Punctual(w) == \A i \in DOMAIN w.entries : \E t \in Nat : Placed(w, i, t)

GoodWheel(w) ==
  /\ w \in WheelType
  /\ Filed(w) /\ Generations(w) /\ HeapFits(w) /\ MinimumFits(w) /\ Punctual(w)

LEMMA NewWheelIsGood ==
  ASSUME WheelConstants
  PROVE  /\ GoodWheel(NewWheel)
         /\ DOMAIN NewWheel.entries = {}
         /\ NewWheel.current_tick = 0 /\ NewWheel.generation_counter = 0
<1>1. NewWheel \in WheelType
  <2>1. [i \in {} |-> None] \in UNION {[D -> TimerEntry] : D \in SUBSET Keys}
    <3>1. [i \in {} |-> None] \in [{} -> TimerEntry] /\ {} \in SUBSET Keys
      OBVIOUS
    <3> QED
      BY <3>1
  <2> QED
    BY <2>1 DEF NewWheel, WheelType
<1>2. /\ DOMAIN NewWheel.entries = {} /\ NewWheel.expiration_heap = {}
      /\ NewWheel.min_expiration_tick = None
      /\ NewWheel.current_tick = 0 /\ NewWheel.generation_counter = 0
      /\ \A p \in Places : NewWheel.wheels[p] = {}
  BY DEF NewWheel
<1> QED
  BY <1>1, <1>2
     DEF GoodWheel, Filed, Generations, HeapFits, MinimumFits, Punctual

-----------------------------------------------------------------------------
(* insert.                                                                 *)

LEMMA Inserts ==
  ASSUME WheelConstants, NEW w, GoodWheel(w), NEW i \in VacantKeys(w),
         NEW expiration \in Nat, expiration > w.current_tick
  PROVE  LET r == insert(w, i, expiration) IN
         /\ GoodWheel(r)
         /\ DOMAIN r.entries = DOMAIN w.entries \cup {i}
         /\ r.entries[i].expiration_tick = expiration
         /\ r.entries[i].generation = w.generation_counter + 1
         /\ \A k \in DOMAIN w.entries : k # i /\ r.entries[k] = w.entries[k]
         /\ r.current_tick = w.current_tick
         /\ r.generation_counter = w.generation_counter + 1
<1> DEFINE delay == saturating_sub(expiration, w.current_tick)
           place == calculate_level_and_slot(delay)
           gen   == w.generation_counter + 1
           entry == [expiration_tick |-> expiration, generation |-> gen,
                     level |-> place[1], slot |-> place[2]]
           entries == [k \in DOMAIN w.entries \cup {i} |->
                         IF k = i THEN entry ELSE w.entries[k]]
           heap  == w.expiration_heap \cup {<<expiration, i, gen>>}
           min   == IF w.min_expiration_tick = None
                         \/ expiration < w.min_expiration_tick
                    THEN expiration ELSE w.min_expiration_tick
           r == insert(w, i, expiration)
<1>0. /\ w \in WheelType /\ i \in Keys /\ i \notin DOMAIN w.entries
      /\ w.current_tick \in Nat /\ w.generation_counter \in Nat
  BY DEF GoodWheel, WheelType, VacantKeys
<1>1. delay \in Nat
  BY <1>0 DEF saturating_sub
<1>2. /\ place \in Places /\ place[1] \in Levels /\ place[2] \in Slots
      /\ place = <<place[1], place[2]>>
  BY <1>1, PlaceIsAPlace
<1> HIDE DEF delay
<1>3. r = [w EXCEPT !.entries = entries,
                    !.wheels[place] = @ \cup {i},
                    !.generation_counter = gen,
                    !.expiration_heap = heap,
                    !.min_expiration_tick = min]
  BY DEF insert, delay
<1> HIDE DEF place
<1>4. entry \in TimerEntry /\ gen \in Nat
  BY <1>0, <1>2 DEF TimerEntry
<1>5. entry.expiration_tick = expiration /\ entry.generation = gen
      /\ entry.level = place[1] /\ entry.slot = place[2]
  OBVIOUS
<1> HIDE DEF entry
<1>6. /\ DOMAIN entries = DOMAIN w.entries \cup {i}
      /\ entries[i] = entry
      /\ \A k \in DOMAIN w.entries : k # i /\ entries[k] = w.entries[k]
  BY <1>0
<1>7. entries \in UNION {[D -> TimerEntry] : D \in SUBSET Keys}
  <2>1. DOMAIN w.entries \cup {i} \in SUBSET Keys
    BY <1>0, EntriesType
  <2>2. entries \in [DOMAIN w.entries \cup {i} -> TimerEntry]
    BY <1>0, <1>4, EntriesType
  <2> QED
    BY <2>1, <2>2
<1>8. heap \in SUBSET (Nat \X Keys \X Nat) /\ min \in Nat \cup {None}
  BY <1>0, <1>4 DEF WheelType
<1> HIDE DEF entries, heap, min
<1>9. /\ r \in WheelType /\ r.entries = entries
      /\ r.wheels = [w.wheels EXCEPT ![place] = @ \cup {i}]
      /\ r.generation_counter = gen /\ r.expiration_heap = heap
      /\ r.min_expiration_tick = min /\ r.current_tick = w.current_tick
  <2>1. [w.wheels EXCEPT ![place] = @ \cup {i}] \in [Places -> SUBSET Keys]
    BY <1>0 DEF WheelType
  <2> QED
    BY <1>0, <1>3, <1>4, <1>7, <1>8, <2>1 DEF WheelType
<1> HIDE DEF r
<1>10. Filed(r)
  <2> SUFFICES ASSUME NEW p \in Places
               PROVE  r.wheels[p] = {k \in DOMAIN r.entries :
                                 <<r.entries[k].level, r.entries[k].slot>> = p}
    BY DEF Filed
  <2>1. w.wheels[p] = {k \in DOMAIN w.entries :
                         <<w.entries[k].level, w.entries[k].slot>> = p}
    BY DEF GoodWheel, Filed
  <2>2. r.wheels[p] = IF p = place THEN w.wheels[p] \cup {i} ELSE w.wheels[p]
    BY <1>0, <1>9 DEF WheelType
  <2>3. <<r.entries[i].level, r.entries[i].slot>> = place
    BY <1>2, <1>5, <1>6, <1>9
  <2> QED
    BY <1>6, <1>9, <2>1, <2>2, <2>3
<1>11. Generations(r)
  BY <1>0, <1>5, <1>6, <1>9, EntriesType DEF GoodWheel, Generations
<1>12. HeapFits(r)
  <2>1. ASSUME NEW h \in w.expiration_heap
        PROVE  /\ h[3] <= r.generation_counter
               /\ IsCurrent(r, h) => h[1] = r.entries[h[2]].expiration_tick
    <3>1. h[3] \in Nat /\ h[3] <= w.generation_counter
      <4>1. h \in Nat \X Keys \X Nat
        BY <1>0 DEF WheelType
      <4> QED
        BY <4>1 DEF GoodWheel, HeapFits
    <3>2. IsCurrent(r, h) => h[2] # i /\ IsCurrent(w, h)
      BY <1>0, <1>5, <1>6, <1>9, <3>1 DEF IsCurrent
    <3> QED
      BY <1>0, <1>6, <1>9, <3>1, <3>2 DEF GoodWheel, HeapFits, IsCurrent
  <2>2. \A h \in {<<expiration, i, gen>>} :
          /\ h[3] <= r.generation_counter
          /\ h[1] = r.entries[h[2]].expiration_tick
    BY <1>4, <1>5, <1>6, <1>9
  <2>3. \A k \in DOMAIN r.entries :
          <<r.entries[k].expiration_tick, k, r.entries[k].generation>> \in heap
    BY <1>5, <1>6, <1>9 DEF GoodWheel, HeapFits, heap
  <2> QED
    BY <1>9, <2>1, <2>2, <2>3 DEF HeapFits, heap
<1>13. MinimumFits(r)
  <2>1. \A k \in DOMAIN w.entries : w.entries[k].expiration_tick \in Nat
    BY <1>0, EntriesType
  <2>2. CASE DOMAIN w.entries = {}
    <3>1. min = expiration
      BY <2>2 DEF GoodWheel, MinimumFits, min
    <3>2. DOMAIN r.entries = {i} /\ r.entries[i].expiration_tick = expiration
      BY <1>5, <1>6, <1>9, <2>2
    <3> QED
      BY <1>9, <3>1, <3>2 DEF MinimumFits
  <2>3. CASE DOMAIN w.entries # {}
    <3>1. PICK k \in DOMAIN w.entries :
            w.min_expiration_tick = w.entries[k].expiration_tick
      BY <2>3 DEF GoodWheel, MinimumFits
    <3>2. w.min_expiration_tick \in Nat /\ w.min_expiration_tick # None
      BY <2>1, <3>1 DEF WheelConstants
    <3>3. \A j \in DOMAIN w.entries :
            w.min_expiration_tick <= w.entries[j].expiration_tick
      BY DEF GoodWheel, MinimumFits
    <3>4. /\ min = expiration \/ min = w.entries[k].expiration_tick
          /\ min <= expiration /\ min <= w.min_expiration_tick /\ min \in Nat
      BY <3>1, <3>2 DEF min
    <3>5. \A j \in DOMAIN r.entries : min <= r.entries[j].expiration_tick
      BY <1>5, <1>6, <1>9, <2>1, <3>2, <3>3, <3>4
    <3>6. \E j \in DOMAIN r.entries : min = r.entries[j].expiration_tick
      BY <1>5, <1>6, <1>9, <3>1, <3>4
    <3> QED
      BY <1>9, <3>5, <3>6 DEF MinimumFits
  <2> QED
    BY <2>2, <2>3
<1>14. Punctual(r)
  <2>1. Placed(r, i, w.current_tick)
    BY <1>0, <1>5, <1>6, <1>9 DEF Placed
  <2>2. \A k \in DOMAIN w.entries : \E t \in Nat : Placed(r, k, t)
    BY <1>6, <1>9 DEF GoodWheel, Punctual, Placed
  <2> QED
    BY <1>0, <1>6, <1>9, <2>1, <2>2 DEF Punctual
<1> QED
  BY <1>5, <1>6, <1>9, <1>10, <1>11, <1>12, <1>13, <1>14 DEF GoodWheel, r

-----------------------------------------------------------------------------
(* remove.                                                                 *)

LEMMA RefreshedIsGood ==
  ASSUME WheelConstants, NEW w \in WheelType,
         Filed(w), Generations(w), HeapFits(w), Punctual(w)
  PROVE  GoodWheel(refresh_min_expiration(w))
<1>1. /\ refresh_min_expiration(w) \in WheelType
      /\ refresh_min_expiration(w).entries = w.entries
      /\ refresh_min_expiration(w).wheels = w.wheels
      /\ refresh_min_expiration(w).current_tick = w.current_tick
      /\ refresh_min_expiration(w).generation_counter = w.generation_counter
      /\ HeapFits(refresh_min_expiration(w))
      /\ MinimumFits(refresh_min_expiration(w))
  BY Refreshes
<1>2. Filed(refresh_min_expiration(w)) /\ Generations(refresh_min_expiration(w))
  BY <1>1 DEF Filed, Generations
<1>3. Punctual(refresh_min_expiration(w))
  BY <1>1 DEF Punctual, Placed
<1> QED
  BY <1>1, <1>2, <1>3 DEF GoodWheel

LEMMA Removes ==
  ASSUME WheelConstants, NEW w, GoodWheel(w), NEW handle, Holds(w, handle)
  PROVE  LET r == remove(w, handle) IN
         /\ GoodWheel(r)
         /\ DOMAIN r.entries = DOMAIN w.entries \ {handle.slab_index}
         /\ \A k \in DOMAIN r.entries : r.entries[k] = w.entries[k]
         /\ r.current_tick = w.current_tick
         /\ r.generation_counter = w.generation_counter
<1> DEFINE i == handle.slab_index
           place == <<w.entries[i].level, w.entries[i].slot>>
           entries == [k \in DOMAIN w.entries \ {i} |-> w.entries[k]]
           v == [w EXCEPT !.wheels[place] = @ \ {i}, !.entries = entries]
<1>0. w \in WheelType /\ i \in DOMAIN w.entries
  BY DEF GoodWheel, Holds
<1>1. remove(w, handle) = refresh_min_expiration(v)
  BY DEF remove
<1> HIDE DEF i
<1>2. /\ DOMAIN entries = DOMAIN w.entries \ {i}
      /\ \A k \in DOMAIN entries : entries[k] = w.entries[k]
  OBVIOUS
<1>3. entries \in UNION {[D -> TimerEntry] : D \in SUBSET Keys}
  <2>1. DOMAIN w.entries \ {i} \in SUBSET Keys
    BY <1>0, EntriesType
  <2>2. entries \in [DOMAIN w.entries \ {i} -> TimerEntry]
    BY <1>0, EntriesType
  <2> QED
    BY <2>1, <2>2
<1>4. place \in Places
  BY <1>0, EntriesType DEF TimerEntry, Places
<1> HIDE DEF place, entries
<1>5. /\ v \in WheelType /\ v.entries = entries
      /\ v.wheels = [w.wheels EXCEPT ![place] = @ \ {i}]
      /\ v.current_tick = w.current_tick
      /\ v.generation_counter = w.generation_counter
      /\ v.expiration_heap = w.expiration_heap
  <2>1. [w.wheels EXCEPT ![place] = @ \ {i}] \in [Places -> SUBSET Keys]
    BY <1>0 DEF WheelType
  <2> QED
    BY <1>0, <1>3, <2>1 DEF WheelType
<1> HIDE DEF v
<1>6. Filed(v)
  <2> SUFFICES ASSUME NEW p \in Places
               PROVE  v.wheels[p] = {k \in DOMAIN v.entries :
                                 <<v.entries[k].level, v.entries[k].slot>> = p}
    BY DEF Filed
  <2>1. w.wheels[p] = {k \in DOMAIN w.entries :
                         <<w.entries[k].level, w.entries[k].slot>> = p}
    BY DEF GoodWheel, Filed
  <2>2. v.wheels[p] = IF p = place THEN w.wheels[p] \ {i} ELSE w.wheels[p]
    BY <1>0, <1>5 DEF WheelType
  <2>3. p # place => i \notin w.wheels[p]
    BY <2>1 DEF place
  <2> QED
    BY <1>2, <1>5, <2>1, <2>2, <2>3
<1>7. Generations(v)
  BY <1>2, <1>5 DEF GoodWheel, Generations
<1>8. HeapFits(v)
  BY <1>2, <1>5 DEF GoodWheel, HeapFits, IsCurrent
<1>9. Punctual(v)
  BY <1>2, <1>5 DEF GoodWheel, Punctual, Placed
<1>10. /\ refresh_min_expiration(v).entries = v.entries
       /\ refresh_min_expiration(v).current_tick = v.current_tick
       /\ refresh_min_expiration(v).generation_counter = v.generation_counter
  BY <1>5, <1>8, Refreshes
<1>11. GoodWheel(refresh_min_expiration(v))
  BY <1>5, <1>6, <1>7, <1>8, <1>9, RefreshedIsGood
<1> QED
  BY <1>1, <1>2, <1>5, <1>10, <1>11 DEF i

-----------------------------------------------------------------------------
(* advance.                                                                *)

\* The remainder is the one that quotient and remainder determine.
LEMMA RemainderIs ==
  ASSUME NEW S \in Nat \ {0}, NEW q \in Nat, NEW f \in Nat, f < S
  PROVE  (q * S + f) % S = f
OBVIOUS

\* Every tick that an advance passes through selects a slot it visits.
LEMMA RangeCovers ==
  ASSUME WheelConstants, NEW start \in Nat, NEW ticks \in Nat,
         NEW u \in start..(start + ticks)
  PROVE  u % SLOTS_PER_LEVEL \in Level0Range(start, ticks)
<1> DEFINE S == SLOTS_PER_LEVEL
           q == start \div S
           f == start % S
           d == u - start
<1>0. S \in Nat \ {0}
  BY DEF WheelConstants
<1>1. CASE ticks >= S
  BY <1>0, <1>1 DEF Level0Range, Slots
<1>2. CASE ticks < S
  <2>1. q \in Nat /\ f \in Nat /\ f < S /\ start = q * S + f /\ q * S \in Nat
    BY <1>0
  <2>2. (q + 1) * S = q * S + S
    BY <1>0, <2>1
  <2>3. d \in Nat /\ d <= ticks /\ u = start + d
    OBVIOUS
  <2> HIDE DEF q, f, d
  <2>4. \A n \in Nat : n <= ticks =>
          (start + n) % S = IF f + n < S THEN f + n ELSE f + n - S
    <3> SUFFICES ASSUME NEW n \in Nat, n <= ticks
                 PROVE  (start + n) % S = IF f + n < S THEN f + n ELSE f + n - S
      OBVIOUS
    <3>1. CASE f + n < S
      <4>1. (q * S + (f + n)) % S = f + n
        BY <1>0, <2>1, <3>1, RemainderIs
      <4>2. start + n = q * S + (f + n)
        BY <2>1
      <4> QED
        BY <3>1, <4>1, <4>2
    <3>2. CASE ~(f + n < S)
      <4>1. f + n - S \in Nat /\ f + n - S < S
        BY <1>0, <1>2, <2>1, <3>2
      <4>2. ((q + 1) * S + (f + n - S)) % S = f + n - S
        <5>1. PICK g \in Nat, k \in Nat : g = f + n - S /\ k = q + 1
          BY <2>1, <4>1
        <5>2. (k * S + g) % S = g
          BY <1>0, <4>1, <5>1, RemainderIs
        <5> QED
          BY <5>1, <5>2
      <4>3. start + n = (q + 1) * S + (f + n - S)
        BY <1>0, <2>1, <2>2
      <4> QED
        BY <3>2, <4>2, <4>3
    <3> QED
      BY <3>1, <3>2
  <2>5. /\ u % S = IF f + d < S THEN f + d ELSE f + d - S
        /\ (start + ticks) % S = IF f + ticks < S THEN f + ticks ELSE f + ticks - S
    BY <2>3, <2>4
  <2> DEFINE last == (start + ticks) % S
             x == u % S
  <2>6. Level0Range(start, ticks) =
          IF f <= last THEN f..last ELSE (f..(S - 1)) \cup (0..last)
    BY <1>0, <1>2 DEF Level0Range, f
  <2>7. /\ x = IF f + d < S THEN f + d ELSE f + d - S
        /\ last = IF f + ticks < S THEN f + ticks ELSE f + ticks - S
    BY <2>5
  <2> HIDE DEF last, x
  <2>8. x \in IF f <= last THEN f..last ELSE (f..(S - 1)) \cup (0..last)
    BY <1>0, <1>2, <2>1, <2>3, <2>7
  <2> QED
    BY <2>6, <2>8 DEF last, x
<1> QED
  BY <1>0, <1>1, <1>2

\* In a turn of level 0 every slot is selected.
LEMMA TurnSelectsAll ==
  ASSUME WheelConstants, NEW t \in Nat, NEW slot \in Slots
  PROVE  \E u \in t..(t + SLOTS_PER_LEVEL - 1) : u % SLOTS_PER_LEVEL = slot
<1> DEFINE S == SLOTS_PER_LEVEL
           q == t \div S
           f == t % S
<1>0. S \in Nat \ {0} /\ slot \in Nat /\ slot < S
  BY DEF WheelConstants, Slots
<1>1. q \in Nat /\ f \in Nat /\ f < S /\ t = q * S + f /\ q * S \in Nat
  BY <1>0
<1>2. (q + 1) * S = q * S + S
  BY <1>0, <1>1
<1> HIDE DEF q, f
<1>3. CASE f <= slot
  <2>1. (q * S + slot) % S = slot
    BY <1>0, <1>1, RemainderIs
  <2>2. q * S + slot \in t..(t + S - 1)
    BY <1>0, <1>1, <1>3
  <2> QED
    BY <2>1, <2>2
<1>4. CASE slot < f
  <2>1. ((q + 1) * S + slot) % S = slot
    BY <1>0, <1>1, RemainderIs
  <2>2. (q + 1) * S + slot \in t..(t + S - 1)
    BY <1>0, <1>1, <1>2, <1>4
  <2> QED
    BY <2>1, <2>2
<1> QED
  BY <1>0, <1>1, <1>3, <1>4

\* Hence no entry is late by a whole turn.
LEMMA LateByLess ==
  ASSUME WheelConstants, NEW w, GoodWheel(w), NEW i \in DOMAIN w.entries
  PROVE  w.current_tick < w.entries[i].expiration_tick + SLOTS_PER_LEVEL
<1>0. /\ w.current_tick \in Nat /\ w.entries[i].expiration_tick \in Nat
      /\ w.entries[i].slot \in Slots /\ SLOTS_PER_LEVEL \in Nat \ {0}
  BY EntriesType DEF GoodWheel, WheelType, TimerEntry, WheelConstants
<1>1. PICK t \in Nat : Placed(w, i, t)
  BY DEF GoodWheel, Punctual
<1>2. t < w.entries[i].expiration_tick
  BY <1>1 DEF Placed
<1>3. CASE w.current_tick < t + SLOTS_PER_LEVEL
  BY <1>0, <1>2, <1>3
<1>4. CASE ~(w.current_tick < t + SLOTS_PER_LEVEL)
  <2>1. t # w.current_tick
    BY <1>0, <1>4
  <2>2. PICK u \in t..(t + SLOTS_PER_LEVEL - 1) :
          u % SLOTS_PER_LEVEL = w.entries[i].slot
    BY <1>0, TurnSelectsAll
  <2>3. u \in t..w.current_tick
    BY <1>0, <1>4
  <2> QED
    BY <1>1, <2>1, <2>2, <2>3 DEF Placed
<1> QED
  BY <1>3, <1>4

\* advance fires what it visits and finds due, places the rest of it again,
\* and leaves the others where they are.
LEMMA AdvancesSome ==
  ASSUME WheelConstants, NEW w, GoodWheel(w), NEW ticks \in Nat \ {0}
  PROVE  LET r == advance(w, ticks) IN
         /\ GoodWheel(r)
         /\ DOMAIN r.entries = DOMAIN w.entries \ Expired(w, ticks)
         /\ \A k \in DOMAIN r.entries :
              /\ r.entries[k].expiration_tick = w.entries[k].expiration_tick
              /\ r.entries[k].generation = w.entries[k].generation
         /\ r.current_tick = w.current_tick + ticks
         /\ r.generation_counter = w.generation_counter
<1> DEFINE now     == w.current_tick + ticks
           expired == Expired(w, ticks)
           visited == Visited(w, ticks)
           moved   == visited \ expired
           Again(i) == calculate_level_and_slot(w.entries[i].expiration_tick - now)
           place   == [i \in moved |-> Again(i)]
           Entry(i) == IF i \in moved
                       THEN [w.entries[i] EXCEPT !.level = place[i][1],
                                                 !.slot = place[i][2]]
                       ELSE w.entries[i]
           entries == [i \in DOMAIN w.entries \ expired |-> Entry(i)]
           wheels  == [p \in Places |-> (w.wheels[p] \ visited)
                                          \cup {i \in moved : place[i] = p}]
           v == [w EXCEPT !.current_tick = now, !.entries = entries,
                          !.wheels = wheels]
<1>0. /\ w \in WheelType /\ w.current_tick \in Nat /\ now \in Nat
      /\ w.current_tick < now
  BY DEF GoodWheel, WheelType
<1>1. advance(w, ticks) = refresh_min_expiration(v)
  BY DEF advance
<1>2. /\ visited \subseteq DOMAIN w.entries /\ expired \subseteq visited
      /\ \A i \in visited :
           i \in expired <=> w.entries[i].expiration_tick <= now
      /\ \A i \in DOMAIN w.entries \ visited :
           /\ ~(w.entries[i].level > 0)
           /\ w.entries[i].slot \notin Level0Range(w.current_tick, ticks)
  BY DEF Visited, Expired
<1> HIDE DEF expired, visited
<1>3. \A i \in DOMAIN w.entries :
        /\ w.entries[i] \in TimerEntry /\ w.entries[i].expiration_tick \in Nat
        /\ w.entries[i].generation \in Nat /\ i \in Keys
  BY <1>0, EntriesType
<1>4. \A i \in moved :
        /\ now < w.entries[i].expiration_tick
        /\ w.entries[i].expiration_tick - now \in Nat
  BY <1>0, <1>2, <1>3
<1> HIDE DEF now
<1>5. \A i \in moved :
        /\ place[i] \in Places /\ place[i][1] \in Levels /\ place[i][2] \in Slots
        /\ place[i] = <<place[i][1], place[i][2]>>
  <2> SUFFICES ASSUME NEW i \in moved
               PROVE  /\ Again(i) \in Places
                      /\ Again(i)[1] \in Levels /\ Again(i)[2] \in Slots
                      /\ Again(i) = <<Again(i)[1], Again(i)[2]>>
    OBVIOUS
  <2> QED
    BY <1>4, PlaceIsAPlace
<1> HIDE DEF place
<1>6. \A i \in DOMAIN w.entries :
        /\ Entry(i) \in TimerEntry
        /\ Entry(i).expiration_tick = w.entries[i].expiration_tick
        /\ Entry(i).generation = w.entries[i].generation
        /\ i \in moved => <<Entry(i).level, Entry(i).slot>> = place[i]
        /\ i \notin moved => Entry(i) = w.entries[i]
  BY <1>3, <1>5 DEF TimerEntry
<1> HIDE DEF Entry
<1>7. /\ DOMAIN entries = DOMAIN w.entries \ expired
      /\ \A i \in DOMAIN entries : entries[i] = Entry(i)
  OBVIOUS
<1>8. entries \in UNION {[D -> TimerEntry] : D \in SUBSET Keys}
  <2>1. DOMAIN w.entries \ expired \in SUBSET Keys
    BY <1>3
  <2>2. entries \in [DOMAIN w.entries \ expired -> TimerEntry]
    BY <1>6
  <2> QED
    BY <2>1, <2>2
<1>9. wheels \in [Places -> SUBSET Keys]
  <2>1. \A p \in Places : w.wheels[p] \subseteq Keys
    BY <1>0 DEF WheelType
  <2>2. moved \subseteq Keys
    BY <1>2, <1>3
  <2> QED
    BY <2>1, <2>2
<1>10. \A p \in Places :
         wheels[p] = (w.wheels[p] \ visited) \cup {i \in moved : place[i] = p}
  OBVIOUS
<1> HIDE DEF entries, wheels
<1>11. /\ v \in WheelType /\ v.entries = entries /\ v.wheels = wheels
       /\ v.current_tick = now /\ v.generation_counter = w.generation_counter
       /\ v.expiration_heap = w.expiration_heap
  BY <1>0, <1>8, <1>9 DEF WheelType
<1> HIDE DEF v
<1>12. Filed(v)
  <2> SUFFICES ASSUME NEW p \in Places, NEW k
               PROVE  k \in v.wheels[p] <=>
                        /\ k \in DOMAIN v.entries
                        /\ <<v.entries[k].level, v.entries[k].slot>> = p
    BY DEF Filed
  <2>1. k \in w.wheels[p] <=> /\ k \in DOMAIN w.entries
                              /\ <<w.entries[k].level, w.entries[k].slot>> = p
    BY DEF GoodWheel, Filed
  <2>2. k \in v.wheels[p] <=> \/ k \in w.wheels[p] /\ k \notin visited
                              \/ k \in moved /\ place[k] = p
    BY <1>10, <1>11
  <2>3. CASE k \in moved
    <3>1. /\ k \in DOMAIN v.entries
          /\ <<v.entries[k].level, v.entries[k].slot>> = place[k]
      BY <1>2, <1>6, <1>7, <1>11, <2>3
    <3> QED
      BY <2>2, <2>3, <3>1
  <2>4. CASE k \notin moved
    <3>1. k \in DOMAIN v.entries <=> k \in DOMAIN w.entries /\ k \notin visited
      BY <1>2, <1>7, <1>11, <2>4
    <3>2. k \in DOMAIN v.entries => v.entries[k] = w.entries[k]
      BY <1>6, <1>7, <1>11, <2>4, <3>1
    <3> QED
      BY <2>1, <2>2, <2>4, <3>1, <3>2
  <2> QED
    BY <2>3, <2>4
<1>13. \A k \in DOMAIN v.entries :
         /\ k \in DOMAIN w.entries
         /\ v.entries[k].expiration_tick = w.entries[k].expiration_tick
         /\ v.entries[k].generation = w.entries[k].generation
  BY <1>6, <1>7, <1>11
<1>14. Generations(v)
  BY <1>11, <1>13 DEF GoodWheel, Generations
<1>15. HeapFits(v)
  BY <1>11, <1>13 DEF GoodWheel, HeapFits, IsCurrent
<1>16. ASSUME NEW k \in DOMAIN v.entries
       PROVE  \E t \in Nat : Placed(v, k, t)
  <2>1. CASE k \in moved
    <3>1. Placed(v, k, now)
      BY <1>0, <1>4, <1>11, <1>13, <2>1 DEF Placed
    <3> QED
      BY <1>0, <3>1
  <2>2. CASE k \notin moved
    <3>1. k \in DOMAIN w.entries /\ k \notin visited
      BY <1>7, <1>11, <2>2
    <3>2. v.entries[k] = w.entries[k]
      BY <1>6, <1>7, <1>11, <2>2, <3>1
    <3>3. w.entries[k].level = 0
      <4>1. w.entries[k].level \in Nat
        BY <1>3, <3>1 DEF TimerEntry, Levels
      <4> QED
        BY <1>2, <3>1, <4>1
    <3>4. \A u \in w.current_tick..now :
            u % SLOTS_PER_LEVEL # w.entries[k].slot
      BY <1>0, <1>2, <3>1, RangeCovers DEF now
    <3>5. PICK t \in Nat : Placed(w, k, t)
      BY <3>1 DEF GoodWheel, Punctual
    <3>6. /\ t < w.entries[k].expiration_tick /\ t <= w.current_tick
          /\ \/ t = w.current_tick
             \/ \A u \in t..w.current_tick :
                  u % SLOTS_PER_LEVEL # w.entries[k].slot
      BY <3>5 DEF Placed
    <3>7. \A u \in t..now : u % SLOTS_PER_LEVEL # w.entries[k].slot
      <4> SUFFICES ASSUME NEW u \in t..now
                   PROVE  u % SLOTS_PER_LEVEL # w.entries[k].slot
        OBVIOUS
      <4>1. CASE u >= w.current_tick
        <5>1. u \in w.current_tick..now
          BY <1>0, <4>1
        <5> QED
          BY <3>4, <5>1
      <4>2. CASE u < w.current_tick
        <5>1. u \in t..w.current_tick /\ t # w.current_tick
          BY <1>0, <3>6, <4>2
        <5> QED
          BY <3>6, <5>1
      <4> QED
        BY <1>0, <4>1, <4>2
    <3>8. Placed(v, k, t)
      BY <1>0, <1>11, <3>2, <3>3, <3>6, <3>7 DEF Placed
    <3> QED
      BY <3>8
  <2> QED
    BY <2>1, <2>2
<1>17. Punctual(v)
  BY <1>16 DEF Punctual
<1>18. /\ refresh_min_expiration(v).entries = v.entries
       /\ refresh_min_expiration(v).current_tick = v.current_tick
       /\ refresh_min_expiration(v).generation_counter = v.generation_counter
  BY <1>11, <1>15, Refreshes
<1>19. GoodWheel(refresh_min_expiration(v))
  BY <1>11, <1>12, <1>14, <1>15, <1>17, RefreshedIsGood
<1> QED
  BY <1>1, <1>7, <1>11, <1>13, <1>18, <1>19 DEF now, expired

-----------------------------------------------------------------------------
(* What becomes of the timer that a handle names.                          *)

\* The timer is in wheel v exactly if it is in w, and expires at the same tick.
Carries(w, v, h) ==
  /\ Holds(v, h) <=> Holds(w, h)
  /\ Holds(w, h) => v.entries[h.slab_index].expiration_tick =
                      w.entries[h.slab_index].expiration_tick

LEMMA InsertCarries ==
  ASSUME WheelConstants, NEW w, GoodWheel(w), NEW i \in VacantKeys(w),
         NEW expiration \in Nat, expiration > w.current_tick,
         NEW h, h.generation \in Nat, h.generation <= w.generation_counter
  PROVE  Carries(w, insert(w, i, expiration), h)
<1> DEFINE r == insert(w, i, expiration)
<1>1. /\ DOMAIN r.entries = DOMAIN w.entries \cup {i}
      /\ r.entries[i].generation = w.generation_counter + 1
      /\ \A k \in DOMAIN w.entries : k # i /\ r.entries[k] = w.entries[k]
  BY Inserts
<1>2. w.generation_counter \in Nat
  BY DEF GoodWheel, WheelType
<1> HIDE DEF r
<1>3. h.generation # w.generation_counter + 1
  BY <1>2
<1>4. Carries(w, r, h)
  BY <1>1, <1>3 DEF Carries, Holds
<1> QED
  BY <1>4 DEF r

\* Removing a timer by its handle, or trying to.
LEMMA RemoveCarries ==
  ASSUME WheelConstants, NEW w, GoodWheel(w), NEW g
  PROVE  /\ GoodWheel(remove(w, g))
         /\ remove(w, g).current_tick = w.current_tick
         /\ remove(w, g).generation_counter = w.generation_counter
         /\ \A h : h.generation # g.generation => Carries(w, remove(w, g), h)
<1> DEFINE r == remove(w, g)
<1>1. CASE Holds(w, g)
  <2>1. /\ GoodWheel(r)
        /\ DOMAIN r.entries = DOMAIN w.entries \ {g.slab_index}
        /\ \A k \in DOMAIN r.entries : r.entries[k] = w.entries[k]
        /\ r.current_tick = w.current_tick
        /\ r.generation_counter = w.generation_counter
    BY <1>1, Removes
  <2> HIDE DEF r
  <2>2. \A h : h.generation # g.generation => Carries(w, r, h)
    BY <1>1, <2>1 DEF Carries, Holds
  <2> QED
    BY <2>1, <2>2 DEF r
<1>2. CASE ~Holds(w, g)
  <2>1. remove(w, g) = w
    BY <1>2 DEF remove
  <2> QED
    BY <2>1 DEF Carries
<1> QED
  BY <1>1, <1>2
=============================================================================

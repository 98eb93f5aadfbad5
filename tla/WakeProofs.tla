----------------------------- MODULE WakeProofs -----------------------------
(***************************************************************************)
(* Proofs about what wakes tasks from outside of the driver (WakeSources): *)
(* signals, for every number of listeners and of signals, and intervals,   *)
(* for every period and however late their program is.                     *)
(***************************************************************************)
EXTENDS WakeSources, FiniteSetTheorems, TLAPS

-----------------------------------------------------------------------------
(* Signals: the inductive invariant.                                       *)

SignalType ==
  /\ refs \in Nat
  /\ entry \in States \cup {NoState}
  /\ counter \in [States -> Nat \cup {NoState}]
  /\ wakers \in [States -> SUBSET Listeners]
  /\ lpc \in [Listeners ->
       {"none", "registered", "idle", "loaded", "pending", "restore"}]
  /\ state \in [Listeners -> States \cup {NoState}]
  /\ last_seen \in [Listeners -> Nat]
  /\ received \in [Listeners -> Nat]
  /\ listener_woken \in [Listeners -> BOOLEAN]
  /\ pipe \in Nat /\ pending \in Nat /\ raised \in Nat
  /\ dpc \in {"read", "count", "take", "wake"}
  /\ dstate \in States \cup {NoState}
  /\ dwake \subseteq Listeners

IsLive(l) == lpc[l] \in {"idle", "loaded", "pending"}
Counts(l) == IsLive(l) \/ lpc[l] = "registered"

Registry ==
  /\ IsFiniteSet(Signals!Counting)
  /\ refs = Cardinality(Signals!Counting)
  /\ entry = NoState <=> refs = 0
  /\ \A l \in Listeners : Counts(l) => state[l] = entry

\* A SignalState that is in use has a counter that counts, and nobody has
\* seen more of it than there is.
Counters ==
  /\ entry # NoState => counter[entry] \in Nat
  /\ dpc \in {"count", "take"} => dstate \in States /\ counter[dstate] \in Nat
  /\ dpc # "wake" => dwake = {}
  /\ \A l \in Listeners : IsLive(l) => last_seen[l] <= counter[state[l]]

\* The signals that a listener has not seen yet.
Unseen(l) == IF IsLive(l) THEN counter[state[l]] - last_seen[l] ELSE 0

\* A signal is received, counted and not seen, being dispatched, or in the
\* pipe, as far as a listener is concerned; or it is lost.
NoneInvented ==
  \A l \in Listeners :
    received[l] + Unseen(l) + pipe + pending + (IF dpc = "count" THEN 1 ELSE 0)
      <= raised

SignalInv ==
  SignalType /\ Registry /\ Counters /\ WaiterIsListed /\ NoneInvented

-----------------------------------------------------------------------------
(* Facts that the steps use.                                               *)

LEMMA CountingIs ==
  \A l : l \in Signals!Counting <=> l \in Listeners /\ Counts(l)
BY DEF Signals!Counting, Signals!Live, Counts, IsLive

LEMMA CountingIsNext ==
  \A l : l \in Signals!Counting' <=> l \in Listeners /\ Counts(l)'
BY DEF Signals!Counting, Signals!Live, Counts, IsLive

LEMMA NoStateIsNone ==
  NoState \notin States /\ NoState \notin Nat
BY WakeSourcesAssumption DEF WakeSourcesAssumption

\* The entry of a listener that exists is there and counts.
LEMMA EntryCounts ==
  ASSUME SignalInv, NEW l \in Listeners, Counts(l)
  PROVE  /\ state[l] = entry /\ entry \in States /\ counter[entry] \in Nat
         /\ refs \in Nat /\ refs # 0
<1>1. l \in Signals!Counting
  BY CountingIs
<1>2. refs # 0
  BY <1>1, FS_EmptySet DEF SignalInv, Registry
<1> QED
  BY <1>2 DEF SignalInv, SignalType, Registry, Counters

LEMMA NobodyCounts ==
  ASSUME SignalInv, entry = NoState
  PROVE  Signals!Counting = {} /\ \A l \in Listeners : ~Counts(l)
<1>1. \A l \in Listeners : ~Counts(l)
  BY EntryCounts, NoStateIsNone
<1> QED
  BY <1>1, CountingIs

LEMMA UnseenType ==
  ASSUME SignalInv, NEW l \in Listeners
  PROVE  /\ Unseen(l) \in Nat /\ received[l] \in Nat /\ last_seen[l] \in Nat
         /\ IsLive(l) => Unseen(l) = counter[entry] - last_seen[l]
<1>1. CASE IsLive(l)
  <2>1. state[l] = entry /\ counter[entry] \in Nat
    BY <1>1, EntryCounts DEF Counts
  <2>2. last_seen[l] <= counter[entry] /\ last_seen[l] \in Nat
    BY <1>1, <2>1 DEF SignalInv, SignalType, Counters
  <2> QED
    BY <1>1, <2>1, <2>2 DEF Unseen, SignalInv, SignalType
<1>2. CASE ~IsLive(l)
  BY <1>2 DEF Unseen, SignalInv, SignalType
<1> QED
  BY <1>1, <1>2

LEMMA RegistrySame ==
  ASSUME SignalInv, UNCHANGED <<refs, entry>>,
         \A l \in Listeners : (Counts(l)' <=> Counts(l)),
         \A l \in Listeners : Counts(l) => state'[l] = state[l]
  PROVE  Registry'
<1>1. Signals!Counting' = Signals!Counting
  BY CountingIs, CountingIsNext
<1> QED
  BY <1>1 DEF SignalInv, Registry

\* The step is of the dispatch thread or the handler: listeners stay.
LEMMA ListenersSame ==
  ASSUME SignalInv, UNCHANGED <<refs, entry, lpc, state>>
  PROVE  Registry' /\ \A l \in Listeners : (IsLive(l)' <=> IsLive(l))
<1>1. \A l \in Listeners : (IsLive(l)' <=> IsLive(l)) /\ (Counts(l)' <=> Counts(l))
  BY DEF IsLive, Counts
<1> QED
  BY <1>1, RegistrySame

\* One listener more is counted, or one fewer.
LEMMA OneMore ==
  ASSUME SignalInv, NEW l \in Listeners, ~Counts(l),
         \A k \in Listeners : (Counts(k)' <=> (k = l \/ Counts(k)))
  PROVE  /\ IsFiniteSet(Signals!Counting')
         /\ Cardinality(Signals!Counting') = refs + 1
<1>1. Signals!Counting' = Signals!Counting \cup {l}
  BY CountingIs, CountingIsNext
<1>2. l \notin Signals!Counting
  BY CountingIs
<1>3. IsFiniteSet(Signals!Counting) /\ refs = Cardinality(Signals!Counting)
  BY DEF SignalInv, Registry
<1> QED
  BY <1>1, <1>2, <1>3, FS_AddElement

LEMMA OneFewer ==
  ASSUME SignalInv, NEW l \in Listeners, Counts(l),
         \A k \in Listeners : (Counts(k)' <=> (k # l /\ Counts(k)))
  PROVE  /\ IsFiniteSet(Signals!Counting')
         /\ Cardinality(Signals!Counting') = refs - 1
<1>1. Signals!Counting' = Signals!Counting \ {l}
  BY CountingIs, CountingIsNext
<1>2. l \in Signals!Counting
  BY CountingIs
<1>3. IsFiniteSet(Signals!Counting) /\ refs = Cardinality(Signals!Counting)
  BY DEF SignalInv, Registry
<1> QED
  BY <1>1, <1>2, <1>3, FS_RemoveElement

\* What a step leaves a listener with that it does not concern.
Same(k) ==
  /\ lpc'[k] = lpc[k] /\ state'[k] = state[k]
  /\ last_seen'[k] = last_seen[k] /\ received'[k] = received[k]
  /\ listener_woken'[k] = listener_woken[k]

LEMMA SameListener ==
  ASSUME SignalInv, NEW k \in Listeners, Same(k)
  PROVE  (IsLive(k)' <=> IsLive(k)) /\ (Counts(k)' <=> Counts(k))
BY DEF Same, IsLive, Counts

-----------------------------------------------------------------------------
(* The steps of a listener.                                                *)

LEMMA JoinsEntry ==
  ASSUME SignalInv, NEW l \in Listeners, Signals!Register(l), entry # NoState
  PROVE  SignalInv'
<1>1. /\ lpc[l] = "none" /\ refs' = refs + 1
      /\ lpc' = [lpc EXCEPT ![l] = "registered"]
      /\ state' = [state EXCEPT ![l] = entry]
      /\ UNCHANGED <<entry, counter, wakers, last_seen, received,
                     listener_woken, pipe, pending, dpc, dstate, dwake, raised>>
  BY DEF Signals!Register, Signals!disVars
<1>2. SignalType'
  BY <1>1 DEF SignalInv, SignalType
<1>3. \A k \in Listeners : k # l => Same(k)
  BY <1>1 DEF SignalInv, SignalType, Same
<1>4. lpc'[l] = "registered" /\ state'[l] = entry
  BY <1>1 DEF SignalInv, SignalType
<1>5. /\ \A k \in Listeners : (Counts(k)' <=> (k = l \/ Counts(k)))
      /\ \A k \in Listeners : (IsLive(k)' <=> IsLive(k))
      /\ ~Counts(l) /\ ~IsLive(l)
  BY <1>1, <1>3, <1>4, SameListener DEF Counts, IsLive
<1>6. Registry'
  <2>1. IsFiniteSet(Signals!Counting') /\ Cardinality(Signals!Counting') = refs'
    BY <1>1, <1>5, OneMore
  <2>2. refs \in Nat /\ refs' # 0 /\ entry' # NoState
    BY <1>1 DEF SignalInv, SignalType
  <2>3. \A k \in Listeners : Counts(k)' => state'[k] = entry'
    BY <1>1, <1>3, <1>4, <1>5 DEF SignalInv, Registry, Same
  <2> QED
    BY <2>1, <2>2, <2>3 DEF Registry
<1>7. Counters'
  BY <1>1, <1>3, <1>5 DEF SignalInv, Counters, Same
<1>8. WaiterIsListed'
  BY <1>1, <1>3, <1>4
     DEF SignalInv, WaiterIsListed, Signals!WaiterIsListed, Same
<1>9. NoneInvented'
  <2>1. \A k \in Listeners : Unseen(k)' = Unseen(k) /\ received'[k] = received[k]
    BY <1>1, <1>3, <1>5 DEF Unseen, Same
  <2> QED
    BY <1>1, <2>1 DEF SignalInv, NoneInvented
<1> QED
  BY <1>2, <1>6, <1>7, <1>8, <1>9 DEF SignalInv

LEMMA MakesEntry ==
  ASSUME SignalInv, NEW l \in Listeners, Signals!Register(l), entry = NoState
  PROVE  SignalInv'
<1>0. PICK s \in States :
        /\ entry' = s /\ refs' = 1
        /\ counter[s] = NoState
        /\ counter' = [counter EXCEPT ![s] = 0]
        /\ wakers' = [wakers EXCEPT ![s] = {}]
        /\ state' = [state EXCEPT ![l] = s]
  BY DEF Signals!Register
<1>1. /\ lpc[l] = "none"
      /\ lpc' = [lpc EXCEPT ![l] = "registered"]
      /\ UNCHANGED <<last_seen, received, listener_woken, pipe, pending, dpc,
                     dstate, dwake, raised>>
  BY DEF Signals!Register, Signals!disVars
<1>2. SignalType'
  BY <1>0, <1>1 DEF SignalInv, SignalType
<1>3. \A k \in Listeners : k # l => Same(k)
  BY <1>0, <1>1 DEF SignalInv, SignalType, Same
<1>4. lpc'[l] = "registered" /\ state'[l] = s
  BY <1>0, <1>1 DEF SignalInv, SignalType
<1>5. \A k \in Listeners : ~Counts(k) /\ ~IsLive(k)
  BY NobodyCounts DEF Counts
<1>6. /\ \A k \in Listeners : (Counts(k)' <=> (k = l \/ Counts(k)))
      /\ \A k \in Listeners : ~IsLive(k)'
  BY <1>3, <1>4, <1>5, SameListener DEF Counts, IsLive
<1>7. Registry'
  <2>1. refs = 0
    BY DEF SignalInv, Registry
  <2>2. IsFiniteSet(Signals!Counting') /\ Cardinality(Signals!Counting') = refs'
    BY <1>0, <1>5, <1>6, <2>1, OneMore
  <2>3. \A k \in Listeners : Counts(k)' => state'[k] = entry'
    BY <1>0, <1>4, <1>5, <1>6
  <2> QED
    BY <1>0, <2>2, <2>3, NoStateIsNone DEF Registry
<1>8. Counters'
  <2>1. counter'[s] = 0 /\ \A t \in States : t # s => counter'[t] = counter[t]
    BY <1>0 DEF SignalInv, SignalType
  <2>2. dpc \in {"count", "take"} => dstate \in States /\ dstate # s
    BY <1>0, NoStateIsNone DEF SignalInv, Counters
  <2> QED
    BY <1>0, <1>1, <1>6, <2>1, <2>2 DEF SignalInv, Counters
<1>9. WaiterIsListed'
  <2>1. \A k \in Listeners : lpc'[k] # "pending"
    BY <1>6 DEF IsLive
  <2> QED
    BY <2>1 DEF WaiterIsListed, Signals!WaiterIsListed
<1>10. NoneInvented'
  <2>1. \A k \in Listeners : Unseen(k)' = 0 /\ Unseen(k) = 0
    BY <1>5, <1>6 DEF Unseen
  <2> QED
    BY <1>1, <2>1 DEF SignalInv, NoneInvented
<1> QED
  BY <1>2, <1>7, <1>8, <1>9, <1>10 DEF SignalInv

LEMMA BeginsToSee ==
  ASSUME SignalInv, NEW l \in Listeners, Signals!NewListenerSeen(l)
  PROVE  SignalInv'
<1>1. /\ lpc[l] = "registered"
      /\ lpc' = [lpc EXCEPT ![l] = "idle"]
      /\ last_seen' = [last_seen EXCEPT ![l] = counter[state[l]]]
      /\ UNCHANGED <<refs, entry, counter, wakers, state, received,
                     listener_woken, pipe, pending, dpc, dstate, dwake, raised>>
  BY DEF Signals!NewListenerSeen, Signals!disVars, Signals!regVars
<1>2. state[l] = entry /\ counter[state[l]] \in Nat
  BY <1>1, EntryCounts DEF Counts
<1>3. SignalType'
  BY <1>1, <1>2 DEF SignalInv, SignalType
<1>4. \A k \in Listeners : k # l => Same(k)
  BY <1>1 DEF SignalInv, SignalType, Same
<1>5. lpc'[l] = "idle" /\ last_seen'[l] = counter[state[l]]
  BY <1>1 DEF SignalInv, SignalType
<1>6. /\ \A k \in Listeners : (Counts(k)' <=> Counts(k))
      /\ \A k \in Listeners : k # l => (IsLive(k)' <=> IsLive(k))
      /\ IsLive(l)' /\ ~IsLive(l)
  BY <1>1, <1>4, <1>5, SameListener DEF Counts, IsLive
<1>7. Registry'
  BY <1>1, <1>6, RegistrySame
<1>8. Counters'
  BY <1>1, <1>2, <1>4, <1>5, <1>6 DEF SignalInv, Counters, Same
<1>9. WaiterIsListed'
  BY <1>1, <1>4, <1>5
     DEF SignalInv, WaiterIsListed, Signals!WaiterIsListed, Same
<1>10. NoneInvented'
  <2>1. \A k \in Listeners : Unseen(k)' = Unseen(k) /\ received'[k] = received[k]
    BY <1>1, <1>2, <1>4, <1>5, <1>6 DEF Unseen, Same
  <2> QED
    BY <1>1, <2>1 DEF SignalInv, NoneInvented
<1> QED
  BY <1>3, <1>7, <1>8, <1>9, <1>10 DEF SignalInv

\* poll_recv returns Ready, once however many signals were counted.
LEMMA Receives ==
  ASSUME SignalInv, NEW l \in Listeners, Signals!PollLoad(l),
         counter[state[l]] # last_seen[l]
  PROVE  SignalInv'
<1>1. /\ lpc[l] \in {"idle", "pending"}
      /\ lpc' = [lpc EXCEPT ![l] = "idle"]
      /\ last_seen' = [last_seen EXCEPT ![l] = counter[state[l]]]
      /\ received' = [received EXCEPT ![l] = @ + 1]
      /\ listener_woken' = [listener_woken EXCEPT ![l] = FALSE]
      /\ UNCHANGED <<refs, entry, counter, wakers, state, pipe, pending, dpc,
                     dstate, dwake, raised>>
  BY DEF Signals!PollLoad, Signals!disVars, Signals!regVars
<1>2. state[l] = entry /\ counter[state[l]] \in Nat /\ IsLive(l)
  BY <1>1, EntryCounts DEF Counts, IsLive
<1>3. SignalType'
  BY <1>1, <1>2 DEF SignalInv, SignalType
<1>4. \A k \in Listeners : k # l => Same(k)
  BY <1>1 DEF SignalInv, SignalType, Same
<1>5. /\ lpc'[l] = "idle" /\ last_seen'[l] = counter[state[l]]
      /\ received'[l] = received[l] + 1
  BY <1>1 DEF SignalInv, SignalType
<1>6. /\ \A k \in Listeners : (Counts(k)' <=> Counts(k))
      /\ \A k \in Listeners : (IsLive(k)' <=> IsLive(k))
  BY <1>1, <1>4, <1>5, SameListener DEF Counts, IsLive
<1>7. Registry'
  BY <1>1, <1>6, RegistrySame
<1>8. Counters'
  BY <1>1, <1>2, <1>4, <1>5, <1>6 DEF SignalInv, Counters, Same
<1>9. WaiterIsListed'
  BY <1>1, <1>4, <1>5
     DEF SignalInv, WaiterIsListed, Signals!WaiterIsListed, Same
<1>10. NoneInvented'
  <2>1. \A k \in Listeners : k # l =>
          Unseen(k)' = Unseen(k) /\ received'[k] = received[k]
    BY <1>1, <1>4, <1>6 DEF Unseen, Same
  <2>2. Unseen(l)' = 0 /\ Unseen(l) \in Nat /\ Unseen(l) # 0
        /\ received[l] \in Nat
    <3>1. Unseen(l)' = 0
      BY <1>1, <1>2, <1>5, <1>6 DEF Unseen
    <3>2. /\ Unseen(l) \in Nat /\ received[l] \in Nat /\ last_seen[l] \in Nat
          /\ Unseen(l) = counter[state[l]] - last_seen[l]
      BY <1>2, UnseenType
    <3> QED
      BY <1>2, <3>1, <3>2
  <2>3. raised \in Nat /\ pipe \in Nat /\ pending \in Nat
    BY DEF SignalInv, SignalType
  <2> DEFINE c == IF dpc = "count" THEN 1 ELSE 0
  <2>4. c \in Nat /\ c' = c
    BY <1>1
  <2>5. received[l] + Unseen(l) + pipe + pending + c <= raised
    BY DEF SignalInv, NoneInvented
  <2> HIDE DEF c
  <2>6. received'[l] + Unseen(l)' + pipe' + pending' + c' <= raised'
    BY <1>1, <1>5, <2>2, <2>3, <2>4, <2>5
  <2>7. \A k \in Listeners : k # l =>
          received'[k] + Unseen(k)' + pipe' + pending' + c' <= raised'
    BY <1>1, <2>1, <2>4 DEF SignalInv, NoneInvented, c
  <2> QED
    BY <2>6, <2>7 DEF NoneInvented, c
<1> QED
  BY <1>3, <1>7, <1>8, <1>9, <1>10 DEF SignalInv

LEMMA FindsNothing ==
  ASSUME SignalInv, NEW l \in Listeners, Signals!PollLoad(l),
         counter[state[l]] = last_seen[l]
  PROVE  SignalInv'
<1>1. /\ lpc[l] \in {"idle", "pending"}
      /\ lpc' = [lpc EXCEPT ![l] = "loaded"]
      /\ listener_woken' = [listener_woken EXCEPT ![l] = FALSE]
      /\ UNCHANGED <<refs, entry, counter, wakers, state, last_seen, received,
                     pipe, pending, dpc, dstate, dwake, raised>>
  BY DEF Signals!PollLoad, Signals!disVars, Signals!regVars
<1>3. SignalType'
  BY <1>1 DEF SignalInv, SignalType
<1>4. \A k \in Listeners : k # l => Same(k)
  BY <1>1 DEF SignalInv, SignalType, Same
<1>5. lpc'[l] = "loaded"
  BY <1>1 DEF SignalInv, SignalType
<1>6. /\ \A k \in Listeners : (Counts(k)' <=> Counts(k))
      /\ \A k \in Listeners : (IsLive(k)' <=> IsLive(k))
  BY <1>1, <1>4, <1>5, SameListener DEF Counts, IsLive
<1>7. Registry'
  BY <1>1, <1>6, RegistrySame
<1>8. Counters'
  BY <1>1, <1>6 DEF SignalInv, Counters
<1>9. WaiterIsListed'
  BY <1>1, <1>4, <1>5
     DEF SignalInv, WaiterIsListed, Signals!WaiterIsListed, Same
<1>10. NoneInvented'
  <2>1. \A k \in Listeners : Unseen(k)' = Unseen(k)
    BY <1>1, <1>6 DEF Unseen
  <2> QED
    BY <1>1, <2>1 DEF SignalInv, NoneInvented
<1> QED
  BY <1>3, <1>7, <1>8, <1>9, <1>10 DEF SignalInv

LEMMA Waits ==
  ASSUME SignalInv, NEW l \in Listeners, Signals!PollRegister(l)
  PROVE  SignalInv'
<1>1. /\ lpc[l] = "loaded"
      /\ lpc' = [lpc EXCEPT ![l] = "pending"]
      /\ wakers' = [wakers EXCEPT ![state[l]] = @ \cup {l}]
      /\ UNCHANGED <<refs, entry, counter, state, last_seen, received,
                     listener_woken, pipe, pending, dpc, dstate, dwake, raised>>
  BY DEF Signals!PollRegister, Signals!disVars, Signals!regVars
<1>2. state[l] \in States
  BY <1>1, EntryCounts DEF Counts, IsLive
<1>3. SignalType'
  BY <1>1, <1>2 DEF SignalInv, SignalType
<1>4. \A k \in Listeners : k # l => Same(k)
  BY <1>1 DEF SignalInv, SignalType, Same
<1>5. lpc'[l] = "pending"
  BY <1>1 DEF SignalInv, SignalType
<1>6. /\ \A k \in Listeners : (Counts(k)' <=> Counts(k))
      /\ \A k \in Listeners : (IsLive(k)' <=> IsLive(k))
  BY <1>1, <1>4, <1>5, SameListener DEF Counts, IsLive
<1>7. Registry'
  BY <1>1, <1>6, RegistrySame
<1>8. Counters'
  BY <1>1, <1>6 DEF SignalInv, Counters
<1>9. WaiterIsListed'
  <2>1. l \in wakers'[state'[l]] /\ \A t \in States : wakers[t] \subseteq wakers'[t]
    BY <1>1, <1>2 DEF SignalInv, SignalType
  <2>2. \A k \in Listeners : IsLive(k) => state[k] \in States
    BY EntryCounts DEF Counts
  <2>3. \A k \in Listeners : lpc[k] = "pending" => state[k] \in States
    BY <2>2 DEF IsLive
  <2> QED
    BY <1>1, <1>4, <2>1, <2>3
       DEF SignalInv, WaiterIsListed, Signals!WaiterIsListed, Same
<1>10. NoneInvented'
  <2>1. \A k \in Listeners : Unseen(k)' = Unseen(k)
    BY <1>1, <1>6 DEF Unseen
  <2> QED
    BY <1>1, <2>1 DEF SignalInv, NoneInvented
<1> QED
  BY <1>3, <1>7, <1>8, <1>9, <1>10 DEF SignalInv

LEMMA Goes ==
  ASSUME SignalInv, NEW l \in Listeners, Signals!Unregister(l)
  PROVE  SignalInv'
<1>0. lpc[l] \in {"idle", "pending"} /\ Counts(l) /\ IsLive(l) /\ entry # NoState
  BY DEF Signals!Unregister, Counts, IsLive
<1>1. /\ state' = [state EXCEPT ![l] = NoState]
      /\ last_seen' = [last_seen EXCEPT ![l] = 0]
      /\ listener_woken' = [listener_woken EXCEPT ![l] = FALSE]
      /\ UNCHANGED <<counter, wakers, received, pipe, pending, dpc, dstate,
                     dwake, raised>>
  BY DEF Signals!Unregister, Signals!disVars
<1>2. \/ refs > 1 /\ refs' = refs - 1 /\ entry' = entry
           /\ lpc' = [lpc EXCEPT ![l] = "none"]
      \/ ~(refs > 1) /\ refs' = 0 /\ entry' = NoState
           /\ lpc' = [lpc EXCEPT ![l] = "restore"]
  BY DEF Signals!Unregister
<1>3. refs \in Nat /\ refs # 0 /\ refs' = refs - 1
  BY <1>0, <1>2, EntryCounts
<1>4. SignalType'
  <2>1. refs' \in Nat /\ entry' \in States \cup {NoState}
    BY <1>2, <1>3 DEF SignalInv, SignalType
  <2>2. lpc' \in [Listeners ->
          {"none", "registered", "idle", "loaded", "pending", "restore"}]
    BY <1>2 DEF SignalInv, SignalType
  <2> QED
    BY <1>1, <2>1, <2>2 DEF SignalInv, SignalType
<1>5. \A k \in Listeners : k # l => Same(k)
  BY <1>1, <1>2 DEF SignalInv, SignalType, Same
<1>6. lpc'[l] \in {"none", "restore"}
  BY <1>2 DEF SignalInv, SignalType
<1>7. /\ \A k \in Listeners : (Counts(k)' <=> (k # l /\ Counts(k)))
      /\ \A k \in Listeners : (IsLive(k)' <=> (k # l /\ IsLive(k)))
  BY <1>5, <1>6, SameListener DEF Counts, IsLive
<1>8. Registry'
  <2>1. IsFiniteSet(Signals!Counting') /\ Cardinality(Signals!Counting') = refs'
    BY <1>0, <1>3, <1>7, OneFewer
  <2>2. entry' = NoState <=> refs' = 0
    BY <1>0, <1>2, <1>3
  <2>3. ASSUME NEW k \in Listeners, Counts(k)' PROVE state'[k] = entry'
    <3>1. k # l /\ Counts(k) /\ state'[k] = entry
      BY <1>5, <1>7, <2>3 DEF SignalInv, Registry, Same
    <3>2. k \in Signals!Counting'
      BY <2>3, CountingIsNext
    <3>3. refs' # 0
      BY <2>1, <3>2, FS_EmptySet
    <3> QED
      BY <1>2, <3>1, <3>3
  <2> QED
    BY <2>1, <2>2, <2>3 DEF Registry
<1>9. Counters'
  <2>1. entry' # NoState => entry' = entry
    BY <1>2
  <2> QED
    BY <1>1, <1>5, <1>7, <2>1 DEF SignalInv, Counters, Same
<1>10. WaiterIsListed'
  BY <1>1, <1>5, <1>6
     DEF SignalInv, WaiterIsListed, Signals!WaiterIsListed, Same
<1>11. NoneInvented'
  <2>1. \A k \in Listeners : k # l => Unseen(k)' = Unseen(k)
    BY <1>1, <1>5, <1>7 DEF Unseen, Same
  <2>2. Unseen(l)' = 0 /\ Unseen(l) \in Nat /\ received[l] \in Nat
    BY <1>7, UnseenType DEF Unseen
  <2>3. raised \in Nat /\ pipe \in Nat /\ pending \in Nat
    BY DEF SignalInv, SignalType
  <2> QED
    BY <1>1, <2>1, <2>2, <2>3 DEF SignalInv, NoneInvented
<1> QED
  BY <1>4, <1>8, <1>9, <1>10, <1>11 DEF SignalInv

LEMMA Restores ==
  ASSUME SignalInv, NEW l \in Listeners, Signals!Restore(l)
  PROVE  SignalInv'
<1>1. /\ lpc[l] = "restore"
      /\ lpc' = [lpc EXCEPT ![l] = "none"]
      /\ UNCHANGED <<refs, entry, counter, wakers, state, last_seen, received,
                     listener_woken, pipe, pending, dpc, dstate, dwake, raised>>
  BY DEF Signals!Restore, Signals!disVars
<1>2. SignalType'
  BY <1>1 DEF SignalInv, SignalType
<1>3. \A k \in Listeners : k # l => Same(k)
  BY <1>1 DEF SignalInv, SignalType, Same
<1>4. lpc'[l] = "none"
  BY <1>1 DEF SignalInv, SignalType
<1>5. /\ \A k \in Listeners : (Counts(k)' <=> Counts(k))
      /\ \A k \in Listeners : (IsLive(k)' <=> IsLive(k))
  BY <1>1, <1>3, <1>4, SameListener DEF Counts, IsLive
<1>6. Registry'
  BY <1>1, <1>5, RegistrySame
<1>7. Counters'
  BY <1>1, <1>5 DEF SignalInv, Counters
<1>8. WaiterIsListed'
  BY <1>1, <1>3, <1>4
     DEF SignalInv, WaiterIsListed, Signals!WaiterIsListed, Same
<1>9. NoneInvented'
  <2>1. \A k \in Listeners : Unseen(k)' = Unseen(k)
    BY <1>1, <1>5 DEF Unseen
  <2> QED
    BY <1>1, <2>1 DEF SignalInv, NoneInvented
<1> QED
  BY <1>2, <1>6, <1>7, <1>8, <1>9 DEF SignalInv

-----------------------------------------------------------------------------
(* The steps of the signal handler and of the dispatch thread.             *)

\* The signals on their way to the listeners.
LEMMA OnTheWay ==
  ASSUME SignalInv, UNCHANGED <<refs, entry, lpc, state, last_seen, received,
                                counter, wakers, listener_woken>>,
         pipe' \in Nat, pending' \in Nat, raised' \in Nat,
         dwake' = dwake,
         \/ UNCHANGED <<dpc, dstate>>
         \/ dpc = "read" /\ dstate' = entry
              /\ dpc' = IF entry = NoState THEN "read" ELSE "count",
         \A n \in Nat :
           n + pipe + pending + (IF dpc = "count" THEN 1 ELSE 0) <= raised =>
           n + pipe' + pending' + (IF dpc' = "count" THEN 1 ELSE 0) <= raised'
  PROVE  SignalInv'
<1>1. SignalType'
  BY DEF SignalInv, SignalType
<1>2. Registry' /\ \A l \in Listeners : (IsLive(l)' <=> IsLive(l))
  BY ListenersSame
<1>3. Counters'
  BY <1>2 DEF SignalInv, SignalType, Counters
<1>4. WaiterIsListed'
  BY DEF SignalInv, WaiterIsListed, Signals!WaiterIsListed
<1>5. ASSUME NEW l \in Listeners
      PROVE  received'[l] + Unseen(l)' + pipe' + pending'
               + (IF dpc' = "count" THEN 1 ELSE 0) <= raised'
  <2>1. Unseen(l)' = Unseen(l)
    BY <1>2 DEF Unseen
  <2> DEFINE n == received[l] + Unseen(l)
  <2>2. n \in Nat /\ received'[l] + Unseen(l)' = n
    BY <2>1, UnseenType
  <2>3. n + pipe + pending + (IF dpc = "count" THEN 1 ELSE 0) <= raised
    BY DEF SignalInv, NoneInvented
  <2> HIDE DEF n
  <2> QED
    BY <2>2, <2>3
<1> QED
  BY <1>1, <1>2, <1>3, <1>4, <1>5 DEF SignalInv, NoneInvented

LEMMA Raises ==
  ASSUME SignalInv, Signals!Raise
  PROVE  SignalInv'
<1>1. /\ UNCHANGED <<refs, entry, lpc, state, last_seen, received, counter,
                     wakers, listener_woken, pending, dpc, dstate, dwake>>
      /\ raised' = raised + 1 /\ pipe' \in {pipe, pipe + 1}
  BY DEF Signals!Raise, Signals!regVars, Signals!lisVars
<1>2. raised \in Nat /\ pipe \in Nat /\ pending \in Nat
  BY DEF SignalInv, SignalType
<1>3. \A n \in Nat :
        n + pipe + pending + (IF dpc = "count" THEN 1 ELSE 0) <= raised =>
        n + pipe' + pending' + (IF dpc' = "count" THEN 1 ELSE 0) <= raised'
  <2> DEFINE c == IF dpc = "count" THEN 1 ELSE 0
  <2>1. c \in Nat /\ c' = c
    BY <1>1
  <2> HIDE DEF c
  <2>2. ASSUME NEW n \in Nat, n + pipe + pending + c <= raised
        PROVE  n + pipe' + pending' + c' <= raised'
    <3>1. CASE pipe' = pipe
      BY <1>1, <1>2, <2>1, <2>2, <3>1
    <3>2. CASE pipe' = pipe + 1
      BY <1>1, <1>2, <2>1, <2>2, <3>2
    <3> QED
      BY <1>1, <3>1, <3>2
  <2> QED
    BY <2>2 DEF c
<1>4. pipe' \in Nat /\ raised' \in Nat /\ pending' \in Nat
  BY <1>1, <1>2
<1> QED
  BY <1>1, <1>3, <1>4, OnTheWay

LEMMA Reads ==
  ASSUME SignalInv, Signals!DispatchRead
  PROVE  SignalInv'
<1>1. /\ UNCHANGED <<refs, entry, lpc, state, last_seen, received, counter,
                     wakers, listener_woken, raised, dpc, dstate, dwake>>
      /\ pending = 0 /\ pending' = pipe /\ pipe' = 0
  BY DEF Signals!DispatchRead, Signals!regVars, Signals!lisVars
<1>2. raised \in Nat /\ pipe \in Nat
  BY DEF SignalInv, SignalType
<1>3. \A n \in Nat :
        n + pipe + pending + (IF dpc = "count" THEN 1 ELSE 0) <= raised =>
        n + pipe' + pending' + (IF dpc' = "count" THEN 1 ELSE 0) <= raised'
  BY <1>1, <1>2
<1> QED
  BY <1>1, <1>2, <1>3, OnTheWay

LEMMA LooksUp ==
  ASSUME SignalInv, Signals!DispatchLookup
  PROVE  SignalInv'
<1>1. /\ UNCHANGED <<refs, entry, lpc, state, last_seen, received, counter,
                     wakers, listener_woken, raised, pipe, dwake>>
      /\ dpc = "read" /\ pending > 0 /\ pending' = pending - 1
      /\ dstate' = entry
      /\ dpc' = IF entry = NoState THEN "read" ELSE "count"
  BY DEF Signals!DispatchLookup, Signals!regVars, Signals!lisVars
<1>2. raised \in Nat /\ pipe \in Nat /\ pending \in Nat /\ pending' \in Nat
  BY <1>1 DEF SignalInv, SignalType
<1>3. \A n \in Nat :
        n + pipe + pending + (IF dpc = "count" THEN 1 ELSE 0) <= raised =>
        n + pipe' + pending' + (IF dpc' = "count" THEN 1 ELSE 0) <= raised'
  BY <1>1, <1>2
<1> QED
  BY <1>1, <1>2, <1>3, OnTheWay

\* The counter of an entry that is gone may be counted up as well: nobody is
\* left that reads it.
LEMMA CountsUp ==
  ASSUME SignalInv, Signals!DispatchCount
  PROVE  SignalInv'
<1>1. /\ UNCHANGED <<refs, entry, lpc, state, last_seen, received, wakers,
                     listener_woken, raised, pipe, pending, dstate, dwake>>
      /\ dpc = "count" /\ dpc' = "take"
      /\ counter' = [counter EXCEPT ![dstate] = @ + 1]
  BY DEF Signals!DispatchCount, Signals!regVars, Signals!lisVars
<1>2. dstate \in States /\ counter[dstate] \in Nat
  BY <1>1 DEF SignalInv, Counters
<1>3. /\ counter'[dstate] = counter[dstate] + 1
      /\ \A t \in States : t # dstate => counter'[t] = counter[t]
  BY <1>1, <1>2 DEF SignalInv, SignalType
<1>4. SignalType'
  BY <1>1, <1>2 DEF SignalInv, SignalType
<1>5. Registry' /\ \A l \in Listeners : (IsLive(l)' <=> IsLive(l))
  BY <1>1, ListenersSame
<1>6. \A l \in Listeners : IsLive(l) =>
        /\ state[l] = entry /\ entry \in States /\ counter[entry] \in Nat
        /\ last_seen[l] \in Nat /\ last_seen[l] <= counter[entry]
  <2>1. \A l \in Listeners : IsLive(l) =>
          state[l] = entry /\ entry \in States /\ counter[entry] \in Nat
    BY EntryCounts DEF Counts
  <2> QED
    BY <2>1 DEF SignalInv, SignalType, Counters
<1>7. entry \in States => counter'[entry] \in {counter[entry], counter[entry] + 1}
  BY <1>3
<1>8. Counters'
  <2>1. entry' # NoState => counter'[entry'] \in Nat
    <3>1. entry # NoState => entry \in States /\ counter[entry] \in Nat
      BY DEF SignalInv, SignalType, Counters
    <3> QED
      BY <1>1, <1>7, <3>1
  <2>2. \A l \in Listeners : IsLive(l)' => last_seen'[l] <= counter'[state'[l]]
    BY <1>1, <1>5, <1>6, <1>7
  <2>3. dwake' = {}
    BY <1>1 DEF SignalInv, Counters
  <2> QED
    BY <1>1, <1>2, <1>3, <2>1, <2>2, <2>3 DEF Counters
<1>9. WaiterIsListed'
  BY <1>1 DEF SignalInv, WaiterIsListed, Signals!WaiterIsListed
<1>10. ASSUME NEW l \in Listeners
       PROVE  received'[l] + Unseen(l)' + pipe' + pending' + 0 <= raised'
  <2>1. Unseen(l) \in Nat /\ received[l] \in Nat
    BY UnseenType
  <2>2. Unseen(l)' \in {Unseen(l), Unseen(l) + 1}
    <3>1. CASE IsLive(l)
      <4>1. /\ Unseen(l) = counter[entry] - last_seen[l]
            /\ Unseen(l)' = counter'[entry] - last_seen[l]
        BY <1>1, <1>5, <1>6, <3>1 DEF Unseen
      <4> QED
        BY <1>6, <1>7, <3>1, <4>1
    <3>2. CASE ~IsLive(l)
      BY <1>5, <3>2 DEF Unseen
    <3> QED
      BY <3>1, <3>2
  <2>3. raised \in Nat /\ pipe \in Nat /\ pending \in Nat
    BY DEF SignalInv, SignalType
  <2>4. received[l] + Unseen(l) + pipe + pending + 1 <= raised
    BY <1>1 DEF SignalInv, NoneInvented
  <2> QED
    BY <1>1, <2>1, <2>2, <2>3, <2>4
<1>11. NoneInvented'
  BY <1>1, <1>10 DEF NoneInvented
<1> QED
  BY <1>4, <1>5, <1>8, <1>9, <1>11 DEF SignalInv

LEMMA Takes ==
  ASSUME SignalInv, Signals!DispatchTake
  PROVE  SignalInv'
<1>1. /\ UNCHANGED <<refs, entry, lpc, state, last_seen, received, counter,
                     listener_woken, raised, pipe, pending, dstate>>
      /\ dpc = "take" /\ dpc' = "wake"
      /\ dwake' = wakers[dstate]
      /\ wakers' = [wakers EXCEPT ![dstate] = {}]
  BY DEF Signals!DispatchTake, Signals!regVars, Signals!lisVars
<1>2. dstate \in States /\ dwake = {}
  BY <1>1 DEF SignalInv, Counters
<1>3. SignalType'
  BY <1>1, <1>2 DEF SignalInv, SignalType
<1>4. Registry' /\ \A l \in Listeners : (IsLive(l)' <=> IsLive(l))
  BY <1>1, ListenersSame
<1>5. Counters'
  BY <1>1, <1>4 DEF SignalInv, Counters
<1>6. WaiterIsListed'
  <2>1. \A t \in States : t # dstate => wakers'[t] = wakers[t]
    BY <1>1 DEF SignalInv, SignalType
  <2>2. \A k \in Listeners : IsLive(k) => state[k] \in States
    BY EntryCounts DEF Counts
  <2>3. \A k \in Listeners : lpc[k] = "pending" => state[k] \in States
    BY <2>2 DEF IsLive
  <2> QED
    BY <1>1, <1>2, <2>1, <2>3
       DEF SignalInv, WaiterIsListed, Signals!WaiterIsListed
<1>7. NoneInvented'
  <2>1. \A k \in Listeners : Unseen(k)' = Unseen(k)
    BY <1>1, <1>4 DEF Unseen
  <2> QED
    BY <1>1, <2>1 DEF SignalInv, NoneInvented
<1> QED
  BY <1>3, <1>4, <1>5, <1>6, <1>7 DEF SignalInv

LEMMA Wakes ==
  ASSUME SignalInv, Signals!DispatchWake
  PROVE  SignalInv'
<1>1. /\ UNCHANGED <<refs, entry, lpc, state, last_seen, received, counter,
                     wakers, raised, pipe, pending>>
      /\ dpc = "wake"
      /\ \/ /\ dwake = {} /\ dpc' = "read" /\ dstate' = NoState
            /\ UNCHANGED <<listener_woken, dwake>>
         \/ \E l \in dwake :
              /\ listener_woken' = [listener_woken EXCEPT ![l] = TRUE]
              /\ dwake' = dwake \ {l}
              /\ UNCHANGED <<dpc, dstate>>
  BY DEF Signals!DispatchWake, Signals!regVars, Signals!lisVars
<1>2. SignalType'
  BY <1>1 DEF SignalInv, SignalType
<1>3. Registry' /\ \A l \in Listeners : (IsLive(l)' <=> IsLive(l))
  BY <1>1, ListenersSame
<1>4. Counters'
  BY <1>1, <1>3 DEF SignalInv, Counters
<1>5. WaiterIsListed'
  <2>1. CASE UNCHANGED <<listener_woken, dwake>>
    BY <1>1, <2>1 DEF SignalInv, WaiterIsListed, Signals!WaiterIsListed
  <2>2. ASSUME NEW l \in dwake, dwake' = dwake \ {l},
               listener_woken' = [listener_woken EXCEPT ![l] = TRUE]
        PROVE  WaiterIsListed'
    <3>1. \A k \in Listeners : k # l =>
            listener_woken'[k] = listener_woken[k]
              /\ (k \in dwake => k \in dwake')
      BY <2>2 DEF SignalInv, SignalType
    <3>2. l \in Listeners => listener_woken'[l] = TRUE
      BY <2>2 DEF SignalInv, SignalType
    <3> QED
      BY <1>1, <3>1, <3>2
         DEF SignalInv, WaiterIsListed, Signals!WaiterIsListed
  <2> QED
    BY <1>1, <2>1, <2>2
<1>6. NoneInvented'
  <2>1. \A k \in Listeners : Unseen(k)' = Unseen(k)
    BY <1>1, <1>3 DEF Unseen
  <2>2. dpc' # "count" /\ dpc # "count"
    BY <1>1
  <2> QED
    BY <1>1, <2>1, <2>2 DEF SignalInv, NoneInvented
<1> QED
  BY <1>2, <1>3, <1>4, <1>5, <1>6 DEF SignalInv

-----------------------------------------------------------------------------
(* The theorems about signals.                                             *)

LEMMA SignalInvInit ==
  Signals!Init => SignalInv
<1> SUFFICES ASSUME Signals!Init PROVE SignalInv
  OBVIOUS
<1>1. SignalType
  BY DEF Signals!Init, SignalType
<1>2. \A l \in Listeners : lpc[l] = "none"
  BY DEF Signals!Init
<1>3. \A l \in Listeners : ~IsLive(l) /\ ~Counts(l)
  BY <1>2 DEF IsLive, Counts
<1>4. Signals!Counting = {}
  BY <1>3, CountingIs
<1>5. Registry
  BY <1>3, <1>4, FS_EmptySet DEF Signals!Init, Registry
<1>6. Counters
  BY <1>3 DEF Signals!Init, Counters
<1>7. WaiterIsListed
  BY <1>2 DEF WaiterIsListed, Signals!WaiterIsListed
<1>8. NoneInvented
  BY <1>3 DEF Signals!Init, NoneInvented, Unseen
<1> QED
  BY <1>1, <1>5, <1>6, <1>7, <1>8 DEF SignalInv

LEMMA SignalInvStep ==
  SignalInv /\ Signals!Next => SignalInv'
<1> SUFFICES ASSUME SignalInv, Signals!Next PROVE SignalInv'
  OBVIOUS
<1>1. CASE Signals!Raise
  BY <1>1, Raises
<1>2. CASE Signals!Dispatch
  BY <1>2, Reads, LooksUp, CountsUp, Takes, Wakes DEF Signals!Dispatch
<1>3. ASSUME NEW l \in Listeners, Signals!Register(l) PROVE SignalInv'
  BY <1>3, JoinsEntry, MakesEntry
<1>4. ASSUME NEW l \in Listeners, Signals!PollLoad(l) PROVE SignalInv'
  BY <1>4, Receives, FindsNothing
<1>5. ASSUME NEW l \in Listeners,
             Signals!NewListenerSeen(l) \/ Signals!PollRegister(l)
               \/ Signals!Unregister(l) \/ Signals!Restore(l)
      PROVE  SignalInv'
  BY <1>5, BeginsToSee, Waits, Goes, Restores
<1> QED
  BY <1>1, <1>2, <1>3, <1>4, <1>5 DEF Signals!Next

LEMMA SignalInvStutter ==
  SignalInv /\ UNCHANGED signalVars => SignalInv'
<1> SUFFICES ASSUME SignalInv, UNCHANGED signalVars PROVE SignalInv'
  OBVIOUS
<1>1. UNCHANGED <<refs, entry, counter, wakers, lpc, state, last_seen, received,
                  listener_woken, pipe, pending, dpc, dstate, dwake, raised>>
  BY DEF signalVars
<1>2. pipe \in Nat /\ pending \in Nat /\ raised \in Nat
  BY DEF SignalInv, SignalType
<1>3. \A n \in Nat :
        n + pipe + pending + (IF dpc = "count" THEN 1 ELSE 0) <= raised =>
        n + pipe' + pending' + (IF dpc' = "count" THEN 1 ELSE 0) <= raised'
  BY <1>1
<1> QED
  BY <1>1, <1>2, <1>3, OnTheWay

\* However many listeners come and go while signals are raised and dispatched
\* (signal/unix.rs): the registry, the counters that listeners read and the
\* wakers they leave stay consistent.
THEOREM SignalInvariant == Spec => []SignalInv
<1>1. Init => SignalInv
  BY SignalInvInit DEF Init
<1>2. SignalInv /\ [Next]_vars => SignalInv'
  <2>1. [Next]_vars => Signals!Next \/ UNCHANGED signalVars
    BY DEF Next, vars
  <2> QED
    BY <2>1, SignalInvStep, SignalInvStutter
<1> QED
  BY <1>1, <1>2, PTL DEF Spec

\* The registry's reference count is the number of listeners that exist, and
\* they all share the state of its entry: register_signal and the last drop
\* never disagree (signal/unix.rs).
THEOREM RegistryCounts == Spec => []RegistryCountsListeners
<1>1. SignalInv => RegistryCountsListeners
  <2> SUFFICES ASSUME SignalInv PROVE RegistryCountsListeners
    OBVIOUS
  <2>1. refs = Cardinality(Signals!Counting) /\ (entry = NoState <=> refs = 0)
    BY DEF SignalInv, Registry
  <2>2. refs = Signals!Cardinality(Signals!Counting)
    BY <2>1, Zenon DEF Signals!Cardinality, Cardinality
  <2>3. \A l \in Signals!Counting : state[l] = entry
    BY CountingIs DEF SignalInv, Registry
  <2> QED
    BY <2>1, <2>2, <2>3
       DEF RegistryCountsListeners, Signals!RegistryCountsListeners
<1> QED
  BY <1>1, SignalInvariant, PTL

\* A listener that waits, unwoken, has its waker where the next dispatch
\* finds it (poll_recv, signal/unix.rs).
THEOREM WaitersAreListed == Spec => []WaiterIsListed
<1>1. SignalInv => WaiterIsListed
  BY DEF SignalInv
<1> QED
  BY <1>1, SignalInvariant, PTL

\* No listener resolves more often than its signal was raised, whoever else
\* shares the counter and whichever SignalState it was registered with.
THEOREM NoneIsInvented == Spec => []NoInventedSignal
<1>1. SignalInv => NoInventedSignal
  <2> SUFFICES ASSUME SignalInv, NEW l \in Listeners
               PROVE  received[l] <= raised
    BY DEF NoInventedSignal, Signals!NoInventedSignal
  <2>1. Unseen(l) \in Nat /\ received[l] \in Nat
    BY UnseenType
  <2>2. raised \in Nat /\ pipe \in Nat /\ pending \in Nat
    BY DEF SignalInv, SignalType
  <2>3. received[l] + Unseen(l) + pipe + pending
          + (IF dpc = "count" THEN 1 ELSE 0) <= raised
    BY DEF SignalInv, NoneInvented
  <2> QED
    BY <2>1, <2>2, <2>3
<1> QED
  BY <1>1, SignalInvariant, PTL

-----------------------------------------------------------------------------
(* Intervals: the inductive invariant.  Deadlines are counted: the next one *)
(* and the one that tick sleeps for are the n-th after the first, for some  *)
(* n that is at least the number of those already returned or passed over.  *)

IntervalType ==
  /\ now \in Nat /\ period \in Nat /\ counted \in Nat /\ skipped \in Nat
  /\ missed_tick_behavior \in {"Skip", "CatchUp"}
  /\ {next_deadline, target, origin} \subseteq Nat \cup {None}

\* The n-th deadline after the first.
IsNth(d, n) == n \in Nat /\ origin \in Nat /\ d = origin + n * period

NextIsNth ==
  period > 0 /\ next_deadline # None =>
    \E n \in Nat : IsNth(next_deadline, n) /\ counted + skipped <= n

TargetIsNth ==
  period > 0 /\ target # None =>
    /\ \E n \in Nat : IsNth(target, n)
    /\ next_deadline # None => next_deadline <= target

NothingBeforeTheFirst == next_deadline = None => counted = 0 /\ skipped = 0

IntervalInv ==
  IntervalType /\ NextIsNth /\ TargetIsNth /\ NothingBeforeTheFirst

LEMMA NoneIsNotNat ==
  None \notin Nat /\ Periods \subseteq Nat
BY WakeSourcesAssumption DEF WakeSourcesAssumption

\* Multiples of the period.
LEMMA Multiples ==
  ASSUME NEW p \in Nat, p > 0, NEW m \in Nat, NEW n \in Nat
  PROVE  /\ n * p \in Nat
         /\ (n * p) % p = 0
         /\ (n * p) \div p = n
         /\ (m + n) * p = m * p + n * p
         /\ m * p <= n * p <=> m <= n
<1>1. n * p \in Nat /\ (n * p) % p = 0
  OBVIOUS
<1>2. (n * p) \div p = n
  OBVIOUS
<1>3. (m + n) * p = m * p + n * p
  OBVIOUS
<1>4. m <= n => m * p <= n * p
  OBVIOUS
<1>5. n < m => n * p < m * p
  OBVIOUS
<1>6. m * p \in Nat
  OBVIOUS
<1> QED
  BY <1>1, <1>2, <1>3, <1>4, <1>5, <1>6

\* A deadline is due: it was one of the cadence, not the very first.
LEMMA DueIsNext ==
  ASSUME IntervalInv, period > 0, Intervals!base_next <= now
  PROVE  /\ next_deadline # None /\ Intervals!base_next = next_deadline
         /\ next_deadline \in Nat /\ Intervals!missed \in Nat
<1>1. next_deadline # None /\ Intervals!base_next = next_deadline
  BY DEF IntervalInv, IntervalType, Intervals!base_next
<1>2. next_deadline \in Nat /\ now \in Nat /\ period \in Nat
  BY <1>1 DEF IntervalInv, IntervalType
<1>3. (now - next_deadline) \div period \in Nat
  BY <1>1, <1>2
<1> QED
  BY <1>1, <1>2, <1>3 DEF Intervals!missed

LEMMA BaseIsNth ==
  ASSUME IntervalInv, period > 0, NEW k \in Nat, Intervals!Begin
  PROVE  /\ origin' \in Nat
         /\ \E n \in Nat :
              /\ Intervals!base_next + k * period = origin' + n * period
              /\ next_deadline # None => counted + skipped + k <= n
<1>0. now \in Nat /\ period \in Nat /\ counted \in Nat /\ skipped \in Nat
  BY DEF IntervalInv, IntervalType
<1>1. CASE next_deadline = None
  <2>1. origin' = now + period /\ Intervals!base_next = now + period
    BY <1>1 DEF Intervals!Begin, Intervals!base_next
  <2> QED
    BY <1>0, <1>1, <2>1
<1>2. CASE next_deadline # None
  <2>1. origin' = origin /\ Intervals!base_next = next_deadline
    BY <1>2 DEF Intervals!Begin, Intervals!base_next
  <2>2. PICK n \in Nat : IsNth(next_deadline, n) /\ counted + skipped <= n
    BY <1>2 DEF IntervalInv, NextIsNth
  <2>3. next_deadline = origin + n * period /\ origin \in Nat
    BY <2>2 DEF IsNth
  <2>4. /\ (n + k) * period = n * period + k * period
        /\ n * period \in Nat /\ k * period \in Nat
    BY <1>0, Multiples
  <2>5. /\ Intervals!base_next + k * period = origin' + (n + k) * period
        /\ counted + skipped + k <= n + k
    BY <1>0, <2>1, <2>2, <2>3, <2>4
  <2> QED
    BY <2>1, <2>3, <2>5
<1> QED
  BY <1>1, <1>2

-----------------------------------------------------------------------------
(* The steps of an interval.                                               *)

\* tick begins to sleep until k periods after the deadline that is next.
LEMMA SleepsUntil ==
  ASSUME IntervalInv, target = None, NEW k \in Nat, NEW d \in Nat,
         Intervals!SleepUntil(d),
         period > 0 => d = Intervals!base_next + k * period
  PROVE  IntervalInv'
<1>1. /\ target' = d /\ Intervals!Begin
      /\ UNCHANGED <<now, period, missed_tick_behavior, next_deadline, counted,
                     skipped>>
  BY DEF Intervals!SleepUntil, Intervals!fields
<1>2. next_deadline \in Nat \cup {None} /\ now \in Nat /\ period \in Nat
  BY DEF IntervalInv, IntervalType
<1>3. origin' \in Nat \cup {None}
  <2>1. CASE next_deadline = None
    BY <1>1, <1>2, <2>1 DEF Intervals!Begin, Intervals!base_next
  <2>2. CASE next_deadline # None
    BY <1>1, <2>2 DEF Intervals!Begin, IntervalInv, IntervalType
  <2> QED
    BY <2>1, <2>2
<1>4. IntervalType'
  BY <1>1, <1>3 DEF IntervalInv, IntervalType
<1>5. NextIsNth'
  <2>1. next_deadline # None => origin' = origin
    BY <1>1 DEF Intervals!Begin
  <2> QED
    BY <1>1, <2>1 DEF IntervalInv, NextIsNth, IsNth
<1>6. TargetIsNth'
  <2> SUFFICES ASSUME period > 0
               PROVE  /\ \E n \in Nat : IsNth(target, n)'
                      /\ next_deadline # None => next_deadline <= d
    BY <1>1 DEF TargetIsNth
  <2>1. /\ origin' \in Nat
        /\ \E n \in Nat : d = origin' + n * period
    BY <1>1, BaseIsNth
  <2>2. next_deadline # None => Intervals!base_next = next_deadline
    BY DEF Intervals!base_next
  <2>3. k * period \in Nat
    BY <1>2, Multiples
  <2>4. next_deadline # None => next_deadline <= d
    BY <1>2, <2>2, <2>3
  <2> QED
    BY <1>1, <2>1, <2>4 DEF IsNth
<1>7. NothingBeforeTheFirst'
  BY <1>1 DEF IntervalInv, NothingBeforeTheFirst
<1> QED
  BY <1>4, <1>5, <1>6, <1>7 DEF IntervalInv

LEMMA SleepsAhead ==
  ASSUME IntervalInv, Intervals!TickAhead
  PROVE  IntervalInv'
<1>1. target = None /\ Intervals!SleepUntil(Intervals!base_next)
  BY DEF Intervals!TickAhead
<1>2. Intervals!base_next \in Nat
  BY DEF IntervalInv, IntervalType, Intervals!base_next
<1>3. Intervals!base_next = Intervals!base_next + 0 * period
  BY <1>2 DEF IntervalInv, IntervalType
<1> QED
  BY <1>1, <1>2, <1>3, SleepsUntil

LEMMA Skips ==
  ASSUME IntervalInv, Intervals!TickSkips
  PROVE  IntervalInv'
<1>0. now \in Nat /\ period \in Nat
  BY DEF IntervalInv, IntervalType
<1>1. target = None /\ Intervals!base_next <= now
  BY DEF Intervals!TickSkips
<1>2. CASE period = 0
  <2>1. Intervals!SleepUntil(now)
    BY <1>2 DEF Intervals!TickSkips
  <2> QED
    BY <1>0, <1>1, <1>2, <2>1, SleepsUntil
<1>3. CASE period > 0
  <2>1. PICK k \in Nat : k = Intervals!missed
    BY <1>1, <1>3, DueIsNext
  <2>2. Intervals!base_next \in Nat
    BY <1>1, <1>3, DueIsNext
  <2>3. Intervals!base_next + k * period \in Nat
    BY <1>0, <1>3, <2>2, Multiples
  <2>4. Intervals!SleepUntil(Intervals!base_next + k * period)
    BY <1>0, <1>3, <2>1 DEF Intervals!TickSkips
  <2> QED
    BY <1>1, <2>3, <2>4, SleepsUntil
<1> QED
  BY <1>0, <1>2, <1>3

LEMMA CatchesUpLater ==
  ASSUME IntervalInv, Intervals!CatchUp
  PROVE  IntervalInv'
<1>1. /\ target = None /\ Intervals!base_next <= now /\ Intervals!Begin
      /\ UNCHANGED <<now, period, missed_tick_behavior, target, skipped>>
  BY DEF Intervals!CatchUp, Intervals!fields
<1>2. /\ next_deadline \in Nat \cup {None} /\ now \in Nat /\ period \in Nat
      /\ counted \in Nat /\ skipped \in Nat
  BY DEF IntervalInv, IntervalType
<1>3. CASE period = 0
  <2>1. next_deadline' = now /\ counted' = counted + 1
    BY <1>3 DEF Intervals!CatchUp
  <2>2. origin' \in Nat \cup {None}
    <3>1. CASE next_deadline = None
      BY <1>1, <1>2, <3>1 DEF Intervals!Begin, Intervals!base_next
    <3>2. CASE next_deadline # None
      BY <1>1, <3>2 DEF Intervals!Begin, IntervalInv, IntervalType
    <3> QED
      BY <3>1, <3>2
  <2>3. IntervalType'
    BY <1>1, <1>2, <2>1, <2>2 DEF IntervalInv, IntervalType
  <2> QED
    BY <1>1, <1>2, <1>3, <2>1, <2>3, NoneIsNotNat
       DEF IntervalInv, NextIsNth, TargetIsNth, NothingBeforeTheFirst
<1>4. CASE period > 0
  <2>1. PICK k \in Nat : k = Intervals!missed
    BY <1>1, <1>4, DueIsNext
  <2>2. /\ next_deadline' = Intervals!base_next + k * period + period
        /\ counted' = counted + k
    BY <1>2, <1>4, <2>1 DEF Intervals!CatchUp
  <2>3. next_deadline # None /\ Intervals!base_next \in Nat
    BY <1>1, <1>4, DueIsNext
  <2>4. (k + 1) * period = k * period + 1 * period /\ k * period \in Nat
    BY <1>2, <1>4, Multiples
  <2>5. next_deadline' = Intervals!base_next + (k + 1) * period
    BY <1>2, <2>2, <2>3, <2>4
  <2>6. /\ origin' \in Nat
        /\ \E n \in Nat :
             /\ next_deadline' = origin' + n * period
             /\ counted + skipped + (k + 1) <= n
    BY <1>1, <1>4, <2>3, <2>5, BaseIsNth
  <2>7. next_deadline' \in Nat
    BY <1>2, <2>2, <2>3, <2>4
  <2>8. IntervalType'
    BY <1>1, <1>2, <2>2, <2>6, <2>7 DEF IntervalInv, IntervalType
  <2>9. NextIsNth'
    <3>1. PICK n \in Nat : /\ next_deadline' = origin' + n * period
                           /\ counted + skipped + (k + 1) <= n
      BY <2>6
    <3>2. counted' + skipped' <= n
      BY <1>1, <1>2, <2>2, <3>1
    <3> QED
      BY <1>1, <2>6, <3>1, <3>2 DEF NextIsNth, IsNth
  <2> QED
    BY <1>1, <2>7, <2>8, <2>9, NoneIsNotNat
       DEF IntervalInv, TargetIsNth, NothingBeforeTheFirst
<1> QED
  BY <1>2, <1>3, <1>4

LEMMA Ticks ==
  ASSUME IntervalInv, Intervals!SleepEnds
  PROVE  IntervalInv'
<1>1. /\ target # None /\ target' = None
      /\ next_deadline' = target + period /\ counted' = counted + 1
      /\ UNCHANGED <<now, period, missed_tick_behavior, origin>>
      /\ skipped' = IF next_deadline = None \/ period = 0 THEN skipped
                    ELSE skipped + (target - next_deadline) \div period
  BY DEF Intervals!SleepEnds, Intervals!Passes, Intervals!fields
<1>2. /\ next_deadline \in Nat \cup {None} /\ now \in Nat /\ period \in Nat
      /\ counted \in Nat /\ skipped \in Nat /\ target \in Nat
  BY <1>1 DEF IntervalInv, IntervalType
<1>3. CASE period = 0
  BY <1>1, <1>2, <1>3, NoneIsNotNat
     DEF IntervalInv, IntervalType, NextIsNth, TargetIsNth, NothingBeforeTheFirst
<1>4. CASE period > 0
  <2>1. PICK m \in Nat : IsNth(target, m)
    BY <1>1, <1>4 DEF IntervalInv, TargetIsNth
  <2>2. origin \in Nat /\ target = origin + m * period
    BY <2>1 DEF IsNth
  <2>3. (m + 1) * period = m * period + 1 * period /\ m * period \in Nat
    BY <1>2, <1>4, Multiples
  <2>4. next_deadline' = origin' + (m + 1) * period
    BY <1>1, <1>2, <2>2, <2>3
  <2>5. skipped' \in Nat /\ counted' + skipped' <= m + 1
    <3>1. CASE next_deadline = None
      BY <1>1, <1>2, <3>1 DEF IntervalInv, NothingBeforeTheFirst
    <3>2. CASE next_deadline # None
      <4>1. PICK n \in Nat : IsNth(next_deadline, n) /\ counted + skipped <= n
        BY <1>4, <3>2 DEF IntervalInv, NextIsNth
      <4>2. next_deadline = origin + n * period /\ n * period \in Nat
        BY <1>2, <1>4, <4>1, Multiples DEF IsNth
      <4>3. next_deadline <= target
        BY <1>1, <1>4, <3>2 DEF IntervalInv, TargetIsNth
      <4>4. n * period <= m * period
        BY <2>2, <2>3, <4>2, <4>3
      <4>5. n <= m
        BY <1>2, <1>4, <4>4, Multiples
      <4>6. PICK j \in Nat : m = n + j
        <5>1. m - n \in Nat /\ m = n + (m - n)
          BY <4>5
        <5> QED
          BY <5>1
      <4>7. (n + j) * period = n * period + j * period /\ j * period \in Nat
            /\ (j * period) \div period = j
        BY <1>2, <1>4, Multiples
      <4>8. target - next_deadline = j * period
        BY <2>2, <4>2, <4>6, <4>7
      <4>9. skipped' = skipped + j
        BY <1>1, <1>4, <3>2, <4>7, <4>8
      <4> QED
        BY <1>1, <1>2, <4>1, <4>6, <4>9
    <3> QED
      BY <3>1, <3>2
  <2>6. IntervalType'
    BY <1>1, <1>2, <2>5 DEF IntervalInv, IntervalType
  <2>7. NextIsNth'
    BY <1>1, <2>2, <2>4, <2>5 DEF NextIsNth, IsNth
  <2>8. next_deadline' \in Nat
    BY <1>1, <1>2
  <2> QED
    BY <1>1, <2>6, <2>7, <2>8, NoneIsNotNat
       DEF IntervalInv, TargetIsNth, NothingBeforeTheFirst
<1> QED
  BY <1>2, <1>3, <1>4

\* The steps that move neither the cadence nor what is counted on it.
LEMMA KeepsCounting ==
  ASSUME IntervalInv, UNCHANGED <<period, next_deadline, counted, skipped>>,
         now' \in Nat, missed_tick_behavior' \in {"Skip", "CatchUp"},
         target' \in {target, None},
         \/ origin' = origin
         \/ target' = None /\ origin' = None /\ next_deadline = None
  PROVE  IntervalInv'
BY DEF IntervalInv, IntervalType, NextIsNth, TargetIsNth,
       NothingBeforeTheFirst, IsNth

LEMMA Resets ==
  ASSUME IntervalInv, Intervals!reset
  PROVE  IntervalInv'
BY DEF Intervals!reset, Intervals!fields, IntervalInv, IntervalType, NextIsNth,
       TargetIsNth, NothingBeforeTheFirst

-----------------------------------------------------------------------------
(* The theorems about intervals.                                           *)

LEMMA IntervalInvStep ==
  IntervalInv /\ (Intervals!Next \/ UNCHANGED intervalVars) => IntervalInv'
<1> SUFFICES ASSUME IntervalInv, Intervals!Next \/ UNCHANGED intervalVars
             PROVE  IntervalInv'
  OBVIOUS
<1>0. now \in Nat /\ missed_tick_behavior \in {"Skip", "CatchUp"}
  BY DEF IntervalInv, IntervalType
<1>1. CASE Intervals!Pass
  BY <1>0, <1>1, KeepsCounting DEF Intervals!Pass, Intervals!fields
<1>2. CASE Intervals!DropTick
  BY <1>0, <1>2, KeepsCounting DEF Intervals!DropTick, Intervals!fields
<1>3. ASSUME NEW b \in {"Skip", "CatchUp"},
             Intervals!set_missed_tick_behavior(b)
      PROVE  IntervalInv'
  BY <1>0, <1>3, KeepsCounting DEF Intervals!set_missed_tick_behavior
<1>4. CASE UNCHANGED intervalVars
  BY <1>0, <1>4, KeepsCounting DEF intervalVars
<1>5. CASE Intervals!TickAhead \/ Intervals!TickSkips \/ Intervals!CatchUp
            \/ Intervals!SleepEnds \/ Intervals!reset
  BY <1>5, SleepsAhead, Skips, CatchesUpLater, Ticks, Resets
<1> QED
  BY <1>1, <1>2, <1>3, <1>4, <1>5 DEF Intervals!Next

\* Whatever the period, the lateness of the program and the mix of Skip and
\* CatchUp, the deadlines of an interval are counted (interval.rs:64-141).
THEOREM IntervalInvariant == Spec => []IntervalInv
<1>1. Init => IntervalInv
  <2> SUFFICES ASSUME Intervals!Init PROVE IntervalInv
    BY DEF Init
  <2> QED
    BY NoneIsNotNat
       DEF Intervals!Init, IntervalInv, IntervalType, NextIsNth, TargetIsNth,
           NothingBeforeTheFirst
<1>2. IntervalInv /\ [Next]_vars => IntervalInv'
  <2>1. [Next]_vars => Intervals!Next \/ UNCHANGED intervalVars
    BY DEF Next, vars
  <2> QED
    BY <2>1, IntervalInvStep
<1> QED
  BY <1>1, <1>2, PTL DEF Spec

\* Every deadline is a whole number of periods after the first, and none is
\* counted twice (Interval::tick, reset and set_missed_tick_behavior).
THEOREM CadenceIsKept == Spec => []KeepsCadence
<1>1. IntervalInv => KeepsCadence
  <2> SUFFICES ASSUME IntervalInv, period > 0, next_deadline # None
               PROVE  /\ (next_deadline - origin) % period = 0
                      /\ origin + (counted + skipped) * period <= next_deadline
    BY DEF KeepsCadence, Intervals!KeepsCadence
  <2>1. PICK n \in Nat : IsNth(next_deadline, n) /\ counted + skipped <= n
    BY DEF IntervalInv, NextIsNth
  <2>2. next_deadline = origin + n * period /\ origin \in Nat
    BY <2>1 DEF IsNth
  <2>3. period \in Nat /\ counted + skipped \in Nat
    BY DEF IntervalInv, IntervalType
  <2>4. /\ n * period \in Nat /\ (n * period) % period = 0
        /\ (counted + skipped) * period <= n * period
        /\ (counted + skipped) * period \in Nat
    BY <2>1, <2>3, Multiples
  <2>5. next_deadline - origin = n * period
    BY <2>2, <2>4
  <2> QED
    BY <2>2, <2>4, <2>5
<1> QED
  BY <1>1, IntervalInvariant, PTL
=============================================================================

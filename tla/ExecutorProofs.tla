--------------------------- MODULE ExecutorProofs ---------------------------
(***************************************************************************)
(* Proofs about Executor for every number of tasks, remote threads and     *)
(* wakes, and every batch size and inline capacity.                        *)
(***************************************************************************)
EXTENDS Executor, SequenceTheorems, TLAPS

-----------------------------------------------------------------------------
(* Facts about the sequences that the queues are.                          *)

\* Appending to a queue (VecDeque::push_back) adds one element.
LEMMA ElemsAppend ==
  ASSUME NEW S, NEW s \in Seq(S), NEW x \in S
  PROVE  /\ Append(s, x) \in Seq(S)
         /\ Len(Append(s, x)) = Len(s) + 1
         /\ Elems(Append(s, x)) = Elems(s) \cup {x}
<1>1. Append(s, x) \in Seq(S) /\ Len(Append(s, x)) = Len(s) + 1
  OBVIOUS
<1>2. \A i \in 1..Len(s) : Append(s, x)[i] = s[i]
  OBVIOUS
<1>3. Append(s, x)[Len(s) + 1] = x
  OBVIOUS
<1>4. 1..Len(Append(s, x)) = 1..Len(s) \cup {Len(s) + 1}
  BY <1>1
<1>5. Elems(Append(s, x)) = Elems(s) \cup {x}
  BY <1>2, <1>3, <1>4 DEF Elems
<1> QED
  BY <1>1, <1>5

\* Popping the front of a queue (VecDeque::pop_front) removes its head.
LEMMA ElemsTail ==
  ASSUME NEW S, NEW s \in Seq(S), s # <<>>
  PROVE  /\ Head(s) \in S /\ Tail(s) \in Seq(S)
         /\ Len(Tail(s)) = Len(s) - 1
         /\ Elems(s) = {Head(s)} \cup Elems(Tail(s))
<1>1. Head(s) \in S /\ Tail(s) \in Seq(S) /\ Len(Tail(s)) = Len(s) - 1
  OBVIOUS
<1>2. Len(s) \in Nat /\ Len(s) > 0 /\ Head(s) = s[1]
  OBVIOUS
<1>3. \A i \in 1..(Len(s) - 1) : Tail(s)[i] = s[i + 1]
  OBVIOUS
<1>4. Elems(Tail(s)) = {s[i] : i \in 2..Len(s)}
  <2>1. \A y \in Elems(Tail(s)) : y \in {s[i] : i \in 2..Len(s)}
    BY <1>1, <1>2, <1>3 DEF Elems
  <2>2. ASSUME NEW i \in 2..Len(s)
        PROVE  s[i] \in Elems(Tail(s))
    <3>1. i - 1 \in 1..(Len(s) - 1) /\ (i - 1) + 1 = i
      BY <1>2
    <3>2. Tail(s)[i - 1] = s[i]
      BY <1>3, <3>1
    <3> QED
      BY <1>1, <3>1, <3>2 DEF Elems
  <2> QED
    BY <2>1, <2>2
<1>5. 1..Len(s) = {1} \cup 2..Len(s)
  BY <1>2
<1>6. Elems(s) = {s[1]} \cup {s[i] : i \in 2..Len(s)}
  BY <1>5 DEF Elems
<1> QED
  BY <1>1, <1>2, <1>4, <1>6

\* A queue without duplicates keeps none when a new task is appended.
LEMMA DistinctAppend ==
  ASSUME NEW S, NEW s \in Seq(S), NEW x \in S, Distinct(s), x \notin Elems(s)
  PROVE  Distinct(Append(s, x))
<1>1. \A i \in 1..Len(s) : Append(s, x)[i] = s[i] /\ s[i] # x
  BY DEF Elems
<1>2. Append(s, x)[Len(s) + 1] = x /\ Len(s) \in Nat
  OBVIOUS
<1>3. 1..Len(Append(s, x)) = 1..Len(s) \cup {Len(s) + 1}
  BY ElemsAppend, <1>2
<1> QED
  BY <1>1, <1>2, <1>3 DEF Distinct

\* A queue without duplicates keeps none when its head is popped, and the
\* head is then no longer in it.
LEMMA DistinctTail ==
  ASSUME NEW S, NEW s \in Seq(S), s # <<>>, Distinct(s)
  PROVE  Distinct(Tail(s)) /\ Head(s) \notin Elems(Tail(s))
<1>1. Len(s) \in Nat /\ Len(s) > 0 /\ Head(s) = s[1]
  OBVIOUS
<1>2. Tail(s) \in Seq(S) /\ Len(Tail(s)) = Len(s) - 1
  OBVIOUS
<1>3. \A i \in 1..(Len(s) - 1) : Tail(s)[i] = s[i + 1] /\ i + 1 \in 1..Len(s)
  BY <1>1
<1>4. Distinct(Tail(s))
  BY <1>1, <1>2, <1>3 DEF Distinct
<1>5. Head(s) \notin Elems(Tail(s))
  <2>1. ASSUME NEW i \in 1..(Len(s) - 1) PROVE Tail(s)[i] # s[1]
    <3>1. i + 1 # 1 /\ 1 \in 1..Len(s)
      BY <1>1
    <3> QED
      BY <1>3, <3>1 DEF Distinct
  <2> QED
    BY <1>1, <1>2, <2>1 DEF Elems
<1> QED
  BY <1>4, <1>5

-----------------------------------------------------------------------------
(* Type correctness.                                                       *)

\* A remote thread that has swapped `queued` pushes a task, never the root.
PushesTask == \A r \in Remotes : rpc[r] = "push" => target[r] \in Tasks

TypeInv == TypeOK /\ PushesTask

\* A wake on the runtime's thread keeps what it touches well typed.
LEMMA WakeLocalType ==
  ASSUME TypeInv, NEW x \in Targets, WakeLocal(x)
  PROVE  /\ notified' \in [Targets -> BOOLEAN] /\ ready' \in BOOLEAN
         /\ queued' \in [Tasks -> BOOLEAN]
         /\ next_task' \in Seq(Tasks) /\ Len(next_task') <= InlineCap
         /\ queue' \in Seq(Tasks)
<1>1. notified' \in [Targets -> BOOLEAN] /\ ready' \in BOOLEAN
  BY DEF TypeInv, TypeOK, WakeLocal
<1>2. CASE x = Root
  BY <1>1, <1>2 DEF TypeInv, TypeOK, WakeLocal
<1>3. CASE x # Root
  <2>1. x \in Tasks /\ EnqueueLocal(x)
    BY <1>3 DEF WakeLocal, Targets
  <2>2. queued' \in [Tasks -> BOOLEAN]
    BY <2>1 DEF TypeInv, TypeOK, EnqueueLocal
  <2>3. /\ next_task' \in Seq(Tasks) /\ Len(next_task') <= InlineCap
        /\ queue' \in Seq(Tasks)
    <3>1. CASE queued[x]
      BY <2>1, <3>1 DEF TypeInv, TypeOK, EnqueueLocal
    <3>2. CASE ~queued[x] /\ Len(next_task) < InlineCap
      <4>1. next_task' = Append(next_task, x) /\ queue' = queue
        BY <2>1, <3>2 DEF EnqueueLocal
      <4>2. Len(next_task) \in Nat /\ InlineCap \in Nat
        BY ConstantsAssumption DEF TypeInv, TypeOK
      <4> QED
        BY <2>1, <3>2, <4>1, <4>2, ElemsAppend DEF TypeInv, TypeOK
    <3>3. CASE ~queued[x] /\ ~(Len(next_task) < InlineCap)
      <4>1. queue' = Append(queue, x) /\ next_task' = next_task
        BY <2>1, <3>3 DEF EnqueueLocal
      <4> QED
        BY <2>1, <4>1, ElemsAppend DEF TypeInv, TypeOK
    <3> QED
      BY <3>1, <3>2, <3>3
  <2> QED
    BY <1>1, <2>2, <2>3
<1> QED
  BY <1>2, <1>3

\* Taking a task from the front of a ready queue into the batch (drain_ready)
\* keeps the flag, the queue and the batch well typed.
LEMMA DequeueType ==
  ASSUME TypeInv, NEW t \in Tasks, Dequeue(t), Len(batch) < BatchSize
  PROVE  /\ queued' \in [Tasks -> BOOLEAN]
         /\ batch' \in Seq(Tasks) /\ Len(batch') <= BatchSize
BY ElemsAppend, ConstantsAssumption DEF TypeInv, TypeOK, Dequeue

\* Every step of block_on, of a future and of a remote thread keeps the types.
LEMMA TypeStep == TypeInv /\ [Next]_vars => TypeInv'
<1> SUFFICES ASSUME TypeInv, [Next]_vars PROVE TypeInv'
  OBVIOUS
<1> USE ConstantsAssumption DEF TypeInv, TypeOK, PushesTask, Locations,
        tasksVars, queueVars, wakeVars, joinVars, remoteVars
<1>1. CASE TakeReady
  BY <1>1 DEF TakeReady, Targets
<1>2. CASE TimerSpun
  BY <1>2 DEF TimerSpun
<1>3. CASE DrainNext
  BY <1>3, ElemsTail, DequeueType DEF DrainNext, Dequeue
<1>4. CASE DrainRemote
  BY <1>4, ElemsTail, DequeueType DEF DrainRemote, Dequeue
<1>5. CASE DrainQueue
  BY <1>5, ElemsTail, DequeueType DEF DrainQueue, Dequeue
<1>6. CASE DrainedQueue
  BY <1>6 DEF DrainedQueue
<1>7. CASE CheckRoot
  BY <1>7 DEF CheckRoot, Goto
<1>8. CASE ClearPending
  BY <1>8 DEF ClearPending
<1>9. CASE SetWaiting
  BY <1>9 DEF SetWaiting
<1>10. CASE RecheckRoot
  BY <1>10 DEF RecheckRoot, Goto
<1>11. CASE RecheckQueue
  BY <1>11 DEF RecheckQueue, Goto
<1>12. CASE Spun
  BY <1>12 DEF Spun, Goto
<1>13. CASE WaitInterrupted
  BY <1>13 DEF WaitInterrupted
<1>14. CASE Dispatched
  BY <1>14 DEF Dispatched, Goto
<1>15. CASE StopWaiting
  BY <1>15 DEF StopWaiting
<1>16. CASE StopPending
  BY <1>16 DEF StopPending
<1>17. CASE PollNext
  <2>1. /\ Head(batch) \in Tasks
        /\ batch' \in Seq(Tasks) /\ Len(batch') <= BatchSize
    BY <1>17, ElemsTail DEF PollNext
  <2>2. notified' \in [Targets -> BOOLEAN]
    BY <1>17, <2>1 DEF PollNext, Targets
  <2>3. /\ future' \in [Tasks -> {"unborn", "some", "polling", "done"}]
        /\ exposed' \subseteq Targets /\ pc' \in Locations
        /\ polling' \in IF pc' = "task_poll" THEN Tasks ELSE {NoOne}
    <3>1. CASE future[Head(batch)] = "some" /\ ~canceled[Head(batch)]
      <4>1. /\ future' = [future EXCEPT ![Head(batch)] = "polling"]
            /\ exposed' = exposed \cup {Head(batch)}
            /\ polling' = Head(batch) /\ pc' = "task_poll"
        BY <1>17, <3>1 DEF PollNext
      <4>2. future' \in [Tasks -> {"unborn", "some", "polling", "done"}]
        BY <4>1, <2>1
      <4> QED
        BY <4>1, <4>2, <2>1 DEF Targets
    <3>2. CASE ~(future[Head(batch)] = "some" /\ ~canceled[Head(batch)])
      BY <1>17, <2>1, <3>2 DEF PollNext, Targets
    <3> QED
      BY <3>1, <3>2
  <2> QED
    BY <1>17, <2>1, <2>2, <2>3 DEF PollNext
<1>18. CASE BatchDone
  BY <1>18 DEF BatchDone, Goto
<1>19. CASE Flush
  BY <1>19 DEF Flush
<1>20. CASE RootPolled("pending")
  BY <1>20 DEF RootPolled
<1>21. CASE RootPolled("ready")
  BY <1>21 DEF RootPolled
<1>22. CASE TaskPending
  BY <1>22 DEF TaskPending
<1>23. CASE TaskReady
  BY <1>23, WakeLocalType DEF TaskReady, NoWake
<1>24. CASE BlockOn
  BY <1>24 DEF BlockOn, Targets
<1>25. CASE DropRuntime
  BY <1>25 DEF DropRuntime
<1>26. CASE WaitReturned
  BY <1>26 DEF WaitReturned
<1>27. ASSUME NEW x \in Targets, TimerWake(x) PROVE TypeInv'
  BY <1>27, WakeLocalType DEF TimerWake, InPoll
<1>28. ASSUME NEW x \in Targets, DriverWake(x) PROVE TypeInv'
  BY <1>28, WakeLocalType DEF DriverWake, InPoll
<1>29. ASSUME NEW x \in Targets, PollWakes(x) PROVE TypeInv'
  BY <1>29, WakeLocalType DEF PollWakes, InPoll
<1>30. ASSUME NEW t \in Tasks, Spawn(t) PROVE TypeInv'
  BY <1>30, ElemsAppend DEF Spawn, InPoll, Targets
<1>31. ASSUME NEW t \in Tasks, Cancel(t) PROVE TypeInv'
  BY <1>31 DEF Cancel, InPoll
<1>32. ASSUME NEW t \in Tasks, JoinPoll(t) PROVE TypeInv'
  <2>1. Current \in Targets
    BY <1>32 DEF JoinPoll, InPoll, Current, Targets
  <2>2. /\ output' \in [Tasks -> {"none", "some", "taken"}]
        /\ joiner' \in [Tasks -> Targets \cup {NoOne}]
    BY <1>32, <2>1 DEF JoinPoll
  <2> QED
    BY <1>32, <2>2 DEF JoinPoll
<1>33. ASSUME NEW r \in Remotes, RemotePush(r) PROVE TypeInv'
  BY <1>33, ElemsAppend DEF RemotePush, RemoteLocations
<1>34. ASSUME NEW r \in Remotes, RemoteLoadWaiting(r) PROVE TypeInv'
  BY <1>34 DEF RemoteLoadWaiting, RemoteLocations, Targets
<1>35. ASSUME NEW r \in Remotes, RemoteSwapPending(r) PROVE TypeInv'
  BY <1>35 DEF RemoteSwapPending, RemoteLocations, Targets
<1>36. ASSUME NEW r \in Remotes, RemoteInterrupt(r) PROVE TypeInv'
  BY <1>36 DEF RemoteInterrupt, RemoteLocations, Targets
<1>37. ASSUME NEW r \in Remotes, RemoteWakeRoot(r) PROVE TypeInv'
  <2>1. ready' \in BOOLEAN /\ delayed' \subseteq Remotes \cup {RuntimeThread}
    BY <1>37 DEF RemoteWakeRoot
  <2>2. rpc' \in [Remotes -> RemoteLocations]
    BY <1>37 DEF RemoteWakeRoot, RemoteLocations
  <2>3. target' \in [Remotes -> Targets \cup {NoOne}]
    BY <1>37 DEF RemoteWakeRoot, Targets
  <2>4. notified' \in [Targets -> BOOLEAN] /\ remoteWakes' \in Nat
    BY <1>37 DEF RemoteWakeRoot, Targets
  <2> QED
    BY <1>37, <2>1, <2>2, <2>3, <2>4 DEF RemoteWakeRoot
<1>38. ASSUME NEW r \in Remotes, NEW t \in Tasks, RemoteWakeTask(r, t)
      PROVE TypeInv'
  BY <1>38 DEF RemoteWakeTask, RemoteLocations, Targets
<1>39. ASSUME NEW d \in Remotes \cup {RuntimeThread}, StoreArrives(d)
      PROVE TypeInv'
  BY <1>39 DEF StoreArrives
<1>40. CASE UNCHANGED vars
  BY <1>40 DEF vars
<1> QED
  BY <1>1, <1>2, <1>3, <1>4, <1>5, <1>6, <1>7, <1>8, <1>9, <1>10, <1>11,
     <1>12, <1>13, <1>14, <1>15, <1>16, <1>17, <1>18, <1>19, <1>20, <1>21,
     <1>22, <1>23, <1>24, <1>25, <1>26, <1>27, <1>28, <1>29, <1>30, <1>31,
     <1>32, <1>33, <1>34, <1>35, <1>36, <1>37, <1>38, <1>39, <1>40
     DEF Next, Schedule, PollReturns, Environment, RemoteStep, RemoteWake

\* The initial state, before any block_on, is well typed.
LEMMA TypeInit == Init => TypeInv
<1> SUFFICES ASSUME Init PROVE TypeInv
  OBVIOUS
<1>1. <<>> \in Seq(Tasks) /\ Len(<<>>) = 0
  OBVIOUS
<1>2. ready \in BOOLEAN /\ waiting \in BOOLEAN /\ token \in BOOLEAN
      /\ interrupt_pending \in BOOLEAN
  BY DEF Init
<1>3. queued \in [Tasks -> BOOLEAN] /\ canceled \in [Tasks -> BOOLEAN]
      /\ notified \in [Targets -> BOOLEAN]
  BY DEF Init
<1> QED
  BY <1>1, <1>2, <1>3, ConstantsAssumption
     DEF Init, TypeInv, TypeOK, PushesTask, Locations, RemoteLocations, Targets

\* The type invariant of the scheduler, with the capacity of the inline queue,
\* the bound on the batch, and a task on the stack exactly during its poll.
THEOREM TypeCorrect == Spec => []TypeOK
<1>1. TypeInv => TypeOK
  BY DEF TypeInv
<1> QED
  BY <1>1, TypeInit, TypeStep, PTL DEF Spec

-----------------------------------------------------------------------------
(* No wake is lost.                                                        *)

\* The batch holds tasks only from drain_ready to the end of its polls.
BatchInUse ==
  batch # <<>> => pc \in {"drain_next", "drain_remote", "drain_queue",
                           "next_in_batch", "task_poll"}

WakeInv == NoLostWake /\ BatchInUse

\* A wake on the runtime's thread records the task in a ready queue or the
\* root in `ready`; nothing that was recorded is dropped.
LEMMA WakeLocalRecords ==
  ASSUME TypeInv, NEW x \in Targets, WakeLocal(x)
  PROVE  /\ \A t \in Tasks : queued'[t] <=> (queued[t] \/ t = x)
         /\ \A y \in Targets : notified'[y] <=> (notified[y] \/ y = x)
         /\ ready' <=> (ready \/ x = Root)
<1>1. \A y \in Targets : notified'[y] <=> (notified[y] \/ y = x)
  BY DEF WakeLocal, TypeInv, TypeOK
<1>2. CASE x = Root
  BY <1>1, <1>2, ConstantsAssumption DEF WakeLocal, TypeInv, TypeOK
<1>3. CASE x # Root
  <2>1. x \in Tasks /\ EnqueueLocal(x) /\ ready' = ready
    BY <1>3 DEF WakeLocal, Targets
  <2>2. queued' = [queued EXCEPT ![x] = TRUE]
    BY <2>1 DEF EnqueueLocal
  <2> QED
    BY <1>1, <1>3, <2>1, <2>2 DEF TypeInv, TypeOK
<1> QED
  BY <1>2, <1>3

\* Every step keeps the record of the wakes (drain_ready moves it from a
\* queue to the batch, a poll consumes it).
LEMMA WakeStep == TypeInv /\ WakeInv /\ [Next]_vars => WakeInv'
<1> SUFFICES ASSUME TypeInv, WakeInv, [Next]_vars PROVE WakeInv'
  OBVIOUS
<1> USE ConstantsAssumption DEF WakeInv, NoLostWake, BatchInUse, TypeInv,
        TypeOK, tasksVars, queueVars, wakeVars, joinVars, remoteVars
<1>1. CASE TakeReady
  BY <1>1 DEF TakeReady, Targets
<1>2. CASE TimerSpun
  BY <1>2 DEF TimerSpun, Elems
<1>3. CASE DrainNext
  BY <1>3, ElemsAppend, ElemsTail DEF DrainNext, Dequeue
<1>4. CASE DrainRemote
  BY <1>4, ElemsAppend, ElemsTail DEF DrainRemote, Dequeue
<1>5. CASE DrainQueue
  BY <1>5, ElemsAppend, ElemsTail DEF DrainQueue, Dequeue
<1>6. CASE DrainedQueue
  BY <1>6 DEF DrainedQueue
<1>7. CASE CheckRoot
  BY <1>7 DEF CheckRoot, Goto
<1>8. CASE ClearPending
  BY <1>8 DEF ClearPending
<1>9. CASE SetWaiting
  BY <1>9 DEF SetWaiting
<1>10. CASE RecheckRoot
  BY <1>10 DEF RecheckRoot, Goto
<1>11. CASE RecheckQueue
  BY <1>11 DEF RecheckQueue, Goto
<1>12. CASE Spun
  BY <1>12 DEF Spun, Goto
<1>13. CASE WaitInterrupted
  BY <1>13 DEF WaitInterrupted
<1>14. CASE Dispatched
  BY <1>14 DEF Dispatched, Goto
<1>15. CASE StopWaiting
  BY <1>15 DEF StopWaiting
<1>16. CASE StopPending
  BY <1>16 DEF StopPending
<1>17. CASE PollNext
  BY <1>17, ElemsTail DEF PollNext, Targets
<1>18. CASE BatchDone
  BY <1>18 DEF BatchDone, Goto
<1>19. CASE Flush
  BY <1>19 DEF Flush
<1>20. ASSUME NEW result \in {"pending", "ready"}, RootPolled(result)
      PROVE WakeInv'
  BY <1>20 DEF RootPolled
<1>21. CASE TaskPending
  BY <1>21 DEF TaskPending
<1>22. CASE TaskReady
  BY <1>22, WakeLocalRecords DEF TaskReady, NoWake, Targets
<1>23. CASE BlockOn
  BY <1>23 DEF BlockOn, Targets
<1>24. CASE DropRuntime
  BY <1>24 DEF DropRuntime
<1>25. CASE WaitReturned
  BY <1>25 DEF WaitReturned
<1>26. ASSUME NEW x \in Targets, TimerWake(x) PROVE WakeInv'
  BY <1>26, WakeLocalRecords DEF TimerWake, Targets
<1>27. ASSUME NEW x \in Targets, DriverWake(x) PROVE WakeInv'
  BY <1>27, WakeLocalRecords DEF DriverWake, Targets
<1>28. ASSUME NEW x \in Targets, PollWakes(x) PROVE WakeInv'
  BY <1>28, WakeLocalRecords DEF PollWakes, InPoll, Targets
<1>29. ASSUME NEW t \in Tasks, Spawn(t) PROVE WakeInv'
  BY <1>29 DEF Spawn, Targets
<1>30. ASSUME NEW t \in Tasks, Cancel(t) PROVE WakeInv'
  BY <1>30 DEF Cancel
<1>31. ASSUME NEW t \in Tasks, JoinPoll(t) PROVE WakeInv'
  BY <1>31 DEF JoinPoll
<1>32. ASSUME NEW r \in Remotes, RemotePush(r) PROVE WakeInv'
  BY <1>32 DEF RemotePush
<1>33. ASSUME NEW r \in Remotes, RemoteLoadWaiting(r) PROVE WakeInv'
  BY <1>33 DEF RemoteLoadWaiting
<1>34. ASSUME NEW r \in Remotes, RemoteSwapPending(r) PROVE WakeInv'
  BY <1>34 DEF RemoteSwapPending
<1>35. ASSUME NEW r \in Remotes, RemoteInterrupt(r) PROVE WakeInv'
  BY <1>35 DEF RemoteInterrupt
<1>36. ASSUME NEW r \in Remotes, RemoteWakeRoot(r) PROVE WakeInv'
  BY <1>36 DEF RemoteWakeRoot, Targets
<1>37. ASSUME NEW r \in Remotes, NEW t \in Tasks, RemoteWakeTask(r, t)
      PROVE WakeInv'
  BY <1>37 DEF RemoteWakeTask, Targets
<1>38. ASSUME NEW d \in Remotes \cup {RuntimeThread}, StoreArrives(d)
      PROVE WakeInv'
  BY <1>38 DEF StoreArrives
<1>39. CASE UNCHANGED vars
  BY <1>39 DEF vars
<1> QED
  BY <1>1, <1>2, <1>3, <1>4, <1>5, <1>6, <1>7, <1>8, <1>9, <1>10, <1>11,
     <1>12, <1>13, <1>14, <1>15, <1>16, <1>17, <1>18, <1>19, <1>20, <1>21,
     <1>22, <1>23, <1>24, <1>25, <1>26, <1>27, <1>28, <1>29, <1>30, <1>31,
     <1>32, <1>33, <1>34, <1>35, <1>36, <1>37, <1>38, <1>39
     DEF Next, Schedule, PollReturns, Environment, RemoteStep, RemoteWake

\* However the wakes of any number of threads interleave with drain_ready and
\* the polls, a task woken since its last poll began is queued or in the batch,
\* and a woken root has its flag set or on its way.
THEOREM WakesAreKept == Spec => []NoLostWake
<1>1. Init => TypeInv /\ WakeInv
  BY TypeInit DEF Init, WakeInv, NoLostWake, BatchInUse, Targets
<1>2. WakeInv => NoLostWake
  BY DEF WakeInv
<1> QED
  BY <1>1, <1>2, TypeStep, WakeStep, PTL DEF Spec

-----------------------------------------------------------------------------
(* The runtime does not sleep through a wake, with sequentially consistent *)
(* stores.                                                                 *)

\* Where block_on is between its two stores to `waiting`.
Announced ==
  { "recheck_root", "recheck_queue", "spin", "spin_woken", "wait",
    "dispatch", "stop_waiting" }

\* Someone who has set interrupt_pending for this wait and interrupts for it.
Answered == token \/ \E r \in Remotes : rpc[r] = "interrupt"

SleepInv ==
  /\ delayed = {}
  /\ waiting <=> pc \in Announced
  /\ pc \in {"set_waiting", "recheck_root", "recheck_queue", "spin", "wait"}
       /\ interrupt_pending => Answered
  /\ pc \in {"recheck_queue", "spin", "wait"} /\ ready => InterruptComing
  /\ pc \in {"spin", "wait"} =>
       /\ next_task = <<>> /\ queue = <<>>
       /\ remote_queue # <<>> => InterruptComing

\* Every step keeps the handshake of block_on with the threads that wake it.
LEMMA SleepStep ==
  ~StoreBuffering /\ TypeInv /\ SleepInv /\ [Next]_vars => SleepInv'
<1> SUFFICES ASSUME ~StoreBuffering, TypeInv, SleepInv, [Next]_vars
             PROVE  SleepInv'
  OBVIOUS
<1> USE ConstantsAssumption DEF SleepInv, Announced, Answered,
        InterruptComing, TypeInv, TypeOK, tasksVars, queueVars, wakeVars,
        joinVars, remoteVars
<1>1. CASE TakeReady
  BY <1>1 DEF TakeReady
<1>2. CASE TimerSpun
  BY <1>2 DEF TimerSpun
<1>3. CASE DrainNext
  BY <1>3 DEF DrainNext, Dequeue
<1>4. CASE DrainRemote
  BY <1>4 DEF DrainRemote, Dequeue
<1>5. CASE DrainQueue
  BY <1>5 DEF DrainQueue, Dequeue
<1>6. CASE DrainedQueue
  BY <1>6 DEF DrainedQueue
<1>7. CASE CheckRoot
  BY <1>7 DEF CheckRoot, Goto
<1>8. CASE ClearPending
  BY <1>8 DEF ClearPending
<1>9. CASE SetWaiting
  BY <1>9 DEF SetWaiting
<1>10. CASE RecheckRoot
  BY <1>10 DEF RecheckRoot, Goto
<1>11. CASE RecheckQueue
  BY <1>11 DEF RecheckQueue, Goto, should_skip_wait
<1>12. CASE Spun
  BY <1>12 DEF Spun, Goto
<1>13. CASE WaitInterrupted
  BY <1>13 DEF WaitInterrupted
<1>14. CASE Dispatched
  BY <1>14 DEF Dispatched, Goto
<1>15. CASE StopWaiting
  BY <1>15 DEF StopWaiting
<1>16. CASE StopPending
  BY <1>16 DEF StopPending
<1>17. CASE PollNext
  BY <1>17 DEF PollNext
<1>18. CASE BatchDone
  BY <1>18 DEF BatchDone, Goto
<1>19. CASE Flush
  BY <1>19 DEF Flush
<1>20. ASSUME NEW result \in {"pending", "ready"}, RootPolled(result)
      PROVE SleepInv'
  BY <1>20 DEF RootPolled
<1>21. CASE TaskPending
  BY <1>21 DEF TaskPending
<1>22. CASE TaskReady
  BY <1>22, WakeLocalRecords DEF TaskReady, NoWake
<1>23. CASE BlockOn
  BY <1>23 DEF BlockOn
<1>24. CASE DropRuntime
  BY <1>24 DEF DropRuntime
<1>25. CASE WaitReturned
  BY <1>25 DEF WaitReturned
<1>26. ASSUME NEW x \in Targets, TimerWake(x) PROVE SleepInv'
  BY <1>26, WakeLocalRecords DEF TimerWake
<1>27. ASSUME NEW x \in Targets, DriverWake(x) PROVE SleepInv'
  BY <1>27, WakeLocalRecords DEF DriverWake
<1>28. ASSUME NEW x \in Targets, PollWakes(x) PROVE SleepInv'
  BY <1>28, WakeLocalRecords DEF PollWakes, InPoll
<1>29. ASSUME NEW t \in Tasks, Spawn(t) PROVE SleepInv'
  BY <1>29 DEF Spawn, InPoll
<1>30. ASSUME NEW t \in Tasks, Cancel(t) PROVE SleepInv'
  BY <1>30 DEF Cancel, InPoll
<1>31. ASSUME NEW t \in Tasks, JoinPoll(t) PROVE SleepInv'
  BY <1>31 DEF JoinPoll, InPoll
<1>32. ASSUME NEW r \in Remotes, RemotePush(r) PROVE SleepInv'
  BY <1>32, ElemsAppend DEF RemotePush, RemoteLocations
<1>33. ASSUME NEW r \in Remotes, RemoteLoadWaiting(r) PROVE SleepInv'
  BY <1>33 DEF RemoteLoadWaiting, RemoteLocations
<1>34. ASSUME NEW r \in Remotes, RemoteSwapPending(r) PROVE SleepInv'
  BY <1>34 DEF RemoteSwapPending, RemoteLocations
<1>35. ASSUME NEW r \in Remotes, RemoteInterrupt(r) PROVE SleepInv'
  BY <1>35 DEF RemoteInterrupt
<1>36. ASSUME NEW r \in Remotes, RemoteWakeRoot(r) PROVE SleepInv'
  BY <1>36 DEF RemoteWakeRoot, RemoteLocations
<1>37. ASSUME NEW r \in Remotes, NEW t \in Tasks, RemoteWakeTask(r, t)
      PROVE SleepInv'
  BY <1>37 DEF RemoteWakeTask, RemoteLocations
<1>38. ASSUME NEW d \in Remotes \cup {RuntimeThread}, StoreArrives(d)
      PROVE SleepInv'
  BY <1>38 DEF StoreArrives
<1>39. CASE UNCHANGED vars
  BY <1>39 DEF vars
<1> QED
  BY <1>1, <1>2, <1>3, <1>4, <1>5, <1>6, <1>7, <1>8, <1>9, <1>10, <1>11,
     <1>12, <1>13, <1>14, <1>15, <1>16, <1>17, <1>18, <1>19, <1>20, <1>21,
     <1>22, <1>23, <1>24, <1>25, <1>26, <1>27, <1>28, <1>29, <1>30, <1>31,
     <1>32, <1>33, <1>34, <1>35, <1>36, <1>37, <1>38, <1>39
     DEF Next, Schedule, PollReturns, Environment, RemoteStep, RemoteWake

\* "Interrupt the driver if it's waiting" (enqueue_if_needed): if stores become
\* visible at once, block_on never sleeps in driver.wait() with a ready task or
\* a ready root without an interrupt delivered or about to be.
THEOREM NoSleepThroughWakeHolds ==
  ~StoreBuffering => (Spec => []NoSleepThroughWake)
<1> SUFFICES ASSUME ~StoreBuffering PROVE Spec => []NoSleepThroughWake
  OBVIOUS
<1>1. Init => SleepInv
  BY DEF Init, SleepInv, Announced
<1>2. TypeInv /\ SleepInv /\ [Next]_vars => SleepInv'
  BY SleepStep
<1>3. SleepInv => NoSleepThroughWake
  BY DEF SleepInv, NoSleepThroughWake, should_skip_wait
<1> QED
  BY <1>1, <1>2, <1>3, TypeInit, TypeStep, PTL DEF Spec

-----------------------------------------------------------------------------
(* The `queued` flag is exact.                                             *)

\* A wake on the runtime's thread that finds the flag clear puts the task at
\* the end of one of the two local queues; one that finds it set, and a wake of
\* the root, leaves the queues alone.
LEMMA WakeLocalPlaces ==
  ASSUME TypeInv, NEW x \in Targets, WakeLocal(x)
  PROVE  \/ /\ queued' = queued /\ next_task' = next_task /\ queue' = queue
         \/ /\ x \in Tasks /\ ~queued[x]
            /\ queued' = [queued EXCEPT ![x] = TRUE]
            /\ \/ next_task' = Append(next_task, x) /\ queue' = queue
               \/ queue' = Append(queue, x) /\ next_task' = next_task
<1>1. CASE x = Root
  BY <1>1 DEF WakeLocal
<1>2. CASE x # Root
  <2>1. x \in Tasks /\ EnqueueLocal(x)
    BY <1>2 DEF WakeLocal, Targets
  <2>2. CASE queued[x]
    <3>1. queued' = queued
      BY <2>1, <2>2 DEF EnqueueLocal, TypeInv, TypeOK
    <3> QED
      BY <2>1, <2>2, <3>1 DEF EnqueueLocal
  <2>3. CASE ~queued[x]
    BY <2>1, <2>3 DEF EnqueueLocal
  <2> QED
    BY <2>2, <2>3
<1> QED
  BY <1>1, <1>2

\* What a task that is appended to a local queue, its flag having been clear,
\* does to the exactness of the flags (enqueue_if_needed, spawn).
LEMMA AppendKeepsFlags ==
  ASSUME TypeInv, QueuedFlagIsExact, pc # "dropped",
         NEW x \in Tasks, ~queued[x],
         queued' = [queued EXCEPT ![x] = TRUE],
         \/ next_task' = Append(next_task, x) /\ queue' = queue
         \/ queue' = Append(queue, x) /\ next_task' = next_task,
         UNCHANGED <<remote_queue, rpc, target>>
  PROVE  QueuedFlagIsExact'
<1>1. x \notin Elems(next_task) \cup Elems(queue) \cup Elems(remote_queue)
                  \cup InTransit
  BY DEF QueuedFlagIsExact
<1>2. InTransit' = InTransit
  BY DEF InTransit
<1>3. \A t \in Tasks : queued'[t] <=> (queued[t] \/ t = x)
  BY DEF TypeInv, TypeOK
<1>4. CASE next_task' = Append(next_task, x) /\ queue' = queue
  <2>1. Elems(next_task') = Elems(next_task) \cup {x} /\ Distinct(next_task')
    BY <1>1, <1>4, ElemsAppend, DistinctAppend
       DEF QueuedFlagIsExact, TypeInv, TypeOK
  <2> QED
    BY <1>1, <1>2, <1>3, <1>4, <2>1 DEF QueuedFlagIsExact
<1>5. CASE queue' = Append(queue, x) /\ next_task' = next_task
  <2>1. Elems(queue') = Elems(queue) \cup {x} /\ Distinct(queue')
    BY <1>1, <1>5, ElemsAppend, DistinctAppend
       DEF QueuedFlagIsExact, TypeInv, TypeOK
  <2> QED
    BY <1>1, <1>2, <1>3, <1>5, <2>1 DEF QueuedFlagIsExact
<1> QED
  BY <1>4, <1>5

\* Two facts for the steps that leave the queues alone.
LEMMA SameQueues ==
  ASSUME QueuedFlagIsExact, pc # "dropped" \/ pc' = "dropped",
         UNCHANGED <<queued, next_task, queue, remote_queue, rpc, target>>
  PROVE  QueuedFlagIsExact'
<1>1. InTransit' = InTransit
  BY DEF InTransit
<1> QED
  BY <1>1 DEF QueuedFlagIsExact

\* A remote step that starts or finishes no push leaves the flags exact.
LEMMA SamePushes ==
  ASSUME QueuedFlagIsExact, TypeInv, NEW r \in Remotes,
         rpc[r] # "push", rpc' = [rpc EXCEPT ![r] = rpc'[r]], rpc'[r] # "push",
         \A q \in Remotes : q # r => target'[q] = target[q],
         UNCHANGED <<pc, queued, next_task, queue, remote_queue>>
  PROVE  QueuedFlagIsExact'
<1>1. \A q \in Remotes : rpc'[q] = "push" <=> rpc[q] = "push"
  BY DEF TypeInv, TypeOK
<1>2. \A q \in Remotes : rpc[q] = "push" => target'[q] = target[q]
  OBVIOUS
<1>3. InTransit' = InTransit
  BY <1>1, <1>2 DEF InTransit
<1> QED
  BY <1>1, <1>2, <1>3 DEF QueuedFlagIsExact

\* A task is known to nobody before it is spawned: not queued, not in the
\* batch, and no waker of it exists; who joins a task has been polled.
BornFirst ==
  /\ \A t \in Tasks : future[t] = "unborn" =>
       ~queued[t] /\ t \notin exposed /\ t \notin Elems(batch)
  /\ \A t \in Tasks : joiner[t] \in Tasks => joiner[t] \in exposed
  /\ pc = "task_poll" => polling \in exposed

\* Every step keeps unborn tasks unknown.
LEMMA BornStep ==
  TypeInv /\ BornFirst /\ QueuedFlagIsExact /\ [Next]_vars => BornFirst'
<1> SUFFICES ASSUME TypeInv, BornFirst, QueuedFlagIsExact, [Next]_vars
             PROVE  BornFirst'
  OBVIOUS
<1> USE ConstantsAssumption DEF BornFirst, TypeInv, TypeOK, tasksVars,
        queueVars, wakeVars, joinVars, remoteVars
<1>1. CASE TakeReady
  BY <1>1 DEF TakeReady
<1>2. CASE TimerSpun
  BY <1>2 DEF TimerSpun, Elems
<1>3. CASE DrainNext
  <2>1. Head(next_task) \in Tasks /\ queued[Head(next_task)] /\ pc # "dropped"
    BY <1>3, ElemsTail DEF DrainNext, QueuedFlagIsExact
  <2>2. Elems(batch') = Elems(batch) \cup {Head(next_task)}
    BY <1>3, <2>1, ElemsAppend DEF DrainNext, Dequeue
  <2>3. \A t \in Tasks : queued'[t] => queued[t]
    BY <1>3, <2>1 DEF DrainNext, Dequeue
  <2> QED
    BY <1>3, <2>1, <2>2, <2>3 DEF DrainNext, Dequeue
<1>4. CASE DrainRemote
  <2>1. Head(remote_queue) \in Tasks /\ queued[Head(remote_queue)] /\ pc # "dropped"
    BY <1>4, ElemsTail DEF DrainRemote, QueuedFlagIsExact
  <2>2. Elems(batch') = Elems(batch) \cup {Head(remote_queue)}
    BY <1>4, <2>1, ElemsAppend DEF DrainRemote, Dequeue
  <2>3. \A t \in Tasks : queued'[t] => queued[t]
    BY <1>4, <2>1 DEF DrainRemote, Dequeue
  <2> QED
    BY <1>4, <2>1, <2>2, <2>3 DEF DrainRemote, Dequeue
<1>5. CASE DrainQueue
  <2>1. Head(queue) \in Tasks /\ queued[Head(queue)] /\ pc # "dropped"
    BY <1>5, ElemsTail DEF DrainQueue, QueuedFlagIsExact
  <2>2. Elems(batch') = Elems(batch) \cup {Head(queue)}
    BY <1>5, <2>1, ElemsAppend DEF DrainQueue, Dequeue
  <2>3. \A t \in Tasks : queued'[t] => queued[t]
    BY <1>5, <2>1 DEF DrainQueue, Dequeue
  <2> QED
    BY <1>5, <2>1, <2>2, <2>3 DEF DrainQueue, Dequeue
<1>6. CASE DrainedQueue
  BY <1>6 DEF DrainedQueue
<1>7. CASE CheckRoot
  BY <1>7 DEF CheckRoot, Goto
<1>8. CASE ClearPending
  BY <1>8 DEF ClearPending
<1>9. CASE SetWaiting
  BY <1>9 DEF SetWaiting
<1>10. CASE RecheckRoot
  BY <1>10 DEF RecheckRoot, Goto
<1>11. CASE RecheckQueue
  BY <1>11 DEF RecheckQueue, Goto
<1>12. CASE Spun
  BY <1>12 DEF Spun, Goto
<1>13. CASE WaitInterrupted
  BY <1>13 DEF WaitInterrupted
<1>14. CASE Dispatched
  BY <1>14 DEF Dispatched, Goto
<1>15. CASE StopWaiting
  BY <1>15 DEF StopWaiting
<1>16. CASE StopPending
  BY <1>16 DEF StopPending
<1>17. CASE PollNext
  BY <1>17, ElemsTail DEF PollNext
<1>18. CASE BatchDone
  BY <1>18 DEF BatchDone, Goto
<1>19. CASE Flush
  BY <1>19 DEF Flush
<1>20. ASSUME NEW result \in {"pending", "ready"}, RootPolled(result)
      PROVE BornFirst'
  BY <1>20 DEF RootPolled
<1>21. CASE TaskPending
  BY <1>21 DEF TaskPending
<1>22. CASE TaskReady
  BY <1>22, WakeLocalRecords DEF TaskReady, NoWake, Targets
<1>23. CASE BlockOn
  BY <1>23 DEF BlockOn
<1>24. CASE DropRuntime
  BY <1>24 DEF DropRuntime
<1>25. CASE WaitReturned
  BY <1>25 DEF WaitReturned
<1>26. ASSUME NEW x \in Targets, TimerWake(x) PROVE BornFirst'
  BY <1>26, WakeLocalRecords DEF TimerWake, Targets
<1>27. ASSUME NEW x \in Targets, DriverWake(x) PROVE BornFirst'
  BY <1>27, WakeLocalRecords DEF DriverWake, Targets
<1>28. ASSUME NEW x \in Targets, PollWakes(x) PROVE BornFirst'
  BY <1>28, WakeLocalRecords DEF PollWakes, InPoll, Targets
<1>29. ASSUME NEW t \in Tasks, Spawn(t) PROVE BornFirst'
  BY <1>29 DEF Spawn, InPoll
<1>30. ASSUME NEW t \in Tasks, Cancel(t) PROVE BornFirst'
  BY <1>30 DEF Cancel
<1>31. ASSUME NEW t \in Tasks, JoinPoll(t) PROVE BornFirst'
  BY <1>31 DEF JoinPoll, InPoll, Current
<1>32. ASSUME NEW r \in Remotes, RemotePush(r) PROVE BornFirst'
  BY <1>32 DEF RemotePush
<1>33. ASSUME NEW r \in Remotes, RemoteLoadWaiting(r) PROVE BornFirst'
  BY <1>33 DEF RemoteLoadWaiting
<1>34. ASSUME NEW r \in Remotes, RemoteSwapPending(r) PROVE BornFirst'
  BY <1>34 DEF RemoteSwapPending
<1>35. ASSUME NEW r \in Remotes, RemoteInterrupt(r) PROVE BornFirst'
  BY <1>35 DEF RemoteInterrupt
<1>36. ASSUME NEW r \in Remotes, RemoteWakeRoot(r) PROVE BornFirst'
  BY <1>36 DEF RemoteWakeRoot
<1>37. ASSUME NEW r \in Remotes, NEW t \in Tasks, RemoteWakeTask(r, t)
      PROVE BornFirst'
  BY <1>37 DEF RemoteWakeTask
<1>38. ASSUME NEW d \in Remotes \cup {RuntimeThread}, StoreArrives(d)
      PROVE BornFirst'
  BY <1>38 DEF StoreArrives
<1>39. CASE UNCHANGED vars
  BY <1>39 DEF vars
<1> QED
  BY <1>1, <1>2, <1>3, <1>4, <1>5, <1>6, <1>7, <1>8, <1>9, <1>10, <1>11,
     <1>12, <1>13, <1>14, <1>15, <1>16, <1>17, <1>18, <1>19, <1>20, <1>21,
     <1>22, <1>23, <1>24, <1>25, <1>26, <1>27, <1>28, <1>29, <1>30, <1>31,
     <1>32, <1>33, <1>34, <1>35, <1>36, <1>37, <1>38, <1>39
     DEF Next, Schedule, PollReturns, Environment, RemoteStep, RemoteWake

\* Every step keeps the flags exact.
LEMMA FlagStep ==
  TypeInv /\ BornFirst /\ QueuedFlagIsExact /\ [Next]_vars => QueuedFlagIsExact'
<1> SUFFICES ASSUME TypeInv, BornFirst, QueuedFlagIsExact, [Next]_vars
             PROVE  QueuedFlagIsExact'
  OBVIOUS
<1> USE ConstantsAssumption DEF tasksVars, queueVars, wakeVars, joinVars,
        remoteVars
<1>1. CASE TakeReady
  BY <1>1, SameQueues DEF TakeReady
<1>2. CASE TimerSpun
  BY <1>2, SameQueues DEF TimerSpun
<1>3. CASE DrainNext
  <2>1. next_task # <<>> /\ next_task' = Tail(next_task) /\ pc # "dropped"
        /\ queued' = [queued EXCEPT ![Head(next_task)] = FALSE]
        /\ UNCHANGED <<queue, remote_queue, rpc, target>>
    BY <1>3 DEF DrainNext, Dequeue
  <2>2. /\ Head(next_task) \in Tasks /\ Distinct(next_task')
        /\ Head(next_task) \notin Elems(next_task')
        /\ Elems(next_task) = {Head(next_task)} \cup Elems(next_task')
    BY <2>1, ElemsTail, DistinctTail DEF QueuedFlagIsExact, TypeInv, TypeOK
  <2>3. InTransit' = InTransit
    BY <2>1 DEF InTransit
  <2>4. \A t \in Tasks : queued'[t] <=> (queued[t] /\ t # Head(next_task))
    BY <2>1, <2>2 DEF TypeInv, TypeOK
  <2>5. Head(next_task) \notin Elems(queue) \cup Elems(remote_queue) \cup InTransit
    BY <2>1, <2>2 DEF QueuedFlagIsExact
  <2> QED
    BY <2>1, <2>2, <2>3, <2>4, <2>5 DEF QueuedFlagIsExact
<1>4. CASE DrainRemote
  <2>1. remote_queue # <<>> /\ remote_queue' = Tail(remote_queue) /\ pc # "dropped"
        /\ queued' = [queued EXCEPT ![Head(remote_queue)] = FALSE]
        /\ UNCHANGED <<next_task, queue, rpc, target>>
    BY <1>4 DEF DrainRemote, Dequeue
  <2>2. /\ Head(remote_queue) \in Tasks /\ Distinct(remote_queue')
        /\ Head(remote_queue) \notin Elems(remote_queue')
        /\ Elems(remote_queue) = {Head(remote_queue)} \cup Elems(remote_queue')
    BY <2>1, ElemsTail, DistinctTail DEF QueuedFlagIsExact, TypeInv, TypeOK
  <2>3. InTransit' = InTransit
    BY <2>1 DEF InTransit
  <2>4. \A t \in Tasks : queued'[t] <=> (queued[t] /\ t # Head(remote_queue))
    BY <2>1, <2>2 DEF TypeInv, TypeOK
  <2>5. Head(remote_queue) \notin Elems(next_task) \cup Elems(queue) \cup InTransit
    BY <2>1, <2>2 DEF QueuedFlagIsExact
  <2> QED
    BY <2>1, <2>2, <2>3, <2>4, <2>5 DEF QueuedFlagIsExact
<1>5. CASE DrainQueue
  <2>1. queue # <<>> /\ queue' = Tail(queue) /\ pc # "dropped"
        /\ queued' = [queued EXCEPT ![Head(queue)] = FALSE]
        /\ UNCHANGED <<next_task, remote_queue, rpc, target>>
    BY <1>5 DEF DrainQueue, Dequeue
  <2>2. /\ Head(queue) \in Tasks /\ Distinct(queue')
        /\ Head(queue) \notin Elems(queue')
        /\ Elems(queue) = {Head(queue)} \cup Elems(queue')
    BY <2>1, ElemsTail, DistinctTail DEF QueuedFlagIsExact, TypeInv, TypeOK
  <2>3. InTransit' = InTransit
    BY <2>1 DEF InTransit
  <2>4. \A t \in Tasks : queued'[t] <=> (queued[t] /\ t # Head(queue))
    BY <2>1, <2>2 DEF TypeInv, TypeOK
  <2>5. Head(queue) \notin Elems(next_task) \cup Elems(remote_queue) \cup InTransit
    BY <2>1, <2>2 DEF QueuedFlagIsExact
  <2> QED
    BY <2>1, <2>2, <2>3, <2>4, <2>5 DEF QueuedFlagIsExact
<1>6. CASE DrainedQueue
  BY <1>6, SameQueues DEF DrainedQueue
<1>7. CASE CheckRoot
  BY <1>7, SameQueues DEF CheckRoot, Goto
<1>8. CASE ClearPending
  BY <1>8, SameQueues DEF ClearPending
<1>9. CASE SetWaiting
  BY <1>9, SameQueues DEF SetWaiting
<1>10. CASE RecheckRoot
  BY <1>10, SameQueues DEF RecheckRoot, Goto
<1>11. CASE RecheckQueue
  BY <1>11, SameQueues DEF RecheckQueue, Goto
<1>12. CASE Spun
  BY <1>12, SameQueues DEF Spun, Goto
<1>13. CASE WaitInterrupted
  BY <1>13, SameQueues DEF WaitInterrupted
<1>14. CASE Dispatched
  BY <1>14, SameQueues DEF Dispatched, Goto
<1>15. CASE StopWaiting
  BY <1>15, SameQueues DEF StopWaiting
<1>16. CASE StopPending
  BY <1>16, SameQueues DEF StopPending
<1>17. CASE PollNext
  BY <1>17, SameQueues DEF PollNext
<1>18. CASE BatchDone
  BY <1>18, SameQueues DEF BatchDone, Goto
<1>19. CASE Flush
  BY <1>19, SameQueues DEF Flush
<1>20. ASSUME NEW result \in {"pending", "ready"}, RootPolled(result)
      PROVE QueuedFlagIsExact'
  BY <1>20, SameQueues DEF RootPolled
<1>21. CASE TaskPending
  BY <1>21, SameQueues DEF TaskPending
<1>22. CASE TaskReady
  <2>1. /\ pc # "dropped" /\ UNCHANGED <<remote_queue, rpc, target>>
        /\ \/ NoWake
           \/ joiner[polling] \in Targets /\ WakeLocal(joiner[polling])
    BY <1>22 DEF TaskReady, TypeInv, TypeOK
  <2>2. CASE NoWake
    BY <2>1, <2>2, SameQueues DEF NoWake
  <2> QED
    BY <2>1, <2>2, WakeLocalPlaces, AppendKeepsFlags, SameQueues
<1>23. CASE BlockOn
  <2>1. \A q \in Remotes : rpc[q] = "push" => target'[q] = target[q]
    BY <1>23 DEF BlockOn, TypeInv, PushesTask
  <2>2. /\ pc # "dropped"
        /\ UNCHANGED <<queued, next_task, queue, remote_queue, rpc>>
    BY <1>23 DEF BlockOn
  <2>3. InTransit' = InTransit
    BY <2>1, <2>2 DEF InTransit
  <2> QED
    BY <2>1, <2>2, <2>3 DEF QueuedFlagIsExact
<1>24. CASE DropRuntime
  BY <1>24 DEF DropRuntime, QueuedFlagIsExact
<1>25. CASE WaitReturned
  BY <1>25, SameQueues DEF WaitReturned
<1>26. ASSUME NEW x \in Targets, TimerWake(x) PROVE QueuedFlagIsExact'
  <2>1. WakeLocal(x) /\ pc # "dropped" /\ UNCHANGED <<remote_queue, rpc, target>>
    BY <1>26 DEF TimerWake
  <2> QED
    BY <2>1, WakeLocalPlaces, AppendKeepsFlags, SameQueues
<1>27. ASSUME NEW x \in Targets, DriverWake(x) PROVE QueuedFlagIsExact'
  <2>1. WakeLocal(x) /\ pc # "dropped" /\ UNCHANGED <<remote_queue, rpc, target>>
    BY <1>27 DEF DriverWake
  <2> QED
    BY <2>1, WakeLocalPlaces, AppendKeepsFlags, SameQueues
<1>28. ASSUME NEW x \in Targets, PollWakes(x) PROVE QueuedFlagIsExact'
  <2>1. WakeLocal(x) /\ pc # "dropped" /\ UNCHANGED <<remote_queue, rpc, target>>
    BY <1>28 DEF PollWakes, InPoll
  <2> QED
    BY <2>1, WakeLocalPlaces, AppendKeepsFlags, SameQueues
<1>29. ASSUME NEW t \in Tasks, Spawn(t) PROVE QueuedFlagIsExact'
  <2>1. /\ pc # "dropped" /\ UNCHANGED <<remote_queue, rpc, target>>
        /\ queued' = [queued EXCEPT ![t] = TRUE]
        /\ queue' = Append(queue, t) /\ next_task' = next_task
    BY <1>29 DEF Spawn, InPoll
  <2>2. ~queued[t]
    BY <1>29 DEF Spawn, BornFirst
  <2> QED
    BY <2>1, <2>2, AppendKeepsFlags
<1>30. ASSUME NEW t \in Tasks, Cancel(t) PROVE QueuedFlagIsExact'
  BY <1>30, SameQueues DEF Cancel, InPoll
<1>31. ASSUME NEW t \in Tasks, JoinPoll(t) PROVE QueuedFlagIsExact'
  BY <1>31, SameQueues DEF JoinPoll, InPoll
<1>32. ASSUME NEW r \in Remotes, RemotePush(r) PROVE QueuedFlagIsExact'
  <2>1. CASE pc = "dropped"
    BY <1>32, <2>1 DEF RemotePush, QueuedFlagIsExact
  <2>2. CASE pc # "dropped"
    <3>1. /\ rpc[r] = "push" /\ rpc' = [rpc EXCEPT ![r] = "load"]
          /\ remote_queue' = Append(remote_queue, target[r])
          /\ UNCHANGED <<pc, queued, next_task, queue, target>>
      BY <1>32, <2>2 DEF RemotePush
    <3>2. target[r] \in Tasks
      BY <3>1 DEF TypeInv, PushesTask
    <3>3. target[r] \in InTransit
      BY <3>1 DEF InTransit
    <3>4. target[r] \notin Elems(next_task) \cup Elems(queue) \cup Elems(remote_queue)
      BY <2>2, <3>3 DEF QueuedFlagIsExact
    <3>5. /\ Elems(remote_queue') = Elems(remote_queue) \cup {target[r]}
          /\ Distinct(remote_queue')
      BY <2>2, <3>1, <3>2, <3>4, ElemsAppend, DistinctAppend
         DEF QueuedFlagIsExact, TypeInv, TypeOK
    <3>6. \A q \in Remotes : rpc'[q] = "push" <=> (rpc[q] = "push" /\ q # r)
      BY <3>1 DEF TypeInv, TypeOK
    <3>7. \A q \in Remotes : rpc[q] = "push" /\ q # r => target[q] # target[r]
      BY <2>2, <3>1 DEF QueuedFlagIsExact
    <3>8. InTransit' = InTransit \ {target[r]}
      BY <3>1, <3>6, <3>7 DEF InTransit
    <3> QED
      BY <2>2, <3>1, <3>3, <3>4, <3>5, <3>6, <3>8 DEF QueuedFlagIsExact
  <2> QED
    BY <2>1, <2>2
<1>33. ASSUME NEW r \in Remotes, RemoteLoadWaiting(r) PROVE QueuedFlagIsExact'
  <2>1. /\ rpc[r] # "push" /\ rpc'[r] # "push"
        /\ rpc' = [rpc EXCEPT ![r] = rpc'[r]]
        /\ \A q \in Remotes : q # r => target'[q] = target[q]
        /\ UNCHANGED <<pc, queued, next_task, queue, remote_queue>>
    BY <1>33 DEF RemoteLoadWaiting, TypeInv, TypeOK
  <2> QED
    BY <2>1, SamePushes
<1>34. ASSUME NEW r \in Remotes, RemoteSwapPending(r) PROVE QueuedFlagIsExact'
  <2>1. /\ rpc[r] # "push" /\ rpc'[r] # "push"
        /\ rpc' = [rpc EXCEPT ![r] = rpc'[r]]
        /\ \A q \in Remotes : q # r => target'[q] = target[q]
        /\ UNCHANGED <<pc, queued, next_task, queue, remote_queue>>
    BY <1>34 DEF RemoteSwapPending, TypeInv, TypeOK
  <2> QED
    BY <2>1, SamePushes
<1>35. ASSUME NEW r \in Remotes, RemoteInterrupt(r) PROVE QueuedFlagIsExact'
  <2>1. /\ rpc[r] # "push" /\ rpc'[r] # "push"
        /\ rpc' = [rpc EXCEPT ![r] = rpc'[r]]
        /\ \A q \in Remotes : q # r => target'[q] = target[q]
        /\ UNCHANGED <<pc, queued, next_task, queue, remote_queue>>
    BY <1>35 DEF RemoteInterrupt, TypeInv, TypeOK
  <2> QED
    BY <2>1, SamePushes
<1>36. ASSUME NEW r \in Remotes, RemoteWakeRoot(r) PROVE QueuedFlagIsExact'
  <2>1. /\ rpc[r] # "push" /\ rpc'[r] # "push"
        /\ rpc' = [rpc EXCEPT ![r] = rpc'[r]]
        /\ \A q \in Remotes : q # r => target'[q] = target[q]
        /\ UNCHANGED <<pc, queued, next_task, queue, remote_queue>>
    BY <1>36 DEF RemoteWakeRoot, TypeInv, TypeOK
  <2> QED
    BY <2>1, SamePushes
<1>37. ASSUME NEW r \in Remotes, NEW t \in Tasks, RemoteWakeTask(r, t)
      PROVE QueuedFlagIsExact'
  <2>1. /\ rpc[r] = "idle" /\ target' = [target EXCEPT ![r] = t]
        /\ rpc' = [rpc EXCEPT ![r] = IF queued[t] THEN "load" ELSE "push"]
        /\ queued' = [queued EXCEPT ![t] = TRUE]
        /\ UNCHANGED <<pc, next_task, queue, remote_queue>>
    BY <1>37 DEF RemoteWakeTask
  <2>2. \A q \in Remotes : q # r => target'[q] = target[q] /\ rpc'[q] = rpc[q]
    BY <2>1 DEF TypeInv, TypeOK
  <2>3. CASE queued[t]
    <3>1. rpc' = [rpc EXCEPT ![r] = rpc'[r]] /\ rpc'[r] = "load" /\ queued' = queued
      BY <2>1, <2>3 DEF TypeInv, TypeOK
    <3> QED
      BY <2>1, <2>2, <3>1, SamePushes
  <2>4. CASE ~queued[t] /\ pc # "dropped"
    <3>1. rpc'[r] = "push" /\ target'[r] = t
      BY <2>1, <2>4 DEF TypeInv, TypeOK
    <3>2. InTransit' = InTransit \cup {t}
      BY <2>1, <2>2, <3>1 DEF InTransit
    <3>3. t \notin Elems(next_task) \cup Elems(queue) \cup Elems(remote_queue)
                      \cup InTransit
      BY <2>4 DEF QueuedFlagIsExact
    <3>4. \A u \in Tasks : queued'[u] <=> (queued[u] \/ u = t)
      BY <2>1 DEF TypeInv, TypeOK
    <3>5. \A q \in Remotes : rpc[q] = "push" => target[q] # t
      BY <3>3 DEF InTransit
    <3>6. \A p, q \in Remotes :
            rpc'[p] = "push" /\ rpc'[q] = "push" /\ target'[p] = target'[q] => p = q
      BY <2>2, <2>4, <3>1, <3>5 DEF QueuedFlagIsExact
    <3> QED
      BY <2>1, <2>4, <3>2, <3>3, <3>4, <3>6 DEF QueuedFlagIsExact
  <2>5. CASE pc = "dropped"
    BY <2>1, <2>5 DEF QueuedFlagIsExact
  <2> QED
    BY <2>3, <2>4, <2>5
<1>38. ASSUME NEW d \in Remotes \cup {RuntimeThread}, StoreArrives(d)
      PROVE QueuedFlagIsExact'
  BY <1>38, SameQueues DEF StoreArrives
<1>39. CASE UNCHANGED vars
  BY <1>39, SameQueues DEF vars
<1> QED
  BY <1>1, <1>2, <1>3, <1>4, <1>5, <1>6, <1>7, <1>8, <1>9, <1>10, <1>11,
     <1>12, <1>13, <1>14, <1>15, <1>16, <1>17, <1>18, <1>19, <1>20, <1>21,
     <1>22, <1>23, <1>24, <1>25, <1>26, <1>27, <1>28, <1>29, <1>30, <1>31,
     <1>32, <1>33, <1>34, <1>35, <1>36, <1>37, <1>38, <1>39
     DEF Next, Schedule, PollReturns, Environment, RemoteStep, RemoteWake

\* The `queued` flag of Task says exactly whether the task is in a ready queue
\* or on its way to one, and it is there once, for any number of threads that
\* wake it while drain_ready runs.
THEOREM QueuedFlagHolds == Spec => []QueuedFlagIsExact
<1>1. Init => QueuedFlagIsExact
  <2> SUFFICES ASSUME Init PROVE QueuedFlagIsExact
    OBVIOUS
  <2>1. Elems(<<>>) = {} /\ Distinct(<<>>)
    BY DEF Elems, Distinct
  <2>2. InTransit = {}
    BY DEF Init, InTransit
  <2> QED
    BY <2>1, <2>2 DEF Init, QueuedFlagIsExact
<1>2. Init => BornFirst
  BY ConstantsAssumption DEF Init, BornFirst, Elems
<1> QED
  BY <1>1, <1>2, TypeInit, TypeStep, BornStep, FlagStep, PTL DEF Spec

-----------------------------------------------------------------------------
(* Joining and canceling.                                                  *)

\* No waker is left behind in the JoinState of a task that has stored its
\* output: JoinHandle::poll takes the output and stores no waker.
NoJoinerLeft == \A t \in Tasks : output[t] # "none" => joiner[t] = NoOne

\* A joiner is woken by the step of SpawnFuture::poll that stores the output it
\* waits for, and its waker is not left behind by that step or by any later one.
THEOREM JoinerIsWokenHolds == Spec => JoinerIsWoken
<1>1. Init => NoJoinerLeft
  BY DEF Init, NoJoinerLeft
<1>2. TypeInv /\ NoJoinerLeft /\ [Next]_vars => NoJoinerLeft'
  <2> SUFFICES ASSUME TypeInv, NoJoinerLeft, [Next]_vars
               PROVE  NoJoinerLeft'
    OBVIOUS
  <2>1. CASE UNCHANGED <<output, joiner>>
    BY <2>1 DEF NoJoinerLeft
  <2>2. CASE BlockOn
    BY <2>2 DEF BlockOn, NoJoinerLeft, TypeInv, TypeOK
  <2>3. CASE TaskReady
    BY <2>3 DEF TaskReady, NoJoinerLeft, TypeInv, TypeOK
  <2>4. ASSUME NEW t \in Tasks, JoinPoll(t) PROVE NoJoinerLeft'
    BY <2>4 DEF JoinPoll, NoJoinerLeft, TypeInv, TypeOK
  <2>5. CASE Schedule
    BY <2>1, <2>5
       DEF Schedule, TakeReady, TimerSpun, DrainNext, DrainRemote, DrainQueue,
           Dequeue, DrainedQueue, CheckRoot, ClearPending, SetWaiting,
           RecheckRoot, RecheckQueue, Spun, WaitInterrupted, Dispatched,
           StopWaiting, StopPending, PollNext, BatchDone, Flush, Goto, joinVars
  <2>6. CASE PollReturns
    BY <2>1, <2>3, <2>6 DEF PollReturns, RootPolled, TaskPending, joinVars
  <2>7. CASE Environment
    BY <2>1, <2>2, <2>4, <2>7
       DEF Environment, DropRuntime, WaitReturned, TimerWake, DriverWake,
           PollWakes, Spawn, Cancel, joinVars
  <2>8. ASSUME NEW r \in Remotes, RemoteStep(r) \/ RemoteWake(r)
        PROVE  NoJoinerLeft'
    BY <2>1, <2>8
       DEF RemoteStep, RemoteWake, RemotePush, RemoteLoadWaiting,
           RemoteSwapPending, RemoteInterrupt, RemoteWakeRoot, RemoteWakeTask,
           joinVars
  <2>9. ASSUME NEW d \in Remotes \cup {RuntimeThread}, StoreArrives(d)
        PROVE  NoJoinerLeft'
    BY <2>1, <2>9 DEF StoreArrives, joinVars
  <2>10. CASE UNCHANGED vars
    BY <2>1, <2>10 DEF vars, joinVars
  <2> QED
    BY <2>5, <2>6, <2>7, <2>8, <2>9, <2>10 DEF Next
<1>3. TypeInv /\ NoJoinerLeft /\ NoJoinerLeft' /\ [Next]_vars
      => [\A t \in Tasks :
            output'[t] # "none" =>
              /\ joiner'[t] = NoOne
              /\ output[t] = "none" /\ joiner[t] # NoOne
                   => notified'[joiner[t]]]_vars
  <2> SUFFICES ASSUME TypeInv, NoJoinerLeft', [Next]_vars,
                      NEW t \in Tasks, output'[t] # "none",
                      output[t] = "none", joiner[t] # NoOne
               PROVE  notified'[joiner[t]]
    BY DEF NoJoinerLeft
  <2>1. CASE UNCHANGED output
    BY <2>1
  <2>2. CASE TaskReady
    <3>1. t = polling /\ WakeLocal(joiner[polling])
      BY <2>2 DEF TaskReady, TypeInv, TypeOK
    <3>2. joiner[t] \in Targets /\ notified \in [Targets -> BOOLEAN]
      BY DEF TypeInv, TypeOK
    <3> QED
      BY <3>1, <3>2 DEF WakeLocal
  <2>3. ASSUME NEW u \in Tasks, JoinPoll(u) PROVE notified'[joiner[t]]
    BY <2>3 DEF JoinPoll, TypeInv, TypeOK
  <2>4. CASE Schedule
    BY <2>1, <2>4
       DEF Schedule, TakeReady, TimerSpun, DrainNext, DrainRemote, DrainQueue,
           Dequeue, DrainedQueue, CheckRoot, ClearPending, SetWaiting,
           RecheckRoot, RecheckQueue, Spun, WaitInterrupted, Dispatched,
           StopWaiting, StopPending, PollNext, BatchDone, Flush, Goto, joinVars
  <2>5. CASE PollReturns
    BY <2>1, <2>2, <2>5 DEF PollReturns, RootPolled, TaskPending, joinVars
  <2>6. CASE Environment
    BY <2>1, <2>3, <2>6
       DEF Environment, BlockOn, DropRuntime, WaitReturned, TimerWake,
           DriverWake, PollWakes, Spawn, Cancel, joinVars
  <2>7. ASSUME NEW r \in Remotes, RemoteStep(r) \/ RemoteWake(r)
        PROVE  notified'[joiner[t]]
    BY <2>1, <2>7
       DEF RemoteStep, RemoteWake, RemotePush, RemoteLoadWaiting,
           RemoteSwapPending, RemoteInterrupt, RemoteWakeRoot, RemoteWakeTask,
           joinVars
  <2>8. ASSUME NEW d \in Remotes \cup {RuntimeThread}, StoreArrives(d)
        PROVE  notified'[joiner[t]]
    BY <2>1, <2>8 DEF StoreArrives, joinVars
  <2>9. CASE UNCHANGED vars
    BY <2>1, <2>9 DEF vars, joinVars
  <2> QED
    BY <2>4, <2>5, <2>6, <2>7, <2>8, <2>9 DEF Next
<1> QED
  BY <1>1, <1>2, <1>3, TypeInit, TypeStep, PTL DEF Spec, JoinerIsWoken

\* "not resumed" (JoinHandle::cancel): no step starts a poll of a task that is
\* canceled when the step is taken.
THEOREM CanceledNotResumedHolds == Spec => CanceledNotResumed
<1> DEFINE Starts == \E t \in Tasks : /\ canceled[t] /\ future[t] # "polling"
                                      /\ future'[t] = "polling"
<1>1. TypeInv /\ [Next]_vars => ~Starts
  <2> SUFFICES ASSUME TypeInv, [Next]_vars PROVE ~Starts
    OBVIOUS
  <2>1. CASE UNCHANGED future
    BY <2>1
  <2>2. CASE PollNext
    <3>1. Head(batch) \in Tasks
      BY <2>2, ElemsTail DEF PollNext, TypeInv, TypeOK
    <3> QED
      BY <2>2, <3>1 DEF PollNext, TypeInv, TypeOK
  <2>3. CASE TaskPending
    BY <2>3 DEF TaskPending, TypeInv, TypeOK
  <2>4. CASE TaskReady
    BY <2>4 DEF TaskReady, TypeInv, TypeOK
  <2>5. ASSUME NEW t \in Tasks, Spawn(t) PROVE ~Starts
    BY <2>5 DEF Spawn, TypeInv, TypeOK
  <2>6. CASE Schedule
    BY <2>1, <2>2, <2>6
       DEF Schedule, TakeReady, TimerSpun, DrainNext, DrainRemote, DrainQueue,
           Dequeue, DrainedQueue, CheckRoot, ClearPending, SetWaiting,
           RecheckRoot, RecheckQueue, Spun, WaitInterrupted, Dispatched,
           StopWaiting, StopPending, BatchDone, Flush, Goto, tasksVars
  <2>7. CASE PollReturns
    BY <2>1, <2>3, <2>4, <2>7 DEF PollReturns, RootPolled, tasksVars
  <2>8. CASE Environment
    BY <2>1, <2>5, <2>8
       DEF Environment, BlockOn, DropRuntime, WaitReturned, TimerWake,
           DriverWake, PollWakes, Cancel, JoinPoll, tasksVars
  <2>9. ASSUME NEW r \in Remotes, RemoteStep(r) \/ RemoteWake(r) PROVE ~Starts
    BY <2>1, <2>9
       DEF RemoteStep, RemoteWake, RemotePush, RemoteLoadWaiting,
           RemoteSwapPending, RemoteInterrupt, RemoteWakeRoot, RemoteWakeTask,
           tasksVars
  <2>10. ASSUME NEW d \in Remotes \cup {RuntimeThread}, StoreArrives(d)
         PROVE  ~Starts
    BY <2>1, <2>10 DEF StoreArrives, tasksVars
  <2>11. CASE UNCHANGED vars
    BY <2>1, <2>11 DEF vars, tasksVars
  <2> QED
    BY <2>6, <2>7, <2>8, <2>9, <2>10, <2>11 DEF Next
<1>2. TypeInv /\ [Next]_vars
        => [\A t \in Tasks :
              canceled[t] /\ future[t] # "polling" => future'[t] # "polling"]_vars
  BY <1>1
<1> QED
  BY <1>2, TypeInit, TypeStep, PTL DEF Spec, CanceledNotResumed

=============================================================================

------------------------------ MODULE Executor ------------------------------
(***************************************************************************)
(* The scheduler of one vibeio runtime: Runtime::block_on, the three ready *)
(* queues, the `queued` flag of every task, the wakers (task.rs and        *)
(* BlockOnNotify), JoinHandle, and the handshake through `waiting` and     *)
(* `interrupt_pending` by which a waker on another thread gets a runtime   *)
(* that sleeps in driver.wait() to run again.                              *)
(*                                                                         *)
(* The runtime's thread takes one step per access to memory that another   *)
(* thread can see; what only its own thread sees is folded into the step   *)
(* next to it.  Each remote waker thread walks through Task::              *)
(* enqueue_if_needed or BlockOnNotify::wake_by_ref one access at a time.   *)
(* Futures are arbitrary: while one is polled it may wake, spawn, cancel   *)
(* and join any number of times before it returns.                         *)
(***************************************************************************)
EXTENDS Naturals, Sequences

CONSTANTS
  Tasks,           \* the tasks that may ever be spawned
  Joinable,        \* those spawned with a JoinHandle; the rest are detached
  Root,            \* the future given to block_on
  NoOne,           \* "None" where a task is expected
  Remotes,         \* threads other than the runtime's that hold wakers
  BatchSize,       \* RuntimeBuilder::batch_size
  InlineCap,       \* NEXT_TASK_INLINE_CAP
  StoreBuffering,  \* TRUE: a plain store may become visible after later loads
  MaxRemoteWakes   \* bound on the wakes the remote threads perform

\* The runtime's own thread, as opposed to the remote ones.
RuntimeThread == "runtime"

ASSUME ConstantsAssumption ==
  /\ Joinable \subseteq Tasks
  /\ Root \notin Tasks
  /\ NoOne \notin Tasks \cup {Root}
  /\ RuntimeThread \notin Remotes
  /\ BatchSize \in Nat
  /\ InlineCap \in Nat
  /\ StoreBuffering \in BOOLEAN
  /\ MaxRemoteWakes \in Nat

VARIABLES
  pc,                 \* where the runtime's thread is
  future,             \* Task::future, with "unborn" before spawn
  queued,             \* Task::queued
  next_task,          \* RuntimeInner::next_task
  queue,              \* RuntimeInner::queue
  remote_queue,       \* RuntimeInner::remote_queue
  batch,              \* the local `batch` of block_on
  polling,            \* the task whose future is being polled
  ready,              \* BlockOnNotify::ready of the current block_on
  waiting,            \* RuntimeInner::waiting, as other threads see it
  interrupt_pending,  \* RuntimeInner::interrupt_pending
  token,              \* an interrupt the driver has not consumed yet
  canceled, output, joiner,  \* JoinState of every task
  rpc, target,        \* where each remote thread is, and whom it wakes
  delayed,            \* threads with a store still in their store buffer:
                      \* `waiting = true` of the runtime's thread and
                      \* `ready = true` of a remote one are the stores that
                      \* a later load of the same thread may overtake
  remoteWakes,        \* how many wakes remote threads have begun
  exposed,            \* the futures that were polled: their wakers may be out
  notified            \* woken since their last poll began (history)

tasksVars   == <<future, queued, exposed, notified>>
queueVars   == <<next_task, queue, remote_queue, batch>>
wakeVars    == <<ready, waiting, interrupt_pending, token, delayed>>
joinVars    == <<canceled, output, joiner>>
remoteVars  == <<rpc, target, remoteWakes>>
vars == <<pc, polling, tasksVars, queueVars, wakeVars, joinVars, remoteVars>>

Targets == Tasks \cup {Root}

Locations ==
  { "outside", "dropped", "top", "root_poll", "timer", "drain_next",
    "drain_remote", "drain_queue", "check_root", "clear_pending",
    "set_waiting", "recheck_root", "recheck_queue", "spin", "spin_woken",
    "wait", "dispatch", "stop_waiting", "stop_pending", "next_in_batch",
    "task_poll", "flush" }

RemoteLocations == { "idle", "push", "load", "swap", "interrupt" }

Elems(s) == { s[i] : i \in 1..Len(s) }

-----------------------------------------------------------------------------
(* Wakes on the runtime's own thread.                                      *)

\* Mutant: the inline queue takes one task too many.
EnqueueLocalOverCap(t) ==
  /\ queued' = [queued EXCEPT ![t] = TRUE]
  /\ IF queued[t]
     THEN UNCHANGED <<next_task, queue>>
     ELSE IF Len(next_task) <= InlineCap
          THEN next_task' = Append(next_task, t) /\ UNCHANGED queue
          ELSE queue' = Append(queue, t) /\ UNCHANGED next_task

\* Mutant: the previous value of `queued` is not looked at.
EnqueueLocalTwice(t) ==
  /\ queued' = [queued EXCEPT ![t] = TRUE]
  /\ IF Len(next_task) < InlineCap
     THEN next_task' = Append(next_task, t) /\ UNCHANGED queue
     ELSE queue' = Append(queue, t) /\ UNCHANGED next_task

\* Task::enqueue_if_needed, first branch: the flag is set, and a task that
\* was not queued goes to the inline queue, or to the main one when it is full.
EnqueueLocal(t) ==
  /\ queued' = [queued EXCEPT ![t] = TRUE]
  /\ IF queued[t]
     THEN UNCHANGED <<next_task, queue>>
     ELSE IF Len(next_task) < InlineCap
          THEN next_task' = Append(next_task, t) /\ UNCHANGED queue
          ELSE queue' = Append(queue, t) /\ UNCHANGED next_task

\* Waker::wake of a task or of the root future, called on the runtime's thread.
WakeLocal(x) ==
  /\ notified' = [notified EXCEPT ![x] = TRUE]
  /\ IF x = Root
     THEN ready' = TRUE /\ UNCHANGED <<queued, next_task, queue>>
     ELSE EnqueueLocal(x) /\ UNCHANGED ready

NoWake == UNCHANGED <<notified, ready, queued, next_task, queue>>

-----------------------------------------------------------------------------
(* block_on.                                                               *)

\* block_on is entered: a fresh BlockOnNotify, ready from the start.  Remote
\* threads that still wake the previous root future hold a stale notify; it
\* can no longer make this one ready.
BlockOn ==
  /\ pc = "outside"
  /\ pc' = "top"
  /\ ready' = TRUE
  /\ exposed' = exposed \ {Root}
  /\ notified' = [notified EXCEPT ![Root] = TRUE]
  /\ target' = [r \in Remotes |->
                  IF target[r] = Root THEN NoOne ELSE target[r]]
  /\ delayed' = {d \in delayed : d = RuntimeThread}
  /\ joiner' = [t \in Tasks |-> IF joiner[t] = Root THEN NoOne ELSE joiner[t]]
  /\ UNCHANGED <<polling, future, queued, queueVars, waiting,
                 interrupt_pending, token, canceled, output, rpc,
                 remoteWakes>>

\* root_notify.take_ready(): a read-modify-write, so it also drains the
\* store buffer of the thread.
TakeReady ==
  /\ pc = "top"
  /\ RuntimeThread \notin delayed
  /\ ready' = FALSE
  /\ IF ready
     THEN /\ pc' = "root_poll"
          /\ exposed' = exposed \cup {Root}
          /\ notified' = [notified EXCEPT ![Root] = FALSE]
     ELSE pc' = "timer" /\ UNCHANGED <<exposed, notified>>
  /\ UNCHANGED <<polling, future, queued, queueVars, waiting,
                 interrupt_pending, token, delayed, joinVars, remoteVars>>

\* The root future returns Pending, or Ready and block_on returns.
RootPolled(result) ==
  /\ pc = "root_poll"
  /\ pc' = IF result = "ready" THEN "outside" ELSE "timer"
  /\ UNCHANGED <<polling, tasksVars, queueVars, wakeVars, joinVars, remoteVars>>

\* The wakers that run on the runtime's thread outside of a poll: the timers
\* that expire in spin_and_get_deadline, and those that the driver calls in
\* wait() and flush().
TimerWake(x) ==
  /\ pc \in {"timer", "spin", "spin_woken"}
  /\ x \in exposed
  /\ WakeLocal(x)
  /\ pc' = IF pc = "timer" THEN "timer" ELSE "spin_woken"
  /\ UNCHANGED <<polling, future, exposed, remote_queue, batch, waiting,
                 interrupt_pending, token, delayed, joinVars, remoteVars>>

DriverWake(x) ==
  /\ pc \in {"dispatch", "flush"}
  /\ x \in exposed
  /\ WakeLocal(x)
  /\ UNCHANGED <<pc, polling, future, exposed, remote_queue, batch, waiting,
                 interrupt_pending, token, delayed, joinVars, remoteVars>>

\* The first spin of the iteration ends; the batch is cleared for draining.
TimerSpun ==
  /\ pc = "timer"
  /\ pc' = "drain_next"
  /\ batch' = <<>>
  /\ UNCHANGED <<polling, tasksVars, next_task, queue, remote_queue, wakeVars,
                 joinVars, remoteVars>>

\* mark_dequeued and the move into the batch.
Dequeue(t) ==
  /\ queued' = [queued EXCEPT ![t] = FALSE]
  /\ batch' = Append(batch, t)
  /\ UNCHANGED <<polling, future, exposed, notified, wakeVars, joinVars,
                 remoteVars>>

\* drain_ready, one step per task that is popped: the inline queue, then the
\* remote one, then the main one, while the budget lasts.
DrainNext ==
  /\ pc = "drain_next"
  /\ Len(batch) < BatchSize
  /\ next_task # <<>>
  /\ next_task' = Tail(next_task)
  /\ Dequeue(Head(next_task))
  /\ UNCHANGED <<pc, queue, remote_queue>>

DrainRemote ==
  /\ pc = "drain_remote"
  /\ Len(batch) < BatchSize
  /\ remote_queue # <<>>
  /\ remote_queue' = Tail(remote_queue)
  /\ Dequeue(Head(remote_queue))
  /\ UNCHANGED <<pc, next_task, queue>>

DrainQueue ==
  /\ pc = "drain_queue"
  /\ Len(batch) < BatchSize
  /\ queue # <<>>
  /\ queue' = Tail(queue)
  /\ Dequeue(Head(queue))
  /\ UNCHANGED <<pc, next_task, remote_queue>>

\* A queue is empty or the budget is spent: on to the next queue, and from
\* the last one to the batch, or to the waiting path when the batch is empty.
DrainedQueue ==
  /\ \/ /\ pc = "drain_next"
        /\ Len(batch) >= BatchSize \/ next_task = <<>>
        /\ pc' = "drain_remote"
     \/ /\ pc = "drain_remote"
        /\ Len(batch) >= BatchSize \/ remote_queue = <<>>
        /\ pc' = "drain_queue"
     \/ /\ pc = "drain_queue"
        /\ Len(batch) >= BatchSize \/ queue = <<>>
        /\ pc' = IF batch = <<>> THEN "check_root" ELSE "next_in_batch"
  /\ UNCHANGED <<polling, tasksVars, queueVars, wakeVars, joinVars, remoteVars>>

-----------------------------------------------------------------------------
(* The waiting path of block_on.                                           *)

\* The next location of the runtime's thread, when nothing else changes.
Goto(from, to) ==
  /\ pc = from
  /\ pc' = to
  /\ UNCHANGED <<polling, tasksVars, queueVars, wakeVars, joinVars, remoteVars>>

CheckRoot == Goto("check_root", IF ready THEN "top" ELSE "clear_pending")

\* Mutant: the flag of the previous wait is kept.
ClearPendingForgotten == Goto("clear_pending", "set_waiting")

\* interrupt_pending.store(false) before `waiting` is announced.
ClearPending ==
  /\ pc = "clear_pending"
  /\ pc' = "set_waiting"
  /\ interrupt_pending' = FALSE
  /\ UNCHANGED <<polling, tasksVars, queueVars, ready, waiting, token, delayed,
                 joinVars, remoteVars>>

\* waiting.store(true, Release): no fence orders it before the loads below.
SetWaiting ==
  /\ pc = "set_waiting"
  /\ pc' = "recheck_root"
  /\ \/ waiting' = TRUE /\ UNCHANGED delayed
     \/ /\ StoreBuffering
        /\ delayed' = delayed \cup {RuntimeThread}
        /\ UNCHANGED waiting
  /\ UNCHANGED <<polling, tasksVars, queueVars, ready, interrupt_pending, token,
                 joinVars, remoteVars>>

RecheckRoot == Goto("recheck_root", IF ready THEN "stop_waiting" ELSE "recheck_queue")

\* should_skip_wait
should_skip_wait == next_task # <<>> \/ remote_queue # <<>> \/ queue # <<>>

\* Mutant: the queues are not looked at again once `waiting` is set.
RecheckQueueSkipped == Goto("recheck_queue", "spin")

\* The queues are looked at again after `waiting` was set.
RecheckQueue ==
  Goto("recheck_queue", IF should_skip_wait THEN "stop_waiting" ELSE "spin")

\* The second spin: driver.wait() only when no timer has fired.  Entering the
\* kernel drains the store buffer.
Spun ==
  \/ RuntimeThread \notin delayed /\ Goto("spin", "wait")
  \/ Goto("spin_woken", "stop_waiting")

\* driver.wait() returns because of an interrupt, which it consumes.
WaitInterrupted ==
  /\ pc = "wait"
  /\ token
  /\ token' = FALSE
  /\ pc' = "dispatch"
  /\ UNCHANGED <<polling, tasksVars, queueVars, ready, waiting,
                 interrupt_pending, delayed, joinVars, remoteVars>>

\* driver.wait() returns because of I/O, the timeout or EINTR.  An interrupt
\* that is also there may be consumed with it.
WaitReturned ==
  /\ pc = "wait"
  /\ pc' = "dispatch"
  /\ token' \in {token, FALSE}
  /\ UNCHANGED <<polling, tasksVars, queueVars, ready, waiting,
                 interrupt_pending, delayed, joinVars, remoteVars>>

Dispatched == Goto("dispatch", "stop_waiting")

\* stop_waiting: first `waiting`, then `interrupt_pending`.
StopWaiting ==
  /\ pc = "stop_waiting"
  /\ RuntimeThread \notin delayed
  /\ pc' = "stop_pending"
  /\ waiting' = FALSE
  /\ UNCHANGED <<polling, tasksVars, queueVars, ready, interrupt_pending, token,
                 delayed, joinVars, remoteVars>>

StopPending ==
  /\ pc = "stop_pending"
  /\ pc' = "top"
  /\ interrupt_pending' = FALSE
  /\ UNCHANGED <<polling, tasksVars, queueVars, ready, waiting, token, delayed,
                 joinVars, remoteVars>>

-----------------------------------------------------------------------------
(* Polling the batch.                                                      *)

\* Mutant: SpawnFuture::poll does not look at `canceled`.
PollNextIgnoringCancel ==
  /\ pc = "next_in_batch"
  /\ batch # <<>>
  /\ batch' = Tail(batch)
  /\ LET t == Head(batch) IN
     /\ notified' = [notified EXCEPT ![t] = FALSE]
     /\ IF future[t] = "some"
        THEN /\ future' = [future EXCEPT ![t] = "polling"]
             /\ exposed' = exposed \cup {t}
             /\ polling' = t
             /\ pc' = "task_poll"
        ELSE UNCHANGED <<future, exposed, polling, pc>>
  /\ UNCHANGED <<queued, next_task, queue, remote_queue, wakeVars, joinVars,
                 remoteVars>>

\* A task whose future is gone is skipped; a canceled one completes without
\* its inner future being polled (SpawnFuture::poll); any other is polled.
PollNext ==
  /\ pc = "next_in_batch"
  /\ batch # <<>>
  /\ batch' = Tail(batch)
  /\ LET t == Head(batch) IN
     /\ notified' = [notified EXCEPT ![t] = FALSE]
     /\ IF future[t] = "some" /\ ~canceled[t]
        THEN /\ future' = [future EXCEPT ![t] = "polling"]
             /\ exposed' = exposed \cup {t}
             /\ polling' = t
             /\ pc' = "task_poll"
        ELSE /\ future' = [future EXCEPT ![t] = "done"]
             /\ UNCHANGED <<exposed, polling, pc>>
  /\ UNCHANGED <<queued, next_task, queue, remote_queue, wakeVars, joinVars,
                 remoteVars>>

\* The poll returns Pending: the future is put back.
TaskPending ==
  /\ pc = "task_poll"
  /\ pc' = "next_in_batch"
  /\ future' = [future EXCEPT ![polling] = "some"]
  /\ polling' = NoOne
  /\ UNCHANGED <<queued, exposed, notified, queueVars, wakeVars, joinVars,
                 remoteVars>>

\* The poll returns Ready: the output is stored and the joiner woken.
TaskReady ==
  /\ pc = "task_poll"
  /\ pc' = "next_in_batch"
  /\ future' = [future EXCEPT ![polling] = "done"]
  /\ output' = [output EXCEPT ![polling] = "some"]
  /\ joiner' = [joiner EXCEPT ![polling] = NoOne]
  /\ IF joiner[polling] = NoOne THEN NoWake ELSE WakeLocal(joiner[polling])
  /\ polling' = NoOne
  /\ UNCHANGED <<exposed, remote_queue, batch, waiting, interrupt_pending, token,
                 delayed, canceled, remoteVars>>

\* Mutant: the loop over the batch is left early.
BatchCutShort == Goto("next_in_batch", "flush")

\* The batch is done; driver.flush() submits and reaps without blocking, and
\* may consume an interrupt on the way.
BatchDone == batch = <<>> /\ Goto("next_in_batch", "flush")

Flush ==
  /\ pc = "flush"
  /\ pc' = "top"
  /\ token' \in {token, FALSE}
  /\ UNCHANGED <<polling, tasksVars, queueVars, ready, waiting,
                 interrupt_pending, delayed, joinVars, remoteVars>>

-----------------------------------------------------------------------------
(* What a future does while it is polled, and user code between two calls  *)
(* of block_on.                                                            *)

InPoll == pc \in {"task_poll", "root_poll"}
Current == IF pc = "root_poll" THEN Root ELSE polling

\* A future wakes itself or another future it holds the waker of.
PollWakes(x) ==
  /\ InPoll
  /\ x \in exposed
  /\ WakeLocal(x)
  /\ UNCHANGED <<pc, polling, future, exposed, remote_queue, batch, waiting,
                 interrupt_pending, token, delayed, joinVars, remoteVars>>

\* spawn and spawn_detached: queued from the start, on the main queue.
Spawn(t) ==
  /\ InPoll \/ pc = "outside"
  /\ future[t] = "unborn"
  /\ future' = [future EXCEPT ![t] = "some"]
  /\ queued' = [queued EXCEPT ![t] = TRUE]
  /\ queue' = Append(queue, t)
  /\ notified' = [notified EXCEPT ![t] = TRUE]
  /\ UNCHANGED <<pc, polling, exposed, next_task, remote_queue, batch, wakeVars,
                 joinVars, remoteVars>>

\* JoinHandle::cancel: consumes the handle, sets the flag, and wakes no one.
Cancel(t) ==
  /\ InPoll \/ pc = "outside"
  /\ t \in Joinable /\ future[t] # "unborn"
  /\ ~canceled[t] /\ output[t] # "taken"
  /\ canceled' = [canceled EXCEPT ![t] = TRUE]
  /\ UNCHANGED <<pc, polling, tasksVars, queueVars, wakeVars, output, joiner,
                 remoteVars>>

\* Mutant: the waker is stored whether or not there is an output.
JoinPollStoresFirst(t) ==
  /\ InPoll
  /\ t \in Joinable /\ future[t] # "unborn"
  /\ ~canceled[t] /\ output[t] # "taken"
  /\ joiner' = [joiner EXCEPT ![t] = Current]
  /\ output' = [output EXCEPT ![t] = IF @ = "some" THEN "taken" ELSE @]
  /\ UNCHANGED <<pc, polling, tasksVars, queueVars, wakeVars, canceled,
                 remoteVars>>

\* JoinHandle::poll by the future that is being polled: takes the output or
\* leaves its waker.
JoinPoll(t) ==
  /\ InPoll
  /\ t \in Joinable /\ future[t] # "unborn"
  /\ ~canceled[t] /\ output[t] # "taken"
  /\ IF output[t] = "some"
     THEN output' = [output EXCEPT ![t] = "taken"] /\ UNCHANGED joiner
     ELSE joiner' = [joiner EXCEPT ![t] = Current] /\ UNCHANGED output
  /\ UNCHANGED <<pc, polling, tasksVars, queueVars, wakeVars, canceled,
                 remoteVars>>

\* Runtime::drop: the queues go, so later wakes find nothing to upgrade to.
DropRuntime ==
  /\ pc = "outside"
  /\ pc' = "dropped"
  /\ next_task' = <<>> /\ queue' = <<>> /\ remote_queue' = <<>>
  /\ UNCHANGED <<polling, tasksVars, batch, wakeVars, joinVars, remoteVars>>

-----------------------------------------------------------------------------
(* Remote threads.                                                         *)

\* Task::enqueue_if_needed on another thread: the swap of `queued`.
RemoteWakeTask(r, t) ==
  /\ rpc[r] = "idle"
  /\ r \notin delayed
  /\ remoteWakes < MaxRemoteWakes
  /\ t \in exposed
  /\ rpc' = [rpc EXCEPT ![r] = IF queued[t] THEN "load" ELSE "push"]
  /\ target' = [target EXCEPT ![r] = t]
  /\ queued' = [queued EXCEPT ![t] = TRUE]
  /\ notified' = [notified EXCEPT ![t] = TRUE]
  /\ remoteWakes' = remoteWakes + 1
  /\ UNCHANGED <<pc, polling, future, exposed, queueVars, wakeVars, joinVars>>

\* BlockOnNotify::wake_by_ref on another thread: a plain store to `ready`.
RemoteWakeRoot(r) ==
  /\ rpc[r] = "idle"
  /\ remoteWakes < MaxRemoteWakes
  /\ Root \in exposed
  /\ rpc' = [rpc EXCEPT ![r] = "load"]
  /\ target' = [target EXCEPT ![r] = Root]
  /\ \/ ready' = TRUE /\ UNCHANGED delayed
     \/ StoreBuffering /\ delayed' = delayed \cup {r} /\ UNCHANGED ready
  /\ notified' = [notified EXCEPT ![Root] = TRUE]
  /\ remoteWakes' = remoteWakes + 1
  /\ UNCHANGED <<pc, polling, future, queued, exposed, queueVars, waiting,
                 interrupt_pending, token, joinVars>>

\* remote_queue.upgrade() and push; nothing is pushed once the runtime is gone.
RemotePush(r) ==
  /\ rpc[r] = "push"
  /\ rpc' = [rpc EXCEPT ![r] = "load"]
  /\ remote_queue' = IF pc = "dropped" THEN remote_queue
                     ELSE Append(remote_queue, target[r])
  /\ UNCHANGED <<pc, polling, tasksVars, next_task, queue, batch, wakeVars,
                 joinVars, target, remoteWakes>>

\* waiting.load(): only a runtime that waits is interrupted.
RemoteLoadWaiting(r) ==
  /\ rpc[r] = "load"
  /\ rpc' = [rpc EXCEPT ![r] = IF waiting THEN "swap" ELSE "idle"]
  /\ UNCHANGED <<pc, polling, tasksVars, queueVars, wakeVars, joinVars, target,
                 remoteWakes>>

\* interrupt_pending.swap(true), which also drains the thread's store buffer:
\* only the first waker of a wait interrupts.
RemoteSwapPending(r) ==
  /\ rpc[r] = "swap"
  /\ r \notin delayed
  /\ rpc' = [rpc EXCEPT ![r] = IF interrupt_pending THEN "idle" ELSE "interrupt"]
  /\ interrupt_pending' = TRUE
  /\ UNCHANGED <<pc, polling, tasksVars, queueVars, ready, waiting, token,
                 delayed, joinVars, target, remoteWakes>>

\* interruptor.interrupt(): an eventfd, a mio waker or unpark; it stays until
\* the driver consumes it.
RemoteInterrupt(r) ==
  /\ rpc[r] = "interrupt"
  /\ rpc' = [rpc EXCEPT ![r] = "idle"]
  /\ token' = TRUE
  /\ UNCHANGED <<pc, polling, tasksVars, queueVars, ready, waiting,
                 interrupt_pending, delayed, joinVars, target, remoteWakes>>

\* A delayed store reaches memory.
StoreArrives(d) ==
  /\ d \in delayed
  /\ delayed' = delayed \ {d}
  /\ IF d = RuntimeThread
     THEN waiting' = TRUE /\ UNCHANGED ready
     ELSE ready' = TRUE /\ UNCHANGED waiting
  /\ UNCHANGED <<pc, polling, tasksVars, queueVars, interrupt_pending, token,
                 joinVars, remoteVars>>

-----------------------------------------------------------------------------
Init ==
  /\ pc = "outside"
  /\ polling = NoOne
  /\ future = [t \in Tasks |-> "unborn"]
  /\ queued = [t \in Tasks |-> FALSE]
  /\ next_task = <<>> /\ queue = <<>> /\ remote_queue = <<>> /\ batch = <<>>
  /\ ready = FALSE /\ waiting = FALSE /\ interrupt_pending = FALSE
  /\ token = FALSE
  /\ delayed = {}
  /\ canceled = [t \in Tasks |-> FALSE]
  /\ output = [t \in Tasks |-> "none"]
  /\ joiner = [t \in Tasks |-> NoOne]
  /\ rpc = [r \in Remotes |-> "idle"]
  /\ target = [r \in Remotes |-> NoOne]
  /\ remoteWakes = 0
  /\ exposed = {}
  /\ notified = [x \in Targets |-> FALSE]

\* The steps of block_on that the runtime's thread takes by itself.  It does
\* not decide when driver.wait() returns, nor what a future does.
Schedule ==
  \/ TakeReady \/ TimerSpun
  \/ DrainNext \/ DrainRemote \/ DrainQueue \/ DrainedQueue
  \/ CheckRoot \/ ClearPending \/ SetWaiting \/ RecheckRoot \/ RecheckQueue
  \/ Spun \/ WaitInterrupted \/ Dispatched \/ StopWaiting \/ StopPending
  \/ PollNext \/ BatchDone \/ Flush

\* A poll returns.
PollReturns ==
  \/ RootPolled("pending") \/ RootPolled("ready")
  \/ TaskPending \/ TaskReady

\* What futures, timers, the driver and the user decide.
Environment ==
  \/ BlockOn \/ DropRuntime \/ WaitReturned
  \/ \E x \in Targets : TimerWake(x) \/ DriverWake(x) \/ PollWakes(x)
  \/ \E t \in Tasks : Spawn(t) \/ Cancel(t) \/ JoinPoll(t)

\* The rest of a wake that a remote thread has begun.
RemoteStep(r) ==
  \/ RemotePush(r) \/ RemoteLoadWaiting(r)
  \/ RemoteSwapPending(r) \/ RemoteInterrupt(r)

RemoteWake(r) ==
  \/ RemoteWakeRoot(r)
  \/ \E t \in Tasks : RemoteWakeTask(r, t)

Next ==
  \/ Schedule \/ PollReturns \/ Environment
  \/ \E r \in Remotes : RemoteStep(r) \/ RemoteWake(r)
  \/ \E d \in Remotes \cup {RuntimeThread} : StoreArrives(d)

Spec == Init /\ [][Next]_vars

\* The runtime's thread and the remote threads keep running, a poll returns,
\* and a store buffer drains.  Nothing is assumed of I/O, timers or users.
Fairness ==
  /\ WF_vars(Schedule)
  /\ WF_vars(PollReturns)
  /\ \A r \in Remotes : WF_vars(RemoteStep(r))
  /\ \A d \in Remotes \cup {RuntimeThread} : WF_vars(StoreArrives(d))

FairSpec == Spec /\ Fairness

-----------------------------------------------------------------------------
(* Properties.                                                             *)

\* Types, with the capacities the code keeps: the inline queue never exceeds
\* NEXT_TASK_INLINE_CAP, a batch never exceeds batch_size, and a task is on the
\* stack exactly while block_on is inside its poll.
TypeOK ==
  /\ pc \in Locations
  /\ polling \in IF pc = "task_poll" THEN Tasks ELSE {NoOne}
  /\ future \in [Tasks -> {"unborn", "some", "polling", "done"}]
  /\ queued \in [Tasks -> BOOLEAN]
  /\ next_task \in Seq(Tasks) /\ Len(next_task) <= InlineCap
  /\ queue \in Seq(Tasks)
  /\ remote_queue \in Seq(Tasks)
  /\ batch \in Seq(Tasks) /\ Len(batch) <= BatchSize
  /\ ready \in BOOLEAN
  /\ waiting \in BOOLEAN
  /\ interrupt_pending \in BOOLEAN
  /\ token \in BOOLEAN
  /\ delayed \subseteq Remotes \cup {RuntimeThread}
  /\ canceled \in [Tasks -> BOOLEAN]
  /\ output \in [Tasks -> {"none", "some", "taken"}]
  /\ joiner \in [Tasks -> Targets \cup {NoOne}]
  /\ rpc \in [Remotes -> RemoteLocations]
  /\ target \in [Remotes -> Targets \cup {NoOne}]
  /\ remoteWakes \in Nat
  /\ exposed \subseteq Targets
  /\ notified \in [Targets -> BOOLEAN]

\* The tasks that a remote thread has claimed by its swap and not pushed yet.
InTransit == { target[r] : r \in {q \in Remotes : rpc[q] = "push"} }

Distinct(s) == \A i, j \in 1..Len(s) : s[i] = s[j] => i = j

\* The `queued` flag of Task (task.rs) tells the truth: it is set exactly
\* while the task sits in one of the ready queues or a remote thread is on
\* its way to push it, and then in one place only, once.  So no wake is
\* swallowed by a stale flag and no queue outgrows the number of tasks.
QueuedFlagIsExact ==
  pc # "dropped" =>
    /\ \A t \in Tasks :
         queued[t] <=> t \in Elems(next_task) \cup Elems(queue)
                              \cup Elems(remote_queue) \cup InTransit
    /\ Distinct(next_task) /\ Distinct(queue) /\ Distinct(remote_queue)
    /\ \A q, r \in Remotes :
         rpc[q] = "push" /\ rpc[r] = "push" /\ target[q] = target[r] => q = r
    /\ Elems(next_task) \cap Elems(queue) = {}
    /\ Elems(next_task) \cap Elems(remote_queue) = {}
    /\ Elems(queue) \cap Elems(remote_queue) = {}
    /\ InTransit \cap (Elems(next_task) \cup Elems(queue)
                          \cup Elems(remote_queue)) = {}

\* A task that was woken since its last poll began is queued or in the batch
\* that is being polled, however the wakes of several threads interleave with
\* drain_ready; a woken root future has its `ready` flag set.
NoLostWake ==
  pc # "dropped" =>
    /\ \A t \in Tasks : notified[t] => queued[t] \/ t \in Elems(batch)
    /\ notified[Root] /\ pc # "outside" => ready \/ delayed \cap Remotes # {}

\* Somebody who is going to interrupt the driver.
InterruptComing ==
  \/ token
  \/ \E r \in Remotes :
       \/ rpc[r] = "interrupt"
       \/ rpc[r] = "swap" /\ ~interrupt_pending
       \/ rpc[r] = "load" /\ waiting

\* "Interrupt the driver if it's waiting" (task.rs, enqueue_if_needed): while
\* block_on sleeps in driver.wait() with a task in a ready queue or the root
\* future ready, an interrupt has been delivered or a thread is about to
\* deliver it.
NoSleepThroughWake ==
  pc = "wait" /\ (should_skip_wait \/ ready) => InterruptComing

\* SpawnFuture::poll and JoinHandle::poll: whoever has left its waker in the
\* JoinState of a task is woken by the step that stores the task's output, and
\* no waker is left there from then on, neither by that step nor by a poll of
\* the JoinHandle that finds the output.
JoinerIsWoken ==
  [][\A t \in Tasks :
       output'[t] # "none" =>
         /\ joiner'[t] = NoOne
         /\ output[t] = "none" /\ joiner[t] # NoOne
              => notified'[joiner[t]]]_vars

\* JoinHandle::cancel, "not resumed": once canceled, a task whose future is
\* not on the stack is never polled again.
CanceledNotResumed ==
  [][\A t \in Tasks :
       canceled[t] /\ future[t] # "polling" => future'[t] # "polling"]_vars

\* Every wake is followed by a poll: a future that was woken is polled again
\* unless block_on returns first.
WokenIsPolled ==
  \A x \in Targets :
    notified[x] ~> (~notified[x] \/ pc \in {"outside", "dropped"})
=============================================================================

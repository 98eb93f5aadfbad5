# vibeio in TLA+

vibeio is a single-threaded, completion-aware async runtime for Rust: one
runtime per thread, a driver per runtime (io_uring, mio or IOCP), a timing
wheel, signals, processes, and wrappers for sockets and files.  This directory
models the parts in which the order of events decides what is correct, checks
them with TLC on small instances and proves their safety properties for every
instance with TLAPS.

All paths below are relative to `src/vibeio/src/` unless they start with `src/`.

## 1. The system

| Component | State | Operations | Interacts with | Correct if |
|---|---|---|---|---|
| executor (`executor.rs`, `task.rs`) | three ready queues (`next_task`, `queue`, `remote_queue`), the `queued` flag and future of each task, `waiting`/`interrupt_pending`, `JoinState` | `block_on`, `spawn`, wake (local and remote), `cancel`, join, drop | polls futures; sleeps in the driver; spins the timer; is woken by any thread | no wake is lost or slept through, a task is in one queue at most, every woken task is polled |
| timing wheel, timer (`timer.rs`) | slab of entries, slots per level, tick, generation counter, heap and cached minimum; the instant of the last spin | `insert`, `remove`, `advance`; `submit`, `cancel`, `spin_and_get_deadline` | called by `Sleep` and by `block_on` | no timer is early, lost, or late by a turn; a dead handle removes nothing |
| Sleep, interval, timeout (`time/`) | deadline, timer handle, fired; next deadline and missed-tick behaviour | `poll`, `reset`, drop; `tick`, `reset` | timer | a pending sleep has a timer; an interval keeps its cadence |
| driver trait (`driver/mod.rs`) | which driver it is | dispatch | executor, operations | any driver keeps the same promise |
| io_uring driver (`driver/uring.rs`) | registrations (poll or completion mode), completion slab, submission and completion queues, `pending_submissions` | register, deregister, `submit_poll`, `submit_completion`, `get_completion_result`, `set_completion_waker`, `ignore_completion`, flush, wait | kernel, operations, task wakers | a waiter is woken when ready; a result goes to its own operation; memory lives as long as the kernel uses it |
| mio driver (`driver/mio.rs`) | registrations with one waiter and one interest | register, deregister, `submit_poll`, `wait_timeout` | epoll, operations | a waiter is woken when ready |
| IOCP driver (`driver/iocp.rs`) | registrations, AFD polls and completions in slabs | the same as io_uring | Windows | as io_uring |
| operations (`op/*.rs`) | buffer, completion token, result | `poll_poll`, `poll_completion`, drop | driver | what the request points to is handed over on drop |
| sockets, listeners, pipes (`fd_inner.rs`, `net/`, `io/pipe.rs`) | a descriptor, its registration and mode, `O_NONBLOCK` | `from_std`, `into_poll`, `into_completion`, `connect`, `try_clone`, `into_raw_fd`, drop; one operation per read or write | operations, driver | registration, mode and descriptor stay in step; a descriptor has one owner |
| processes (`process/`, `op/waitpid.rs`) | child, channel to the reaper task, the runtime's reaper cell, pidfd | spawn, wait, `try_wait`, kill, drop; the reapers | executor, driver, signals, blocking pool, threads | every process that exits is reaped once |
| signals (`signal/`) | process-wide registry, counters, waker lists, self-pipe, previous handler | new, `poll_recv`, drop; handler; dispatch thread | other threads, the kernel, wakers | a waiting listener is woken by the signal |
| blocking pool (`blocking/`), files and standard streams (`fs/file.rs`, `io/stdio.rs`) | a channel and a shared cell per job; the cursor | `spawn_blocking`, read, write | other threads | buffers and pipes are taken once; bytes come in order |
| `AsyncWrap` (`util/async_wrap.rs`) | inner object, buffer and futures | `poll_read`, `poll_write`, `poll_flush` | operations, tokio's traits | the object comes back, no byte is lost or repeated |
| copy and split (`io/util.rs`) | a lock per split object, a buffer per direction | `copy`, `split`, `copy_bidirectional` | operations | nothing read is lost; both directions go on |
| file system calls, buffers, builder, mock driver, `vibeio-hyper`, `vibeio-quinn`, examples | none of their own | | | not modelled, see 6 |

What is hard here:

* a wake from another thread against a runtime that is about to sleep;
* the `queued` flag, which is swapped by wakers and cleared by the executor;
* slab keys (tokens, timers, completions, AFD polls) and descriptor numbers that
  are reused while something that names the former owner is on its way;
* memory that the kernel uses after its owner was dropped;
* edges of epoll that are consumed when nobody waits;
* truncation to milliseconds and a wheel that only moves when spun;
* a signal between a listener's look at the counter and its registration;
* the handle of a process, which moves from the child to a future, a channel, a
  reaper and a task while the process exits, the future is dropped or the runtime ends;
* callers that leave while a thread still works with their buffer;
* one of several calls that fails in a conversion.

`PROJECT.json` lists these as hazards, each at its line, with the properties
that would notice.

## 2. Modules

| Module | Models | Kind |
|---|---|---|
| `Executor` | `executor.rs`, `task.rs` | state machine, one step per access to shared memory |
| `ExecutorProofs` | | proofs about `Executor` |
| `TimingWheel` | the wheel of `timer.rs` | functions on a record |
| `WheelUse` | any use of a wheel | state machine over `TimingWheel` |
| `Sleep` | `Timer`, `time/sleep.rs` and the clock | state machine over `TimingWheel` |
| `Interval` | `time/interval.rs` | state machine |
| `Signal` | `signal/unix.rs` | state machine, one step per critical section, atomic access or system call |
| `WakeSources` | the four above side by side | composition |
| `WheelProofs` | | lemmas about the functions of `TimingWheel` |
| `TimerProofs` | | proofs about `WheelUse` and `Sleep` in `WakeSources` |
| `WakeProofs` | | proofs about `Signal` and `Interval` in `WakeSources` |
| `PollDriver` | what `submit_poll` promises | abstract specification |
| `PollOps` | `poll_poll` of `op/*.rs` | a table: the readiness an operation needs and the interest it registers |
| `PollTasks` | operations in poll mode as tasks use them | actions shared by the drivers |
| `UringPoll`, `MioPoll`, `IocpPoll` | poll-based I/O of `driver/uring.rs`, `driver/mio.rs`, `driver/iocp.rs` | state machines, implement `PollDriver` |
| `AnyDriver` | `driver/mod.rs` over the three | composition and refinement |
| `AnyDriverProofs` | | proofs about `AnyDriver` and its refinement of `PollDriver` |
| `Ops`, `WinOps` | `op/*.rs` on io_uring and on Windows | tables: the memory an operation lends to the system and what its `Drop` hands over |
| `CompletionTasks` | operation futures, the completions slab, handles | actions shared by the drivers |
| `UringOps`, `IocpOps` | completion-based I/O of `driver/uring.rs`, `driver/iocp.rs` | state machines |
| `AnyCompletion` | the two | composition |
| `AnyCompletionProofs` | | proofs about `AnyCompletion` |
| `Process` | `process/reaper.rs`, `Child`, `op/waitpid.rs`, the reaper cell of `executor.rs` | state machine |
| `ObjectTypes` | the types of `net/` and `io/pipe.rs` | a table: which constructors and conversions each has |
| `Handle` | `fd_inner.rs` and the life of sockets, listeners and pipes | state machine |
| `BlockingIo` | `blocking/`, reads of `fs/file.rs`, `io/stdio.rs` and a child's pipes | state machine |
| `AsyncWrap` | `util/async_wrap.rs` | state machine |
| `Copy` | `io/util.rs` | state machine |
| `RuntimeObjects` | the five above side by side | composition |
| `ProcessProofs` | | proofs about `Process` in `RuntimeObjects` |
| `ObjectProofs` | | proofs about `Handle`, `BlockingIo`, `AsyncWrap` and `Copy` in `RuntimeObjects` |
| `MC*` | | instances for TLC |

Definitions carry the names of the functions they model where TLA+ allows it;
`PROJECT.json` maps each to its lines.  A definition introduced by a comment
`Mutant:` is a plausible bug: put in the place of the definition next to it,
it makes TLC find the property violated that it is listed with.

`WakeSources` and `RuntimeObjects` put components side by side that share no state:
`part` (chosen by the initial state) says which of them a behaviour is about, the others stay
as they begin, and a property says something in the behaviours of its own part.
Checking them together is checking each by itself, under one configuration.
`AnyDriver` and `AnyCompletion` are different: the code does choose one driver
when the runtime is built, the tasks and operations are the same for all of them, and the
properties are stated once, for whichever driver was chosen.

### Executor

The runtime's thread walks through `block_on` (`pc`): look at the root's flag,
poll the root, spin the timer, drain a batch, and either poll the batch or
announce `waiting`, look again, sleep in the driver and clean up.  Steps are cut
where another thread can see the difference; what is thread-local is folded
into the step next to it.  A remote thread walks through
`Task::enqueue_if_needed` or `BlockOnNotify::wake_by_ref`: swap `queued`, push,
load `waiting`, swap `interrupt_pending`, interrupt.  Futures are arbitrary:
while one is polled, any number of wakes, spawns, cancels and joins may happen
before it returns Pending or Ready.  The driver and the timer may wake any
future whose waker is out.

`StoreBuffering` chooses the memory model.  When it is TRUE, the two plain
stores that precede a load of another variable (`waiting = true` at
`executor.rs:779`, `ready = true` in `wake_by_ref`) may stay in the store buffer
(`delayed`) until `StoreArrives`; atomic swaps and the lock-free queue's
operations drain it.  This is x86-TSO; weaker machines allow more.

`notified` is a history variable: woken since the last poll began.

### TimingWheel, WheelUse, Sleep, Interval

The wheel is a record, and `insert`, `remove`, `advance` and
`refresh_min_expiration` are functions on it, with the number of levels and slots
as parameters.  `WheelUse` lets a caller insert at any tick, use live and dead
handles and advance by any amount.  `Sleep` adds `Timer` and the future: a clock
in units of which `Res` make a millisecond, spins at any time, and polls at any
time, as a task can be polled for other reasons than its timer.  `Interval`
takes of a Sleep what `Sleep` shows (it ends early by less than a millisecond, or late)
and lets the program be late, drop `tick` in its sleep, reset the
interval and change its behaviour.

### Signal

One signal number, listeners on threads of their own, the process-wide registry,
the self-pipe, and the dispatch thread.  `Register`, `Unregister` and `Restore`
are separate steps because `unregister_signal` restores the handler after it has
released the lock; `PollLoad` and `PollRegister` because `poll_recv` loads the
counter before it registers its waker.

### PollDriver and the three drivers

`PollDriver` says what poll-based I/O relies on: an accepted waker stays until it
is woken, replaced by a newer waker for the same handle and direction, or its
handle is removed (`Keeps`), and it is woken if the handle stays ready (`Wakes`).  Each driver is shown
to implement it (`KeepsPromise`, an `INSTANCE PollDriver WITH` a refinement mapping).  The
mapping calls a waiter *owed* only while something is on the way that will wake it (a request
or a completion on io_uring; the kernel's interest and event on mio; the AFD
poll or its completion on IOCP), so a driver that loses what would have woken a
waiter makes a step that the abstract specification does not allow.  What an operation
asks for is mapped by the readiness that its system call needs, what the
driver is given by the interest the operation passes (`PollOps`), so an operation that waits for the
wrong one is noticed as well.  `splice` can also be blocked by its source (`elsewhere`), and waits for its destination
all the same.

When the runtime takes what the kernel has is part of the promise (`Looks`).  mio and IOCP keep the
trait's `should_flush`, which is always true (`driver/mod.rs:92`), so `block_on` flushes after every batch.  io_uring says
yes only if an entry was pushed since (`driver/uring.rs:413-415`), and `block_on` waits only with no task
to run (`executor.rs:773-806`, `826`): on io_uring the wake is promised if the tasks
all sleep again and again, and `Keeps` without that condition.

An operation makes its system call in one step and submits in the next, since
the handle may become ready in between.  Handles are closed and registered anew
at any time, so tokens are reused with requests of the former handle in flight.
`reregister_handle` has no caller and is left out.

### CompletionTasks, UringOps, IocpOps

`Ops` and `WinOps` give for each operation what its request points to: `held`, what the kernel
may use until completion, and `read`, what it reads when it takes the entry (paths, the
address of `connect`); and `handed`, what of it `Drop` passes to `ignore_completion`.
`FreeingOps` are those that do not hand over everything: `MemoryIsOwned` asks of them only that
what they hand over is kept, and of all others that everything is.
`CompletionTasks` drives any two operations of any kind through polls by different tasks
and drops, with handles closed and descriptor numbers reused; `UringOps` adds
the bounded submission queue, in a ring of any of `RingSizes` entries, with submits that take all, the
first few or none of its entries; a push to a full queue fails if the kernel takes none.  `IocpOps` has
requests that start at once and may end without a completion once their
handle is off the port.  A request for a descriptor that was closed before it was
submitted is taken like any other, and its failure is the completion that follows.
`register_sync_cancel` in `deregister_handle` finds what the kernel
has, not what is still queued.

### Process

Where the `std::process::Child` of each process is: in the `Child`, in the future of
`wait`, in a channel, with a reaper, in a thread; or gone, with a pidfd task that keeps
the pid.  All five reapers are there: pidfd tasks on a driver with completions
and on one without, SIGCHLD, the blocking pool, and Windows.  A process exits or is
killed at any time, `wait` and the `Child` are dropped at any time, several calls may
start a reaper at once, the runtime may be dropped.  Any call that waits for a process may fail
(`try_wait` of a reaper, `wait` in a thread, the pidfd and `waitpid`), and the pool may drop a job; the
handle is dropped then and `failed`, a history variable, says so.

### Handle, ObjectTypes

Objects of one type (any of the six), descriptor numbers and slab keys that are
reused, open files with their `O_NONBLOCK`, and a driver with or without
completions.  Each call is one step, since none of them waits, and each call to the
system or to the driver in it may fail; a failure leaves what the code's error path leaves.  Of the failures that
cost an object its registration one is allowed per behaviour (`unbound`): what it does is
in the model, and afterwards `RegistrationIsOwn` says nothing (see 5).  Failures to set `O_NONBLOCK` are not bounded:
from a socket's constructor or conversion they end the object; a pipe ignores them, and `connect` of
a UDP socket on Windows reports them and leaves the socket as it is.  `unset`, a history variable, has the files whose
last such attempt failed while their object went on; `NonblockingFitsMode` leaves them out.

### BlockingIo, AsyncWrap, Copy

`BlockingIo`: the pool runs a job at once, later or never, and the caller may leave at
any point; the job keeps what it took.  `AsyncWrap`: a reader and a writer, or one
task that does both, poll in any order and may leave after Pending.  `Copy`: the two
copies of `copy_bidirectional` with a lock per object, short writes, failures of
reads and writes, and objects (`sized`) that read as much as the buffer's length.

## 3. Runs

| Run | Result | States | Shows |
|---|---|---|---|
| `executor_join` | pass | 2.2 * 10^6 | joins and cancels with a remote waker, over several `block_on`, with store buffers: flags stay exact and wakes are kept, a joiner is woken when the output is there, no canceled task is resumed |
| `executor_live` | pass | 2.7 * 10^5 | with sequentially consistent stores `block_on` never sleeps through a wake, and every wake is followed by a poll, when a batch is larger than the inline queue |
| `executor_tso_sleep` | violation | | with store buffers `block_on` can sleep through a wake |
| `wake_sources` | pass | 1.1 * 10^6 | two sleeps with spurious polls, resets, drops, late spins; any use of a wheel; an interval with a late program; two signal listeners that register, wait and drop against the dispatch thread |
| `signal_lost` | violation | | a listener misses the signal that is dispatched while it registers |
| `interval_catch_up` | violation | | after a catch-up one tick is neither returned nor slept for |
| `poll_drivers` | pass | 1.9 * 10^5 | io_uring, mio and IOCP implement `PollDriver` for one direction per handle, with every operation |
| `uring_poll_both` | violation | | with both directions of one handle in use, a ready waiter is not woken |
| `completions` | pass | 1.8 * 10^6 | results, memory, wakes and files of completion-based operations on io_uring and IOCP |
| `runtime_objects` | pass | 1.3 * 10^5 | processes, sockets and pipes, with calls that fail; the blocking pool, `AsyncWrap`, copies |
| `process_wait` | violation | | without completions `wait` fails at once while the process runs |
| `copy_stalls` | violation | | bytes that were read are not written while the other object's read is pending |

`PROJECT.json` lists the properties of each run; every one of them is preceded
by a comment in its module that says what it states and of which lines.

### Bounds, and why they are enough

* Executor: two tasks and a batch and an inline queue of sizes 2 and 1 make every
  queue overflow into the next and let one task hold another back; a remote
  thread wakes again what was polled since.  Two remote threads race on
  `interrupt_pending` in the proofs, which hold for all values.
* Wheel: three levels of four slots and ticks up to 18 reach every level, every
  wrap of level 0 and a cascade from level 1; two timers hold each other's slot and key.
* Sleep: half milliseconds (`Res = 2`) show truncation; two keys and three
  generations let a key be reused while a handle is held.
* Interval: periods of 0, 2 and 3 up to time 10, so the program is late by several periods
  and by a fraction of one.
* Signal: two listeners are first and last in turn; two `SignalState`s tell an old
  registration from a new one; a pipe of one signal overflows.
* Poll drivers: two handles share two tokens, so a token is reused by the
  other handle with a request of the first in flight; two requests or
  completions per token are outstanding at a time on io_uring, two AFD polls on IOCP.
* Completions: two operations, two slab keys, rings of one and of two entries (a push
  to a full queue, and a submit that takes the first of two), and two files that have the same descriptor number in turn.
* Processes: two children and two reapers, so that one replaces the other with a process in its charge.
* Handles: two objects, descriptors, files and keys: a number that one gives up
  is what the other gets.
* Blocking pool: two jobs, so one outlives its caller while the next is under way.
* AsyncWrap: three bytes in the buffer, chunks of one and two, four bytes in all: a
  buffer is emptied in parts and filled again.  Copies: two bytes each way with a buffer of two.

CHECK_DEADLOCK is off where bounds (remote wakes, ticks, generations, signals, requests,
bytes) end every behaviour or where a program may have nothing more to do.  It
is on for `poll_drivers` and `uring_poll_both`.

### Fairness

* `executor_live`: the runtime's thread keeps running and the poll of a future returns
  (a future that blocks its thread starves everything, by design), remote threads
  finish a wake they have begun, stores leave the store buffer.  All weak fairness: each
  thread has one next step, which stays enabled until it is taken.
  Nothing is assumed of the environment.
* `poll_drivers`, `uring_poll_both`: an operation that was begun is
  finished, the kernel reports a handle that is ready (weak).  Taking a completion or an event
  is strongly fair in the states in which the runtime is about to look (`Looks`), because then `block_on` takes all of them,
  although in the model operations of other tasks come in between and disable
  the step for a moment.  mio and IOCP look after every batch and whenever they wait.  io_uring is only sure to look
  when no task is left to run, so the fairness is that of `woken = {}`, and `KeepsPromise` and
  `ReadyWaiterIsWoken` have `[]<>(woken = {})` as a premise: a task that keeps waking itself and submits nothing
  keeps the completion queue from being drained (see 5).
* `runtime_objects`: for processes, the executor polls what was woken, the driver reports a
  readable pidfd and threads run (weak); on io_uring the driver does so under the same condition as above,
  which is assumed here.  That SIGCHLD wakes its reaper is *not*
  assumed, since `signal_lost` shows that it may fail to; `ExitedIsReaped` leaves a process that
  waits with the SIGCHLD reaper out for that reason.  For copies, `join` polls both (weak); peers need not
  send, close or fail.
* `copy_stalls`: as for copies above.

## 4. Proofs

Each safety property that a passing run checks is also a theorem: for every value of
the constants, not only for the bounds of the run.  Those of poll-based I/O other than its types
have a hypothesis, `OneDirection` (below).

| Module | Theorem | States |
|---|---|---|
| `ExecutorProofs` | `TypeCorrect` | `TypeOK` |
| | `QueuedFlagHolds` | `QueuedFlagIsExact` |
| | `WakesAreKept` | `NoLostWake` |
| | `NoSleepThroughWakeHolds` | `NoSleepThroughWake`, for sequentially consistent stores |
| | `JoinerIsWokenHolds` | `JoinerIsWoken`, an action property |
| | `CanceledNotResumedHolds` | `CanceledNotResumed`, an action property |
| `AnyDriverProofs` | `TypeCorrect` | `TypeOK` |
| | `ArmedRequests` | `ArmedHasRequest`; on io_uring, if each handle is used in one direction |
| | `Refinement` | the steps of the drivers are steps of `PollDriver` (safety part of `KeepsPromise`), if each handle is used in one direction |
| | `Accepted` | `AcceptedIsOwed`, an action property (part of `KeepsPromise`), likewise |
| `AnyCompletionProofs` | `TypeCorrect` | `TypeOK` |
| | `ResultsAreOwn` | `ResultIsOwn` |
| | `MemoryStaysOwned` | `MemoryIsOwned` |
| | `PendingIsWoken` | `PendingWillWake` |
| | `QueueStaysAnnounced` | `QueueIsAnnounced` |
| | `ActsOnItsFile` | `ActsOnOwnFile` |
| `TimerProofs`, over `WheelProofs` | `EntriesStayFiled` | `FiledWhereRecorded` |
| | `WheelHoldsWhatIsDue` | `HoldsWhatIsDue` |
| | `WheelIsNeverEarly` | `NeverEarly` |
| | `MinimumStaysExact` | `MinimumIsExact` |
| | `LateByLessThanThat` | `LateByLessThanATurn` |
| | `PendingSleepIsTimed` | `PendingSleepHasTimer` |
| | `EarlyByLessThanThat` | `EarlyByLessThanATick` |
| | `WheelStaysBehind` | `WheelNeverAhead` |
| `WakeProofs` | `RegistryCounts` | `RegistryCountsListeners` |
| | `WaitersAreListed` | `WaiterIsListed` |
| | `NoneIsInvented` | `NoInventedSignal` |
| | `CadenceIsKept` | `KeepsCadence` |
| `ProcessProofs` | `OneWaits` | `OneWaiter` |
| | `LostOnlySo` | `LostOnlyByCancelling` |
| `ObjectProofs` | `RegistrationsAreOwn` | `RegistrationIsOwn` |
| | `DescriptorsHaveOneOwner` | `DescriptorHasOneOwner` |
| | `NonblockingFits` | `NonblockingFitsMode` |
| | `NothingIsLost` | `NothingLost` |
| | `ObjectStaysSomewhere` | `ObjectIsSomewhere` |
| | `BytesStayKept` | `BytesAreKept` |
| | `CellIsTakenOnce` | `TakenOnce` |
| | `ReadsStayInOrder` | `ReadsInOrder` |

### Assumptions

The proofs use the named assumptions of the modules they extend, which TLC
evaluates in each run, and nothing else: numbers are naturals and those that
cannot be zero are not, `Root`, `NoOne`, `None` and `NoState` are none of the things
they stand beside (`NoneAssumption` says so for records), the first token is a token.
`WidthAssumption` says that a power of the number of slots is a positive natural, because
the provers know nothing of powers.  Nothing is assumed of how many operations, timers, children,
listeners, descriptors or bytes there are.

### Executor

* *Types.* `TypeOK` is inductive with `PushesTask`: a remote thread that is about
  to push a task has a task as its target, since only tasks have a `queued` flag.
* *No lost wake.* `NoLostWake` says that a woken task is in a queue or in the
  batch, or a remote thread is about to push it, or it is being polled.  A batch
  is forgotten at the end of the loop, so one needs `BatchInUse`: outside the part
  of the loop that polls it, the batch is empty.
* *No sleep through a wake.* The handshake is Dekker's: the runtime writes
  `waiting` and reads the queues, the waker writes a queue and reads `waiting`.
  `SleepInv` says that from `waiting = true` on, for whatever the runtime's second
  look has not seen, some remote thread is still to load `waiting`
  (`Announced`), or `interrupt_pending` is set and there is a token in the driver or a thread
  about to leave one (`Answered`).  The proof uses that without store buffering `waiting`
  is visible at once; TLC shows that the theorem fails with it.
* *Flags.* `QueuedFlagIsExact` says that the flag is set exactly when the task is in one of
  the places, and in one only.  It is inductive together with the types and with
  `BornFirst`: what is queued, exposed or targeted has been spawned.
* *Joiners, cancellation.* Both are action properties, one step per action.  `JoinerIsWoken` needs
  `NoJoinerLeft`: a task that has stored its output has no waker, as `JoinHandle::poll` stores none then.

### Poll-based I/O

One invariant (`IInv`) for whichever driver was chosen: live handles have registrations,
each its own (`TokensFit`), a system call is tried on a live handle (`TryingFits`), and for

* io_uring: a request polls the handle that has its token, until that handle is closed and it polls
  none (`UringRequests`); whoever waits is armed, what is armed is what the mask says and has a
  request or a completion on its way (`UringArmed`).  The completion queue knows only tokens, so
  a completion of an earlier owner disarms and wakes the later one; the wake is spurious and
  allowed, and as it disarms together with waking, nobody is left waiting;
* mio: as long as a registration remembers its interest, the kernel has that
  interest and no edge is lost without an event, and whoever waits does so for
  one direction (`MioWatches`);
* IOCP: the AFD poll that a registration names exists and watches its handle, under its
  token, for what it is used for (`IocpPolls`).

`OneDirection` says that each handle is used in one direction, as in the run.  It is
needed: with both on one handle, io_uring disarms what the mask of the latest `submit_poll`
says (`driver/uring.rs:331-346`), so that the completion of a read may disarm the write and leave the
read armed with no request, which the run `uring_poll_both` shows to end in a wake
that never comes; mio keeps one waiter per handle.  `TypeCorrect`, the inductive
invariant and `ArmedRequests` on IOCP do not need it.

The refinement mapping is defined by what is on the way; under the invariant it is simply the waiter of
the registration (`WaitingIs`).  The refinement then goes by what a driver step does to it: it
is an answer, a wake of one handle and direction, a spurious wake, a removal or a stutter
(the lemmas `By...`), for each action of each driver.  A registration
that no live handle has can only wake spuriously.

### Completion-based I/O

One invariant (`IInv`) carries all six properties for both drivers, because they hang
together through the slab.  A request is in one place, once (`OnePlace`, and `QueuedOnce` in the
submission queue, of which a submit may take a part), and as long as it is under way its slot is occupied by it and by no later request
(`EventHasSlot`): that is what makes reuse of a key safe.  A slot that was not given
up has exactly one operation, which has the same number (`OpHasSlot`, `OneOpPerSlot`, `SlotHasOp`,
`Numbers`), so what arrives there is the operation's own.  What is outstanding is what the
operation asked for, or its memory is with the slot (`RequestOfOp`); a pending
operation has its waker in the slot and its request under way (`WillWake`);
and its handle keeps the file open (`OwnFile`).

### Timing wheel and Sleep

`WheelProofs` has lemmas about the functions of `TimingWheel`, for any wheel: each of
`insert`, `remove`, `refresh_min_expiration` and `advance` takes a `GoodWheel` to
one, and says what becomes of the entries.  A good wheel files every entry where its record
says, has generations that differ and are not above the counter, a heap with an element for every
entry (stale ones besides), and a minimum that is exact.
What bounds lateness is `Punctual`: an entry was placed before it was due, and since then
the wheel has not moved, or the entry is on level 0 and no tick passed selects its slot; as any
`SLOTS_PER_LEVEL` ticks in a row select every slot, that cannot go on for a turn.  `RangeCovers`
(the slots that `advance` visits are those its ticks select, across the wrap) is where an
off-by-one would show.

`TimerProofs` applies them to a wheel used in any way (`BareWheelInv`) and to the
Timer with its Sleeps (`SleepInv`).  For a Sleep one needs that its handle was made for it
(`HandleIsOwn`), so that canceling takes nobody else's timer, and that owners have
generations already given out (`Owners`), so that a new timer is nobody's.  `IsCovered`
is the relation between the two clocks; a spin keeps it because two truncated durations add up
to no more than their sum truncated (`TruncationLoses`).

### Signals and intervals

`SignalInv`: the reference count is the cardinality of the listeners that count; nobody has seen more than
the counter of its state shows (`Counters`); and for each listener, signals received, unseen,
being dispatched and in the pipe are together at most those raised (`NoneInvented`), which is
what makes "no more than were raised" inductive.  `IntervalInv`: the next deadline and the one slept for are
the n-th after the first for some n, at least as large as the number of ticks returned and passed over.

### Processes, handles, bytes

* `ProcessInv`: the handle of a process is in at most one of seven places (`OnePlace`), and in one
  until the process is reaped (`Somewhere`); whoever is with a reaper waits on that
  reaper's channel or not at all (`Waits`), which is why a replaced reaper
  cannot end under a wait.
* `HandleInv`: `Owners` (what is open has one owner) holds always; `Registered` (keys of two
  objects differ, the slot says what the object says) until a registration is lost; files
  are shared only by clones (`Shared`).
* `CopyInv`, `WrapperInv`, `PoolInv`: bytes are counted from where they are read to where they
  end, over the buffer or the job that has them.

### What the proofs found

Two properties that TLC had checked turned out false for larger constants when a
step of their proof failed, and TLC then confirmed it with those constants.

* `LostOnlyByCancelling`, with three children.  Two waits both find no reaper
  and start one each (`executor.rs:361-363`); the Child of a third, dropped in between, sends
  its process to the first.  When the wait that holds the first reaper's channel ends, that
  reaper finds it closed and returns (`process/reaper.rs:259-262`), with the third
  process in its list and never reaped, although nobody cancelled anything; "A background
  `ZombieReaper` task runs per runtime to reap exited child processes and avoid leaving
  zombies" (`process/mod.rs:16-18`).  The property now names this case (`Replaced`); two children,
  as in the run, are not enough to reach it.
* `WheelNeverAhead`, with four slots on level 0.  An entry may be left in the wheel although the
  tick has passed its expiration (see 5), and then the ticks it has to go are fewer than none.
  The property now speaks of entries with whole milliseconds left.  The run keeps its
  two slots per level, since four cost millions of states more; the theorem covers both.

### Only model-checked

* Liveness (`WokenIsPolled`, `KeepsPromise`, `ExitedIsReaped`, `EndsWhenClosed`, and the
  temporal findings): fairness and ENABLED are out of the provers' reach here.
* Of the refinement of `PollDriver`, the half that is liveness: its two fairness
  conditions.
* Poll-based I/O with both directions on one handle, where TLC finds the
  counterexample of `uring_poll_both`.

## 5. Observations

Six runs are expected to fail; each is a finding in `PROJECT.json`.

* `executor_tso_sleep`: no fence between the store to `waiting` and the
  second look at the queues (`executor.rs:779-784`), nor between the push and the load of
  `waiting` (`task.rs:103-111`).
* `signal_lost`: `poll_recv` does not look at the counter again after registering
  (`signal/unix.rs:179-190`).
* `uring_poll_both`: a completion is attributed to the direction in
  `poll_mask`, which the latest `submit_poll` set (`driver/uring.rs:331-346`).
* `process_wait`: `read` on a pidfd never returns WouldBlock, so `poll_poll` of `WaitPidOp`
  never waits (`op/waitpid.rs:107`).
* `interval_catch_up`: the next deadline is one period too far after a catch-up
  (`time/interval.rs:136`).
* `copy_stalls`: the lock of a split object is held across a pending read
  (`io/util.rs:133`).

Other places where the models do what the code does and a reader might expect
something else, visible in the models but not in a run of their own:

* a timer's slot comes from its delay and level 0 is visited by the absolute tick,
  so an `advance` past the expiration can leave a timer in the wheel, overdue
  (`timer.rs:291`); `LateByLessThanATurn` is what holds;
* each spin drops the fraction of a millisecond, so the wheel lags the clock
  (`timer.rs:365`); `WheelNeverAhead` is what holds;
* a `Sleep` may complete less than a millisecond early (`time/sleep.rs:193`);
  `EarlyByLessThanATick` is what holds;
* a `Sleep` that notices its deadline in a poll leaves its entry in the wheel
  (`time/sleep.rs:172`);
* `cancel` wakes nobody: the future stays until something else polls the
  task (`executor.rs:160`);
* with `batch_size` no larger than the inline queue, tasks that wake one another starve
  the other queues (`executor.rs:589`), which is why `executor_live` has a larger batch;
* the previous signal handler is restored outside the lock, over one
  that was installed meanwhile (`signal/unix.rs:308`); a signal is not counted when
  the pipe is full (`signal/unix.rs:402`); and the SIGCHLD reaper, which waits by
  `poll_recv`, can miss a signal as any listener can;
* mio keeps one waiter per handle: a second direction replaces the first
  (`driver/mio.rs:225`);
* io_uring's completion queue is drained after a batch only if an entry was pushed
  (`driver/uring.rs:414`), and otherwise when no task is left to run: a task that keeps waking itself and submits nothing
  starves whoever waits for I/O; `KeepsPromise` has the condition under which it does not happen;
* an entry that is still queued is submitted although its operation was dropped, for whichever file
  has its descriptor number by then (`driver/uring.rs:502, 657`); `ActsOnOwnFile` is what holds;
* the paths of `open`, `mkdir`, `unlink`, `rename`, `hard_link`, `symlink` and `statx` and the address of `connect` are freed
  when the operation is dropped, although its entry may still be queued and point to them (`op/open.rs:76, 91`,
  `op/rename.rs:71`, `op/unlink.rs:72`, `op/statx.rs:95, 115`, `op/connect.rs:511`); of these operations `MemoryIsOwned` asks
  only that what they do hand over is kept;
* `splice` whose source is empty registers for its destination to become writable, which it is, so it is
  woken at once and tries again (`op/splice.rs:59`);
* on mio a `deregister` that fails leaves the registration in the slab (`driver/mio.rs:191`);
* an operation that is dropped after its completion was drained leaves its slot occupied
  (`driver/uring.rs:657`), and a descriptor that a dropped `open` or `accept` returns is closed by
  nobody (`op/open.rs:88`);
* on Windows the staging buffers of vectored file operations and the address buffer of
  `accept` are not handed over on drop (`op/readv.rs:364`); of these too `MemoryIsOwned` asks
  only for what they do hand over;
* a pipe ignores an `fcntl` that fails and goes on with the `O_NONBLOCK` it had (`io/pipe.rs:97, 113, 137`), and
  `connect` of a UDP socket on Windows that fails in `set_nonblocking` leaves the socket in Poll mode, or non-blocking
  with completions (`net/udp/mod.rs:174, 181`); `NonblockingFitsMode` leaves such a file out until its flag is set;
* a handle whose registration fails is dropped with Token(0), and its `Drop` deregisters
  whichever object has the first slot (`fd_inner.rs:82`);
* `UdpSocket::connect` on Windows keeps an object whose rebind failed, with a stale token
  (`fd_inner.rs:129`, `net/udp/mod.rs:322`);
* when `set_nonblocking` fails after the registration, the registration stays in the slab
  (`net/tcp/stream.rs:384`);
* a clone of a poll-only UDP socket is registered for completions and shares `O_NONBLOCK` with
  the original (`net/udp/mod.rs:478`); `NonblockingFitsMode` leaves files with clones out;
* `UnixStream::from_std_poll` asks for what the driver prefers, not for Poll
  (`net/unix/stream.rs`);
* two calls that both find no reaper start two, and the first loses its place in the
  runtime's cell (`executor.rs:361`) and, on SIGCHLD, the processes of dropped Children with it (see 4); the future of `wait`, dropped while a reaper
  starts, takes the process's handle with it (`process/reaper.rs:32`);
* `copy` clears its buffer before each read, and files, standard input and the pipes of a child
  read as much as the buffer's length, so from them it copies nothing (`io/util.rs:37`);
* `copy_bidirectional` waits for both directions and reports the error of one only when the other has
  ended (`io/util.rs:204`);
* a cancelled write of a file through the pool may reach the disk after a later one
  (`fs/file.rs:709`).

## 6. Not modelled

* Timeout: a race of a `Sleep` and a future; what keeps state is the Sleep.
* Windows signals: a console handler and the same kind of listener list; the race
  worth checking is the one of `Signal`.
* Mock driver: a test double.
* File system calls, `sendfile`'s system calls and fallbacks: pure I/O, one operation
  or one closure for the pool per call; what matters of the operations is in `Ops`, `WinOps` and `PollOps`.
* Writes through the pool: they move their buffer as the reads do.
* The readiness that the poll-only types cache (`net/tcp/stream.rs:758`): it is only
  read before an operation that registers by itself when it would block; address
  handling and socket options.
* A panic in a task's poll (`executor.rs:809`): it leaves `block_on` for good.  What
  wakers do after the runtime is gone (`driver/uring.rs:85`), and memory of
  operations in flight when the driver is dropped: the ring is closed with it.
* `AsyncWrap` over an object that accepts no byte of a write, which would be repeated for
  ever in one poll (`util/async_wrap.rs:182`), or polled with other bytes
  after Pending: the wrapper has buffered the first ones and answers for them, so it assumes that a caller offers the same bytes
  again.
* Buffers, builder, crate root, `vibeio-hyper`, `vibeio-quinn`, examples: traits,
  options and adapters without state of their own.

## 7. Plan

1. Done: the executor with its proofs; timers, intervals and signals; the three drivers for both kinds
   of I/O with all operations; processes; handles; the blocking pool, `AsyncWrap` and copies.
   Proofs of every safety property of the executor, the wheel and Sleep, intervals and
   signals, poll-based and completion-based I/O, processes, handles and byte streams, and of
   the safety half of the refinement of `PollDriver`.
2. Next, proofs: what the refinement can say of handles used in both directions, where io_uring
   mistakes the direction and mio and IOCP keep one waiter.
3. Then models: the cached readiness of the poll-only types; writes through the pool;
   Windows signals.

------------------------------- MODULE Process -------------------------------
(***************************************************************************)
(* Child processes and the zombie reaper (process/reaper.rs, the Child of  *)
(* process/mod.rs, op/waitpid.rs).  The std::process::Child, called the    *)
(* process's handle below, is moved from the Child to a future, a channel, *)
(* a reaper and a task or a thread; where it is dropped the process is not *)
(* reaped any more, save by a pidfd task, which keeps the pid.             *)
(*                                                                         *)
(* A runtime starts its reaper when it is first needed.  Two calls that    *)
(* both find none start two, with a channel each, and the second to finish *)
(* replaces the first in the runtime's cell.                               *)
(***************************************************************************)
EXTENDS Naturals, Sequences, SequencesExt, FiniteSets

CONSTANTS
  Children,
  Reapers,      \* the instances of zombie_reaper_fn that can be started
  Kinds,        \* the reapers that builds and kernels have, see `kind'
  None

VARIABLES
  kind,       \* the reaper in use: pidfd tasks on a driver with completions
              \* or without them, SIGCHLD, the blocking pool, or Windows
  runtime,    \* the runtime exists
  proc,       \* the processes: "none", "running", "zombie" or "reaped"
  inner,      \* the children whose Child has its handle
  wait,       \* the future of Child::wait, see WaitStates
  sender,     \* the channel whose sender that future holds
  cell,       \* RuntimeInner::zombie_reaper
  used,       \* the reapers that were started
  channel,    \* what each channel holds: handles
  processes,  \* what each SIGCHLD reaper has in its vector
  sigchld,    \* SIGCHLD reapers that have not seen the last signal
  op,         \* the WaitPidOp of each pidfd task
  threads,    \* handles that threads or Windows callbacks wait on
  lost,       \* handles dropped with nobody left to reap the process
  failed      \* those dropped because waiting failed (history)

reaperVars == <<cell, used, channel, processes, sigchld, op, threads>>
vars == <<kind, runtime, proc, inner, wait, sender, reaperVars, lost, failed>>

WaitStates == {"none", "starting", "waiting", "ok", "err", "dropped"}

Init ==
  /\ kind \in Kinds
  /\ runtime = TRUE
  /\ proc = [c \in Children |-> "none"]
  /\ inner = {}
  /\ wait = [c \in Children |-> "none"]
  /\ sender = [c \in Children |-> None]
  /\ cell = None
  /\ used = {}
  /\ channel = [r \in Reapers |-> <<>>]
  /\ processes = [r \in Reapers |-> {}]
  /\ sigchld = {}
  /\ op = [c \in Children |-> "none"]
  /\ threads = {}
  /\ lost = {}
  /\ failed = {}

\* A channel closes when its last sender goes.
Open(r) == cell = r \/ \E c \in Children : sender[c] = r

Starting(r) == r \notin used

-----------------------------------------------------------------------------
\* Command::spawn.
Spawn(c) ==
  /\ runtime
  /\ proc[c] = "none"
  /\ proc' = [proc EXCEPT ![c] = "running"]
  /\ inner' = inner \cup {c}
  /\ UNCHANGED <<kind, runtime, wait, sender, reaperVars, lost, failed>>

\* The process exits by itself or by Child::kill.
Exits(c) ==
  /\ proc[c] = "running"
  /\ proc' = [proc EXCEPT ![c] = "zombie"]
  /\ sigchld' = IF kind = "signal" THEN used ELSE sigchld
  /\ UNCHANGED <<kind, runtime, inner, wait, sender, cell, used, channel,
                 processes, op, threads, lost, failed>>

\* std::process::Child::try_wait, which remembers the status.
TryWait(c) == IF proc[c] = "zombie" THEN [proc EXCEPT ![c] = "reaped"] ELSE proc

Exited(c) == proc[c] \in {"zombie", "reaped"}

\* Child::try_wait.
try_wait(c) ==
  /\ c \in inner
  /\ proc' = TryWait(c)
  /\ UNCHANGED <<kind, runtime, inner, wait, sender, reaperVars, lost, failed>>

\* Mutant: the Child keeps its handle while another waits.
Wait_keeping_inner(c) ==
  /\ runtime
  /\ c \in inner
  /\ cell = None
  /\ wait[c] = "none"
  /\ wait' = [wait EXCEPT ![c] = "starting"]
  /\ UNCHANGED <<kind, runtime, proc, inner, sender, reaperVars, lost, failed>>

\* The first poll of Child::wait.
Wait(c) ==
  /\ runtime
  /\ c \in inner
  /\ inner' = inner \ {c}
  /\ IF cell # None
       THEN /\ sender' = [sender EXCEPT ![c] = cell]
            /\ channel' = [channel EXCEPT ![cell] = Append(@, c)]
            /\ wait' = [wait EXCEPT ![c] = "waiting"]
       ELSE /\ wait' = [wait EXCEPT ![c] = "starting"]
            /\ UNCHANGED <<sender, channel>>
  /\ UNCHANGED <<kind, runtime, proc, cell, used, processes, sigchld, op,
                 threads, lost, failed>>

\* A call that waits for a process can fail, but does not once it has returned
\* the status, which the handle keeps; the pool may drop any job.
CanFail(c) == kind = "blocking" \/ proc[c] # "reaped"

\* Waiting failed for these, and their handles are dropped.
GiveUp(S) ==
  /\ lost' = lost \cup S
  /\ failed' = failed \cup S

\* Child::wait outside a runtime blocks.
WaitOutside(c) ==
  /\ ~runtime
  /\ c \in inner
  /\ Exited(c)
  /\ inner' = inner \ {c}
  /\ proc' = TryWait(c)
  /\ wait' = [wait EXCEPT ![c] = "ok"]
  /\ UNCHANGED <<kind, runtime, sender, reaperVars, lost, failed>>

WaitOutsideFails(c) ==
  /\ ~runtime
  /\ c \in inner
  /\ proc[c] # "reaped"
  /\ inner' = inner \ {c}
  /\ wait' = [wait EXCEPT ![c] = "err"]
  /\ GiveUp({c})
  /\ UNCHANGED <<kind, runtime, proc, sender, reaperVars>>

\* The task that starts a reaper has run, and the future it was for goes on.
start_zombie_reaper(c, r) ==
  /\ wait[c] = "starting"
  /\ Starting(r)
  /\ used' = used \cup {r}
  /\ cell' = r
  /\ sender' = [sender EXCEPT ![c] = r]
  /\ channel' = [channel EXCEPT ![r] = Append(@, c)]
  /\ wait' = [wait EXCEPT ![c] = "waiting"]
  /\ UNCHANGED <<kind, runtime, proc, inner, processes, sigchld, op, threads,
                 lost, failed>>

\* The future of Child::wait is dropped, its handle with it if it has it.
DropWait(c) ==
  /\ wait[c] \in {"starting", "waiting"}
  /\ wait' = [wait EXCEPT ![c] = "dropped"]
  /\ lost' = IF wait[c] = "starting" THEN lost \cup {c} ELSE lost
  /\ sender' = [sender EXCEPT ![c] = None]
  /\ UNCHANGED <<kind, runtime, proc, inner, reaperVars, failed>>

\* Mutant: the handle is left to its own Drop, which does not reap.
reap_on_drop_of_handle(c) ==
  /\ proc' = TryWait(c)
  /\ lost' = IF Exited(c) THEN lost ELSE lost \cup {c}
  /\ UNCHANGED <<channel, threads>>

\* reap_on_drop polls current_zombie_reaper once: without a reaper, it is not
\* waited for and a thread waits for the process.
reap_on_drop(c) ==
  /\ proc' = TryWait(c)
  /\ IF Exited(c)
       THEN UNCHANGED <<channel, threads>>
       ELSE IF cell # None
         THEN /\ channel' = [channel EXCEPT ![cell] = Append(@, c)]
              /\ UNCHANGED threads
         ELSE /\ threads' = threads \cup {c}
              /\ UNCHANGED channel
  /\ UNCHANGED lost

\* Drop for Child.
DropChild(c) ==
  /\ c \in inner
  /\ inner' = inner \ {c}
  /\ reap_on_drop(c)
  /\ UNCHANGED <<kind, runtime, wait, sender, cell, used, processes, sigchld,
                 op, failed>>

-----------------------------------------------------------------------------
\* The sender half of c's message is used, or dropped with the message; with
\* the answer the future completes and drops its sender of the channel.
Answer(c, result) ==
  IF wait[c] = "waiting"
    THEN /\ wait' = [wait EXCEPT ![c] = result]
         /\ sender' = [sender EXCEPT ![c] = None]
    ELSE UNCHANGED <<wait, sender>>

\* Mutant: the SIGCHLD reaper files a handle without looking at the process.
recv_without_try_wait(r) ==
  /\ channel[r] # <<>>
  /\ LET c == Head(channel[r])
     IN /\ channel' = [channel EXCEPT ![r] = Tail(@)]
        /\ processes' = [processes EXCEPT ![r] = @ \cup {c}]
        /\ UNCHANGED <<proc, wait, sender, op, threads>>
  /\ UNCHANGED <<kind, runtime, inner, cell, used, sigchld, lost, failed>>

\* zombie_reaper_fn takes a message.  All but the one for the blocking pool
\* look at the process first.
recv(r) ==
  /\ channel[r] # <<>>
  /\ LET c == Head(channel[r])
     IN /\ channel' = [channel EXCEPT ![r] = Tail(@)]
        /\ IF kind # "blocking" /\ Exited(c)
             THEN /\ proc' = TryWait(c)
                  /\ Answer(c, "ok")
                  /\ UNCHANGED <<processes, op, threads>>
             ELSE /\ UNCHANGED <<proc, wait, sender>>
                  /\ processes' = IF kind = "signal"
                       THEN [processes EXCEPT ![r] = @ \cup {c}]
                       ELSE processes
                  /\ op' = IF kind \in {"completion", "poll"}
                       THEN [op EXCEPT ![c] = "Init"] ELSE op
                  /\ threads' = IF kind \in {"blocking", "windows"}
                       THEN threads \cup {c} ELSE threads
  /\ UNCHANGED <<kind, runtime, inner, cell, used, sigchld, lost, failed>>

\* try_wait fails, or the blocking pool drops the job: the handle is gone and
\* whoever waits gets the error.
recv_failed(r) ==
  /\ channel[r] # <<>>
  /\ channel' = [channel EXCEPT ![r] = Tail(@)]
  /\ LET c == Head(channel[r])
     IN /\ CanFail(c)
        /\ Answer(c, "err")
        /\ GiveUp({c})
  /\ UNCHANGED <<kind, runtime, proc, inner, cell, used, processes, sigchld,
                 op, threads>>

\* The SIGCHLD reaper hears of the signal and looks at all it has; for some
\* try_wait may fail.
recv_signal(r) ==
  /\ r \in sigchld
  /\ sigchld' = sigchld \ {r}
  /\ \E bad \in SUBSET processes[r] :
       LET exited == {c \in processes[r] \ bad : Exited(c)}
           answered == {c \in exited \cup bad : wait[c] = "waiting"}
       IN /\ processes' = [processes EXCEPT ![r] = @ \ (exited \cup bad)]
          /\ proc' = [c \in Children |->
                        IF c \in exited THEN "reaped" ELSE proc[c]]
          /\ wait' = [c \in Children |->
                        IF c \notin answered THEN wait[c]
                        ELSE IF c \in bad THEN "err" ELSE "ok"]
          /\ sender' = [c \in Children |->
                          IF c \in answered THEN None ELSE sender[c]]
          /\ GiveUp(bad)
  /\ UNCHANGED <<kind, runtime, inner, cell, used, channel, op, threads>>

\* The SIGCHLD reaper finds its channel closed and returns; its vector is
\* dropped with it.
recv_closed(r) ==
  /\ r \in used /\ ~Open(r)
  /\ channel[r] = <<>>
  /\ processes[r] # {}
  /\ processes' = [processes EXCEPT ![r] = {}]
  /\ lost' = lost \cup processes[r]
  /\ UNCHANGED <<kind, runtime, proc, inner, wait, sender, cell, used, channel,
                 sigchld, op, threads, failed>>

\* A thread, or the callback of a wait registered with Windows.
ThreadReaps(c) ==
  /\ c \in threads
  /\ Exited(c)
  /\ threads' = threads \ {c}
  /\ proc' = [proc EXCEPT ![c] = "reaped"]
  /\ Answer(c, "ok")
  /\ UNCHANGED <<kind, runtime, inner, cell, used, channel, processes, sigchld,
                 op, lost, failed>>

\* Its call of wait fails, or the pool drops the job that it was to be.
ThreadFails(c) ==
  /\ c \in threads
  /\ CanFail(c)
  /\ threads' = threads \ {c}
  /\ Answer(c, "err")
  /\ GiveUp({c})
  /\ UNCHANGED <<kind, runtime, proc, inner, cell, used, channel, processes,
                 sigchld, op>>

-----------------------------------------------------------------------------
\* The first poll of a WaitPidOp by poll_completion: it waits in any case.
poll_completion(c) ==
  /\ kind = "completion"
  /\ op[c] = "Init"
  /\ op' = [op EXCEPT ![c] = "Polling"]
  /\ UNCHANGED <<kind, runtime, proc, inner, wait, sender, cell, used, channel,
                 processes, sigchld, threads, lost, failed>>

\* read(2) on a pidfd fails with EINVAL whatever the process does, so every
\* other poll comes to waitpid(2) with WNOHANG and to the end of the task;
\* if the process has not exited, it is not reaped any more.
reap(c) ==
  /\ op' = [op EXCEPT ![c] = "Done"]
  /\ IF Exited(c)
       THEN /\ proc' = [proc EXCEPT ![c] = "reaped"]
            /\ Answer(c, "ok")
            /\ UNCHANGED lost
       ELSE /\ Answer(c, "err")
            /\ lost' = lost \cup {c}
            /\ UNCHANGED proc
  /\ UNCHANGED <<kind, runtime, inner, cell, used, channel, processes, sigchld,
                 threads, failed>>

\* The poll by poll_poll does not wait but comes here directly.
poll_poll(c) ==
  /\ kind = "poll"
  /\ op[c] = "Init"
  /\ reap(c)

\* The pidfd cannot be opened, registered or polled, or waitpid fails, and the
\* task ends.
WaitPidFails(c) ==
  /\ op[c] \in {"Init", "Polling"}
  /\ op' = [op EXCEPT ![c] = "Done"]
  /\ Answer(c, "err")
  /\ GiveUp({c})
  /\ UNCHANGED <<kind, runtime, proc, inner, cell, used, channel, processes,
                 sigchld, threads>>

\* The pidfd is readable once the process has exited.
PidfdReadable(c) ==
  /\ op[c] = "Polling"
  /\ Exited(c)
  /\ reap(c)

\* The driver may wake the task before: a completion that belonged to an
\* earlier handle with the same token.
StaleWake(c) ==
  /\ op[c] = "Polling"
  /\ ~Exited(c)
  /\ reap(c)

\* Drop for Runtime: the channel is closed and the tasks are dropped, with
\* the futures and the children `owned' by them; threads go on.  The cell of
\* the current runtime is borrowed meanwhile, so that reap_on_drop gets no
\* further than try_wait.
DropRuntime(owned) ==
  /\ runtime
  /\ runtime' = FALSE
  /\ cell' = None
  /\ inner' = inner \ owned
  /\ proc' = [c \in Children |-> IF c \in owned THEN TryWait(c)[c] ELSE proc[c]]
  /\ sender' = [c \in Children |-> None]
  /\ wait' = [c \in Children |->
                IF wait[c] \in {"starting", "waiting"} THEN "dropped" ELSE wait[c]]
  /\ lost' = lost \cup {c \in Children :
                \/ c \in owned /\ ~Exited(c)
                \/ wait[c] = "starting"
                \/ op[c] \in {"Init", "Polling"}
                \/ \E r \in Reapers : c \in ToSet(channel[r]) \cup processes[r]}
  /\ channel' = [r \in Reapers |-> <<>>]
  /\ processes' = [r \in Reapers |-> {}]
  /\ op' = [c \in Children |-> IF op[c] = "none" THEN "none" ELSE "Done"]
  /\ UNCHANGED <<kind, used, sigchld, threads, failed>>

-----------------------------------------------------------------------------
Next ==
  \/ \E c \in Children :
       \/ Spawn(c) \/ Exits(c) \/ try_wait(c) \/ Wait(c) \/ WaitOutside(c)
       \/ WaitOutsideFails(c) \/ DropWait(c) \/ DropChild(c)
       \/ ThreadReaps(c) \/ ThreadFails(c)
       \/ poll_completion(c) \/ poll_poll(c) \/ WaitPidFails(c)
       \/ PidfdReadable(c) \/ StaleWake(c)
       \/ \E r \in Reapers : start_zombie_reaper(c, r)
  \/ \E r \in Reapers :
       recv(r) \/ recv_failed(r) \/ recv_signal(r) \/ recv_closed(r)
  \/ \E owned \in SUBSET inner : DropRuntime(owned)

\* The executor polls what was woken, the driver reports a readable pidfd and
\* threads run.  With io_uring the driver does so only if the tasks all come to
\* wait again and again, see Looks of module AnyDriver: here that is assumed.
\* That a signal wakes the SIGCHLD reaper is not assumed: it can
\* fail to, see ReceivedSignalWakes of module Signal.
Fairness ==
  /\ \A c \in Children :
       WF_vars(ThreadReaps(c) \/ poll_completion(c) \/ poll_poll(c)
                 \/ PidfdReadable(c)
                 \/ \E r \in Reapers : start_zombie_reaper(c, r))
  /\ \A r \in Reapers : WF_vars(recv(r))

Spec == Init /\ [][Next]_vars /\ Fairness

-----------------------------------------------------------------------------
One(holds) == IF holds THEN 1 ELSE 0

\* How many may still call waitpid for the process, or take its status.
Holders(c) ==
  One(c \in inner) + One(wait[c] = "starting") + One(c \in threads)
    + One(op[c] \in {"Init", "Polling"})
    + Cardinality({r \in Reapers : c \in ToSet(channel[r])})
    + Cardinality({r \in Reapers : c \in processes[r]})

\* A process that was not reaped is waited for by exactly one party, or was
\* lost; and no pidfd task calls waitpid for a pid that was given back
\* (reaper.rs:31-61, 208-244, process/mod.rs:715-753, waitpid.rs:88-103).
OneWaiter ==
  \A c \in Children :
    /\ proc[c] \in {"running", "zombie"} => Holders(c) + One(c \in lost) = 1
    /\ proc[c] = "reaped" => op[c] \notin {"Init", "Polling"}

\* A SIGCHLD reaper that was replaced comes to an end once nobody waits on it.
Replaced == kind = "signal" /\ \E q, r \in used : q # r

\* A process is lost to the reaper only if the future of wait was dropped, if
\* its pidfd task gave up, with the runtime, or if its Child was dropped and
\* the SIGCHLD reaper that got it replaced, or waiting for it failed: in
\* particular not while a wait is pending, although replaced reapers come to an
\* end (reaper.rs:31-61, 109-115, 217-222, 259-262, 271-275, 290-295,
\* executor.rs:358-366).
LostOnlyByCancelling ==
  \A c \in lost :
    \/ wait[c] \in {"dropped", "err"} \/ op[c] = "Done" \/ ~runtime
    \/ wait[c] = "none" /\ (Replaced \/ c \in failed)

\* A process that exits after its Child was dropped or waited for is reaped
\* or lost, and a wait for it does not stay pending, whichever order the exit,
\* the start of a reaper and the message to it come in; the SIGCHLD reaper
\* has at least a signal to hear when a process it keeps has exited
\* (reaper.rs:31-61, 99-145, 201-245, 256-300).
ExitedIsReaped ==
  \A c \in Children :
    (proc[c] = "zombie" /\ c \notin inner) ~>
       \/ c \in lost
       \/ \E r \in sigchld : c \in processes[r]
       \/ proc[c] = "reaped" /\ wait[c] \notin {"starting", "waiting"}

\* What Child::wait promises: it resolves to the exit status, once the
\* process has exited and been reaped (process/mod.rs:725-728), unless a call
\* to the system fails.
WaitResolvesToStatus ==
  \A c \in Children : wait[c] \in {"ok", "err"} /\ c \notin failed =>
    wait[c] = "ok" /\ proc[c] = "reaped"
=============================================================================

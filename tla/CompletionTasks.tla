-------------------------- MODULE CompletionTasks --------------------------
(***************************************************************************)
(* Completion-based operations as their tasks use them: operation futures, *)
(* the slab of completions that every such driver has, and the handles.    *)
(* How a request reaches the kernel and how its completion comes back is   *)
(* the driver's: modules UringOps and IocpOps.                             *)
(*                                                                         *)
(* One thread runs the tasks and the driver, so a poll or a drop of an     *)
(* operation is one step.  Between the first poll and the completion the   *)
(* task may drop the operation and its handle, and open others.  Requests  *)
(* are numbered, which the program does not do: the numbers serve to say   *)
(* which request a completion belongs to.                                  *)
(***************************************************************************)
EXTENDS Naturals, Sequences, SequencesExt

CONSTANTS
  Slots,        \* the places an operation future can be in
  Tasks, None,
  Tokens,       \* the keys of the completions slab
  Fds,          \* descriptor numbers, or Windows handles
  MaxFiles,     \* bound on the files ever opened
  MaxRequests   \* bound on the requests ever submitted

ASSUME CompletionAssumption ==
  /\ None \notin Tokens \cup Tasks \cup Fds \cup Nat
  /\ MaxFiles \in Nat
  /\ MaxRequests \in Nat

VARIABLES
  op,               \* the operation futures; None where there is none
  completions,      \* DriverState::completions; None where vacant
  kernel,           \* requests the kernel works on
  cq,               \* the completion queue, or what the port holds
  file,             \* the file behind every descriptor; 0 where closed
  files, requests,  \* how many there have been
  woken             \* tasks that have been woken and have not run since

fileVars == <<file, files>>
kernelVars == <<kernel, cq>>
taskVars == <<op, completions, kernelVars, fileVars, requests, woken>>

TasksInit ==
  /\ op = [o \in Slots |-> None]
  /\ completions = [k \in Tokens |-> None]
  /\ kernel = {}
  /\ cq = <<>>
  /\ file = [f \in Fds |-> 0]
  /\ files = 0
  /\ requests = 0
  /\ woken = Tasks

-----------------------------------------------------------------------------
\* A handle is made and registered.
Open(f) ==
  /\ file[f] = 0
  /\ files < MaxFiles
  /\ files' = files + 1
  /\ file' = [file EXCEPT ![f] = files']
  /\ UNCHANGED <<op, completions, kernelVars, requests, woken>>

\* Mutant: the handle can go before the operations on it.
Borrowed_by_nobody(f) == FALSE

\* An operation borrows its handle, which cannot be dropped before it.
Borrowed(f) == \E o \in Slots : op[o] # None /\ op[o].fd = f

\* What the kernel puts into the queue when it has finished a request.
Completion(r) == [token |-> r.token, request |-> r.request]

\* The future of an operation is made.
NewOp(o, kind, f) ==
  /\ op[o] = None
  /\ f \in IF kind.on THEN {g \in Fds : file[g] # 0} ELSE {None}
  /\ op' = [op EXCEPT ![o] =
              [kind |-> kind, fd |-> f, request |-> 0,
               completion_token |-> None, result |-> None,
               polled_by |-> None, on |-> IF f = None THEN 0 ELSE file[f]]]
  /\ UNCHANGED <<completions, kernelVars, fileVars, requests, woken>>

\* The request of an operation as the driver gets it.
Request(o, k, n) ==
  [token |-> k, request |-> n, kind |-> op[o].kind, fd |-> op[o].fd,
   meant |-> op[o].on]

\* The part of the first poll that is the same for every driver: a slot of
\* the slab is taken for the operation and for its task's waker.
submit_completion(o, t, k) ==
  /\ op[o] # None
  /\ op[o].completion_token = None /\ op[o].result = None
  /\ t \in woken
  /\ completions[k] = None
  /\ requests < MaxRequests
  /\ requests' = requests + 1
  /\ completions' = [completions EXCEPT ![k] =
                       [waiter |-> t, completed |-> None,
                        ignored_data |-> None, request |-> requests']]
  /\ op' = [op EXCEPT ![o].completion_token = k,
                      ![o].request = requests',
                      ![o].polled_by = t]
  /\ UNCHANGED <<fileVars, woken>>

\* The request cannot be built or the driver cannot take it; the slot, if
\* one was taken already, is vacated again.  The operation is over, and has
\* nothing pending when it is dropped.
PollSubmitErr(o, t) ==
  /\ op[o] # None
  /\ op[o].completion_token = None /\ op[o].result = None
  /\ t \in woken
  /\ op' = [op EXCEPT ![o] = None]
  /\ UNCHANGED <<completions, kernelVars, fileVars, requests, woken>>

\* A later poll: get_completion_result takes the result out of the slab.
PollReady(o, t) ==
  /\ op[o] # None
  /\ op[o].completion_token # None
  /\ t \in woken
  /\ LET k == op[o].completion_token
     IN /\ completions[k].completed # None
        /\ completions' = [completions EXCEPT ![k] = None]
        /\ op' = [op EXCEPT ![o].completion_token = None,
                            ![o].result = completions[k].completed,
                            ![o].polled_by = None]
  /\ UNCHANGED <<kernelVars, fileVars, requests, woken>>

\* Mutant: a waker that is there already is not replaced.
set_completion_waker_once(k, t) == completions

set_completion_waker(k, t) == [completions EXCEPT ![k].waiter = t]

PollPending(o, t) ==
  /\ op[o] # None
  /\ op[o].completion_token # None
  /\ t \in woken
  /\ LET k == op[o].completion_token
     IN /\ completions[k].completed = None
        /\ completions' = set_completion_waker(k, t)
  /\ op' = [op EXCEPT ![o].polled_by = t]
  /\ UNCHANGED <<kernelVars, fileVars, requests, woken>>

\* Mutant: the slot of a request that the kernel has finished is given back
\* at once, with its completion still to be taken.
ignore_completion_undrained(k, data) ==
  IF \E e \in ToSet(cq) : e.request = completions[k].request
    THEN [completions EXCEPT ![k] = None]
    ELSE [completions EXCEPT ![k].ignored_data = data]

ignore_completion(k, data) == [completions EXCEPT ![k].ignored_data = data]

\* Drop of an operation, finished or not.
DropOp(o) ==
  /\ op[o] # None
  /\ completions' = IF op[o].completion_token = None
                      THEN completions
                      ELSE ignore_completion(op[o].completion_token,
                                             op[o].kind.handed)
  /\ op' = [op EXCEPT ![o] = None]
  /\ UNCHANGED <<kernelVars, fileVars, requests, woken>>

\* A task's poll ends; what it waits for is what it polled.
Pend(t) ==
  /\ t \in woken
  /\ woken' = woken \ {t}
  /\ UNCHANGED <<op, completions, kernelVars, fileVars, requests>>

\* The kernel finishes a request and says so.
Complete(r) ==
  /\ r \in kernel
  /\ kernel' = kernel \ {r}
  /\ cq' = Append(cq, Completion(r))
  /\ UNCHANGED <<op, completions, fileVars, requests, woken>>

TaskStep ==
  \/ \E f \in Fds : Open(f)
  \/ \E o \in Slots, t \in Tasks :
       PollSubmitErr(o, t) \/ PollReady(o, t) \/ PollPending(o, t)
  \/ \E o \in Slots : DropOp(o)
  \/ \E t \in Tasks : Pend(t)
  \/ \E r \in kernel : Complete(r)

-----------------------------------------------------------------------------
\* A request that has not completed is accounted for: the memory belongs to a
\* live operation that waits for it, or was handed to the driver.
OwnedMemory(r, memory) ==
  \/ \E o \in Slots :
       op[o] # None /\ op[o].completion_token = r.token
                    /\ op[o].request = r.request
  \/ /\ completions[r.token] # None
     /\ completions[r.token].request = r.request
     /\ completions[r.token].ignored_data # None
     /\ memory \subseteq completions[r.token].ignored_data

\* An operation that is pending has its slot, and its task is awake, or will
\* be woken by one of the requests.
WakeIsComing(o, outstanding) ==
  LET c == completions[op[o].completion_token]
  IN /\ c # None /\ c.request = op[o].request
     /\ \/ op[o].polled_by \in woken
        \/ c.completed # None
        \/ /\ c.waiter = op[o].polled_by
           /\ \E e \in outstanding \cup ToSet(cq) : e.request = c.request
=============================================================================

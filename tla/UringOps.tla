------------------------------ MODULE UringOps ------------------------------
(***************************************************************************)
(* Completion-based I/O on the io_uring driver: the submission queue that  *)
(* block_on flushes after a batch of tasks, and the completion queue.  The *)
(* kernel looks a descriptor up when it takes the entry that names it.     *)
(***************************************************************************)
EXTENDS CompletionTasks, Ops

VARIABLES
  entries,              \* the size of the submission queue, set by the builder
  sq,                   \* the submission queue
  pending_submissions   \* UringDriver::pending_submissions

queueVars == <<sq, pending_submissions>>
vars == <<entries, taskVars, queueVars>>

DriverInit ==
  /\ sq = <<>>
  /\ pending_submissions = FALSE

\* deregister_handle, then close(2).  register_sync_cancel finds requests
\* that the kernel has, and cancels at most one of them.
DropHandle(f) ==
  /\ file[f] # 0
  /\ ~Borrowed(f)
  /\ \/ UNCHANGED kernelVars
     \/ \E r \in kernel :
          /\ r.file = file[f]
          /\ kernel' = kernel \ {r}
          /\ cq' = Append(cq, Completion(r))
  /\ file' = [file EXCEPT ![f] = 0]
  /\ UNCHANGED <<op, completions, queueVars, files, requests, woken>>

-----------------------------------------------------------------------------
\* What becomes of entries of the submission queue when the kernel takes
\* them: the descriptor is looked up now.  One that has been closed gives no
\* file, and all that is left to do is to report the error.
Performed(taken) ==
  {[token |-> e.token, request |-> e.request, kind |-> e.kind,
    file |-> IF e.fd = None THEN 0 ELSE file[e.fd], meant |-> e.meant] :
   e \in ToSet(taken)}

\* io_uring_enter(2): the kernel takes the first n entries.  It takes none when
\* it is busy, and stops early when it has not enough memory for a request.
Submit(n) ==
  /\ kernel' = kernel \cup Performed(SubSeq(sq, 1, n))
  /\ UNCHANGED cq

Rest(n) == SubSeq(sq, n + 1, Len(sq))

\* Mutant: the queue is not looked at before the push.
push_entry_over_full(e) ==
  /\ sq' = Append(sq, e)
  /\ UNCHANGED kernelVars
  /\ pending_submissions' = TRUE

\* If the queue is full and the kernel takes none, the push fails, the slab has
\* not been changed and the poll ends with the error: PollSubmitErr.
push_entry(e) ==
  /\ IF Len(sq) = entries
       THEN \E n \in 1..Len(sq) :
              /\ Submit(n)
              /\ sq' = Append(Rest(n), e)
       ELSE /\ sq' = Append(sq, e)
            /\ UNCHANGED kernelVars
  /\ pending_submissions' = TRUE

\* The first poll.
PollSubmits(o, t, k) ==
  /\ submit_completion(o, t, k)
  /\ push_entry(Request(o, k, requests + 1))

\* Mutant: whatever happened to the entries, the flag is taken back.
submitted_all(rest) == FALSE

submitted(rest) == rest # <<>>

\* The first half of collect_completions.  flush comes here when
\* should_flush says so, wait in any case.
collect_submits ==
  /\ \E n \in 0..Len(sq) :
       /\ Submit(n)
       /\ sq' = Rest(n)
       /\ pending_submissions' = submitted(Rest(n))
  /\ UNCHANGED <<op, completions, fileVars, requests, woken>>

\* drain_cq on one completion, and the wake that follows the loop.
drain_cq ==
  /\ cq # <<>>
  /\ cq' = Tail(cq)
  /\ LET k == Head(cq).token
         c == completions[k]
     IN IF c = None
          THEN UNCHANGED <<completions, woken>>
          ELSE /\ completions' = [completions EXCEPT ![k] =
                    IF c.ignored_data # None
                      THEN None
                      ELSE [c EXCEPT !.completed = Head(cq).request,
                                     !.waiter = None]]
               /\ woken' = woken \cup ({c.waiter} \ {None})
  /\ UNCHANGED <<op, queueVars, kernel, fileVars, requests>>

DriverStep ==
  \/ \E f \in Fds : DropHandle(f)
  \/ \E o \in Slots, kind \in AllOps, f \in Fds \cup {None} :
       NewOp(o, kind, f) /\ UNCHANGED queueVars
  \/ \E o \in Slots, t \in Tasks, k \in Tokens : PollSubmits(o, t, k)
  \/ collect_submits
  \/ drain_cq

\* The requests that have not completed: with their kind, in the queue or in
\* the kernel.
Outstanding == ToSet(sq) \cup kernel

\* Entries that wait in the submission queue are announced by
\* pending_submissions, or block_on would not flush them.
QueueIsAnnounced == sq # <<>> => pending_submissions

\* The kernel works on the file that an operation was made for, as long as
\* the operation lives: only a request whose operation was dropped while its
\* entry was still queued can end up on a later owner of the descriptor, as
\* deregister_handle does not reach the queue.
ActsOnOwnFile ==
  \A r \in kernel, o \in Slots :
    (op[o] # None /\ op[o].request = r.request) => r.file = r.meant
=============================================================================

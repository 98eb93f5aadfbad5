------------------------------- MODULE IocpOps -------------------------------
(***************************************************************************)
(* Completion-based I/O on the IOCP driver.  An operation's submit_windows *)
(* starts it at once, with an OVERLAPPED that lives in the slab and holds  *)
(* the key of its slot; the completion is posted to the port, also when    *)
(* the system call had finished it already.                                *)
(***************************************************************************)
EXTENDS CompletionTasks, WinOps

vars == taskVars

\* deregister_handle, which takes the handle off the port, then CloseHandle
\* or closesocket.
DropHandle(f) ==
  /\ file[f] # 0
  /\ ~Borrowed(f)
  /\ file' = [file EXCEPT ![f] = 0]
  /\ UNCHANGED <<op, completions, kernelVars, files, requests, woken>>

\* The first poll.
PollSubmits(o, t, k) ==
  /\ submit_completion(o, t, k)
  /\ kernel' = kernel \cup {Request(o, k, requests + 1)}
  /\ UNCHANGED cq

\* A request whose handle was taken off the port may end without a word; its
\* slot is never vacated.
CompleteSilently(r) ==
  /\ r \in kernel
  /\ file[r.fd] # r.meant
  /\ kernel' = kernel \ {r}
  /\ UNCHANGED <<op, completions, cq, fileVars, requests, woken>>

\* One entry.
process_entries ==
  /\ cq # <<>>
  /\ cq' = Tail(cq)
  /\ LET k == Head(cq).token
         c == completions[k]
     IN IF c = None
          THEN UNCHANGED <<completions, woken>>
          ELSE /\ completions' = [completions EXCEPT ![k] =
                    IF c.ignored_data # None
                      THEN None
                      ELSE [c EXCEPT !.completed = Head(cq).request,
                                     !.waiter = None]]
               /\ woken' = woken \cup ({c.waiter} \ {None})
  /\ UNCHANGED <<op, kernel, fileVars, requests>>

DriverStep ==
  \/ \E f \in Fds : DropHandle(f)
  \/ \E o \in Slots, kind \in AllOps, f \in Fds : NewOp(o, kind, f)
  \/ \E o \in Slots, t \in Tasks, k \in Tokens : PollSubmits(o, t, k)
  \/ \E r \in kernel : CompleteSilently(r)
  \/ process_entries
=============================================================================

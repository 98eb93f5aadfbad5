---------------------------- MODULE ProcessProofs ----------------------------
(***************************************************************************)
(* Proofs about child processes and their reapers (Processes, as           *)
(* RuntimeObjects has it) for every number of children and of reapers that *)
(* are started, and every kind of reaper.                                  *)
(***************************************************************************)
EXTENDS RuntimeObjects, SequenceTheorems, FiniteSetTheorems, TLAPS

-----------------------------------------------------------------------------
(* The inductive invariant.                                                *)

In(s, c) == \E i \in 1..Len(s) : s[i] = c

NoRepeat(s) == \A i, j \in 1..Len(s) : s[i] = s[j] => i = j

ProcessType ==
  /\ kind \in {"completion", "poll", "signal", "blocking", "windows"}
  /\ proc \in [Children -> {"none", "running", "zombie", "reaped"}]
  /\ inner \subseteq Children
  /\ wait \in [Children -> Processes!WaitStates]
  /\ sender \in [Children -> Reapers \cup {None}]
  /\ cell \in Reapers \cup {None}
  /\ used \subseteq Reapers
  /\ channel \in [Reapers -> Seq(Children)]
  /\ processes \in [Reapers -> SUBSET Children]
  /\ op \in [Children -> {"none", "Init", "Polling", "Done"}]
  /\ threads \subseteq Children
  /\ lost \subseteq Children

\* The places that the handle of a process can be in besides the set inner,
\* the set threads and the set lost.
Future(c) == wait[c] = "starting"
Task(c) == op[c] \in {"Init", "Polling"}
Sent(c) == \E r \in Reapers : In(channel[r], c)
Kept(c) == \E r \in Reapers : c \in processes[r]

\* It is in one of them at most,
OnePlace(c) ==
  /\ c \in inner => /\ ~Future(c) /\ ~Task(c) /\ c \notin threads
                    /\ c \notin lost /\ ~Sent(c) /\ ~Kept(c)
  /\ Future(c) => /\ ~Task(c) /\ c \notin threads /\ c \notin lost
                  /\ ~Sent(c) /\ ~Kept(c)
  /\ Task(c) => c \notin threads /\ c \notin lost /\ ~Sent(c) /\ ~Kept(c)
  /\ c \in threads => c \notin lost /\ ~Sent(c) /\ ~Kept(c)
  /\ c \in lost => ~Sent(c) /\ ~Kept(c)
  /\ Sent(c) => ~Kept(c)
  /\ \A q, r \in Reapers : In(channel[q], c) /\ In(channel[r], c) => q = r
  /\ \A q, r \in Reapers : c \in processes[q] /\ c \in processes[r] => q = r

\* and in one until the process is reaped.
Somewhere(c) ==
  \/ c \in inner \/ Future(c) \/ Task(c) \/ c \in threads \/ c \in lost
  \/ Sent(c) \/ Kept(c)

Placed(c) ==
  /\ OnePlace(c)
  /\ proc[c] \in {"running", "zombie"} => Somewhere(c)
  /\ proc[c] = "none" => ~Somewhere(c)
  /\ proc[c] = "reaped" => ~Task(c)

\* A wait comes after the Child had the handle, and what waits for a reaper
\* has a sender of the reaper's channel.
Waits(c) ==
  /\ c \in inner \/ proc[c] = "none" => wait[c] = "none"
  /\ \A r \in Reapers : In(channel[r], c) \/ c \in processes[r] =>
       \/ wait[c] \in {"none", "dropped"}
       \/ wait[c] = "waiting" /\ sender[c] = r
  /\ c \in threads => wait[c] \in {"none", "waiting", "dropped"}

LostRightly(c) ==
  c \in lost =>
    \/ wait[c] \in {"dropped", "err"} \/ op[c] = "Done" \/ ~runtime
    \/ wait[c] = "none" /\ (Processes!Replaced \/ c \in failed)

ChildInv(c) == Placed(c) /\ Waits(c) /\ LostRightly(c)

\* The runtime's cell has the last reaper; only SIGCHLD reapers keep handles.
ReaperInv ==
  /\ cell # None => cell \in used
  /\ runtime /\ used # {} => cell # None
  /\ \A r \in Reapers : NoRepeat(channel[r])
  /\ \A r \in Reapers : processes[r] # {} => kind = "signal"

ProcessInv ==
  /\ ProcessType
  /\ \A c \in Children : ChildInv(c)
  /\ ReaperInv

-----------------------------------------------------------------------------
(* Sequences of handles.                                                   *)

LEMMA AppendIn ==
  ASSUME NEW S, NEW s \in Seq(S), NEW c \in S
  PROVE  /\ Append(s, c) \in Seq(S)
         /\ \A d : In(Append(s, c), d) <=> In(s, d) \/ d = c
         /\ NoRepeat(s) /\ ~In(s, c) => NoRepeat(Append(s, c))
<1> DEFINE t == Append(s, c)
<1>1. /\ Len(s) \in Nat /\ Len(t) = Len(s) + 1 /\ t[Len(s) + 1] = c
      /\ t \in Seq(S)
      /\ \A i \in 1..Len(s) : t[i] = s[i]
  BY AppendProperties, LenProperties
<1> HIDE DEF t
<1>2. \A d : In(t, d) <=> In(s, d) \/ d = c
  BY <1>1 DEF In
<1>3. ASSUME NoRepeat(s), ~In(s, c)
      PROVE  NoRepeat(t)
  BY <1>1, <1>3 DEF NoRepeat, In
<1> QED
  BY <1>1, <1>2, <1>3 DEF t

LEMMA TailIn ==
  ASSUME NEW S, NEW s \in Seq(S), s # <<>>
  PROVE  /\ Head(s) \in S /\ Tail(s) \in Seq(S)
         /\ \A d : In(s, d) <=> In(Tail(s), d) \/ d = Head(s)
         /\ NoRepeat(s) => NoRepeat(Tail(s)) /\ ~In(Tail(s), Head(s))
<1> DEFINE t == Tail(s)
<1>1. /\ Len(s) \in Nat \ {0} /\ Len(t) = Len(s) - 1 /\ t \in Seq(S)
      /\ s[1] = Head(s) /\ Head(s) \in S
      /\ \A i \in 1..Len(t) : t[i] = s[i + 1]
  BY HeadTailProperties, LenProperties, EmptySeq
<1> HIDE DEF t
<1>2. \A d : In(t, d) => In(s, d)
  BY <1>1 DEF In
<1>3. In(s, Head(s))
  BY <1>1 DEF In
<1>4. ASSUME NEW d, In(s, d), d # Head(s)
      PROVE  In(t, d)
  <2>1. PICK i \in 1..Len(s) : s[i] = d
    BY <1>4 DEF In
  <2>2. i # 1 /\ i - 1 \in 1..Len(t)
    BY <1>1, <1>4, <2>1
  <2>3. t[i - 1] = d
    BY <1>1, <2>1, <2>2
  <2> QED
    BY <2>2, <2>3 DEF In
<1>5. ASSUME NoRepeat(s)
      PROVE  NoRepeat(t) /\ ~In(t, Head(s))
  BY <1>1, <1>5 DEF NoRepeat, In
<1> QED
  BY <1>1, <1>2, <1>3, <1>4, <1>5 DEF t

-----------------------------------------------------------------------------
(* A step that leaves a child alone keeps what is said of it.              *)

Same(d) ==
  /\ proc'[d] = proc[d] /\ wait'[d] = wait[d] /\ sender'[d] = sender[d]
  /\ op'[d] = op[d]
  /\ d \in inner' <=> d \in inner
  /\ d \in threads' <=> d \in threads
  /\ d \in lost' <=> d \in lost
  /\ d \in failed => d \in failed'
  /\ \A r \in Reapers : In(channel'[r], d) <=> In(channel[r], d)
  /\ \A r \in Reapers : d \in processes'[r] <=> d \in processes[r]

LEMMA SameChild ==
  ASSUME NEW d \in Children, ChildInv(d), Same(d), UNCHANGED kind,
         runtime' => runtime, used \subseteq used'
  PROVE  ChildInv(d)'
<1> USE DEF Same
<1>1. /\ Future(d)' <=> Future(d)
      /\ Task(d)' <=> Task(d)
  BY DEF Future, Task
<1>2. /\ Sent(d)' <=> Sent(d)
      /\ Kept(d)' <=> Kept(d)
  BY DEF Sent, Kept
<1>3. OnePlace(d)'
  BY <1>1, <1>2 DEF ChildInv, Placed, OnePlace
<1>4. Somewhere(d)' <=> Somewhere(d)
  BY <1>1, <1>2 DEF Somewhere
<1>5. Placed(d)'
  BY <1>1, <1>3, <1>4 DEF ChildInv, Placed
<1>6. Waits(d)'
  BY DEF ChildInv, Waits
<1>7. Processes!Replaced => Processes!Replaced'
  BY DEF Processes!Replaced
<1>8. LostRightly(d)'
  BY <1>7 DEF ChildInv, LostRightly
<1> QED
  BY <1>5, <1>6, <1>8 DEF ChildInv

LEMMA Assemble ==
  ASSUME ProcessInv, NEW c \in Children, ProcessType', ReaperInv',
         ChildInv(c)', \A d \in Children : d # c => Same(d),
         UNCHANGED kind, runtime' => runtime, used \subseteq used'
  PROVE  ProcessInv'
<1>1. ASSUME NEW d \in Children, d # c
      PROVE  ChildInv(d)'
  BY <1>1, SameChild DEF ProcessInv
<1> QED
  BY <1>1 DEF ProcessInv

\* The vectors and the channels stay as they are.
LEMMA SameReapers ==
  ASSUME ProcessInv, UNCHANGED <<kind, cell, used, channel, processes>>,
         runtime' => runtime
  PROVE  ReaperInv'
BY DEF ProcessInv, ReaperInv

-----------------------------------------------------------------------------
(* The process and its Child.                                              *)

LEMMA Spawn_Inv ==
  ASSUME ProcessInv, NEW c \in Children, Processes!Spawn(c)
  PROVE  ProcessInv'
<1>1. /\ proc[c] = "none" /\ proc' = [proc EXCEPT ![c] = "running"]
      /\ inner' = inner \cup {c}
      /\ UNCHANGED <<kind, runtime, wait, sender, cell, used, channel,
                     processes, sigchld, op, threads, lost, failed>>
  BY DEF Processes!Spawn, Processes!reaperVars
<1>2. ProcessType'
  BY <1>1 DEF ProcessInv, ProcessType
<1>3. \A d \in Children : d # c => Same(d)
  BY <1>1 DEF Same, ProcessInv, ProcessType
<1>4. ReaperInv'
  BY <1>1, SameReapers
<1>5. ChildInv(c)'
  <2>1. ChildInv(c) /\ ~Somewhere(c)
    BY <1>1 DEF ProcessInv, ChildInv, Placed
  <2>2. proc'[c] = "running" /\ c \in inner' /\ wait[c] = "none"
    BY <1>1, <2>1 DEF ProcessInv, ProcessType, ChildInv, Waits
  <2>3. /\ ~Future(c)' /\ ~Task(c)' /\ c \notin threads' /\ c \notin lost'
        /\ ~Sent(c)' /\ ~Kept(c)'
    BY <1>1, <2>1 DEF Somewhere, Future, Task, Sent, Kept
  <2>4. Placed(c)'
    BY <2>2, <2>3 DEF Placed, OnePlace, Somewhere, Sent, Kept
  <2>5. Waits(c)' /\ LostRightly(c)'
    BY <1>1, <2>2, <2>3 DEF Waits, LostRightly
  <2> QED
    BY <2>4, <2>5 DEF ChildInv
<1> QED
  BY <1>1, <1>2, <1>3, <1>4, <1>5, Assemble

\* What TryWait makes of the processes.
LEMMA TryWaitType ==
  ASSUME ProcessInv, NEW c \in Children
  PROVE  /\ Processes!TryWait(c) \in
              [Children -> {"none", "running", "zombie", "reaped"}]
         /\ \A d \in Children :
              Processes!TryWait(c)[d] =
                IF d = c /\ proc[c] = "zombie" THEN "reaped" ELSE proc[d]
BY DEF ProcessInv, ProcessType, Processes!TryWait

\* The status of a process changes, and no task waits for it.
LEMMA Status_Inv ==
  ASSUME ProcessInv, NEW c \in Children,
         proc' \in [Children -> {"none", "running", "zombie", "reaped"}],
         \A d \in Children : d # c => proc'[d] = proc[d],
         \/ proc'[c] = proc[c]
         \/ proc[c] \in {"running", "zombie"} /\ proc'[c] = "zombie"
         \/ proc[c] \in {"running", "zombie"} /\ proc'[c] = "reaped" /\ ~Task(c),
         UNCHANGED <<kind, runtime, inner, wait, sender, cell, used, channel,
                     processes, op, threads, lost, failed>>
  PROVE  ProcessInv'
<1>1. ProcessType'
  BY DEF ProcessInv, ProcessType
<1>2. \A d \in Children : d # c => Same(d)
  BY DEF Same
<1>3. ReaperInv'
  BY SameReapers
<1>4. ChildInv(c)'
  <2>1. /\ (Future(c)' <=> Future(c)) /\ (Task(c)' <=> Task(c))
        /\ (Sent(c)' <=> Sent(c)) /\ (Kept(c)' <=> Kept(c))
    BY DEF Future, Task, Sent, Kept
  <2>2. Somewhere(c)' <=> Somewhere(c)
    BY <2>1 DEF Somewhere
  <2>3. OnePlace(c)'
    BY <2>1 DEF ProcessInv, ChildInv, Placed, OnePlace
  <2>4. Placed(c)'
    BY <2>1, <2>2, <2>3 DEF ProcessInv, ChildInv, Placed
  <2>5. Waits(c)'
    BY DEF ProcessInv, ChildInv, Waits
  <2>6. LostRightly(c)'
    BY DEF ProcessInv, ChildInv, LostRightly, Processes!Replaced
  <2> QED
    BY <2>4, <2>5, <2>6 DEF ChildInv
<1> QED
  BY <1>1, <1>2, <1>3, <1>4, Assemble

LEMMA Exits_Inv ==
  ASSUME ProcessInv, NEW c \in Children, Processes!Exits(c)
  PROVE  ProcessInv'
<1>1. /\ proc[c] = "running" /\ proc' = [proc EXCEPT ![c] = "zombie"]
      /\ UNCHANGED <<kind, runtime, inner, wait, sender, cell, used, channel,
                     processes, op, threads, lost, failed>>
  BY DEF Processes!Exits
<1>2. /\ proc' \in [Children -> {"none", "running", "zombie", "reaped"}]
      /\ proc'[c] = "zombie"
      /\ \A d \in Children : d # c => proc'[d] = proc[d]
  BY <1>1 DEF ProcessInv, ProcessType
<1> QED
  BY <1>1, <1>2, Status_Inv

LEMMA try_wait_Inv ==
  ASSUME ProcessInv, NEW c \in Children, Processes!try_wait(c)
  PROVE  ProcessInv'
<1>1. /\ c \in inner /\ proc' = Processes!TryWait(c)
      /\ UNCHANGED <<kind, runtime, inner, wait, sender, cell, used, channel,
                     processes, op, threads, lost, failed>>
  BY DEF Processes!try_wait, Processes!reaperVars
<1>2. ~Task(c)
  BY <1>1 DEF ProcessInv, ChildInv, Placed, OnePlace
<1>3. /\ proc' \in [Children -> {"none", "running", "zombie", "reaped"}]
      /\ \A d \in Children : d # c => proc'[d] = proc[d]
      /\ proc'[c] = proc[c] \/ (proc[c] = "zombie" /\ proc'[c] = "reaped")
  BY <1>1, TryWaitType
<1> QED
  BY <1>1, <1>2, <1>3, Status_Inv

\* The handle that the Child had goes to a channel.
LEMMA Send ==
  ASSUME ProcessInv, NEW c \in Children, NEW r \in Reapers, ~Sent(c),
         channel' = [channel EXCEPT ![r] = Append(@, c)]
  PROVE  /\ channel' \in [Reapers -> Seq(Children)]
         /\ \A q \in Reapers : NoRepeat(channel'[q])
         /\ \A q \in Reapers, d \in Children :
              In(channel'[q], d) <=> In(channel[q], d) \/ (q = r /\ d = c)
<1>1. channel[r] \in Seq(Children) /\ ~In(channel[r], c)
  BY DEF ProcessInv, ProcessType, Sent
<1>2. NoRepeat(channel[r])
  BY DEF ProcessInv, ReaperInv
<1> DEFINE s == Append(channel[r], c)
<1>3. /\ s \in Seq(Children) /\ NoRepeat(s)
      /\ \A d : In(s, d) <=> In(channel[r], d) \/ d = c
  BY <1>1, <1>2, AppendIn
<1>4. channel' = [channel EXCEPT ![r] = s]
  OBVIOUS
<1> HIDE DEF s
<1>5. \A q \in Reapers : channel'[q] = IF q = r THEN s ELSE channel[q]
  BY <1>4 DEF ProcessInv, ProcessType
<1> QED
  BY <1>3, <1>4, <1>5 DEF ProcessInv, ProcessType, ReaperInv

LEMMA Wait_Inv ==
  ASSUME ProcessInv, NEW c \in Children, Processes!Wait(c)
  PROVE  ProcessInv'
<1>1. /\ runtime /\ c \in inner /\ inner' = inner \ {c}
      /\ UNCHANGED <<kind, runtime, proc, cell, used, processes, op, threads,
                     lost, failed>>
  BY DEF Processes!Wait
<1>2. /\ ~Future(c) /\ ~Task(c) /\ c \notin threads /\ c \notin lost
      /\ ~Sent(c) /\ ~Kept(c) /\ proc[c] # "none"
  BY <1>1 DEF ProcessInv, ChildInv, Placed, OnePlace, Somewhere
<1>3. CASE cell # None
  <2>1. /\ sender' = [sender EXCEPT ![c] = cell]
        /\ channel' = [channel EXCEPT ![cell] = Append(@, c)]
        /\ wait' = [wait EXCEPT ![c] = "waiting"]
        /\ cell \in Reapers
    BY <1>3 DEF Processes!Wait, ProcessInv, ProcessType
  <2>2. /\ channel' \in [Reapers -> Seq(Children)]
        /\ \A q \in Reapers : NoRepeat(channel'[q])
        /\ \A q \in Reapers, d \in Children :
             In(channel'[q], d) <=> In(channel[q], d) \/ (q = cell /\ d = c)
    BY <1>2, <2>1, Send
  <2>3. ProcessType'
    BY <1>1, <2>1, <2>2 DEF ProcessInv, ProcessType, Processes!WaitStates
  <2>4. /\ wait'[c] = "waiting" /\ sender'[c] = cell
        /\ \A d \in Children : d # c => Same(d)
    BY <1>1, <2>1, <2>2 DEF Same, ProcessInv, ProcessType
  <2>5. ReaperInv'
    BY <1>1, <2>2 DEF ProcessInv, ReaperInv
  <2>6. ChildInv(c)'
    <3>1. /\ ~Future(c)' /\ ~Task(c)' /\ c \notin threads' /\ c \notin lost'
          /\ ~Kept(c)' /\ Sent(c)' /\ c \notin inner'
      BY <1>1, <1>2, <2>1, <2>2, <2>4 DEF Future, Task, Sent, Kept
    <3>2. \A q \in Reapers : In(channel'[q], c) <=> q = cell
      BY <1>2, <2>2 DEF Sent
    <3>3. Placed(c)'
      BY <1>1, <1>2, <3>1, <3>2 DEF Placed, OnePlace, Somewhere, Kept
    <3>4. Waits(c)'
      BY <1>1, <1>2, <2>4, <3>1, <3>2 DEF Waits, Kept
    <3>5. LostRightly(c)'
      BY <3>1 DEF LostRightly
    <3> QED
      BY <3>3, <3>4, <3>5 DEF ChildInv
  <2> QED
    BY <1>1, <2>3, <2>4, <2>5, <2>6, Assemble
<1>4. CASE cell = None
  <2>1. wait' = [wait EXCEPT ![c] = "starting"] /\ UNCHANGED <<sender, channel>>
    BY <1>4 DEF Processes!Wait
  <2>2. ProcessType'
    BY <1>1, <2>1 DEF ProcessInv, ProcessType, Processes!WaitStates
  <2>3. /\ wait'[c] = "starting"
        /\ \A d \in Children : d # c => Same(d)
    BY <1>1, <2>1 DEF Same, ProcessInv, ProcessType
  <2>4. ReaperInv'
    BY <1>1, <2>1, SameReapers
  <2>5. ChildInv(c)'
    <3>1. /\ Future(c)' /\ ~Task(c)' /\ c \notin threads' /\ c \notin lost'
          /\ ~Kept(c)' /\ ~Sent(c)' /\ c \notin inner'
      BY <1>1, <1>2, <2>1, <2>3 DEF Future, Task, Sent, Kept
    <3>2. Placed(c)'
      BY <1>1, <1>2, <3>1 DEF Placed, OnePlace, Somewhere, Kept, Sent
    <3>3. Waits(c)' /\ LostRightly(c)'
      BY <1>1, <1>2, <3>1 DEF Waits, Kept, Sent, LostRightly
    <3> QED
      BY <3>2, <3>3 DEF ChildInv
  <2> QED
    BY <1>1, <2>2, <2>3, <2>4, <2>5, Assemble
<1> QED
  BY <1>3, <1>4

\* The process is reaped, and its handle is gone.
LEMMA Gone ==
  ASSUME NEW c \in Children, proc'[c] = "reaped", c \notin inner',
         ~Future(c)', ~Task(c)', c \notin threads', c \notin lost',
         ~Sent(c)', ~Kept(c)'
  PROVE  ChildInv(c)'
<1>1. Placed(c)'
  BY DEF Placed, OnePlace, Somewhere, Sent, Kept
<1>2. Waits(c)' /\ LostRightly(c)'
  BY DEF Waits, LostRightly, Sent, Kept
<1> QED
  BY <1>1, <1>2 DEF ChildInv

\* The handle is dropped before the process is reaped.
LEMMA Dropped ==
  ASSUME NEW c \in Children, proc'[c] \in {"running", "zombie", "reaped"},
         c \notin inner', ~Future(c)', ~Task(c)', c \notin threads',
         c \in lost', ~Sent(c)', ~Kept(c)',
         \/ wait'[c] \in {"dropped", "err"} \/ op'[c] = "Done" \/ ~runtime'
         \/ wait'[c] = "none" /\ c \in failed'
  PROVE  ChildInv(c)'
<1>1. Placed(c)'
  BY DEF Placed, OnePlace, Somewhere, Sent, Kept
<1>2. Waits(c)' /\ LostRightly(c)'
  BY DEF Waits, LostRightly, Sent, Kept
<1> QED
  BY <1>1, <1>2 DEF ChildInv

LEMMA WaitOutside_Inv ==
  ASSUME ProcessInv, NEW c \in Children, Processes!WaitOutside(c)
  PROVE  ProcessInv'
<1>1. /\ c \in inner /\ inner' = inner \ {c}
      /\ proc[c] \in {"zombie", "reaped"} /\ proc' = Processes!TryWait(c)
      /\ wait' = [wait EXCEPT ![c] = "ok"]
      /\ UNCHANGED <<kind, runtime, sender, cell, used, channel, processes,
                     op, threads, lost, failed>>
  BY DEF Processes!WaitOutside, Processes!reaperVars, Processes!Exited
<1>2. /\ proc' \in [Children -> {"none", "running", "zombie", "reaped"}]
      /\ proc'[c] = "reaped"
      /\ \A d \in Children : d # c => proc'[d] = proc[d]
  BY <1>1, TryWaitType
<1>3. ProcessType'
  BY <1>1, <1>2 DEF ProcessInv, ProcessType, Processes!WaitStates
<1>4. wait'[c] = "ok" /\ \A d \in Children : d # c => Same(d)
  BY <1>1, <1>2 DEF Same, ProcessInv, ProcessType
<1>5. ReaperInv'
  BY <1>1, SameReapers
<1>6. /\ ~Future(c) /\ ~Task(c) /\ c \notin threads /\ c \notin lost
      /\ ~Sent(c) /\ ~Kept(c)
  BY <1>1 DEF ProcessInv, ChildInv, Placed, OnePlace
<1>7. /\ ~Future(c)' /\ ~Task(c)' /\ c \notin threads' /\ c \notin lost'
      /\ ~Sent(c)' /\ ~Kept(c)' /\ c \notin inner'
  BY <1>1, <1>4, <1>6 DEF Future, Task, Sent, Kept
<1>8. ChildInv(c)'
  BY <1>2, <1>7, Gone
<1> QED
  BY <1>1, <1>3, <1>4, <1>5, <1>8, Assemble

LEMMA WaitOutsideFails_Inv ==
  ASSUME ProcessInv, NEW c \in Children, Processes!WaitOutsideFails(c)
  PROVE  ProcessInv'
<1>1. /\ c \in inner /\ inner' = inner \ {c}
      /\ wait' = [wait EXCEPT ![c] = "err"]
      /\ lost' = lost \cup {c} /\ failed' = failed \cup {c}
      /\ UNCHANGED <<kind, runtime, proc, sender, cell, used, channel,
                     processes, op, threads>>
  BY DEF Processes!WaitOutsideFails, Processes!GiveUp, Processes!reaperVars
<1>2. ProcessType'
  BY <1>1 DEF ProcessInv, ProcessType, Processes!WaitStates
<1>3. wait'[c] = "err" /\ \A d \in Children : d # c => Same(d)
  BY <1>1 DEF Same, ProcessInv, ProcessType
<1>4. ReaperInv'
  BY <1>1, SameReapers
<1>5. /\ ~Future(c) /\ ~Task(c) /\ c \notin threads /\ ~Sent(c) /\ ~Kept(c)
      /\ proc[c] \in {"running", "zombie", "reaped"}
  BY <1>1
  DEF ProcessInv, ProcessType, ChildInv, Placed, OnePlace, Somewhere
<1>6. /\ ~Future(c)' /\ ~Task(c)' /\ c \notin threads' /\ c \in lost'
      /\ ~Sent(c)' /\ ~Kept(c)' /\ c \notin inner'
  BY <1>1, <1>3, <1>5 DEF Future, Task, Sent, Kept
<1>7. ChildInv(c)'
  BY <1>1, <1>3, <1>5, <1>6, Dropped
<1> QED
  BY <1>1, <1>2, <1>3, <1>4, <1>7, Assemble

LEMMA start_zombie_reaper_Inv ==
  ASSUME ProcessInv, NEW c \in Children, NEW r \in Reapers,
         Processes!start_zombie_reaper(c, r)
  PROVE  ProcessInv'
<1>1. /\ wait[c] = "starting" /\ used' = used \cup {r} /\ cell' = r
      /\ sender' = [sender EXCEPT ![c] = r]
      /\ channel' = [channel EXCEPT ![r] = Append(@, c)]
      /\ wait' = [wait EXCEPT ![c] = "waiting"]
      /\ UNCHANGED <<kind, runtime, proc, inner, processes, op, threads, lost, failed>>
  BY DEF Processes!start_zombie_reaper
<1>2. /\ Future(c) /\ ~Task(c) /\ c \notin threads /\ c \notin lost
      /\ ~Sent(c) /\ ~Kept(c) /\ c \notin inner /\ proc[c] # "none"
  BY <1>1 DEF ProcessInv, ChildInv, Placed, OnePlace, Somewhere, Future
<1>3. /\ channel' \in [Reapers -> Seq(Children)]
      /\ \A q \in Reapers : NoRepeat(channel'[q])
      /\ \A q \in Reapers, d \in Children :
           In(channel'[q], d) <=> In(channel[q], d) \/ (q = r /\ d = c)
  BY <1>1, <1>2, Send
<1>4. ProcessType'
  BY <1>1, <1>3 DEF ProcessInv, ProcessType, Processes!WaitStates
<1>5. /\ wait'[c] = "waiting" /\ sender'[c] = r
      /\ \A d \in Children : d # c => Same(d)
  BY <1>1, <1>3 DEF Same, ProcessInv, ProcessType
<1>6. ReaperInv'
  <2>1. r # None
    BY RuntimeObjectsAssumption DEF RuntimeObjectsAssumption
  <2> QED
    BY <1>1, <1>3, <2>1 DEF ProcessInv, ReaperInv
<1>7. ChildInv(c)'
  <2>1. /\ ~Future(c)' /\ ~Task(c)' /\ c \notin threads' /\ c \notin lost'
        /\ ~Kept(c)' /\ Sent(c)' /\ c \notin inner'
    BY <1>1, <1>2, <1>3, <1>5 DEF Future, Task, Sent, Kept
  <2>2. \A q \in Reapers : In(channel'[q], c) <=> q = r
    BY <1>2, <1>3 DEF Sent
  <2>3. Placed(c)'
    BY <1>1, <1>2, <2>1, <2>2 DEF Placed, OnePlace, Somewhere, Kept
  <2>4. Waits(c)'
    BY <1>1, <1>2, <1>5, <2>1, <2>2 DEF Waits, Kept
  <2>5. LostRightly(c)'
    BY <2>1 DEF LostRightly
  <2> QED
    BY <2>3, <2>4, <2>5 DEF ChildInv
<1>8. used \subseteq used'
  BY <1>1
<1> QED
  BY <1>1, <1>4, <1>5, <1>6, <1>7, <1>8, Assemble

LEMMA DropWait_Inv ==
  ASSUME ProcessInv, NEW c \in Children, Processes!DropWait(c)
  PROVE  ProcessInv'
<1>1. /\ wait[c] \in {"starting", "waiting"}
      /\ wait' = [wait EXCEPT ![c] = "dropped"]
      /\ sender' = [sender EXCEPT ![c] = None]
      /\ lost' = IF wait[c] = "starting" THEN lost \cup {c} ELSE lost
      /\ UNCHANGED <<kind, runtime, proc, inner, cell, used, channel,
                     processes, op, threads, failed>>
  BY DEF Processes!DropWait, Processes!reaperVars
<1>2. ProcessType'
  BY <1>1 DEF ProcessInv, ProcessType, Processes!WaitStates
<1>3. wait'[c] = "dropped" /\ \A d \in Children : d # c => Same(d)
  BY <1>1 DEF Same, ProcessInv, ProcessType
<1>4. ReaperInv'
  BY <1>1, SameReapers
<1>5. c \notin inner /\ proc[c] \in {"running", "zombie", "reaped"}
  BY <1>1 DEF ProcessInv, ProcessType, ChildInv, Waits
<1>6. ~Future(c)' /\ (Task(c)' <=> Task(c)) /\ (Sent(c)' <=> Sent(c))
      /\ (Kept(c)' <=> Kept(c))
  BY <1>1, <1>3 DEF Future, Task, Sent, Kept
<1>7. ChildInv(c)'
  <2>1. CASE wait[c] = "starting"
    <3>1. /\ ~Task(c) /\ c \notin threads /\ ~Sent(c) /\ ~Kept(c)
          /\ c \in lost'
      BY <1>1, <2>1 DEF ProcessInv, ChildInv, Placed, OnePlace, Future
    <3> QED
      BY <1>1, <1>3, <1>5, <1>6, <3>1, Dropped
  <2>2. CASE wait[c] = "waiting"
    <3>1. ~Future(c) /\ lost' = lost
      BY <1>1, <2>2 DEF Future
    <3>2. OnePlace(c)'
      BY <1>1, <1>6, <3>1 DEF ProcessInv, ChildInv, Placed, OnePlace
    <3>3. Placed(c)'
      BY <1>1, <1>6, <3>1, <3>2 DEF ProcessInv, ChildInv, Placed, Somewhere
    <3>4. Waits(c)' /\ LostRightly(c)'
      BY <1>1, <1>3, <1>5 DEF Waits, LostRightly
    <3> QED
      BY <3>3, <3>4 DEF ChildInv
  <2> QED
    BY <1>1, <2>1, <2>2
<1> QED
  BY <1>1, <1>2, <1>3, <1>4, <1>7, Assemble

LEMMA DropChild_Inv ==
  ASSUME ProcessInv, NEW c \in Children, Processes!DropChild(c)
  PROVE  ProcessInv'
<1>1. /\ c \in inner /\ inner' = inner \ {c} /\ proc' = Processes!TryWait(c)
      /\ UNCHANGED <<kind, runtime, wait, sender, cell, used, processes, op,
                     lost, failed>>
  BY DEF Processes!DropChild, Processes!reap_on_drop
<1>2. /\ ~Future(c) /\ ~Task(c) /\ c \notin threads /\ c \notin lost
      /\ ~Sent(c) /\ ~Kept(c) /\ proc[c] # "none" /\ wait[c] = "none"
  BY <1>1 DEF ProcessInv, ChildInv, Placed, OnePlace, Somewhere, Waits
<1>3. /\ proc' \in [Children -> {"none", "running", "zombie", "reaped"}]
      /\ \A d \in Children : d # c => proc'[d] = proc[d]
      /\ proc'[c] # "none" /\ proc'[c] # "zombie"
      /\ proc'[c] = "reaped" <=> Processes!Exited(c)
  BY <1>1, <1>2, TryWaitType DEF ProcessInv, ProcessType, Processes!Exited
<1>4. /\ ~Future(c)' /\ ~Task(c)' /\ c \notin lost' /\ ~Kept(c)'
      /\ c \notin inner'
  BY <1>1, <1>2 DEF Future, Task, Kept
<1>5. CASE UNCHANGED <<channel, threads>> /\ proc'[c] = "reaped"
  <2>1. ProcessType'
    BY <1>1, <1>3, <1>5 DEF ProcessInv, ProcessType
  <2>2. \A d \in Children : d # c => Same(d)
    BY <1>1, <1>3, <1>5 DEF Same, ProcessInv, ProcessType
  <2>3. ReaperInv'
    BY <1>1, <1>5, SameReapers
  <2>4. ~Sent(c)' /\ c \notin threads'
    BY <1>2, <1>5 DEF Sent
  <2>5. ChildInv(c)'
    BY <1>4, <1>5, <2>4, Gone
  <2> QED
    BY <1>1, <2>1, <2>2, <2>3, <2>5, Assemble
<1>6. CASE /\ cell # None /\ channel' = [channel EXCEPT ![cell] = Append(@, c)]
           /\ UNCHANGED threads
  <2>1. cell \in Reapers
    BY <1>6 DEF ProcessInv, ProcessType
  <2>2. /\ channel' \in [Reapers -> Seq(Children)]
        /\ \A q \in Reapers : NoRepeat(channel'[q])
        /\ \A q \in Reapers, d \in Children :
             In(channel'[q], d) <=> In(channel[q], d) \/ (q = cell /\ d = c)
    BY <1>2, <1>6, <2>1, Send
  <2>3. ProcessType'
    BY <1>1, <1>3, <1>6, <2>2 DEF ProcessInv, ProcessType
  <2>4. \A d \in Children : d # c => Same(d)
    BY <1>1, <1>3, <1>6, <2>2 DEF Same, ProcessInv, ProcessType
  <2>5. ReaperInv'
    BY <1>1, <2>2 DEF ProcessInv, ReaperInv
  <2>6. ChildInv(c)'
    <3>1. c \notin threads' /\ Sent(c)'
      BY <1>2, <1>6, <2>1, <2>2 DEF Sent
    <3>2. \A q \in Reapers : In(channel'[q], c) <=> q = cell
      BY <1>2, <2>2 DEF Sent
    <3>3. Placed(c)'
      BY <1>3, <1>4, <3>1, <3>2 DEF Placed, OnePlace, Somewhere, Kept
    <3>4. Waits(c)' /\ LostRightly(c)'
      BY <1>1, <1>2, <1>4 DEF Waits, LostRightly
    <3> QED
      BY <3>3, <3>4 DEF ChildInv
  <2> QED
    BY <1>1, <2>3, <2>4, <2>5, <2>6, Assemble
<1>7. CASE threads' = threads \cup {c} /\ UNCHANGED channel
  <2>1. ProcessType'
    BY <1>1, <1>3, <1>7 DEF ProcessInv, ProcessType
  <2>2. \A d \in Children : d # c => Same(d)
    BY <1>1, <1>3, <1>7 DEF Same, ProcessInv, ProcessType
  <2>3. ReaperInv'
    BY <1>1, <1>7, SameReapers
  <2>4. ~Sent(c)' /\ c \in threads'
    BY <1>2, <1>7 DEF Sent
  <2>5. Placed(c)'
    BY <1>3, <1>4, <2>4 DEF Placed, OnePlace, Somewhere, Kept, Sent
  <2>6. Waits(c)' /\ LostRightly(c)'
    BY <1>1, <1>2, <1>4 DEF Waits, LostRightly
  <2> QED
    BY <1>1, <2>1, <2>2, <2>3, <2>5, <2>6, Assemble DEF ChildInv
<1> QED
  BY <1>3, <1>5, <1>6, <1>7 DEF Processes!DropChild, Processes!reap_on_drop

-----------------------------------------------------------------------------
(* The reapers, their tasks and threads.                                   *)

LEMMA Answered ==
  ASSUME ProcessInv, NEW c \in Children, NEW x \in {"ok", "err"},
         Processes!Answer(c, x)
  PROVE  /\ wait' \in [Children -> Processes!WaitStates]
         /\ sender' \in [Children -> Reapers \cup {None}]
         /\ wait'[c] = IF wait[c] = "waiting" THEN x ELSE wait[c]
         /\ \A d \in Children : d # c =>
              wait'[d] = wait[d] /\ sender'[d] = sender[d]
BY DEF ProcessInv, ProcessType, Processes!Answer, Processes!WaitStates

\* A message leaves a channel.
LEMMA Receive ==
  ASSUME ProcessInv, NEW r \in Reapers, channel[r] # <<>>,
         channel' = [channel EXCEPT ![r] = Tail(@)]
  PROVE  /\ channel' \in [Reapers -> Seq(Children)]
         /\ Head(channel[r]) \in Children
         /\ In(channel[r], Head(channel[r]))
         /\ \A q \in Reapers : NoRepeat(channel'[q])
         /\ \A q \in Reapers, d \in Children :
              d # Head(channel[r]) =>
                (In(channel'[q], d) <=> In(channel[q], d))
         /\ \A q \in Reapers : ~In(channel'[q], Head(channel[r]))
<1> DEFINE s == channel[r]
           t == Tail(s)
           c == Head(s)
<1>1. s \in Seq(Children) /\ NoRepeat(s)
  BY DEF ProcessInv, ProcessType, ReaperInv
<1>2. /\ c \in Children /\ t \in Seq(Children) /\ NoRepeat(t) /\ ~In(t, c)
      /\ \A d : In(s, d) <=> In(t, d) \/ d = c
  BY <1>1, TailIn
<1>3. channel' = [channel EXCEPT ![r] = t]
  OBVIOUS
<1> HIDE DEF t, c
<1>4. \A q \in Reapers : channel'[q] = IF q = r THEN t ELSE channel[q]
  BY <1>3 DEF ProcessInv, ProcessType
<1>5. \A q \in Reapers : q # r => ~In(channel[q], c)
  BY <1>2 DEF ProcessInv, ChildInv, Placed, OnePlace
<1>6. channel' \in [Reapers -> Seq(Children)]
  BY <1>2, <1>3 DEF ProcessInv, ProcessType
<1>7. \A q \in Reapers : NoRepeat(channel'[q])
  BY <1>2, <1>4 DEF ProcessInv, ReaperInv
<1> QED
  BY <1>2, <1>4, <1>5, <1>6, <1>7 DEF c

LEMMA recv_Inv ==
  ASSUME ProcessInv, NEW r \in Reapers, Processes!recv(r)
  PROVE  ProcessInv'
<1>1. /\ channel[r] # <<>> /\ channel' = [channel EXCEPT ![r] = Tail(@)]
      /\ UNCHANGED <<kind, runtime, inner, cell, used, lost, failed>>
  BY DEF Processes!recv
<1>2. PICK c \in Children : c = Head(channel[r])
  BY <1>1, Receive
<1>3. /\ channel' \in [Reapers -> Seq(Children)]
      /\ In(channel[r], c)
      /\ \A q \in Reapers : NoRepeat(channel'[q])
      /\ \A q \in Reapers, d \in Children :
           d # c => (In(channel'[q], d) <=> In(channel[q], d))
      /\ \A q \in Reapers : ~In(channel'[q], c)
  BY <1>1, <1>2, Receive
<1>4. \/ /\ kind # "blocking" /\ Processes!Exited(c)
         /\ proc' = Processes!TryWait(c) /\ Processes!Answer(c, "ok")
         /\ UNCHANGED <<processes, op, threads>>
      \/ /\ kind = "blocking" \/ ~Processes!Exited(c)
         /\ UNCHANGED <<proc, wait, sender>>
         /\ processes' = IF kind = "signal"
              THEN [processes EXCEPT ![r] = @ \cup {c}] ELSE processes
         /\ op' = IF kind \in {"completion", "poll"}
              THEN [op EXCEPT ![c] = "Init"] ELSE op
         /\ threads' = IF kind \in {"blocking", "windows"}
              THEN threads \cup {c} ELSE threads
  BY <1>2 DEF Processes!recv
<1>5. /\ Sent(c) /\ ~Future(c) /\ ~Task(c) /\ c \notin threads
      /\ c \notin lost /\ ~Kept(c) /\ c \notin inner /\ proc[c] # "none"
  <2>1. Sent(c)
    BY <1>3 DEF Sent
  <2> QED
    BY <1>3, <2>1 DEF ProcessInv, ChildInv, Placed, OnePlace, Somewhere
<1>6. ~Sent(c)' /\ c \notin inner' /\ c \notin lost'
  BY <1>1, <1>3, <1>5 DEF Sent
<1>7. wait[c] \in {"none", "dropped"} \/ (wait[c] = "waiting" /\ sender[c] = r)
  BY <1>3 DEF ProcessInv, ChildInv, Waits
<1>8. CASE /\ Processes!Exited(c)
           /\ proc' = Processes!TryWait(c) /\ Processes!Answer(c, "ok")
           /\ UNCHANGED <<processes, op, threads>>
  <2>1. /\ proc' \in [Children -> {"none", "running", "zombie", "reaped"}]
        /\ proc'[c] = "reaped"
        /\ \A d \in Children : d # c => proc'[d] = proc[d]
    BY <1>3, <1>8, TryWaitType DEF Processes!Exited
  <2>2. /\ wait' \in [Children -> Processes!WaitStates]
        /\ sender' \in [Children -> Reapers \cup {None}]
        /\ wait'[c] = IF wait[c] = "waiting" THEN "ok" ELSE wait[c]
        /\ \A d \in Children : d # c =>
             wait'[d] = wait[d] /\ sender'[d] = sender[d]
    BY <1>3, <1>8, Answered
  <2>3. ProcessType'
    BY <1>1, <1>3, <1>8, <2>1, <2>2 DEF ProcessInv, ProcessType
  <2>4. \A d \in Children : d # c => Same(d)
    BY <1>1, <1>3, <1>8, <2>1, <2>2 DEF Same
  <2>5. ReaperInv'
    BY <1>1, <1>3, <1>8 DEF ProcessInv, ReaperInv
  <2>6. ~Future(c)' /\ ~Task(c)' /\ c \notin threads' /\ ~Kept(c)'
    BY <1>5, <1>8, <2>2 DEF Future, Task, Kept
  <2>7. ChildInv(c)'
    BY <1>3, <1>6, <2>1, <2>6, Gone
  <2> QED
    BY <1>1, <1>3, <2>3, <2>4, <2>5, <2>7, Assemble
<1>9. CASE /\ kind = "blocking" \/ ~Processes!Exited(c)
           /\ UNCHANGED <<proc, wait, sender>>
           /\ processes' = IF kind = "signal"
                THEN [processes EXCEPT ![r] = @ \cup {c}] ELSE processes
           /\ op' = IF kind \in {"completion", "poll"}
                THEN [op EXCEPT ![c] = "Init"] ELSE op
           /\ threads' = IF kind \in {"blocking", "windows"}
                THEN threads \cup {c} ELSE threads
  <2>1. ProcessType'
    BY <1>1, <1>3, <1>9 DEF ProcessInv, ProcessType
  <2>2. /\ \A d \in Children : op'[d] =
             IF d = c /\ kind \in {"completion", "poll"} THEN "Init" ELSE op[d]
        /\ \A q \in Reapers, d \in Children : d \in processes'[q] <=>
             d \in processes[q] \/ (d = c /\ q = r /\ kind = "signal")
        /\ \A d \in Children : d \in threads' <=>
             d \in threads \/ (d = c /\ kind \in {"blocking", "windows"})
    BY <1>3, <1>9 DEF ProcessInv, ProcessType
  <2>3. \A d \in Children : d # c => Same(d)
    BY <1>1, <1>3, <1>9, <2>2 DEF Same
  <2>4. ReaperInv'
    <3>1. \A q \in Reapers : processes'[q] # {} => kind = "signal"
      BY <1>9 DEF ProcessInv, ReaperInv
    <3> QED
      BY <1>1, <1>3, <3>1 DEF ProcessInv, ReaperInv
  <2>5. /\ ~Future(c)'
        /\ Task(c)' <=> kind \in {"completion", "poll"}
        /\ c \in threads' <=> kind \in {"blocking", "windows"}
        /\ \A q \in Reapers : c \in processes'[q] <=> q = r /\ kind = "signal"
        /\ Kept(c)' <=> kind = "signal"
    BY <1>3, <1>5, <1>9, <2>2 DEF Future, Task, Kept
  <2>6. kind \in {"completion", "poll", "signal", "blocking", "windows"}
    BY DEF ProcessInv, ProcessType
  <2>7. Task(c)' => proc'[c] # "reaped"
    BY <1>9, <2>5 DEF Processes!Exited
  <2>8. OnePlace(c)'
    BY <1>6, <2>5, <2>6 DEF OnePlace, Sent
  <2>9. Placed(c)'
    BY <1>5, <1>9, <2>5, <2>6, <2>7, <2>8 DEF Placed, Somewhere
  <2>10. Waits(c)' /\ LostRightly(c)'
    BY <1>3, <1>5, <1>6, <1>7, <1>9, <2>5 DEF Waits, LostRightly
  <2>11. ChildInv(c)'
    BY <2>9, <2>10 DEF ChildInv
  <2> QED
    BY <1>1, <1>3, <2>1, <2>3, <2>4, <2>11, Assemble
<1> QED
  BY <1>4, <1>8, <1>9

\* What leaves a channel and is given up: whoever waits gets the error.
LEMMA recv_failed_Inv ==
  ASSUME ProcessInv, NEW r \in Reapers, Processes!recv_failed(r)
  PROVE  ProcessInv'
<1>1. /\ channel[r] # <<>> /\ channel' = [channel EXCEPT ![r] = Tail(@)]
      /\ UNCHANGED <<kind, runtime, proc, inner, cell, used, processes, op,
                     threads>>
  BY DEF Processes!recv_failed
<1>2. PICK c \in Children : c = Head(channel[r])
  BY <1>1, Receive
<1>3. /\ channel' \in [Reapers -> Seq(Children)]
      /\ In(channel[r], c)
      /\ \A q \in Reapers : NoRepeat(channel'[q])
      /\ \A q \in Reapers, d \in Children :
           d # c => (In(channel'[q], d) <=> In(channel[q], d))
      /\ \A q \in Reapers : ~In(channel'[q], c)
  BY <1>1, <1>2, Receive
<1>4. /\ Processes!Answer(c, "err")
      /\ lost' = lost \cup {c} /\ failed' = failed \cup {c}
  BY <1>2 DEF Processes!recv_failed, Processes!GiveUp
<1>5. /\ Sent(c) /\ ~Future(c) /\ ~Task(c) /\ c \notin threads
      /\ ~Kept(c) /\ c \notin inner
      /\ proc[c] \in {"running", "zombie", "reaped"}
  <2>1. Sent(c)
    BY <1>3 DEF Sent
  <2> QED
    BY <1>3, <2>1
    DEF ProcessInv, ProcessType, ChildInv, Placed, OnePlace, Somewhere
<1>6. /\ wait' \in [Children -> Processes!WaitStates]
      /\ sender' \in [Children -> Reapers \cup {None}]
      /\ wait'[c] = IF wait[c] = "waiting" THEN "err" ELSE wait[c]
      /\ \A d \in Children : d # c =>
           wait'[d] = wait[d] /\ sender'[d] = sender[d]
  BY <1>4, Answered
<1>7. ProcessType'
  BY <1>1, <1>3, <1>4, <1>6 DEF ProcessInv, ProcessType
<1>8. \A d \in Children : d # c => Same(d)
  BY <1>1, <1>3, <1>4, <1>6 DEF Same
<1>9. ReaperInv'
  BY <1>1, <1>3 DEF ProcessInv, ReaperInv
<1>10. /\ ~Future(c)' /\ ~Task(c)' /\ c \notin threads' /\ ~Kept(c)'
       /\ ~Sent(c)' /\ c \notin inner'
  BY <1>1, <1>3, <1>5, <1>6 DEF Future, Task, Kept, Sent
<1>11. wait'[c] \in {"dropped", "err"} \/ (wait'[c] = "none" /\ c \in failed')
  BY <1>3, <1>4, <1>6 DEF ProcessInv, ChildInv, Waits
<1>12. ChildInv(c)'
  BY <1>1, <1>4, <1>5, <1>10, <1>11, Dropped
<1> QED
  BY <1>1, <1>7, <1>8, <1>9, <1>12, Assemble

LEMMA recv_signal_Inv ==
  ASSUME ProcessInv, NEW r \in Reapers, Processes!recv_signal(r)
  PROVE  ProcessInv'
<1>0. PICK bad \in SUBSET processes[r] :
        LET exited == {c \in processes[r] \ bad : Processes!Exited(c)}
            answered == {c \in exited \cup bad : wait[c] = "waiting"}
        IN /\ processes' = [processes EXCEPT ![r] = @ \ (exited \cup bad)]
           /\ proc' = [c \in Children |->
                         IF c \in exited THEN "reaped" ELSE proc[c]]
           /\ wait' = [c \in Children |->
                         IF c \notin answered THEN wait[c]
                         ELSE IF c \in bad THEN "err" ELSE "ok"]
           /\ sender' = [c \in Children |->
                           IF c \in answered THEN None ELSE sender[c]]
           /\ lost' = lost \cup bad /\ failed' = failed \cup bad
  BY DEF Processes!recv_signal, Processes!GiveUp
<1> DEFINE exited == {c \in processes[r] \ bad : Processes!Exited(c)}
           answered == {c \in exited \cup bad : wait[c] = "waiting"}
           gone == exited \cup bad
<1>1. /\ processes' = [processes EXCEPT ![r] = @ \ gone]
      /\ proc' = [c \in Children |-> IF c \in exited THEN "reaped" ELSE proc[c]]
      /\ wait' = [c \in Children |->
                    IF c \notin answered THEN wait[c]
                    ELSE IF c \in bad THEN "err" ELSE "ok"]
      /\ sender' = [c \in Children |->
                      IF c \in answered THEN None ELSE sender[c]]
      /\ lost' = lost \cup bad /\ failed' = failed \cup bad
      /\ bad \subseteq Children
      /\ UNCHANGED <<kind, runtime, inner, cell, used, channel, op, threads>>
  BY <1>0 DEF Processes!recv_signal, ProcessInv, ProcessType
<1>2. ProcessType'
  BY <1>1 DEF ProcessInv, ProcessType, Processes!WaitStates
<1>3. ReaperInv'
  BY <1>1 DEF ProcessInv, ProcessType, ReaperInv
<1>4. \A q \in Reapers, c \in Children :
        c \in processes'[q] <=> c \in processes[q] /\ (q = r => c \notin gone)
  BY <1>1 DEF ProcessInv, ProcessType
<1>5. ASSUME NEW c \in Children, c \notin gone
      PROVE  Same(c)
  <2>1. c \notin answered /\ c \notin exited /\ c \notin bad
    BY <1>5
  <2> HIDE DEF exited, answered, gone
  <2> QED
    BY <1>1, <1>4, <1>5, <2>1 DEF Same
<1>6. ASSUME NEW c \in Children, c \in gone
      PROVE  ChildInv(c)'
  <2>1. /\ c \in processes[r] /\ (c \in exited <=> c \notin bad)
        /\ c \in bad => (c \in answered <=> wait[c] = "waiting")
    BY <1>6
  <2> HIDE DEF exited, answered, gone
  <2>2. /\ Kept(c) /\ ~Future(c) /\ ~Task(c) /\ c \notin threads
        /\ c \notin lost /\ ~Sent(c) /\ c \notin inner
        /\ \A q \in Reapers : c \in processes[q] => q = r
        /\ proc[c] \in {"running", "zombie", "reaped"}
    <3>1. Kept(c)
      BY <2>1 DEF Kept
    <3> QED
      BY <2>1, <3>1
      DEF ProcessInv, ProcessType, ChildInv, Placed, OnePlace, Somewhere
  <2>3. wait'[c] # "starting"
    BY <1>1, <2>2 DEF Future
  <2>4. /\ ~Future(c)' /\ ~Task(c)' /\ c \notin threads'
        /\ ~Sent(c)' /\ c \notin inner' /\ ~Kept(c)'
    BY <1>1, <1>4, <1>6, <2>2, <2>3 DEF Future, Task, Sent, Kept
  <2>5. CASE c \in exited
    <3>1. proc'[c] = "reaped" /\ c \notin lost'
      BY <1>1, <2>1, <2>2, <2>5
    <3> QED
      BY <2>4, <3>1, Gone
  <2>6. CASE c \in bad
    <3>1. c \in lost' /\ c \in failed' /\ proc'[c] = proc[c]
      BY <1>1, <2>1, <2>6
    <3>2. wait'[c] = IF wait[c] = "waiting" THEN "err" ELSE wait[c]
      BY <1>1, <2>1, <2>6
    <3>3. wait[c] \in {"none", "dropped", "waiting"}
      BY <2>1 DEF ProcessInv, ChildInv, Waits
    <3> QED
      BY <2>2, <2>4, <3>1, <3>2, <3>3, Dropped
  <2> QED
    BY <2>1, <2>5, <2>6
<1>7. \A c \in Children : ChildInv(c)'
  BY <1>1, <1>5, <1>6, SameChild DEF ProcessInv
<1> QED
  BY <1>2, <1>3, <1>7 DEF ProcessInv

LEMMA recv_closed_Inv ==
  ASSUME ProcessInv, NEW r \in Reapers, Processes!recv_closed(r)
  PROVE  ProcessInv'
<1>1. /\ r \in used /\ ~Processes!Open(r) /\ processes[r] # {}
      /\ processes' = [processes EXCEPT ![r] = {}]
      /\ lost' = lost \cup processes[r]
      /\ UNCHANGED <<kind, runtime, proc, inner, wait, sender, cell, used,
                     channel, op, threads, failed>>
  BY DEF Processes!recv_closed
<1>2. ProcessType'
  BY <1>1 DEF ProcessInv, ProcessType
<1>3. ReaperInv'
  BY <1>1 DEF ProcessInv, ProcessType, ReaperInv
<1>4. \A q \in Reapers, c \in Children :
        c \in processes'[q] <=> c \in processes[q] /\ q # r
  BY <1>1 DEF ProcessInv, ProcessType
<1>5. ASSUME NEW c \in Children, c \notin processes[r]
      PROVE  Same(c)
  BY <1>1, <1>4, <1>5 DEF Same
<1>6. ASSUME NEW c \in Children, c \in processes[r]
      PROVE  ChildInv(c)'
  <2>1. Kept(c)
    BY <1>6 DEF Kept
  <2>2. /\ ~Future(c) /\ ~Task(c) /\ c \notin threads
        /\ ~Sent(c) /\ c \notin inner /\ proc[c] # "none"
        /\ \A q \in Reapers : c \in processes[q] => q = r
    BY <1>6, <2>1 DEF ProcessInv, ChildInv, Placed, OnePlace, Somewhere
  <2>3. /\ ~Future(c)' /\ ~Task(c)' /\ c \notin threads' /\ c \in lost'
        /\ ~Sent(c)' /\ c \notin inner' /\ ~Kept(c)'
    BY <1>1, <1>4, <1>6, <2>2 DEF Future, Task, Sent, Kept
  <2>4. Placed(c)'
    BY <1>1, <2>2, <2>3 DEF Placed, OnePlace, Somewhere, Sent, Kept
  <2>5. Waits(c)'
    BY <1>1, <2>2, <2>3 DEF Waits, Sent, Kept
  <2>6. LostRightly(c)'
    <3>1. wait[c] \in {"none", "dropped"}
      BY <1>1, <1>6 DEF ProcessInv, ChildInv, Waits, Processes!Open
    <3>2. runtime => Processes!Replaced
      <4>1. cell # r
        BY <1>1 DEF Processes!Open
      <4>2. runtime => cell \in used
        BY <1>1 DEF ProcessInv, ReaperInv
      <4>3. kind = "signal"
        BY <1>1 DEF ProcessInv, ReaperInv
      <4> QED
        BY <1>1, <4>1, <4>2, <4>3 DEF Processes!Replaced
    <3>3. Processes!Replaced => Processes!Replaced'
      BY <1>1 DEF Processes!Replaced
    <3> QED
      BY <1>1, <3>1, <3>2, <3>3 DEF LostRightly
  <2> QED
    BY <2>4, <2>5, <2>6 DEF ChildInv
<1>7. \A c \in Children : ChildInv(c)'
  BY <1>1, <1>5, <1>6, SameChild DEF ProcessInv
<1> QED
  BY <1>2, <1>3, <1>7 DEF ProcessInv

LEMMA ThreadReaps_Inv ==
  ASSUME ProcessInv, NEW c \in Children, Processes!ThreadReaps(c)
  PROVE  ProcessInv'
<1>1. /\ c \in threads /\ threads' = threads \ {c}
      /\ proc' = [proc EXCEPT ![c] = "reaped"] /\ Processes!Answer(c, "ok")
      /\ UNCHANGED <<kind, runtime, inner, cell, used, channel, processes, op,
                     lost, failed>>
  BY DEF Processes!ThreadReaps
<1>2. /\ wait' \in [Children -> Processes!WaitStates]
      /\ sender' \in [Children -> Reapers \cup {None}]
      /\ wait'[c] = IF wait[c] = "waiting" THEN "ok" ELSE wait[c]
      /\ \A d \in Children : d # c =>
           wait'[d] = wait[d] /\ sender'[d] = sender[d]
  BY <1>1, Answered
<1>3. ProcessType'
  BY <1>1, <1>2 DEF ProcessInv, ProcessType
<1>4. proc'[c] = "reaped" /\ \A d \in Children : d # c => Same(d)
  BY <1>1, <1>2 DEF Same, ProcessInv, ProcessType
<1>5. ReaperInv'
  BY <1>1, SameReapers
<1>6. /\ ~Future(c) /\ ~Task(c) /\ c \notin lost /\ ~Sent(c) /\ ~Kept(c)
      /\ c \notin inner
  BY <1>1 DEF ProcessInv, ChildInv, Placed, OnePlace
<1>7. /\ ~Future(c)' /\ ~Task(c)' /\ c \notin threads' /\ c \notin lost'
      /\ ~Sent(c)' /\ ~Kept(c)' /\ c \notin inner'
  BY <1>1, <1>2, <1>6 DEF Future, Task, Sent, Kept
<1>8. ChildInv(c)'
  BY <1>4, <1>7, Gone
<1> QED
  BY <1>1, <1>3, <1>4, <1>5, <1>8, Assemble

LEMMA ThreadFails_Inv ==
  ASSUME ProcessInv, NEW c \in Children, Processes!ThreadFails(c)
  PROVE  ProcessInv'
<1>1. /\ c \in threads /\ threads' = threads \ {c}
      /\ Processes!Answer(c, "err")
      /\ lost' = lost \cup {c} /\ failed' = failed \cup {c}
      /\ UNCHANGED <<kind, runtime, proc, inner, cell, used, channel,
                     processes, op>>
  BY DEF Processes!ThreadFails, Processes!GiveUp
<1>2. /\ wait' \in [Children -> Processes!WaitStates]
      /\ sender' \in [Children -> Reapers \cup {None}]
      /\ wait'[c] = IF wait[c] = "waiting" THEN "err" ELSE wait[c]
      /\ \A d \in Children : d # c =>
           wait'[d] = wait[d] /\ sender'[d] = sender[d]
  BY <1>1, Answered
<1>3. ProcessType'
  BY <1>1, <1>2 DEF ProcessInv, ProcessType
<1>4. \A d \in Children : d # c => Same(d)
  BY <1>1, <1>2 DEF Same, ProcessInv, ProcessType
<1>5. ReaperInv'
  BY <1>1, SameReapers
<1>6. /\ ~Future(c) /\ ~Task(c) /\ ~Sent(c) /\ ~Kept(c) /\ c \notin inner
      /\ proc[c] \in {"running", "zombie", "reaped"}
  BY <1>1
  DEF ProcessInv, ProcessType, ChildInv, Placed, OnePlace, Somewhere
<1>7. /\ ~Future(c)' /\ ~Task(c)' /\ c \notin threads' /\ c \in lost'
      /\ ~Sent(c)' /\ ~Kept(c)' /\ c \notin inner'
  BY <1>1, <1>2, <1>6 DEF Future, Task, Sent, Kept
<1>8. wait'[c] \in {"dropped", "err"} \/ (wait'[c] = "none" /\ c \in failed')
  BY <1>1, <1>2 DEF ProcessInv, ChildInv, Waits
<1>9. ChildInv(c)'
  BY <1>1, <1>6, <1>7, <1>8, Dropped
<1> QED
  BY <1>1, <1>3, <1>4, <1>5, <1>9, Assemble

LEMMA poll_completion_Inv ==
  ASSUME ProcessInv, NEW c \in Children, Processes!poll_completion(c)
  PROVE  ProcessInv'
<1>1. /\ op[c] = "Init" /\ op' = [op EXCEPT ![c] = "Polling"]
      /\ UNCHANGED <<kind, runtime, proc, inner, wait, sender, cell, used,
                     channel, processes, threads, lost, failed>>
  BY DEF Processes!poll_completion
<1>2. ProcessType'
  BY <1>1 DEF ProcessInv, ProcessType
<1>3. op'[c] = "Polling" /\ \A d \in Children : d # c => Same(d)
  BY <1>1 DEF Same, ProcessInv, ProcessType
<1>4. ReaperInv'
  BY <1>1, SameReapers
<1>5. /\ Task(c) /\ Task(c)' /\ (Future(c)' <=> Future(c))
      /\ (Sent(c)' <=> Sent(c)) /\ (Kept(c)' <=> Kept(c))
  BY <1>1, <1>3 DEF Task, Future, Sent, Kept
<1>6. OnePlace(c)' /\ c \notin lost
  BY <1>1, <1>5 DEF ProcessInv, ChildInv, Placed, OnePlace
<1>7. Placed(c)'
  BY <1>1, <1>5, <1>6 DEF ProcessInv, ChildInv, Placed, Somewhere
<1>8. Waits(c)' /\ LostRightly(c)'
  BY <1>1, <1>6 DEF ProcessInv, ChildInv, Waits, LostRightly
<1>9. ChildInv(c)'
  BY <1>7, <1>8 DEF ChildInv
<1> QED
  BY <1>1, <1>2, <1>3, <1>4, <1>9, Assemble

\* A task ends, with the process reaped or without.
LEMMA TaskEnds ==
  ASSUME ProcessInv, NEW c \in Children, Task(c), NEW x \in {"ok", "err"},
         op' = [op EXCEPT ![c] = "Done"], Processes!Answer(c, x),
         \/ proc' = [proc EXCEPT ![c] = "reaped"] /\ lost' = lost
         \/ proc' = proc /\ lost' = lost \cup {c},
         failed \subseteq failed',
         UNCHANGED <<kind, runtime, inner, cell, used, channel, processes,
                     threads>>
  PROVE  ProcessInv'
<1>1. /\ wait' \in [Children -> Processes!WaitStates]
      /\ sender' \in [Children -> Reapers \cup {None}]
      /\ wait'[c] = IF wait[c] = "waiting" THEN x ELSE wait[c]
      /\ \A d \in Children : d # c =>
           wait'[d] = wait[d] /\ sender'[d] = sender[d]
  BY Answered
<1>2. ProcessType'
  BY <1>1 DEF ProcessInv, ProcessType
<1>3. op'[c] = "Done" /\ \A d \in Children : d # c => Same(d)
  BY <1>1 DEF Same, ProcessInv, ProcessType
<1>4. ReaperInv'
  BY SameReapers
<1>5. /\ ~Future(c) /\ c \notin lost /\ ~Sent(c) /\ ~Kept(c)
      /\ c \notin inner /\ c \notin threads
      /\ proc[c] \in {"running", "zombie", "reaped"}
  BY DEF ProcessInv, ProcessType, ChildInv, Placed, OnePlace, Somewhere
<1>6. /\ ~Future(c)' /\ ~Task(c)' /\ ~Sent(c)' /\ ~Kept(c)'
      /\ c \notin threads' /\ c \notin inner'
  BY <1>1, <1>3, <1>5 DEF Future, Task, Sent, Kept
<1>7. ChildInv(c)'
  <2>1. CASE proc' = [proc EXCEPT ![c] = "reaped"] /\ lost' = lost
    <3>1. proc'[c] = "reaped" /\ c \notin lost'
      BY <1>5, <2>1 DEF ProcessInv, ProcessType
    <3> QED
      BY <1>6, <3>1, Gone
  <2>2. CASE proc' = proc /\ lost' = lost \cup {c}
    BY <1>3, <1>5, <1>6, <2>2, Dropped
  <2> QED
    BY <2>1, <2>2
<1> QED
  BY <1>2, <1>3, <1>4, <1>7, Assemble

LEMMA Tasks_Inv ==
  ASSUME ProcessInv, NEW c \in Children,
         \/ Processes!poll_poll(c) \/ Processes!WaitPidFails(c)
         \/ Processes!PidfdReadable(c) \/ Processes!StaleWake(c)
  PROVE  ProcessInv'
<1>1. Task(c)
  BY DEF Task, Processes!poll_poll, Processes!WaitPidFails,
         Processes!PidfdReadable, Processes!StaleWake
<1>2. CASE Processes!WaitPidFails(c)
  BY <1>1, <1>2, TaskEnds DEF Processes!WaitPidFails, Processes!GiveUp
<1>3. CASE Processes!reap(c)
  <2>1. CASE Processes!Exited(c)
    BY <1>1, <1>3, <2>1, TaskEnds DEF Processes!reap
  <2>2. CASE ~Processes!Exited(c)
    BY <1>1, <1>3, <2>2, TaskEnds DEF Processes!reap
  <2> QED
    BY <2>1, <2>2
<1> QED
  BY <1>2, <1>3 DEF Processes!poll_poll, Processes!PidfdReadable,
                    Processes!StaleWake

LEMMA ToSetIn ==
  ASSUME NEW s \in Seq(Children), NEW c
  PROVE  c \in Processes!ToSet(s) <=> In(s, c)
<1>1. DOMAIN s = 1..Len(s)
  BY LenProperties
<1> QED
  BY <1>1 DEF Processes!ToSet, In

LEMMA DropRuntime_Inv ==
  ASSUME ProcessInv, NEW owned \in SUBSET inner, Processes!DropRuntime(owned)
  PROVE  ProcessInv'
<1>1. /\ runtime' = FALSE /\ cell' = None /\ inner' = inner \ owned
      /\ proc' = [c \in Children |->
           IF c \in owned THEN Processes!TryWait(c)[c] ELSE proc[c]]
      /\ sender' = [c \in Children |-> None]
      /\ wait' = [c \in Children |->
           IF wait[c] \in {"starting", "waiting"} THEN "dropped" ELSE wait[c]]
      /\ channel' = [r \in Reapers |-> <<>>]
      /\ processes' = [r \in Reapers |-> {}]
      /\ op' = [c \in Children |-> IF op[c] = "none" THEN "none" ELSE "Done"]
      /\ UNCHANGED <<kind, used, threads, failed>>
  BY DEF Processes!DropRuntime
<1>2. \A c \in Children : c \in lost' <=>
        \/ c \in lost \/ Future(c) \/ Task(c) \/ Sent(c) \/ Kept(c)
        \/ c \in owned /\ ~Processes!Exited(c)
  <2>1. \A r \in Reapers, c \in Children :
          c \in Processes!ToSet(channel[r]) <=> In(channel[r], c)
    BY ToSetIn DEF ProcessInv, ProcessType
  <2> QED
    BY <2>1 DEF Processes!DropRuntime, Future, Task, Sent, Kept
<1>3. \A c \in Children : proc'[c] =
        IF c \in owned /\ proc[c] = "zombie" THEN "reaped" ELSE proc[c]
  BY <1>1, TryWaitType
<1>4. ProcessType'
  <2>1. proc' \in [Children -> {"none", "running", "zombie", "reaped"}]
    BY <1>1, <1>3 DEF ProcessInv, ProcessType
  <2>2. lost' \subseteq Children
    BY DEF Processes!DropRuntime, ProcessInv, ProcessType
  <2>3. wait' \in [Children -> Processes!WaitStates]
    BY <1>1 DEF ProcessInv, ProcessType, Processes!WaitStates
  <2>4. /\ op' \in [Children -> {"none", "Init", "Polling", "Done"}]
        /\ processes' \in [Reapers -> SUBSET Children]
        /\ channel' \in [Reapers -> Seq(Children)]
    BY <1>1, EmptySeq DEF ProcessInv, ProcessType
  <2> QED
    BY <1>1, <2>1, <2>2, <2>3, <2>4 DEF ProcessInv, ProcessType
<1>5. \A r \in Reapers : Len(channel'[r]) = 0
  BY <1>1, EmptySeq
<1>6. ReaperInv'
  BY <1>1, <1>5 DEF ReaperInv, NoRepeat
<1>7. ASSUME NEW c \in Children
      PROVE  ChildInv(c)'
  <2>1. ~Future(c)' /\ ~Task(c)' /\ ~Sent(c)' /\ ~Kept(c)'
    BY <1>1, <1>5 DEF Future, Task, Sent, Kept, In
  <2>2. Placed(c) /\ Waits(c)
    BY DEF ProcessInv, ChildInv
  <2>3. c \in owned => c \in inner
    OBVIOUS
  <2>4. OnePlace(c)'
    BY <1>1, <1>2, <2>1, <2>2, <2>3 DEF Placed, OnePlace, Sent, Kept
  <2>5. proc'[c] = "none" => ~Somewhere(c)'
    BY <1>1, <1>2, <1>3, <2>1, <2>2, <2>3 DEF Placed, Somewhere
  <2>6. proc'[c] \in {"running", "zombie"} => Somewhere(c)'
    BY <1>1, <1>2, <1>3, <2>2, <2>3 DEF Placed, Somewhere, Processes!Exited
  <2>7. Waits(c)'
    <3>1. c \in inner' \/ proc'[c] = "none" => wait'[c] = "none"
      BY <1>1, <1>3, <2>2 DEF Waits
    <3>2. c \in threads' => wait'[c] \in {"none", "waiting", "dropped"}
      BY <1>1, <2>2 DEF Waits
    <3> QED
      BY <2>1, <3>1, <3>2 DEF Waits, Sent, Kept
  <2>8. LostRightly(c)'
    BY <1>1 DEF LostRightly
  <2> QED
    BY <2>1, <2>4, <2>5, <2>6, <2>7, <2>8 DEF ChildInv, Placed
<1> QED
  BY <1>4, <1>6, <1>7 DEF ProcessInv

-----------------------------------------------------------------------------
(* The invariant.                                                          *)

LEMMA ProcessInit ==
  Init => ProcessInv
<1> SUFFICES ASSUME Init
             PROVE  ProcessInv
  OBVIOUS
<1> USE DEF Init, Processes!Init
<1>1. \A r \in Reapers : channel[r] \in Seq(Children) /\ Len(channel[r]) = 0
  BY EmptySeq
<1>2. ProcessType
  BY <1>1, RuntimeObjectsAssumption
  DEF ProcessType, Processes!WaitStates, RuntimeObjectsAssumption
<1>3. ASSUME NEW c \in Children
      PROVE  ChildInv(c)
  <2>1. ~Future(c) /\ ~Task(c) /\ ~Sent(c) /\ ~Kept(c)
    BY <1>1 DEF Future, Task, Sent, Kept, In
  <2>2. Placed(c)
    BY <2>1 DEF Placed, OnePlace, Somewhere, Sent, Kept
  <2>3. Waits(c) /\ LostRightly(c)
    BY <2>1 DEF Waits, LostRightly
  <2> QED
    BY <2>2, <2>3 DEF ChildInv
<1>4. ReaperInv
  BY <1>1 DEF ReaperInv, NoRepeat
<1> QED
  BY <1>2, <1>3, <1>4 DEF ProcessInv

LEMMA ProcessStutter ==
  ASSUME ProcessInv, UNCHANGED processVars
  PROVE  ProcessInv'
<1>1. ProcessType'
  BY DEF processVars, ProcessInv, ProcessType
<1>2. ReaperInv'
  BY SameReapers DEF processVars
<1>3. \A c \in Children : Same(c)
  BY DEF processVars, Same
<1>4. \A c \in Children : ChildInv(c)'
  BY <1>3, SameChild DEF processVars, ProcessInv
<1> QED
  BY <1>1, <1>2, <1>4 DEF ProcessInv

LEMMA ProcessStep ==
  ASSUME ProcessInv, Processes!Next
  PROVE  ProcessInv'
<1>1. ASSUME NEW c \in Children,
             \/ Processes!Spawn(c) \/ Processes!Exits(c)
             \/ Processes!try_wait(c) \/ Processes!Wait(c)
             \/ Processes!WaitOutside(c) \/ Processes!WaitOutsideFails(c)
             \/ Processes!DropWait(c) \/ Processes!DropChild(c)
      PROVE  ProcessInv'
  BY <1>1, Spawn_Inv, Exits_Inv, try_wait_Inv, Wait_Inv, WaitOutside_Inv,
     WaitOutsideFails_Inv, DropWait_Inv, DropChild_Inv
<1>2. ASSUME NEW c \in Children,
             \/ Processes!ThreadReaps(c) \/ Processes!ThreadFails(c)
             \/ Processes!poll_completion(c)
             \/ Processes!poll_poll(c) \/ Processes!WaitPidFails(c)
             \/ Processes!PidfdReadable(c) \/ Processes!StaleWake(c)
      PROVE  ProcessInv'
  BY <1>2, ThreadReaps_Inv, ThreadFails_Inv, poll_completion_Inv, Tasks_Inv
<1>3. ASSUME NEW c \in Children, NEW r \in Reapers,
             Processes!start_zombie_reaper(c, r)
      PROVE  ProcessInv'
  BY <1>3, start_zombie_reaper_Inv
<1>4. ASSUME NEW r \in Reapers,
             \/ Processes!recv(r) \/ Processes!recv_failed(r)
             \/ Processes!recv_signal(r) \/ Processes!recv_closed(r)
      PROVE  ProcessInv'
  BY <1>4, recv_Inv, recv_failed_Inv, recv_signal_Inv, recv_closed_Inv
<1>5. ASSUME NEW owned \in SUBSET inner, Processes!DropRuntime(owned)
      PROVE  ProcessInv'
  BY <1>5, DropRuntime_Inv
<1> QED
  BY <1>1, <1>2, <1>3, <1>4, <1>5 DEF Processes!Next

\* Whatever order children exit, are waited for, dropped and reaped in,
\* ProcessInv is true (process/reaper.rs, process/mod.rs:715-753).
THEOREM ProcessInvariant == Spec => []ProcessInv
<1>1. ProcessInv /\ [Next]_vars => ProcessInv'
  <2>1. [Next]_vars => Processes!Next \/ UNCHANGED processVars
    BY DEF Next, vars
  <2> QED
    BY <2>1, ProcessStep, ProcessStutter
<1> QED
  BY <1>1, ProcessInit, PTL DEF Spec

-----------------------------------------------------------------------------
(* The properties.                                                         *)

\* A set with one member at most has one or none.
LEMMA Few ==
  ASSUME NEW S, \A x, y \in S : x = y
  PROVE  Cardinality(S) = IF S = {} THEN 0 ELSE 1
<1>1. CASE S = {}
  BY <1>1, FS_EmptySet
<1>2. CASE S # {}
  <2>1. PICK x \in S : S = {x}
    BY <1>2
  <2> QED
    BY <1>2, <2>1, FS_Singleton
<1> QED
  BY <1>1, <1>2

\* A process that was not reaped is waited for by exactly one party, or was
\* lost, and no pidfd task calls waitpid for a pid that was given back, for
\* every number of children and of reapers that replace one another
\* (reaper.rs:31-61, 208-244, waitpid.rs:88-103).
THEOREM OneWaits == Spec => []OneWaiter
<1>1. ASSUME ProcessInv
      PROVE  OneWaiter
  <2> SUFFICES ASSUME NEW c \in Children
               PROVE  /\ proc[c] \in {"running", "zombie"} =>
                           Processes!Holders(c)
                             + Processes!One(c \in lost) = 1
                      /\ proc[c] = "reaped" => ~Task(c)
    BY DEF OneWaiter, Processes!OneWaiter, Task
  <2>1. Placed(c)
    BY <1>1 DEF ProcessInv, ChildInv
  <2> DEFINE S == {r \in Reapers : c \in Processes!ToSet(channel[r])}
             K == {r \in Reapers : c \in processes[r]}
  <2>2. \A r \in Reapers :
          c \in Processes!ToSet(channel[r]) <=> In(channel[r], c)
    BY <1>1, ToSetIn DEF ProcessInv, ProcessType
  <2>3. (S # {} <=> Sent(c)) /\ \A q, r \in S : q = r
    BY <2>1, <2>2 DEF Sent, Placed, OnePlace
  <2>4. (K # {} <=> Kept(c)) /\ \A q, r \in K : q = r
    BY <2>1 DEF Kept, Placed, OnePlace
  <2>5. Cardinality(S) = (IF Sent(c) THEN 1 ELSE 0)
    <3> HIDE DEF S
    <3> QED
      BY <2>3, Few
  <2>6. Cardinality(K) = (IF Kept(c) THEN 1 ELSE 0)
    <3> HIDE DEF K
    <3> QED
      BY <2>4, Few
  <2>7. Processes!Holders(c) =
          (IF c \in inner THEN 1 ELSE 0) + (IF Future(c) THEN 1 ELSE 0)
            + (IF c \in threads THEN 1 ELSE 0) + (IF Task(c) THEN 1 ELSE 0)
            + Cardinality(S) + Cardinality(K)
    BY Zenon DEF Processes!Holders, Processes!One, Future, Task,
                 Processes!Cardinality, Cardinality
  <2> HIDE DEF S, K
  <2>8. proc[c] \in {"running", "zombie"} => Somewhere(c)
    BY <2>1 DEF Placed
  <2>9. OnePlace(c) /\ (proc[c] = "reaped" => ~Task(c))
    BY <2>1 DEF Placed
  <2> QED
    BY <2>5, <2>6, <2>7, <2>8, <2>9 DEF OnePlace, Somewhere, Processes!One
<1> QED
  BY <1>1, ProcessInvariant, PTL

\* A process is lost only if the future of wait was dropped or told of an
\* error, if its task gave up, with the runtime, or if its Child was dropped
\* and the SIGCHLD reaper that got it replaced or a call failed: never while a
\* wait is pending (reaper.rs:31-61, 109-115, 217-222, 259-262, 271-275,
\* 290-295, executor.rs:358-366).
THEOREM LostOnlySo == Spec => []LostOnlyByCancelling
<1>1. ProcessInv => LostOnlyByCancelling
  BY DEF ProcessInv, ProcessType, ChildInv, LostRightly,
         LostOnlyByCancelling, Processes!LostOnlyByCancelling
<1> QED
  BY <1>1, ProcessInvariant, PTL
=============================================================================

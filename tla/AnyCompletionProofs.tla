------------------------ MODULE AnyCompletionProofs ------------------------
(***************************************************************************)
(* Proofs about AnyCompletion for every number of operations, tasks, slab  *)
(* slots, descriptors, files and requests, and every size of the           *)
(* submission queue.                                                       *)
(***************************************************************************)
EXTENDS AnyCompletion, SequenceTheorems, TLAPS

-----------------------------------------------------------------------------
(* The inductive invariant.                                                *)

Outstanding == ToSet(sq) \cup kernel

Events == Outstanding \cup ToSet(cq)

\* A request that is on its way still has its slot, and nothing has been
\* recorded there.
EventHasSlot ==
  \A e \in Events :
    /\ completions[e.token] # None
    /\ completions[e.token].request = e.request
    /\ completions[e.token].completed = None

\* A request is in one place: in the submission queue, with the kernel or
\* in the queue of completions, and there only once.
OnePlace ==
  /\ \A d, e \in Outstanding : d.request = e.request => d = e
  /\ \A i, j \in DOMAIN cq : cq[i].request = cq[j].request => i = j
  /\ \A d \in Outstanding, e \in ToSet(cq) : d.request # e.request
  /\ \A d \in kernel, e \in ToSet(sq) : d.request # e.request

QueuedOnce ==
  \A i, j \in DOMAIN sq : sq[i].request = sq[j].request => i = j

Waits(o, k) == op[o] # None /\ op[o].completion_token = k

\* A pending operation has its slot, which nobody has given up and nobody
\* else has, and a slot that nobody has given up has such an operation.
OpHasSlot ==
  \A o \in Slots, k \in Tokens : Waits(o, k) =>
    /\ completions[k] # None
    /\ completions[k].request = op[o].request
    /\ completions[k].ignored_data = None
    /\ completions[k].completed \in {None, op[o].request}

OneOpPerSlot ==
  \A o, p \in Slots, k \in Tokens : Waits(o, k) /\ Waits(p, k) => o = p

SlotHasOp ==
  \A k \in Tokens :
    (completions[k] # None /\ completions[k].ignored_data = None) =>
      \E o \in Slots : Waits(o, k)

\* Numbers are given once, so that an operation has the number of the slot
\* it waits for and of no other.
Numbers ==
  /\ \A o \in Slots : op[o] # None =>
       /\ op[o].request <= requests
       /\ op[o].result \in {None, op[o].request}
  /\ \A k \in Tokens : completions[k] # None =>
       completions[k].request \in 1..requests
  /\ \A o \in Slots, k \in Tokens :
       (/\ op[o] # None /\ completions[k] # None
        /\ op[o].request = completions[k].request)
         => op[o].completion_token = k

\* What is outstanding for an operation is what it asked for; what is
\* outstanding for one that was dropped has what it handed over in the slab.
RequestOfOp ==
  \A e \in Outstanding :
    /\ \A o \in Slots : Waits(o, e.token) =>
         /\ e.kind = op[o].kind /\ e.meant = op[o].on
         /\ e \in ToSet(sq) \/ driver = "Iocp" => e.fd = op[o].fd
    /\ completions[e.token].ignored_data \in {None, e.kind.handed}

\* A pending operation has its result, or its task's waker and its request.
WillWake ==
  \A o \in Slots, k \in Tokens : Waits(o, k) =>
    \/ completions[k].completed # None
    \/ /\ completions[k].waiter = op[o].polled_by
       /\ \E e \in Events : e.request = op[o].request

\* An operation's handle stays open, and what io_uring took for it is on
\* that handle's file.
OwnFile ==
  /\ \A o \in Slots : op[o] # None =>
       /\ op[o].fd = None => driver = "IoUring" /\ op[o].on = 0
       /\ op[o].fd # None => op[o].on = file[op[o].fd] /\ op[o].on # 0
  /\ \A r \in kernel, o \in Slots :
       Waits(o, r.token) /\ driver = "IoUring" => r.file = r.meant

IInv ==
  /\ TypeOK
  /\ EventHasSlot /\ OnePlace
  /\ OpHasSlot /\ OneOpPerSlot /\ SlotHasOp
  /\ Numbers /\ RequestOfOp /\ WillWake /\ OwnFile
  /\ QueueIsAnnounced /\ QueuedOnce

-----------------------------------------------------------------------------
(* Facts about the queues.                                                 *)

\* The elements of a queue that is empty, appended to, popped.
LEMMA Queue ==
  ASSUME NEW S, NEW s \in Seq(S)
  PROVE  /\ ToSet(s) \subseteq S
         /\ ToSet(<<>>) = {}
         /\ \A x \in S : /\ Append(s, x) \in Seq(S)
                         /\ Len(Append(s, x)) = Len(s) + 1
                         /\ ToSet(Append(s, x)) = ToSet(s) \cup {x}
         /\ s # <<>> => /\ Head(s) \in S /\ Head(s) \in ToSet(s)
                        /\ Tail(s) \in Seq(S)
                        /\ ToSet(s) = {Head(s)} \cup ToSet(Tail(s))
<1>1. ToSet(s) \subseteq S /\ ToSet(<<>>) = {}
  BY DEF ToSet
<1>2. ASSUME NEW x \in S
      PROVE  /\ Append(s, x) \in Seq(S)
             /\ Len(Append(s, x)) = Len(s) + 1
             /\ ToSet(Append(s, x)) = ToSet(s) \cup {x}
  <2>1. Append(s, x) \in Seq(S) /\ Len(Append(s, x)) = Len(s) + 1
    OBVIOUS
  <2>2. /\ \A i \in 1..Len(s) : Append(s, x)[i] = s[i]
        /\ Append(s, x)[Len(s) + 1] = x
        /\ Len(s) \in Nat
    OBVIOUS
  <2>3. /\ DOMAIN s = 1..Len(s)
        /\ DOMAIN Append(s, x) = 1..Len(s) \cup {Len(s) + 1}
    BY <2>1, <2>2
  <2> QED
    BY <2>1, <2>2, <2>3 DEF ToSet
<1>3. ASSUME s # <<>>
      PROVE  /\ Head(s) \in S /\ Head(s) \in ToSet(s)
             /\ Tail(s) \in Seq(S)
             /\ ToSet(s) = {Head(s)} \cup ToSet(Tail(s))
  <2>1. /\ Head(s) \in S /\ Tail(s) \in Seq(S) /\ Len(Tail(s)) = Len(s) - 1
        /\ Len(s) \in Nat /\ Len(s) > 0 /\ Head(s) = s[1]
        /\ DOMAIN s = 1..Len(s) /\ DOMAIN Tail(s) = 1..(Len(s) - 1)
        /\ \A i \in 1..(Len(s) - 1) : Tail(s)[i] = s[i + 1]
    BY <1>3
  <2>2. ToSet(Tail(s)) \subseteq ToSet(s) /\ Head(s) \in ToSet(s)
    BY <2>1 DEF ToSet
  <2>3. ASSUME NEW i \in DOMAIN s, i # 1
        PROVE  s[i] \in ToSet(Tail(s))
    <3>1. i - 1 \in 1..(Len(s) - 1) /\ (i - 1) + 1 = i
      BY <2>1, <2>3
    <3> QED
      BY <2>1, <3>1 DEF ToSet
  <2>4. ToSet(s) \subseteq {Head(s)} \cup ToSet(Tail(s))
    BY <2>1, <2>3 DEF ToSet
  <2> QED
    BY <2>1, <2>2, <2>4
<1> QED
  BY <1>1, <1>2, <1>3

\* A queue of which the first m elements are taken.
LEMMA Split ==
  ASSUME NEW S, NEW s \in Seq(S), NEW m \in 0..Len(s)
  PROVE  /\ SubSeq(s, m + 1, Len(s)) \in Seq(S)
         /\ Len(SubSeq(s, m + 1, Len(s))) = Len(s) - m
         /\ \A i \in 1..(Len(s) - m) : SubSeq(s, m + 1, Len(s))[i] = s[m + i]
         /\ DOMAIN SubSeq(s, m + 1, Len(s)) = 1..(Len(s) - m)
         /\ ToSet(SubSeq(s, 1, m)) = {s[i] : i \in 1..m}
         /\ ToSet(SubSeq(s, m + 1, Len(s))) = {s[i] : i \in (m + 1)..Len(s)}
         /\ ToSet(s) = {s[i] : i \in 1..Len(s)}
<1> DEFINE a == SubSeq(s, 1, m)
           b == SubSeq(s, m + 1, Len(s))
<1>1. /\ Len(s) \in Nat /\ m \in Nat /\ m <= Len(s) /\ DOMAIN s = 1..Len(s)
      /\ \A i \in 1..Len(s) : s[i] \in S
  OBVIOUS
<1>2. /\ a \in Seq(S) /\ Len(a) = m
      /\ \A i \in 1..m : a[i] = s[i]
  BY <1>1, SubSeqProperties
<1>3. /\ b \in Seq(S) /\ Len(b) = Len(s) - m
      /\ \A i \in 1..(Len(s) - m) : b[i] = s[m + i]
  <2>1. /\ m + 1 \in Int /\ Len(s) \in Int
        /\ \A i \in (m + 1)..Len(s) : s[i] \in S
    BY <1>1
  <2>2. /\ b \in Seq(S)
        /\ Len(b) = IF m + 1 <= Len(s) THEN Len(s) - (m + 1) + 1 ELSE 0
        /\ \A i \in 1..(Len(s) - (m + 1) + 1) : b[i] = s[(m + 1) + i - 1]
    BY <2>1, SubSeqProperties
  <2>3. /\ Len(s) - (m + 1) + 1 = Len(s) - m
        /\ \A i \in 1..(Len(s) - m) : (m + 1) + i - 1 = m + i
    BY <1>1
  <2> HIDE DEF b
  <2>4. Len(b) = Len(s) - m
    <3>1. CASE m + 1 <= Len(s)
      BY <2>2, <2>3, <3>1
    <3>2. CASE ~(m + 1 <= Len(s))
      <4>1. Len(s) - m = 0
        <5>1. \A x, y \in Nat : x <= y /\ ~(x + 1 <= y) => y - x = 0
          OBVIOUS
        <5>2. Len(s) \in Nat /\ m \in Nat /\ m <= Len(s)
          BY <1>1
        <5> QED
          BY <3>2, <5>1, <5>2
      <4>2. Len(b) = 0
        BY <2>2, <3>2
      <4> QED
        BY <4>1, <4>2
    <3> QED
      BY <3>1, <3>2
  <2>5. \A i \in 1..(Len(s) - m) : b[i] = s[m + i]
    BY <2>2, <2>3
  <2> QED
    BY <2>2, <2>4, <2>5
<1> HIDE DEF a, b
<1>4. DOMAIN a = 1..m /\ DOMAIN b = 1..(Len(s) - m)
  BY <1>2, <1>3
<1>5. ToSet(a) = {s[i] : i \in 1..m}
  BY <1>2, <1>4 DEF ToSet
<1>6. ToSet(b) = {s[i] : i \in (m + 1)..Len(s)}
  <2>1. \A i \in 1..(Len(s) - m) : m + i \in (m + 1)..Len(s)
    BY <1>1
  <2>2. \A j \in (m + 1)..Len(s) : j - m \in 1..(Len(s) - m) /\ m + (j - m) = j
    BY <1>1
  <2>3. ToSet(b) \subseteq {s[i] : i \in (m + 1)..Len(s)}
    BY <1>3, <1>4, <2>1 DEF ToSet
  <2>4. ASSUME NEW j \in (m + 1)..Len(s) PROVE s[j] \in ToSet(b)
    BY <1>3, <1>4, <2>2 DEF ToSet
  <2> QED
    BY <2>3, <2>4
<1>7. ToSet(s) = {s[i] : i \in 1..Len(s)}
  BY <1>1 DEF ToSet
<1> QED
  BY <1>3, <1>4, <1>5, <1>6, <1>7 DEF a, b

LEMMA Init_IInv == Init => IInv
<1> SUFFICES ASSUME Init PROVE IInv
  OBVIOUS
<1> USE DEF Init, TasksInit, IoUring!DriverInit
<1>1. TypeOK
  <2>1. pending_submissions \in BOOLEAN
    OBVIOUS
  <2>2. /\ op \in [Slots -> OpType \cup {None}]
        /\ completions \in [Tokens -> SlotType \cup {None}]
        /\ files \in 0..MaxFiles /\ file \in [Fds -> 0..MaxFiles]
    BY CompletionAssumption DEF CompletionAssumption
  <2>3. entries \in Nat /\ Len(sq) <= entries
    BY AnyCompletionAssumption DEF AnyCompletionAssumption
  <2> QED
    BY <2>1, <2>2, <2>3 DEF TypeOK
<1>2. Outstanding = {} /\ Events = {} /\ ToSet(cq) = {}
  BY DEF Outstanding, Events, ToSet
<1>3. \A o \in Slots, k \in Tokens : ~Waits(o, k)
  BY DEF Waits
<1> QED
  BY <1>1, <1>2, <1>3
  DEF IInv, EventHasSlot, OnePlace, OpHasSlot, OneOpPerSlot, SlotHasOp,
      Numbers, RequestOfOp, WillWake, OwnFile, QueueIsAnnounced,
      IoUring!QueueIsAnnounced, QueuedOnce
-----------------------------------------------------------------------------
(* What TypeOK says of the members.                                        *)

LEMMA Types ==
  ASSUME TypeOK
  PROVE  /\ \A o \in Slots : op[o] # None => op[o] \in OpType
         /\ \A k \in Tokens : completions[k] # None =>
              completions[k] \in SlotType
         /\ \A e \in Outstanding :
              /\ e.token \in Tokens /\ e.request \in Nat
              /\ e.kind \in Kinds /\ e.meant \in Nat
         /\ \A e \in ToSet(cq) : e \in CompletionType
         /\ \A e \in Events : e.token \in Tokens /\ e.request \in Nat
<1>1. /\ \A o \in Slots : op[o] # None => op[o] \in OpType
      /\ \A k \in Tokens : completions[k] # None => completions[k] \in SlotType
  BY DEF TypeOK
<1>2. ToSet(sq) \subseteq EntryType /\ ToSet(cq) \subseteq CompletionType
  BY Queue DEF TypeOK
<1>3. \A e \in EntryType \cup TakenType :
        /\ e.token \in Tokens /\ e.request \in Nat
        /\ e.kind \in Kinds /\ e.meant \in Nat
  BY DEF EntryType, TakenType
<1>4. \A e \in CompletionType : e.token \in Tokens /\ e.request \in Nat
  BY DEF CompletionType
<1>5. kernel \subseteq EntryType \cup TakenType
  BY DEF TypeOK
<1> QED
  BY <1>1, <1>2, <1>3, <1>4, <1>5 DEF Events, Outstanding

\* None is told from what it stands beside.
LEMMA NoneIsNone ==
  /\ None \notin OpType /\ None \notin SlotType
  /\ None \notin Tokens /\ None \notin Tasks /\ None \notin Fds
  /\ None \notin Nat
  /\ \A kind \in Kinds : kind.handed # None
BY CompletionAssumption, NoneAssumption
DEF CompletionAssumption, NoneAssumption

\* The Drop implementations hand over all memory that an entry points to
\* (op/), but for those of FreeingOps.
LEMMA PointedToIsHanded ==
  \A kind \in Kinds : \/ kind \in IoUring!FreeingOps \cup Iocp!FreeingOps
                      \/ kind.held \cup kind.read \subseteq kind.handed
<1>1. \A kind \in IoUring!AllOps \ IoUring!FreeingOps :
        kind.held \cup kind.read \subseteq kind.handed
  BY DEF IoUring!AllOps, IoUring!ReadOp, IoUring!ReadAtOp, IoUring!RecvOp,
         IoUring!WriteOp, IoUring!WriteAtOp, IoUring!SendOp, IoUring!ReadvOp,
         IoUring!WritevOp, IoUring!RecvfromOp, IoUring!SendtoOp,
         IoUring!AcceptOp, IoUring!AcceptUnixOp, IoUring!FsyncOp,
         IoUring!SpliceOp
<1>2. \A kind \in Iocp!AllOps \ Iocp!FreeingOps :
        kind.held \cup kind.read \subseteq kind.handed
  BY DEF Iocp!AllOps, Iocp!ReadOp, Iocp!RecvOp, Iocp!WriteOp, Iocp!SendOp,
         Iocp!ReadAtOp, Iocp!WriteAtOp, Iocp!ReadvOp, Iocp!WritevOp,
         Iocp!RecvfromOp, Iocp!SendtoOp, Iocp!ConnectOp
<1> QED
  BY <1>1, <1>2 DEF Kinds

-----------------------------------------------------------------------------
(* The steps of the tasks.                                                 *)

LEMMA Open_IInv ==
  ASSUME IInv, NEW f \in Fds, Open(f), UNCHANGED <<built, queueVars>>
  PROVE  IInv'
<1> USE DEF Open, kernelVars, queueVars, built, IInv
<1>1. /\ UNCHANGED <<op, completions, kernel, cq, requests, woken, driver, entries, sq,
                     pending_submissions>>
      /\ file[f] = 0 /\ file' = [file EXCEPT ![f] = files + 1]
      /\ files' = files + 1 /\ files < MaxFiles
  OBVIOUS
<1>2. TypeOK'
  BY <1>1, CompletionAssumption DEF TypeOK, CompletionAssumption
<1>3. Events' = Events /\ Outstanding' = Outstanding /\ ToSet(cq)' = ToSet(cq)
  BY <1>1 DEF Events, Outstanding
<1>4. \A o \in Slots, k \in Tokens : Waits(o, k)' = Waits(o, k)
  BY <1>1 DEF Waits
<1>5. EventHasSlot' /\ OnePlace' /\ OpHasSlot' /\ OneOpPerSlot' /\ SlotHasOp'
  BY <1>1, <1>3, <1>4
  DEF EventHasSlot, OnePlace, OpHasSlot, OneOpPerSlot, SlotHasOp
<1>6. Numbers' /\ RequestOfOp' /\ WillWake' /\ QueueIsAnnounced' /\ QueuedOnce'
  BY <1>1, <1>3, <1>4, Types
  DEF Numbers, RequestOfOp, WillWake, QueueIsAnnounced,
      IoUring!QueueIsAnnounced, QueuedOnce, Waits
<1>7. OwnFile'
  BY <1>1, <1>4, Types DEF OwnFile, Waits, TypeOK, OpType
<1> QED
  BY <1>2, <1>5, <1>6, <1>7

LEMMA PollReady_IInv ==
  ASSUME IInv, NEW o \in Slots, NEW t \in Tasks, PollReady(o, t),
         UNCHANGED <<built, queueVars>>
  PROVE  IInv'
<1> USE DEF IInv
<1> DEFINE k == op[o].completion_token
           n == [op[o] EXCEPT !.completion_token = None,
                              !.result = completions[k].completed,
                              !.polled_by = None]
<1>1. /\ UNCHANGED <<kernel, cq, file, files, requests, woken,
                     driver, entries, sq, pending_submissions>>
      /\ op[o] # None /\ op[o] \in OpType
      /\ k \in Tokens
      /\ completions[k].completed # None
      /\ op' = [op EXCEPT ![o] = n]
      /\ completions' = [completions EXCEPT ![k] = None]
  BY Types DEF PollReady, kernelVars, fileVars, queueVars, built, OpType
<1>2. /\ Waits(o, k) /\ completions[k] # None
      /\ completions[k].completed = op[o].request
      /\ completions[k].request = op[o].request
  BY <1>1 DEF Waits, OpHasSlot
<1>3. /\ n \in OpType /\ n # None
      /\ n.completion_token = None /\ n.request = op[o].request
      /\ n.kind = op[o].kind /\ n.fd = op[o].fd /\ n.on = op[o].on
      /\ n.result = op[o].request
  <2>1. completions[k].completed \in Nat
    BY <1>1, <1>2 DEF OpType
  <2> QED
    BY <1>1, <1>2, <2>1, NoneIsNone DEF OpType
<1>4. /\ \A p \in Slots : op'[p] = IF p = o THEN n ELSE op[p]
      /\ \A j \in Tokens :
           completions'[j] = IF j = k THEN None ELSE completions[j]
  BY <1>1 DEF TypeOK
<1> HIDE DEF n
<1>5. TypeOK'
  BY <1>1, <1>3 DEF TypeOK
<1>6. Events' = Events /\ Outstanding' = Outstanding /\ ToSet(cq)' = ToSet(cq)
  BY <1>1 DEF Events, Outstanding
<1>7. \A e \in Events : e.token # k /\ e.token \in Tokens
  BY <1>1, Types DEF EventHasSlot
<1>8. \A p \in Slots, j \in Tokens : Waits(p, j)' <=> Waits(p, j) /\ p # o
  BY <1>3, <1>4, NoneIsNone DEF Waits
<1>9. \A p \in Slots, j \in Tokens :
        Waits(p, j)' => op'[p] = op[p] /\ completions'[j] = completions[j]
  BY <1>2, <1>4, <1>8 DEF OneOpPerSlot
<1>10. EventHasSlot' /\ OnePlace' /\ OneOpPerSlot'
  BY <1>1, <1>4, <1>6, <1>7, <1>8 DEF EventHasSlot, OnePlace, OneOpPerSlot
<1>11. OpHasSlot' /\ WillWake'
  BY <1>6, <1>8, <1>9 DEF OpHasSlot, WillWake
<1>12. SlotHasOp'
  BY <1>2, <1>4, <1>8 DEF SlotHasOp, Waits
<1>13. Numbers'
  <2>1. \A p \in Slots : op'[p] # None =>
          /\ op'[p].request <= requests'
          /\ op'[p].result \in {None, op'[p].request}
    BY <1>1, <1>3, <1>4 DEF Numbers
  <2>2. \A j \in Tokens : completions'[j] # None =>
          completions'[j].request \in 1..requests'
    BY <1>1, <1>4 DEF Numbers
  <2>3. \A p \in Slots, j \in Tokens :
          (/\ op'[p] # None /\ completions'[j] # None
           /\ op'[p].request = completions'[j].request)
            => op'[p].completion_token = j
    BY <1>1, <1>2, <1>3, <1>4 DEF Numbers
  <2> QED
    BY <2>1, <2>2, <2>3 DEF Numbers
<1>14. RequestOfOp'
  BY <1>1, <1>4, <1>6, <1>7, <1>8, <1>9 DEF RequestOfOp, Events
<1>15. OwnFile'
  <2>1. \A r \in kernel : r.token \in Tokens
    BY Types DEF Outstanding
  <2>2. \A p \in Slots : op'[p] # None => /\ op[p] # None
                                          /\ op'[p].fd = op[p].fd
                                          /\ op'[p].on = op[p].on
    BY <1>1, <1>3, <1>4
  <2> QED
    BY <1>1, <1>8, <2>1, <2>2 DEF OwnFile
<1>16. QueueIsAnnounced' /\ QueuedOnce'
  BY <1>1 DEF QueueIsAnnounced, IoUring!QueueIsAnnounced, QueuedOnce
<1> QED
  BY <1>5, <1>10, <1>11, <1>12, <1>13, <1>14, <1>15, <1>16

LEMMA PollPending_IInv ==
  ASSUME IInv, NEW o \in Slots, NEW t \in Tasks, PollPending(o, t),
         UNCHANGED <<built, queueVars>>
  PROVE  IInv'
<1> USE DEF IInv
<1> DEFINE k == op[o].completion_token
           n == [op[o] EXCEPT !.polled_by = t]
           m == [completions[k] EXCEPT !.waiter = t]
<1>1. /\ UNCHANGED <<kernel, cq, file, files, requests, woken,
                     driver, entries, sq, pending_submissions>>
      /\ op[o] # None /\ op[o] \in OpType
      /\ k \in Tokens
      /\ op' = [op EXCEPT ![o] = n]
      /\ completions' = [completions EXCEPT ![k] = m]
  BY Types
  DEF PollPending, set_completion_waker, kernelVars, fileVars, queueVars, built,
      OpType
<1>2. /\ Waits(o, k) /\ completions[k] # None /\ completions[k] \in SlotType
  BY <1>1, Types DEF Waits, OpHasSlot
<1>3. /\ n \in OpType /\ n # None
      /\ n.completion_token = k /\ n.request = op[o].request
      /\ n.kind = op[o].kind /\ n.fd = op[o].fd /\ n.on = op[o].on
      /\ n.result = op[o].result /\ n.polled_by = t
  BY <1>1, NoneIsNone DEF OpType
<1>4. /\ m \in SlotType /\ m # None
      /\ m.waiter = t /\ m.completed = completions[k].completed
      /\ m.ignored_data = completions[k].ignored_data
      /\ m.request = completions[k].request
  BY <1>2, NoneIsNone DEF SlotType
<1>5. /\ \A p \in Slots : op'[p] = IF p = o THEN n ELSE op[p]
      /\ \A j \in Tokens :
           completions'[j] = IF j = k THEN m ELSE completions[j]
  BY <1>1 DEF TypeOK
<1> HIDE DEF n, m
<1>6. TypeOK'
  BY <1>1, <1>3, <1>4 DEF TypeOK
<1>7. Events' = Events /\ Outstanding' = Outstanding /\ ToSet(cq)' = ToSet(cq)
  BY <1>1 DEF Events, Outstanding
<1>8. /\ \A p \in Slots :
           /\ op'[p] # None <=> op[p] # None
           /\ op'[p] # None =>
                /\ op'[p].completion_token = op[p].completion_token
                /\ op'[p].request = op[p].request
                /\ op'[p].kind = op[p].kind /\ op'[p].fd = op[p].fd
                /\ op'[p].on = op[p].on /\ op'[p].result = op[p].result
      /\ \A j \in Tokens :
           /\ completions'[j] # None <=> completions[j] # None
           /\ completions'[j] # None =>
                /\ completions'[j].request = completions[j].request
                /\ completions'[j].completed = completions[j].completed
                /\ completions'[j].ignored_data = completions[j].ignored_data
  BY <1>1, <1>2, <1>3, <1>4, <1>5
<1>9. \A p \in Slots, j \in Tokens : Waits(p, j)' <=> Waits(p, j)
  BY <1>8 DEF Waits
<1>10. EventHasSlot' /\ OnePlace' /\ OneOpPerSlot'
  BY <1>1, <1>7, <1>8, <1>9, Types DEF EventHasSlot, OnePlace, OneOpPerSlot
<1>11. OpHasSlot'
  BY <1>8, <1>9 DEF OpHasSlot, Waits
<1>12. SlotHasOp'
  BY <1>8, <1>9 DEF SlotHasOp
<1>13. Numbers'
  BY <1>1, <1>8 DEF Numbers
<1>14. RequestOfOp'
  <2>1. \A e \in Outstanding : e.token \in Tokens
                               /\ completions[e.token] # None
    BY Types DEF EventHasSlot, Events
  <2> QED
    BY <1>1, <1>7, <1>8, <1>9, <2>1 DEF RequestOfOp, Waits
<1>15. WillWake'
  <2> SUFFICES ASSUME NEW p \in Slots, NEW j \in Tokens, Waits(p, j)'
               PROVE  \/ completions'[j].completed # None
                      \/ /\ completions'[j].waiter = op'[p].polled_by
                         /\ \E e \in Events : e.request = op'[p].request
    BY <1>7 DEF WillWake
  <2>1. Waits(p, j) /\ completions[j] # None
    BY <1>9 DEF OpHasSlot
  <2>2. p = o <=> j = k
    BY <1>2, <2>1 DEF OneOpPerSlot, Waits
  <2> QED
    BY <1>3, <1>4, <1>5, <1>8, <2>1, <2>2 DEF WillWake, Waits
<1>16. OwnFile' /\ QueueIsAnnounced' /\ QueuedOnce'
  <2>1. \A r \in kernel : r.token \in Tokens
    BY Types DEF Outstanding
  <2> QED
    BY <1>1, <1>8, <1>9, <2>1
    DEF OwnFile, QueueIsAnnounced, IoUring!QueueIsAnnounced, QueuedOnce
<1> QED
  BY <1>6, <1>10, <1>11, <1>12, <1>13, <1>14, <1>15, <1>16

LEMMA DropOp_IInv ==
  ASSUME IInv, NEW o \in Slots, DropOp(o), UNCHANGED <<built, queueVars>>
  PROVE  IInv'
<1> USE DEF IInv
<1> DEFINE k == op[o].completion_token
           m == [completions[k] EXCEPT !.ignored_data = op[o].kind.handed]
<1>1. /\ UNCHANGED <<kernel, cq, file, files, requests, woken,
                     driver, entries, sq, pending_submissions>>
      /\ op[o] # None /\ op[o] \in OpType
      /\ k \in Tokens \cup {None}
      /\ op' = [op EXCEPT ![o] = None]
      /\ completions' = IF k = None THEN completions
                                    ELSE [completions EXCEPT ![k] = m]
  BY Types
  DEF DropOp, ignore_completion, kernelVars, fileVars, queueVars, built, OpType
<1>2. k # None => /\ Waits(o, k) /\ completions[k] # None
                  /\ completions[k] \in SlotType
                  /\ k \in Tokens
  BY <1>1, Types DEF Waits, OpHasSlot
<1>3. op[o].kind.handed # None /\ op[o].kind \in Kinds
  BY <1>1, NoneIsNone DEF OpType
<1>4. k # None =>
        /\ m \in SlotType /\ m # None
        /\ m.waiter = completions[k].waiter
        /\ m.completed = completions[k].completed
        /\ m.ignored_data = op[o].kind.handed
        /\ m.request = completions[k].request
  BY <1>2, <1>3, NoneIsNone DEF SlotType
<1>5. /\ \A p \in Slots : op'[p] = IF p = o THEN None ELSE op[p]
      /\ \A j \in Tokens :
           completions'[j] = IF j = k THEN m ELSE completions[j]
  BY <1>1, <1>2, NoneIsNone DEF TypeOK
<1> HIDE DEF m
<1>6. TypeOK'
  BY <1>1, <1>2, <1>4 DEF TypeOK
<1>7. Events' = Events /\ Outstanding' = Outstanding /\ ToSet(cq)' = ToSet(cq)
  BY <1>1 DEF Events, Outstanding
<1>8. \A j \in Tokens :
        /\ completions'[j] # None <=> completions[j] # None
        /\ completions'[j] # None =>
             /\ completions'[j].request = completions[j].request
             /\ completions'[j].completed = completions[j].completed
  BY <1>2, <1>4, <1>5, NoneIsNone
<1>9. \A p \in Slots, j \in Tokens :
        Waits(p, j)' => /\ Waits(p, j) /\ p # o /\ op'[p] = op[p]
                        /\ completions'[j] = completions[j]
  BY <1>2, <1>5, NoneIsNone DEF Waits, OneOpPerSlot
<1>10. EventHasSlot' /\ OnePlace' /\ OneOpPerSlot'
  BY <1>1, <1>7, <1>8, <1>9, Types DEF EventHasSlot, OnePlace, OneOpPerSlot
<1>11. OpHasSlot' /\ WillWake'
  BY <1>7, <1>9 DEF OpHasSlot, WillWake
<1>12. SlotHasOp'
  <2> SUFFICES ASSUME NEW j \in Tokens, completions'[j] # None,
                      completions'[j].ignored_data = None
               PROVE  \E p \in Slots : Waits(p, j)'
    BY DEF SlotHasOp
  <2>1. j # k
    BY <1>2, <1>3, <1>4, <1>5, NoneIsNone
  <2>2. PICK p \in Slots : Waits(p, j)
    BY <1>5, <2>1 DEF SlotHasOp
  <2>3. p # o
    BY <2>1, <2>2 DEF Waits
  <2> QED
    BY <1>5, <2>2, <2>3 DEF Waits
<1>13. Numbers'
  BY <1>1, <1>5, <1>8 DEF Numbers
<1>14. RequestOfOp'
  <2> SUFFICES ASSUME NEW e \in Outstanding
               PROVE  /\ \A p \in Slots : Waits(p, e.token)' =>
                           /\ e.kind = op'[p].kind /\ e.meant = op'[p].on
                           /\ e \in ToSet(sq) \/ driver = "Iocp" =>
                                e.fd = op'[p].fd
                      /\ completions'[e.token].ignored_data
                           \in {None, e.kind.handed}
    BY <1>1, <1>7 DEF RequestOfOp
  <2>1. e.token \in Tokens /\ e.kind \in Kinds
    BY Types
  <2>3. CASE e.token = k
    <3>1. Waits(o, k) /\ e.kind = op[o].kind
      BY <1>2, <2>1, <2>3, NoneIsNone DEF RequestOfOp
    <3>2. completions'[e.token].ignored_data = op[o].kind.handed
      BY <1>4, <1>5, <2>1, <2>3, NoneIsNone
    <3>3. \A p \in Slots : ~Waits(p, e.token)'
      BY <1>9, <2>1, <2>3, <3>1 DEF OneOpPerSlot
    <3> QED
      BY <3>1, <3>2, <3>3
  <2>4. CASE e.token # k
    BY <1>5, <1>9, <2>1, <2>4 DEF RequestOfOp
  <2> QED
    BY <2>3, <2>4
<1>15. OwnFile' /\ QueueIsAnnounced' /\ QueuedOnce'
  <2>1. \A r \in kernel : r.token \in Tokens
    BY Types DEF Outstanding
  <2> QED
    BY <1>1, <1>5, <1>9, <2>1
    DEF OwnFile, QueueIsAnnounced, IoUring!QueueIsAnnounced, QueuedOnce
<1> QED
  BY <1>6, <1>10, <1>11, <1>12, <1>13, <1>14, <1>15

\* For a request that was refused, the operation is dropped with nothing
\* pending.
LEMMA PollSubmitErr_IInv ==
  ASSUME IInv, NEW o \in Slots, NEW t \in Tasks, PollSubmitErr(o, t),
         UNCHANGED <<built, queueVars>>
  PROVE  IInv'
<1>1. DropOp(o)
  BY DEF PollSubmitErr, DropOp
<1> QED
  BY <1>1, DropOp_IInv

LEMMA Pend_IInv ==
  ASSUME IInv, NEW t \in Tasks, Pend(t), UNCHANGED <<built, queueVars>>
  PROVE  IInv'
BY DEF IInv, Pend, kernelVars, fileVars, queueVars, built, TypeOK, Events,
       Outstanding, Waits, EventHasSlot, OnePlace, OpHasSlot, OneOpPerSlot,
       SlotHasOp, Numbers, RequestOfOp, WillWake, OwnFile,
       QueueIsAnnounced, IoUring!QueueIsAnnounced, QueuedOnce

-----------------------------------------------------------------------------
(* The steps that move a request on.                                       *)

\* The kernel finishes a request, for whatever reason: all of the invariant
\* but for what depends on the files.
LEMMA Finish ==
  ASSUME IInv, NEW r \in kernel,
         kernel' = kernel \ {r}, cq' = Append(cq, Completion(r)),
         UNCHANGED <<op, completions, requests, driver, entries, sq,
                     pending_submissions>>
  PROVE  /\ cq' \in Seq(CompletionType) /\ kernel' \subseteq kernel
         /\ EventHasSlot' /\ OnePlace'
         /\ OpHasSlot' /\ OneOpPerSlot' /\ SlotHasOp' /\ Numbers'
         /\ RequestOfOp' /\ WillWake' /\ QueueIsAnnounced' /\ QueuedOnce'
<1> USE DEF IInv
<1> DEFINE c == Completion(r)
<1>1. /\ r \in Outstanding /\ r.token \in Tokens /\ r.request \in Nat
  BY Types DEF Outstanding
<1>2. /\ c \in CompletionType
      /\ c.token = r.token /\ c.request = r.request
  BY <1>1 DEF Completion, CompletionType
<1> HIDE DEF c
<1>3. /\ cq \in Seq(CompletionType) /\ cq' \in Seq(CompletionType)
      /\ ToSet(cq)' = ToSet(cq) \cup {c}
  BY <1>2, Queue DEF TypeOK, c
<1>4. /\ Outstanding' = ToSet(sq) \cup kernel'
      /\ Outstanding' \subseteq Outstanding
      /\ \A d \in Outstanding' : d.request # r.request
  BY <1>1 DEF Outstanding, OnePlace
<1>5. \A d \in Outstanding : d \in Outstanding' \/ d.request = c.request
  BY <1>2, <1>4 DEF Outstanding
<1>6. /\ \A d \in Events' : d \in Events \/ d = c
      /\ \A d \in Events : d \in Events' \/ (d.request = c.request /\ c \in Events')
      /\ r \in Events
  BY <1>1, <1>3, <1>4, <1>5 DEF Events
<1>7. \A p \in Slots, j \in Tokens : Waits(p, j)' <=> Waits(p, j)
  BY DEF Waits
<1>8. EventHasSlot'
  BY <1>2, <1>6 DEF EventHasSlot
<1>9. OnePlace'
  <2>1. \A i \in DOMAIN cq' : \/ i \in DOMAIN cq /\ cq'[i] = cq[i]
                              \/ i = Len(cq) + 1 /\ cq'[i] = c
    BY <1>2, <1>3 DEF c
  <2>2. \A i \in DOMAIN cq : cq[i].request # c.request
    BY <1>1, <1>2 DEF OnePlace, ToSet
  <2>3. \A i, j \in DOMAIN cq' : cq'[i].request = cq'[j].request => i = j
    BY <2>1, <2>2 DEF OnePlace
  <2>4. \A d \in Outstanding', e \in ToSet(cq)' : d.request # e.request
    BY <1>2, <1>3, <1>4 DEF OnePlace
  <2> QED
    BY <1>4, <2>3, <2>4 DEF OnePlace
<1>10. OpHasSlot' /\ OneOpPerSlot' /\ SlotHasOp'
  BY <1>7 DEF OpHasSlot, OneOpPerSlot, SlotHasOp
<1>11. Numbers' /\ QueueIsAnnounced' /\ QueuedOnce'
  BY DEF Numbers, QueueIsAnnounced, IoUring!QueueIsAnnounced, QueuedOnce
<1>12. RequestOfOp'
  BY <1>4, <1>7, Types DEF RequestOfOp
<1>13. WillWake'
  BY <1>6, <1>7 DEF WillWake
<1> QED
  BY <1>3, <1>8, <1>9, <1>10, <1>11, <1>12, <1>13

LEMMA Complete_IInv ==
  ASSUME IInv, NEW r \in kernel, Complete(r), UNCHANGED <<built, queueVars>>
  PROVE  IInv'
<1>1. /\ kernel' = kernel \ {r} /\ cq' = Append(cq, Completion(r))
      /\ UNCHANGED <<op, completions, file, files, requests, woken, driver, entries, sq,
                     pending_submissions>>
  BY DEF Complete, fileVars, queueVars, built
<1>2. /\ cq' \in Seq(CompletionType) /\ kernel' \subseteq kernel
      /\ EventHasSlot' /\ OnePlace'
      /\ OpHasSlot' /\ OneOpPerSlot' /\ SlotHasOp' /\ Numbers'
      /\ RequestOfOp' /\ WillWake' /\ QueueIsAnnounced' /\ QueuedOnce'
  BY <1>1, Finish
<1>3. TypeOK'
  BY <1>1, <1>2 DEF TypeOK, IInv
<1>4. OwnFile'
  BY <1>1 DEF OwnFile, IInv, Waits
<1> QED
  BY <1>2, <1>3, <1>4 DEF IInv

\* The driver takes one completion and wakes the task.
LEMMA Drain_IInv ==
  ASSUME IInv, IoUring!drain_cq, UNCHANGED built
  PROVE  IInv'
<1> USE DEF IInv
<1> DEFINE h == Head(cq)
           k == h.token
           c == completions[k]
           done == [c EXCEPT !.completed = h.request, !.waiter = None]
           m == IF c.ignored_data # None THEN None ELSE done
<1>1. /\ UNCHANGED <<op, kernel, file, files, requests, driver, entries, sq,
                     pending_submissions>>
      /\ cq # <<>> /\ cq' = Tail(cq)
  BY DEF IoUring!drain_cq, IoUring!queueVars, IoUring!fileVars, built
<1>2. /\ h \in ToSet(cq) /\ h \in Events /\ h \in CompletionType
      /\ ToSet(cq) = {h} \cup ToSet(cq)'
      /\ cq' \in Seq(CompletionType)
  BY <1>1, Queue DEF TypeOK, Events
<1>3. /\ k \in Tokens /\ h.request \in Nat
      /\ c # None /\ c \in SlotType
      /\ c.request = h.request /\ c.completed = None
  BY <1>2, Types DEF EventHasSlot, CompletionType
<1>4. /\ completions' = [completions EXCEPT ![k] = m]
      /\ woken' = woken \cup ({c.waiter} \ {None})
  BY <1>3 DEF IoUring!drain_cq
<1>5. /\ done \in SlotType /\ done # None
      /\ done.request = c.request /\ done.completed = c.request
      /\ done.ignored_data = c.ignored_data
      /\ c.waiter \in Tasks \cup {None}
  BY <1>3, NoneIsNone DEF SlotType
<1>6. \A j \in Tokens : completions'[j] = IF j = k THEN m ELSE completions[j]
  BY <1>3, <1>4 DEF TypeOK
<1> HIDE DEF h, k, c, done
<1>7. TypeOK'
  <2>1. woken' \subseteq Tasks
    BY <1>4, <1>5 DEF TypeOK
  <2>2. completions' \in [Tokens -> SlotType \cup {None}]
    BY <1>4, <1>5 DEF TypeOK
  <2> QED
    BY <1>1, <1>2, <2>1, <2>2 DEF TypeOK
<1>8. /\ Outstanding' = Outstanding
      /\ \A e \in ToSet(cq)' : e.request # h.request
      /\ \A i, j \in DOMAIN cq' : cq'[i].request = cq'[j].request => i = j
  <2>1. Outstanding' = Outstanding
    BY <1>1 DEF Outstanding
  <2>2. /\ Len(cq) \in Nat /\ Len(cq) > 0 /\ DOMAIN cq = 1..Len(cq)
        /\ DOMAIN cq' = 1..(Len(cq) - 1) /\ h = cq[1]
        /\ \A i \in DOMAIN cq' : cq'[i] = cq[i + 1]
    BY <1>1 DEF TypeOK, h
  <2>3. \A i, j \in DOMAIN cq' : cq'[i].request = cq'[j].request => i = j
    BY <2>2 DEF OnePlace
  <2>4. \A i \in DOMAIN cq' : cq'[i].request # h.request
    BY <2>2 DEF OnePlace
  <2> QED
    BY <2>1, <2>3, <2>4 DEF ToSet
<1>9. /\ Events' \subseteq Events
      /\ \A e \in Events' : e.token # k
      /\ \A e \in Events : e \in Events' \/ e = h
  <2>1. Events' \subseteq Events /\ \A e \in Events : e \in Events' \/ e = h
    BY <1>2, <1>8 DEF Events
  <2>2. \A e \in Events' : e.request # h.request
    BY <1>2, <1>8 DEF Events, OnePlace
  <2> QED
    BY <1>3, <2>1, <2>2 DEF EventHasSlot, c
<1>10. \A p \in Slots, j \in Tokens : Waits(p, j)' <=> Waits(p, j)
  BY <1>1 DEF Waits
<1>11. \A j \in Tokens :
         completions'[j] # None =>
           /\ completions[j] # None
           /\ completions'[j].request = completions[j].request
           /\ completions'[j].ignored_data = completions[j].ignored_data
           /\ j = k => completions'[j] = done
           /\ j # k => completions'[j] = completions[j]
  BY <1>3, <1>5, <1>6 DEF c
<1>12. \A p \in Slots : Waits(p, k) => m = done
  BY <1>3 DEF OpHasSlot, c
<1>13. EventHasSlot'
  BY <1>6, <1>9, Types DEF EventHasSlot
<1>14. OnePlace'
  BY <1>1, <1>2, <1>8 DEF OnePlace
<1>15. OpHasSlot'
  BY <1>1, <1>3, <1>5, <1>6, <1>10, <1>12 DEF OpHasSlot, c
<1>16. OneOpPerSlot' /\ SlotHasOp'
  BY <1>10, <1>11 DEF OneOpPerSlot, SlotHasOp
<1>17. Numbers'
  BY <1>1, <1>11 DEF Numbers
<1>18. RequestOfOp'
  <2>1. \A e \in Outstanding : e.token \in Tokens /\ e.token # k
    BY <1>8, <1>9, Types DEF Events
  <2> QED
    BY <1>1, <1>6, <1>8, <1>10, <2>1 DEF RequestOfOp
<1>19. WillWake'
  <2> SUFFICES ASSUME NEW p \in Slots, NEW j \in Tokens, Waits(p, j)
               PROVE  \/ completions'[j].completed # None
                      \/ /\ completions'[j].waiter = op[p].polled_by
                         /\ \E e \in Events' : e.request = op[p].request
    BY <1>1, <1>10 DEF WillWake
  <2>1. CASE j = k
    BY <1>3, <1>5, <1>6, <1>12, <2>1, NoneIsNone
  <2>2. CASE j # k
    <3>1. completions'[j] = completions[j] /\ op[p].request # h.request
      BY <1>3, <1>6, <2>2 DEF Numbers, Waits, c
    <3> QED
      BY <1>9, <3>1 DEF WillWake
  <2> QED
    BY <2>1, <2>2
<1>20. OwnFile' /\ QueueIsAnnounced' /\ QueuedOnce'
  BY <1>1 DEF OwnFile, Waits, QueueIsAnnounced, IoUring!QueueIsAnnounced, QueuedOnce
<1> QED
  BY <1>7, <1>13, <1>14, <1>15, <1>16, <1>17, <1>18, <1>19, <1>20

\* A request of a closed handle ends without a completion: nobody waits for
\* it, as an operation keeps its handle open.
LEMMA CompleteSilently_IInv ==
  ASSUME IInv, driver = "Iocp", NEW r \in kernel, Iocp!CompleteSilently(r),
         UNCHANGED <<built, queueVars>>
  PROVE  IInv'
<1> USE DEF IInv
<1>1. /\ kernel' = kernel \ {r} /\ file[r.fd] # r.meant
      /\ UNCHANGED <<op, completions, cq, file, files, requests, woken, driver, entries,
                     sq, pending_submissions>>
  BY DEF Iocp!CompleteSilently, Iocp!fileVars, queueVars, built
<1>2. /\ Outstanding' \subseteq Outstanding /\ Events' \subseteq Events
      /\ \A e \in Events : e \in Events' \/ e = r
      /\ ToSet(cq)' = ToSet(cq) /\ r \in Outstanding /\ r \in Events
  BY <1>1 DEF Outstanding, Events
<1>3. \A p \in Slots, j \in Tokens : Waits(p, j)' <=> Waits(p, j)
  BY <1>1 DEF Waits
<1>4. \A p \in Slots : ~Waits(p, r.token)
  BY <1>1, <1>2 DEF RequestOfOp, OwnFile, Waits
<1>5. TypeOK'
  BY <1>1 DEF TypeOK
<1>6. EventHasSlot' /\ OpHasSlot' /\ OneOpPerSlot' /\ SlotHasOp'
  BY <1>1, <1>2, <1>3 DEF EventHasSlot, OpHasSlot, OneOpPerSlot, SlotHasOp
<1>7. OnePlace'
  BY <1>1, <1>2 DEF OnePlace
<1>8. Numbers' /\ OwnFile' /\ QueueIsAnnounced' /\ QueuedOnce'
  BY <1>1 DEF Numbers, OwnFile, Waits, QueueIsAnnounced,
              IoUring!QueueIsAnnounced, QueuedOnce
<1>9. RequestOfOp'
  BY <1>1, <1>2, <1>3, Types DEF RequestOfOp
<1>10. WillWake'
  <2> SUFFICES ASSUME NEW p \in Slots, NEW j \in Tokens, Waits(p, j)
               PROVE  \/ completions[j].completed # None
                      \/ /\ completions[j].waiter = op[p].polled_by
                         /\ \E e \in Events' : e.request = op[p].request
    BY <1>1, <1>3 DEF WillWake
  <2>1. op[p].request # r.request
    <3>1. completions[r.token] # None /\ completions[r.token].request = r.request
          /\ r.token \in Tokens
      BY <1>2, Types DEF EventHasSlot
    <3> QED
      BY <1>4, <3>1 DEF Numbers, Waits
  <2> QED
    BY <1>2, <2>1 DEF WillWake
<1> QED
  BY <1>5, <1>6, <1>7, <1>8, <1>9, <1>10

\* The handle of no operation is closed; io_uring may cancel one request.
LEMMA DropHandle_IInv ==
  ASSUME IInv, NEW f \in Fds, ~Borrowed(f),
         file' = [file EXCEPT ![f] = 0],
         UNCHANGED <<op, completions, files, requests, woken, driver, entries, sq,
                     pending_submissions>>,
         \/ UNCHANGED <<kernel, cq>>
         \/ \E r \in kernel : /\ kernel' = kernel \ {r}
                              /\ cq' = Append(cq, Completion(r))
  PROVE  IInv'
<1> USE DEF IInv
<1>1. \A p \in Slots, j \in Tokens : Waits(p, j)' <=> Waits(p, j)
  BY DEF Waits
<1>2. /\ cq' \in Seq(CompletionType) /\ kernel' \subseteq kernel
      /\ EventHasSlot' /\ OnePlace'
      /\ OpHasSlot' /\ OneOpPerSlot' /\ SlotHasOp' /\ Numbers'
      /\ RequestOfOp' /\ WillWake' /\ QueueIsAnnounced' /\ QueuedOnce'
  <2>1. CASE UNCHANGED <<kernel, cq>>
    <3>1. /\ Outstanding' = Outstanding /\ Events' = Events
          /\ ToSet(cq)' = ToSet(cq)
      BY <2>1 DEF Outstanding, Events
    <3>2. /\ cq' \in Seq(CompletionType) /\ EventHasSlot' /\ OnePlace'
      BY <2>1, <3>1 DEF EventHasSlot, OnePlace, TypeOK
    <3>3. /\ OpHasSlot' /\ OneOpPerSlot' /\ SlotHasOp' /\ Numbers'
      BY <2>1, <1>1 DEF OpHasSlot, OneOpPerSlot, SlotHasOp, Numbers
    <3>4. RequestOfOp' /\ WillWake' /\ QueueIsAnnounced' /\ QueuedOnce'
      BY <2>1, <3>1, <1>1, Types
      DEF RequestOfOp, WillWake, QueueIsAnnounced, IoUring!QueueIsAnnounced, QueuedOnce
    <3> QED
      BY <2>1, <3>2, <3>3, <3>4
  <2>2. CASE \E r \in kernel : /\ kernel' = kernel \ {r}
                               /\ cq' = Append(cq, Completion(r))
    BY <2>2, Finish
  <2> QED
    BY <2>1, <2>2
<1>3. TypeOK'
  BY <1>2, CompletionAssumption DEF TypeOK, CompletionAssumption
<1>4. OwnFile'
  <2>1. \A o \in Slots : op[o] # None => op[o].fd # f
    BY DEF Borrowed
  <2>2. \A o \in Slots : op[o] # None /\ op[o].fd # None => op[o].fd \in Fds
    BY Types DEF OpType
  <2>3. \A o \in Slots : op[o] # None /\ op[o].fd # None =>
          file'[op[o].fd] = file[op[o].fd]
    BY <2>1, <2>2 DEF TypeOK
  <2> QED
    BY <1>2, <2>3 DEF OwnFile, Waits
<1> QED
  BY <1>2, <1>3, <1>4

LEMMA NewOp_IInv ==
  ASSUME IInv, NEW o \in Slots, NEW kind \in Kinds, NEW f \in Fds \cup {None},
         driver = "Iocp" => f # None,
         NewOp(o, kind, f), UNCHANGED <<built, queueVars>>
  PROVE  IInv'
<1> USE DEF IInv
<1> DEFINE n == [kind |-> kind, fd |-> f, request |-> 0,
                 completion_token |-> None, result |-> None,
                 polled_by |-> None, on |-> IF f = None THEN 0 ELSE file[f]]
<1>1. /\ UNCHANGED <<completions, kernel, cq, file, files, requests, woken,
                     driver, entries, sq, pending_submissions>>
      /\ op[o] = None /\ op' = [op EXCEPT ![o] = n]
      /\ f # None => file[f] # 0
  BY DEF NewOp, kernelVars, fileVars, queueVars, built
<1>2. (IF f = None THEN 0 ELSE file[f]) \in Nat
  BY DEF TypeOK
<1>3. /\ n \in OpType /\ n # None
      /\ n.completion_token = None /\ n.request = 0 /\ n.result = None
      /\ n.fd = f /\ n.on = IF f = None THEN 0 ELSE file[f]
  BY <1>2, NoneIsNone DEF OpType
<1>4. \A p \in Slots : op'[p] = IF p = o THEN n ELSE op[p]
  BY <1>1 DEF TypeOK
<1> HIDE DEF n
<1>5. TypeOK'
  BY <1>1, <1>3 DEF TypeOK
<1>6. Events' = Events /\ Outstanding' = Outstanding /\ ToSet(cq)' = ToSet(cq)
  BY <1>1 DEF Events, Outstanding
<1>7. \A p \in Slots, j \in Tokens :
        /\ Waits(p, j)' <=> Waits(p, j)
        /\ Waits(p, j) => op'[p] = op[p]
  BY <1>1, <1>3, <1>4, NoneIsNone DEF Waits
<1>8. EventHasSlot' /\ OnePlace' /\ OneOpPerSlot' /\ SlotHasOp'
  BY <1>1, <1>6, <1>7 DEF EventHasSlot, OnePlace, OneOpPerSlot, SlotHasOp
<1>9. OpHasSlot' /\ WillWake'
  BY <1>1, <1>6, <1>7 DEF OpHasSlot, WillWake
<1>10. Numbers'
  <2>1. \A k \in Tokens : completions[k] # None => completions[k].request # 0
    BY DEF Numbers
  <2> QED
    BY <1>1, <1>3, <1>4, <2>1 DEF Numbers, TypeOK
<1>11. RequestOfOp'
  BY <1>1, <1>6, <1>7, Types DEF RequestOfOp
<1>12. OwnFile' /\ QueueIsAnnounced' /\ QueuedOnce'
  <2>1. \A r \in kernel : r.token \in Tokens
    BY Types DEF Outstanding
  <2>2. driver \in {"IoUring", "Iocp"}
    BY DEF TypeOK
  <2>3. \A p \in Slots : op'[p] # None =>
          /\ op'[p].fd = None => driver = "IoUring" /\ op'[p].on = 0
          /\ op'[p].fd # None => op'[p].on = file[op'[p].fd] /\ op'[p].on # 0
    BY <1>1, <1>3, <1>4, <2>2 DEF OwnFile
  <2> QED
    BY <1>1, <1>7, <2>1, <2>3
    DEF OwnFile, QueueIsAnnounced, IoUring!QueueIsAnnounced, QueuedOnce
<1> QED
  BY <1>5, <1>8, <1>9, <1>10, <1>11, <1>12

-----------------------------------------------------------------------------
(* The steps that submit.                                                  *)

Same(d, e) ==
  /\ d.token = e.token /\ d.request = e.request
  /\ d.kind = e.kind /\ d.meant = e.meant

\* What the kernel has, and what is left of the submission queue, when the first
\* m entries have been taken.
TakenBy(m) == kernel \cup IoUring!Performed(SubSeq(sq, 1, m))

LeftBy(m) == SubSeq(sq, m + 1, Len(sq))

\* Every request is still in one place.
LEMMA Taken ==
  ASSUME IInv, driver = "IoUring", NEW m \in 0..Len(sq)
  PROVE  /\ LeftBy(m) \in Seq(EntryType)
         /\ Len(LeftBy(m)) = Len(sq) - m
         /\ ToSet(LeftBy(m)) \subseteq ToSet(sq)
         /\ \A i, j \in DOMAIN LeftBy(m) :
              LeftBy(m)[i].request = LeftBy(m)[j].request => i = j
         /\ TakenBy(m) \subseteq TakenType
         /\ \A d \in TakenBy(m) : \E e \in Outstanding : Same(d, e)
         /\ \A e \in Outstanding :
              e \in ToSet(LeftBy(m)) \/ \E d \in TakenBy(m) : Same(d, e)
         /\ \A d, e \in TakenBy(m) : d.request = e.request => d = e
         /\ \A d \in TakenBy(m), e \in ToSet(LeftBy(m)) :
              d.request # e.request
         /\ \A r \in TakenBy(m), o \in Slots :
              Waits(o, r.token) => r.file = r.meant
<1> USE DEF IInv
<1> DEFINE T == ToSet(SubSeq(sq, 1, m))
           L == ToSet(LeftBy(m))
<1>a. /\ sq \in Seq(EntryType) /\ Len(sq) \in Nat /\ m \in Nat /\ m <= Len(sq)
      /\ DOMAIN sq = 1..Len(sq)
  BY DEF TypeOK
<1>b. /\ LeftBy(m) \in Seq(EntryType) /\ Len(LeftBy(m)) = Len(sq) - m
      /\ DOMAIN LeftBy(m) = 1..(Len(sq) - m)
      /\ \A i \in 1..(Len(sq) - m) : LeftBy(m)[i] = sq[m + i]
      /\ T = {sq[i] : i \in 1..m}
      /\ L = {sq[i] : i \in (m + 1)..Len(sq)}
      /\ ToSet(sq) = {sq[i] : i \in 1..Len(sq)}
  BY <1>a, Split DEF LeftBy
<1>c. \A i, j \in DOMAIN LeftBy(m) :
        LeftBy(m)[i].request = LeftBy(m)[j].request => i = j
  <2> SUFFICES ASSUME NEW i \in 1..(Len(sq) - m), NEW j \in 1..(Len(sq) - m),
                      sq[m + i].request = sq[m + j].request
               PROVE  i = j
    BY <1>b
  <2>1. m + i \in DOMAIN sq /\ m + j \in DOMAIN sq
    BY <1>a
  <2>2. m + i = m + j
    BY <2>1 DEF QueuedOnce
  <2> QED
    BY <1>a, <2>2
<1>d. T \subseteq ToSet(sq) /\ L \subseteq ToSet(sq) /\ ToSet(sq) = T \cup L
  <2>1. 1..Len(sq) = 1..m \cup (m + 1)..Len(sq)
    BY <1>a
  <2> QED
    BY <1>b, <2>1
<1>e. \A d \in T, e \in L : d.request # e.request
  <2> SUFFICES ASSUME NEW i \in 1..m, NEW j \in (m + 1)..Len(sq)
               PROVE  sq[i].request # sq[j].request
    BY <1>b
  <2>1. i \in DOMAIN sq /\ j \in DOMAIN sq /\ i # j
    BY <1>a
  <2> QED
    BY <2>1 DEF QueuedOnce
<1> HIDE DEF T, L
<1> DEFINE F(e) == [token |-> e.token, request |-> e.request,
                    kind |-> e.kind,
                    file |-> IF e.fd = None THEN 0 ELSE file[e.fd],
                    meant |-> e.meant]
<1>1. TakenBy(m) = kernel \cup {F(e) : e \in T}
  BY DEF TakenBy, T, IoUring!Performed, IoUring!ToSet, ToSet
<1>2. \A e \in T :
        /\ F(e) \in TakenType
        /\ Same(F(e), e)
        /\ F(e).file = IF e.fd = None THEN 0 ELSE file[e.fd]
  <2> SUFFICES ASSUME NEW e \in T
               PROVE  /\ F(e) \in TakenType
                      /\ Same(F(e), e)
                      /\ F(e).file = IF e.fd = None THEN 0 ELSE file[e.fd]
    OBVIOUS
  <2>1. e \in EntryType
    BY <1>a, <1>d, Queue
  <2>2. (IF e.fd = None THEN 0 ELSE file[e.fd]) \in Nat
    BY <2>1 DEF EntryType, TypeOK
  <2>3. F(e) \in TakenType
    BY <2>1, <2>2 DEF EntryType, TakenType
  <2> QED
    BY <2>1, <2>3 DEF Same
<1> HIDE DEF F
<1>3. \A d, e \in T : d.request = e.request => d = e
  BY <1>d DEF OnePlace, Outstanding
<1>4. \A d, e \in TakenBy(m) : d.request = e.request => d = e
  <2>1. \A d \in kernel, e \in T : d.request # e.request
    BY <1>d DEF OnePlace
  <2>2. \A d, e \in kernel : d.request = e.request => d = e
    BY DEF OnePlace, Outstanding
  <2> QED
    BY <1>1, <1>2, <1>3, <2>1, <2>2 DEF Same
<1>5. ASSUME NEW e \in T, NEW o \in Slots, Waits(o, F(e).token)
      PROVE  F(e).file = F(e).meant
  <2>1. /\ F(e).token = e.token /\ F(e).meant = e.meant
        /\ e.meant = op[o].on /\ e.fd = op[o].fd
    BY <1>2, <1>5, <1>d DEF Same, RequestOfOp, Outstanding
  <2>2. op[o].on = IF op[o].fd = None THEN 0 ELSE file[op[o].fd]
    BY <1>5 DEF OwnFile, Waits
  <2> QED
    BY <1>2, <2>1, <2>2
<1>6. \A r \in TakenBy(m), o \in Slots :
        Waits(o, r.token) => r.file = r.meant
  BY <1>1, <1>5 DEF OwnFile
<1>7. \A d \in TakenBy(m), e \in L : d.request # e.request
  <2>1. \A d \in kernel, e \in L : d.request # e.request
    BY <1>d DEF OnePlace
  <2> QED
    BY <1>1, <1>2, <1>e, <2>1 DEF Same
<1>8. TakenBy(m) \subseteq TakenType
  BY <1>1, <1>2 DEF TypeOK
<1>9. /\ \A d \in TakenBy(m) : \E e \in Outstanding : Same(d, e)
      /\ \A e \in Outstanding : e \in L \/ \E d \in TakenBy(m) : Same(d, e)
  BY <1>1, <1>2, <1>d DEF Outstanding, Same
<1> QED
  BY <1>4, <1>6, <1>7, <1>8, <1>9, <1>b, <1>c, <1>d DEF L

\* block_on flushes the queue: the requests stay outstanding.
LEMMA collect_submits_IInv ==
  ASSUME IInv, driver = "IoUring", IoUring!collect_submits, UNCHANGED built
  PROVE  IInv'
<1> USE DEF IInv
<1>1. PICK m \in 0..Len(sq) :
        /\ UNCHANGED <<op, completions, cq, file, files, requests, woken, driver,
                       entries>>
        /\ sq' = LeftBy(m) /\ kernel' = TakenBy(m)
        /\ pending_submissions' = (sq' # <<>>)
  BY DEF IoUring!collect_submits, IoUring!Submit, IoUring!Rest,
         IoUring!submitted, IoUring!fileVars, built, LeftBy, TakenBy
<1>2. /\ \A d \in Outstanding' :
           \E e \in Outstanding :
             Same(d, e) /\ (d \in ToSet(sq)' => e = d /\ d \in ToSet(sq))
      /\ \A e \in Outstanding : \E d \in Outstanding' : Same(d, e)
      /\ \A d, e \in Outstanding' : d.request = e.request => d = e
      /\ \A d \in kernel', e \in ToSet(sq)' : d.request # e.request
      /\ ToSet(cq)' = ToSet(cq)
      /\ kernel' \subseteq TakenType
      /\ \A r \in kernel', p \in Slots : Waits(p, r.token) => r.file = r.meant
  <2>1. /\ Outstanding' = ToSet(LeftBy(m)) \cup TakenBy(m)
        /\ ToSet(sq)' = ToSet(LeftBy(m)) /\ ToSet(cq)' = ToSet(cq)
    BY <1>1 DEF Outstanding
  <2>2. /\ ToSet(LeftBy(m)) \subseteq ToSet(sq)
        /\ TakenBy(m) \subseteq TakenType
        /\ \A d \in TakenBy(m) : \E e \in Outstanding : Same(d, e)
        /\ \A e \in Outstanding :
             e \in ToSet(LeftBy(m)) \/ \E d \in TakenBy(m) : Same(d, e)
        /\ \A d, e \in TakenBy(m) : d.request = e.request => d = e
        /\ \A d \in TakenBy(m), e \in ToSet(LeftBy(m)) :
             d.request # e.request
        /\ \A r \in TakenBy(m), p \in Slots :
             Waits(p, r.token) => r.file = r.meant
    BY Taken
  <2>3. /\ \A e \in ToSet(sq) : e \in Outstanding /\ Same(e, e)
        /\ \A d, e \in ToSet(sq) : d.request = e.request => d = e
    BY DEF Same, Outstanding, OnePlace
  <2>4. \A d \in Outstanding' :
          \E e \in Outstanding :
            Same(d, e) /\ (d \in ToSet(sq)' => e = d /\ d \in ToSet(sq))
    <3> SUFFICES ASSUME NEW d \in Outstanding'
                 PROVE  \E e \in Outstanding :
                          Same(d, e) /\ (d \in ToSet(LeftBy(m)) =>
                                            e = d /\ d \in ToSet(sq))
      BY <2>1
    <3>1. CASE d \in ToSet(LeftBy(m))
      BY <2>2, <2>3, <3>1
    <3>2. CASE d \notin ToSet(LeftBy(m))
      BY <2>1, <2>2, <3>2
    <3> QED
      BY <3>1, <3>2
  <2>5. \A e \in Outstanding : \E d \in Outstanding' : Same(d, e)
    BY <2>1, <2>2, <2>3
  <2>6. \A d, e \in Outstanding' : d.request = e.request => d = e
    BY <2>1, <2>2, <2>3
  <2> QED
    BY <1>1, <2>1, <2>2, <2>4, <2>5, <2>6
<1>3. TypeOK' /\ QueuedOnce'
  <2>1. pending_submissions' \in BOOLEAN
    BY <1>1
  <2>2. sq' \in Seq(EntryType) /\ Len(sq') <= entries /\ QueuedOnce'
    <3>1. /\ Len(sq) <= entries /\ entries \in Nat /\ Len(sq) \in Nat
          /\ m \in Nat
      BY DEF TypeOK
    <3> QED
      BY <1>1, <3>1, Taken DEF QueuedOnce
  <2> QED
    BY <1>1, <1>2, <2>1, <2>2 DEF TypeOK
<1>4. \A p \in Slots, j \in Tokens : Waits(p, j)' <=> Waits(p, j)
  BY <1>1 DEF Waits
<1>5. /\ \A d \in Events' :
           \E e \in Events : d.token = e.token /\ d.request = e.request
      /\ \A e \in Events : \E d \in Events' : d.request = e.request
  BY <1>2 DEF Events, Same
<1>6. EventHasSlot'
  BY <1>1, <1>5 DEF EventHasSlot
<1>7. OnePlace'
  BY <1>1, <1>2 DEF OnePlace, Same
<1>8. OpHasSlot' /\ OneOpPerSlot' /\ SlotHasOp' /\ Numbers'
  BY <1>1, <1>4 DEF OpHasSlot, OneOpPerSlot, SlotHasOp, Numbers
<1>9. RequestOfOp'
  <2> SUFFICES ASSUME NEW d \in Outstanding'
               PROVE  /\ \A p \in Slots : Waits(p, d.token) =>
                           /\ d.kind = op[p].kind /\ d.meant = op[p].on
                           /\ d \in ToSet(sq)' => d.fd = op[p].fd
                      /\ completions[d.token].ignored_data
                           \in {None, d.kind.handed}
    BY <1>1 DEF RequestOfOp, Waits
  <2>1. PICK e \in Outstanding :
          Same(d, e) /\ (d \in ToSet(sq)' => e = d /\ d \in ToSet(sq))
    BY <1>2
  <2> QED
    BY <2>1 DEF RequestOfOp, Same
<1>10. WillWake'
  BY <1>1, <1>4, <1>5 DEF WillWake
<1>11. OwnFile' /\ QueueIsAnnounced'
  BY <1>1, <1>2 DEF OwnFile, Waits, QueueIsAnnounced, IoUring!QueueIsAnnounced
<1> QED
  BY <1>3, <1>6, <1>7, <1>8, <1>9, <1>10, <1>11

\* The first poll: whichever way the new request n gets under way, and
\* whatever becomes of the queue on the occasion.
LEMMA Submit_IInv ==
  ASSUME IInv, NEW o \in Slots, NEW t \in Tasks, NEW k \in Tokens,
         submit_completion(o, t, k), UNCHANGED <<cq, built>>,
         NEW n \in Outstanding', n = Request(o, k, requests + 1),
         sq' \in Seq(EntryType), Len(sq') <= entries,
         pending_submissions' \in BOOLEAN, QueueIsAnnounced' /\ QueuedOnce',
         \/ driver = "IoUring" /\ kernel' \subseteq TakenType
         \/ driver = "Iocp" /\ kernel' \subseteq EntryType /\ sq' = <<>>,
         \A d \in Outstanding' : d # n =>
           \E e \in Outstanding :
             /\ Same(d, e)
             /\ d \in ToSet(sq)' \/ driver = "Iocp" =>
                  e = d /\ (d \in ToSet(sq)' => d \in ToSet(sq)),
         \A e \in Outstanding : \E d \in Outstanding' : Same(d, e),
         \A d, e \in Outstanding' : d.request = e.request => d = e,
         \A d \in kernel', e \in ToSet(sq)' : d.request # e.request,
         driver = "IoUring" => n \notin kernel',
         \A r \in kernel', p \in Slots :
           Waits(p, r.token) /\ driver = "IoUring" => r.file = r.meant
  PROVE  IInv'
<1> USE DEF IInv
<1> DEFINE v == [op[o] EXCEPT !.completion_token = k,
                              !.request = requests + 1, !.polled_by = t]
           m == [waiter |-> t, completed |-> None, ignored_data |-> None,
                 request |-> requests + 1]
<1>1. /\ UNCHANGED <<cq, file, files, woken, driver, entries>>
      /\ op[o] # None /\ op[o] \in OpType
      /\ op[o].completion_token = None /\ op[o].result = None
      /\ completions[k] = None
      /\ requests' = requests + 1
      /\ completions' = [completions EXCEPT ![k] = m]
      /\ op' = [op EXCEPT ![o] = v]
  BY Types DEF submit_completion, fileVars, built
<1>2. requests \in Nat /\ requests + 1 \in Nat /\ requests + 1 # requests
  BY DEF TypeOK
<1>3. /\ n.token = k /\ n.request = requests + 1
      /\ n.kind = op[o].kind /\ n.fd = op[o].fd /\ n.meant = op[o].on
  BY DEF Request
<1>4. /\ v \in OpType /\ v # None
      /\ v.completion_token = k /\ v.request = requests + 1
      /\ v.polled_by = t /\ v.result = None
      /\ v.kind = op[o].kind /\ v.fd = op[o].fd /\ v.on = op[o].on
  BY <1>1, <1>2, NoneIsNone DEF OpType
<1>5. /\ m \in SlotType /\ m # None
      /\ m.waiter = t /\ m.completed = None /\ m.ignored_data = None
      /\ m.request = requests + 1
  BY <1>2, NoneIsNone DEF SlotType
<1>6. /\ \A p \in Slots : op'[p] = IF p = o THEN v ELSE op[p]
      /\ \A j \in Tokens : completions'[j] = IF j = k THEN m ELSE completions[j]
  BY <1>1 DEF TypeOK
<1> HIDE DEF v, m
<1>7. TypeOK'
  <2>1. op' \in [Slots -> OpType \cup {None}]
    BY <1>1, <1>4 DEF TypeOK
  <2>2. completions' \in [Tokens -> SlotType \cup {None}]
    BY <1>1, <1>5 DEF TypeOK
  <2> QED
    BY <1>1, <1>2, <2>1, <2>2 DEF TypeOK
<1>8. /\ \A e \in Events : e.token \in Tokens /\ e.token # k
                           /\ e.request <= requests /\ e.request \in Nat
  BY <1>1, Types DEF EventHasSlot, Numbers
<1>9. ToSet(cq)' = ToSet(cq)
  BY <1>1
<1>10. \A d \in Events' : d # n =>
         \E e \in Events : d.token = e.token /\ d.request = e.request
  BY <1>9 DEF Events, Same
<1>11. /\ n \in Events'
       /\ \A e \in Events : \E d \in Events' : d.request = e.request
  BY <1>9 DEF Events, Same
<1>12. \A p \in Slots, j \in Tokens :
         /\ Waits(p, j)' <=> Waits(p, j) \/ (p = o /\ j = k)
         /\ Waits(p, j) => p # o /\ j # k
                           /\ op'[p] = op[p] /\ completions'[j] = completions[j]
  BY <1>1, <1>4, <1>6, NoneIsNone DEF Waits, OpHasSlot
<1>13. EventHasSlot'
  BY <1>3, <1>5, <1>6, <1>8, <1>10 DEF EventHasSlot
<1>14. OnePlace'
  <2>1. \A d \in Outstanding', e \in ToSet(cq) : d.request # e.request
    <3> SUFFICES ASSUME NEW d \in Outstanding', NEW e \in ToSet(cq)
                 PROVE  d.request # e.request
      OBVIOUS
    <3>1. CASE d = n
      BY <1>2, <1>3, <1>8, <3>1 DEF Events
    <3>2. CASE d # n
      BY <3>2 DEF OnePlace, Same
    <3> QED
      BY <3>1, <3>2
  <2> QED
    BY <1>1, <1>9, <2>1 DEF OnePlace
<1>15. OpHasSlot'
  BY <1>4, <1>5, <1>6, <1>12 DEF OpHasSlot
<1>16. OneOpPerSlot'
  BY <1>12 DEF OneOpPerSlot
<1>17. SlotHasOp'
  <2> SUFFICES ASSUME NEW j \in Tokens, completions'[j] # None,
                      completions'[j].ignored_data = None
               PROVE  \E p \in Slots : Waits(p, j)'
    BY DEF SlotHasOp
  <2>1. CASE j = k
    BY <1>12, <2>1
  <2>2. CASE j # k
    BY <1>6, <1>12, <2>2 DEF SlotHasOp
  <2> QED
    BY <2>1, <2>2
<1>18. Numbers'
  <2>1. \A p \in Slots : op[p] # None =>
          op[p].request \in Nat /\ op[p].request <= requests
    BY Types DEF Numbers, OpType
  <2>2. \A j \in Tokens : completions[j] # None =>
          completions[j].request \in Nat /\ completions[j].request <= requests
    BY <1>2 DEF Numbers
  <2>3. \A p \in Slots : op'[p] # None =>
          /\ op'[p].request <= requests'
          /\ op'[p].result \in {None, op'[p].request}
    BY <1>1, <1>2, <1>4, <1>6, <2>1 DEF Numbers
  <2>4. \A j \in Tokens : completions'[j] # None =>
          completions'[j].request \in 1..requests'
    BY <1>1, <1>2, <1>5, <1>6, <2>2 DEF Numbers
  <2>5. \A p \in Slots, j \in Tokens :
          (/\ op'[p] # None /\ completions'[j] # None
           /\ op'[p].request = completions'[j].request)
            => op'[p].completion_token = j
    <3> SUFFICES ASSUME NEW p \in Slots, NEW j \in Tokens,
                        op'[p] # None, completions'[j] # None,
                        op'[p].request = completions'[j].request
                 PROVE  op'[p].completion_token = j
      OBVIOUS
    <3>1. CASE p = o /\ j = k
      BY <1>4, <1>6, <3>1
    <3>2. CASE p = o /\ j # k
      BY <1>2, <1>4, <1>6, <2>2, <3>2
    <3>3. CASE p # o /\ j = k
      BY <1>2, <1>5, <1>6, <2>1, <3>3
    <3>4. CASE p # o /\ j # k
      BY <1>6, <3>4 DEF Numbers
    <3> QED
      BY <3>1, <3>2, <3>3, <3>4
  <2> QED
    BY <2>3, <2>4, <2>5 DEF Numbers
<1>19. RequestOfOp'
  <2> SUFFICES ASSUME NEW d \in Outstanding'
               PROVE  /\ \A p \in Slots : Waits(p, d.token)' =>
                           /\ d.kind = op'[p].kind /\ d.meant = op'[p].on
                           /\ d \in ToSet(sq)' \/ driver = "Iocp" =>
                                d.fd = op'[p].fd
                      /\ completions'[d.token].ignored_data
                           \in {None, d.kind.handed}
    BY <1>1 DEF RequestOfOp
  <2>1. CASE d = n
    BY <1>3, <1>4, <1>5, <1>6, <1>12, <2>1
  <2>2. CASE d # n
    <3>1. PICK e \in Outstanding :
            /\ Same(d, e)
            /\ d \in ToSet(sq)' \/ driver = "Iocp" =>
                 e = d /\ (d \in ToSet(sq)' => d \in ToSet(sq))
      BY <2>2
    <3>2. d.token = e.token /\ e.token \in Tokens /\ e.token # k
      BY <1>8, <3>1 DEF Same, Events
    <3> QED
      BY <1>6, <1>12, <3>1, <3>2 DEF RequestOfOp, Same
  <2> QED
    BY <2>1, <2>2
<1>20. WillWake'
  <2> SUFFICES ASSUME NEW p \in Slots, NEW j \in Tokens, Waits(p, j)'
               PROVE  \/ completions'[j].completed # None
                      \/ /\ completions'[j].waiter = op'[p].polled_by
                         /\ \E e \in Events' : e.request = op'[p].request
    BY DEF WillWake
  <2>1. CASE p = o /\ j = k
    BY <1>3, <1>4, <1>5, <1>6, <1>11, <2>1
  <2>2. CASE Waits(p, j)
    BY <1>11, <1>12, <2>2 DEF WillWake
  <2> QED
    BY <1>12, <2>1, <2>2
<1>21. OwnFile'
  <2>1. \A p \in Slots : op'[p] # None => /\ op[p] # None
                                          /\ op'[p].fd = op[p].fd
                                          /\ op'[p].on = op[p].on
    BY <1>1, <1>4, <1>6
  <2>2. ASSUME NEW r \in kernel', NEW p \in Slots, Waits(p, r.token)',
               driver = "IoUring"
        PROVE  r.file = r.meant
    <3>1. r # n /\ r \in Outstanding'
      BY <2>2 DEF Outstanding
    <3>2. r.token \in Tokens /\ r.token # k
      BY <1>8, <3>1 DEF Same, Events
    <3> QED
      BY <1>12, <2>2, <3>2
  <2> QED
    BY <1>1, <2>1, <2>2 DEF OwnFile
<1> QED
  BY <1>7, <1>13, <1>14, <1>15, <1>16, <1>17, <1>18, <1>19, <1>20, <1>21

LEMMA UringSubmits_IInv ==
  ASSUME IInv, driver = "IoUring", NEW o \in Slots, NEW t \in Tasks,
         NEW k \in Tokens, IoUring!PollSubmits(o, t, k), UNCHANGED built
  PROVE  IInv'
<1> USE DEF IInv
<1> DEFINE n == Request(o, k, requests + 1)
<1>1. /\ submit_completion(o, t, k) /\ UNCHANGED <<cq, built>>
      /\ pending_submissions' = TRUE
      /\ \E m \in 0..Len(sq) :
           /\ Len(sq) - m < entries
           /\ sq' = Append(LeftBy(m), n) /\ kernel' = TakenBy(m)
  <2>1. /\ submit_completion(o, t, k) /\ UNCHANGED <<cq, built>>
        /\ pending_submissions' = TRUE
        /\ \/ \E m \in 1..Len(sq) :
                /\ Len(sq) = entries
                /\ sq' = Append(LeftBy(m), n) /\ kernel' = TakenBy(m)
           \/ /\ Len(sq) # entries /\ sq' = Append(sq, n)
              /\ UNCHANGED kernel
    BY DEF IoUring!PollSubmits, IoUring!push_entry, IoUring!Submit,
           IoUring!Rest, LeftBy, TakenBy,
           IoUring!Request, Request, IoUring!submit_completion,
           submit_completion, IoUring!fileVars, fileVars, IoUring!kernelVars
  <2>2. /\ Len(sq) \in Nat /\ entries \in Nat /\ Len(sq) <= entries
        /\ sq \in Seq(EntryType)
    BY DEF TypeOK
  <2>3. LeftBy(0) = sq /\ TakenBy(0) = kernel
    <3>1. SubSeq(sq, 1, Len(sq)) = sq /\ SubSeq(sq, 1, 0) = <<>>
      BY <2>2, SubSeqFull, SubSeqEmpty
    <3>2. IoUring!Performed(<<>>) = {}
      BY DEF IoUring!Performed, IoUring!ToSet
    <3>3. LeftBy(0) = SubSeq(sq, 1, Len(sq))
      BY DEF LeftBy
    <3>4. TakenBy(0) = kernel \cup IoUring!Performed(<<>>)
      BY <3>1 DEF TakenBy
    <3> QED
      BY <3>1, <3>2, <3>3, <3>4
  <2>4. CASE \E m \in 1..Len(sq) :
               /\ Len(sq) = entries
               /\ sq' = Append(LeftBy(m), n) /\ kernel' = TakenBy(m)
    <3>1. PICK m \in 1..Len(sq) :
            /\ Len(sq) = entries
            /\ sq' = Append(LeftBy(m), n) /\ kernel' = TakenBy(m)
      BY <2>4
    <3>2. m \in 0..Len(sq) /\ Len(sq) - m < entries
      BY <2>2, <3>1
    <3> QED
      BY <2>1, <3>1, <3>2
  <2>5. CASE /\ Len(sq) # entries /\ sq' = Append(sq, n)
             /\ UNCHANGED kernel
    <3>1. 0 \in 0..Len(sq) /\ Len(sq) - 0 < entries
      BY <2>2, <2>5
    <3> QED
      BY <2>1, <2>3, <2>5, <3>1
  <2> QED
    BY <2>1, <2>4, <2>5
<1>2. /\ n \in EntryType /\ n.request = requests + 1
      /\ \A e \in Outstanding : e.request # n.request
  <2>1. op[o] \in OpType /\ requests \in Nat
    BY <1>1, Types DEF submit_completion, TypeOK
  <2>2. n \in EntryType /\ n.request = requests + 1
    BY <2>1 DEF OpType, EntryType, Request
  <2>3. \A e \in Outstanding : e.request <= requests /\ e.request \in Nat
    BY Types DEF EventHasSlot, Numbers, Events
  <2> QED
    BY <2>1, <2>2, <2>3
<1> HIDE DEF n
<1>3. PICK m \in 0..Len(sq) :
        /\ Len(sq) - m < entries
        /\ sq' = Append(LeftBy(m), n) /\ kernel' = TakenBy(m)
  BY <1>1
<1>4. /\ LeftBy(m) \in Seq(EntryType) /\ Len(LeftBy(m)) = Len(sq) - m
      /\ ToSet(LeftBy(m)) \subseteq ToSet(sq)
      /\ \A i, j \in DOMAIN LeftBy(m) :
           LeftBy(m)[i].request = LeftBy(m)[j].request => i = j
      /\ TakenBy(m) \subseteq TakenType
      /\ \A d \in TakenBy(m) : \E e \in Outstanding : Same(d, e)
      /\ \A e \in Outstanding :
           e \in ToSet(LeftBy(m)) \/ \E d \in TakenBy(m) : Same(d, e)
      /\ \A d, e \in TakenBy(m) : d.request = e.request => d = e
      /\ \A d \in TakenBy(m), e \in ToSet(LeftBy(m)) : d.request # e.request
      /\ \A r \in TakenBy(m), p \in Slots :
           Waits(p, r.token) => r.file = r.meant
  BY Taken
<1>5. /\ sq' \in Seq(EntryType) /\ Len(sq') = Len(sq) - m + 1
      /\ ToSet(sq)' = ToSet(LeftBy(m)) \cup {n}
  BY <1>2, <1>3, <1>4, Queue
<1>6. Len(sq') <= entries
  BY <1>3, <1>5 DEF TypeOK
<1>7. \A d \in TakenBy(m) \cup ToSet(LeftBy(m)) : d.request # n.request
  BY <1>2, <1>4 DEF Same, Outstanding
<1>8. QueuedOnce'
  <2>1. \A i \in DOMAIN sq' :
          \/ i \in DOMAIN LeftBy(m) /\ sq'[i] = LeftBy(m)[i]
          \/ i = Len(LeftBy(m)) + 1 /\ sq'[i] = n
    BY <1>2, <1>3, <1>4
  <2>2. \A i \in DOMAIN LeftBy(m) : LeftBy(m)[i].request # n.request
    BY <1>7 DEF ToSet
  <2> QED
    BY <1>4, <2>1, <2>2 DEF QueuedOnce
<1>9. QueueIsAnnounced' /\ pending_submissions' \in BOOLEAN
  BY <1>1 DEF QueueIsAnnounced, IoUring!QueueIsAnnounced
<1>10. Outstanding' = {n} \cup ToSet(LeftBy(m)) \cup TakenBy(m)
  BY <1>3, <1>5 DEF Outstanding
<1>11. /\ \A e \in ToSet(sq) : e \in Outstanding /\ Same(e, e)
       /\ \A d, e \in ToSet(sq) : d.request = e.request => d = e
  BY DEF Same, Outstanding, OnePlace
<1>12. \A d \in Outstanding' : d # n =>
         \E e \in Outstanding :
           /\ Same(d, e)
           /\ d \in ToSet(sq)' \/ driver = "Iocp" =>
                e = d /\ (d \in ToSet(sq)' => d \in ToSet(sq))
  <2> SUFFICES ASSUME NEW d \in Outstanding', d # n
               PROVE  \E e \in Outstanding :
                        /\ Same(d, e)
                        /\ d \in ToSet(LeftBy(m)) => e = d /\ d \in ToSet(sq)
    BY <1>5
  <2>1. CASE d \in ToSet(LeftBy(m))
    BY <1>4, <1>11, <2>1
  <2>2. CASE d \notin ToSet(LeftBy(m))
    BY <1>4, <1>10, <2>2
  <2> QED
    BY <2>1, <2>2
<1>13. \A e \in Outstanding : \E d \in Outstanding' : Same(d, e)
  BY <1>4, <1>10, <1>11
<1>14. /\ \A d, e \in Outstanding' : d.request = e.request => d = e
       /\ \A d \in kernel', e \in ToSet(sq)' : d.request # e.request
  BY <1>3, <1>4, <1>5, <1>7, <1>10, <1>11
<1>15. kernel' \subseteq TakenType /\ n \notin kernel' /\ n \in Outstanding'
  BY <1>3, <1>4, <1>7, <1>10
<1>16. \A r \in kernel', p \in Slots : Waits(p, r.token) => r.file = r.meant
  BY <1>3, <1>4
<1> QED
  BY <1>1, <1>5, <1>6, <1>8, <1>9, <1>12, <1>13, <1>14, <1>15, <1>16,
     Submit_IInv DEF n

LEMMA IocpSubmits_IInv ==
  ASSUME IInv, driver = "Iocp", NEW o \in Slots, NEW t \in Tasks,
         NEW k \in Tokens, Iocp!PollSubmits(o, t, k),
         UNCHANGED <<built, queueVars>>
  PROVE  IInv'
<1> USE DEF IInv
<1> DEFINE n == Request(o, k, requests + 1)
<1>1. /\ submit_completion(o, t, k) /\ UNCHANGED <<cq, built, queueVars>>
      /\ UNCHANGED <<sq, pending_submissions>>
      /\ kernel' = kernel \cup {n}
  BY DEF Iocp!PollSubmits, Iocp!Request, Request, Iocp!submit_completion,
         submit_completion, Iocp!fileVars, fileVars, queueVars, built
<1>2. /\ n \in EntryType /\ n.request = requests + 1
      /\ \A e \in Outstanding : e.request # n.request
  <2>1. op[o] \in OpType /\ requests \in Nat
    BY <1>1, Types DEF submit_completion, TypeOK
  <2>2. n \in EntryType /\ n.request = requests + 1
    BY <2>1 DEF OpType, EntryType, Request
  <2>3. \A e \in Outstanding : e.request <= requests /\ e.request \in Nat
    BY Types DEF EventHasSlot, Numbers, Events
  <2> QED
    BY <2>1, <2>2, <2>3
<1> HIDE DEF n
<1>3. \A e \in Outstanding : Same(e, e)
  BY DEF Same
<1>4. sq = <<>> /\ kernel \subseteq EntryType
  BY DEF TypeOK
<1>5. ToSet(sq)' = {} /\ ToSet(sq) = {}
  BY <1>1, <1>4 DEF ToSet
<1>6. Outstanding' = Outstanding \cup {n}
  BY <1>1, <1>5 DEF Outstanding
<1>7. \A d, e \in Outstanding' : d.request = e.request => d = e
  BY <1>2, <1>6 DEF OnePlace
<1>8. QueueIsAnnounced' /\ QueuedOnce' /\ pending_submissions' \in BOOLEAN
      /\ sq' \in Seq(EntryType) /\ Len(sq') <= entries
  BY <1>1 DEF QueueIsAnnounced, IoUring!QueueIsAnnounced, QueuedOnce, TypeOK
<1>9. \A d \in Outstanding' : d # n =>
        \E e \in Outstanding :
          /\ Same(d, e)
          /\ d \in ToSet(sq)' \/ driver = "Iocp" =>
               e = d /\ (d \in ToSet(sq)' => d \in ToSet(sq))
  BY <1>3, <1>5, <1>6
<1>10. \A e \in Outstanding : \E d \in Outstanding' : Same(d, e)
  BY <1>3, <1>6
<1>11. kernel' \subseteq EntryType /\ sq' = <<>> /\ n \in Outstanding'
  BY <1>1, <1>2, <1>4, <1>6
<1> QED
  BY <1>1, <1>5, <1>7, <1>8, <1>9, <1>10, <1>11, Submit_IInv DEF n

-----------------------------------------------------------------------------
(* Every step keeps the invariant.                                         *)

LEMMA Next_IInv ==
  ASSUME IInv, [Next]_vars
  PROVE  IInv'
<1>1. CASE TaskStep /\ UNCHANGED <<built, queueVars>>
  BY <1>1, Open_IInv, PollSubmitErr_IInv, PollReady_IInv, PollPending_IInv,
     DropOp_IInv, Pend_IInv, Complete_IInv
  DEF TaskStep
<1>2. CASE driver = "IoUring" /\ IoUring!DriverStep /\ UNCHANGED built
  <2>1. ASSUME NEW f \in Fds, IoUring!DropHandle(f)
        PROVE  IInv'
    <3>1. /\ ~Borrowed(f) /\ file' = [file EXCEPT ![f] = 0]
          /\ UNCHANGED <<op, completions, files, requests, woken, driver, entries, sq,
                         pending_submissions>>
          /\ \/ UNCHANGED <<kernel, cq>>
             \/ \E r \in kernel : /\ kernel' = kernel \ {r}
                                  /\ cq' = Append(cq, Completion(r))
      BY <1>2, <2>1
      DEF IoUring!DropHandle, IoUring!Borrowed, Borrowed, IoUring!queueVars,
          built, IoUring!kernelVars, IoUring!Completion, Completion
    <3> QED
      BY <3>1, DropHandle_IInv
  <2>2. ASSUME NEW o \in Slots, NEW kind \in IoUring!AllOps,
               NEW f \in Fds \cup {None},
               IoUring!NewOp(o, kind, f), UNCHANGED IoUring!queueVars
        PROVE  IInv'
    <3>1. NewOp(o, kind, f) /\ UNCHANGED <<built, queueVars>>
      BY <1>2, <2>2
      DEF IoUring!NewOp, NewOp, IoUring!queueVars, queueVars, built,
          IoUring!kernelVars, kernelVars, IoUring!fileVars, fileVars
    <3>2. kind \in Kinds /\ driver # "Iocp"
      BY <1>2 DEF Kinds
    <3> QED
      BY <3>1, <3>2, NewOp_IInv
  <2> QED
    BY <1>2, <2>1, <2>2, UringSubmits_IInv, collect_submits_IInv, Drain_IInv
    DEF IoUring!DriverStep
<1>3. CASE /\ driver = "Iocp" /\ Iocp!DriverStep
           /\ UNCHANGED <<built, queueVars>>
  <2>1. ASSUME NEW f \in Fds, Iocp!DropHandle(f)
        PROVE  IInv'
    <3>1. /\ ~Borrowed(f) /\ file' = [file EXCEPT ![f] = 0]
          /\ UNCHANGED <<op, completions, files, requests, woken, driver, entries, sq,
                         pending_submissions>>
          /\ UNCHANGED <<kernel, cq>>
      BY <1>3, <2>1
      DEF Iocp!DropHandle, Iocp!Borrowed, Borrowed, queueVars, built,
          Iocp!kernelVars
    <3> QED
      BY <3>1, DropHandle_IInv
  <2>2. ASSUME NEW o \in Slots, NEW kind \in Iocp!AllOps, NEW f \in Fds,
               Iocp!NewOp(o, kind, f)
        PROVE  IInv'
    <3>1. NewOp(o, kind, f)
      BY <2>2
      DEF Iocp!NewOp, NewOp, Iocp!kernelVars, kernelVars, Iocp!fileVars,
          fileVars
    <3>2. kind \in Kinds /\ f # None /\ f \in Fds \cup {None}
      BY NoneIsNone DEF Kinds
    <3> QED
      BY <1>3, <3>1, <3>2, NewOp_IInv
  <2>3. ASSUME Iocp!process_entries
        PROVE  IInv'
    <3>1. IoUring!drain_cq
      BY <1>3, <2>3
      DEF Iocp!process_entries, IoUring!drain_cq, queueVars, built,
          IoUring!queueVars, Iocp!fileVars, IoUring!fileVars
    <3> QED
      BY <1>3, <3>1, Drain_IInv
  <2> QED
    BY <1>3, <2>1, <2>2, <2>3, IocpSubmits_IInv, CompleteSilently_IInv
    DEF Iocp!DriverStep
<1>4. CASE UNCHANGED vars
  BY <1>4
  DEF IInv, vars, taskVars, kernelVars, fileVars, queueVars, built, TypeOK, Events,
      Outstanding, Waits, EventHasSlot, OnePlace, OpHasSlot, OneOpPerSlot,
      SlotHasOp, Numbers, RequestOfOp, WillWake, OwnFile, QueueIsAnnounced,
      IoUring!QueueIsAnnounced, QueuedOnce
<1> QED
  BY <1>1, <1>2, <1>3, <1>4 DEF Next

THEOREM InductiveInvariant == Spec => []IInv
BY Init_IInv, Next_IInv, PTL DEF Spec

-----------------------------------------------------------------------------
(* The properties.                                                         *)

\* Every reachable state is well typed; the submission queue never holds
\* more entries than it has (push_entry flushes a full one).
THEOREM TypeCorrect == Spec => []TypeOK
BY InductiveInvariant, PTL DEF IInv

\* The result that an operation takes from the slab is that of its own
\* request, whatever was dropped and whichever slots were reused.
THEOREM ResultsAreOwn == Spec => []ResultIsOwn
<1>1. IInv => ResultIsOwn
  <2> SUFFICES ASSUME IInv, NEW o \in Slots, op[o] # None
               PROVE  /\ op[o].result \in {None, op[o].request}
                      /\ op[o].completion_token # None =>
                           completions[op[o].completion_token].completed
                             \in {None, op[o].request}
    BY DEF ResultIsOwn
  <2>1. op[o].completion_token \in Tokens \cup {None}
    BY Types DEF IInv, OpType
  <2> QED
    BY <2>1 DEF IInv, Numbers, OpHasSlot, Waits
<1> QED
  BY <1>1, InductiveInvariant, PTL

\* Memory that the kernel may still use, of an entry that is queued as of a
\* request that it works on, belongs to an operation that waits, or to the slab;
\* of the operations that free some of it when they are dropped, what they hand
\* over does.
THEOREM MemoryStaysOwned == Spec => []MemoryIsOwned
<1>1. IInv => MemoryIsOwned
  <2> DEFINE Freeing == IoUring!FreeingOps \cup Iocp!FreeingOps
             Owed(r) == IF r.kind \in Freeing
                          THEN PointsTo(r) \cap r.kind.handed
                          ELSE PointsTo(r)
  <2> SUFFICES ASSUME IInv, NEW r \in Outstanding
               PROVE  OwnedMemory(r, Owed(r))
    BY DEF MemoryIsOwned, IoUring!Outstanding, Outstanding, IoUring!ToSet,
           ToSet
  <2>1. /\ r.token \in Tokens
        /\ completions[r.token] # None
        /\ completions[r.token].request = r.request
    BY Types DEF IInv, EventHasSlot, Events
  <2>2. Owed(r) \subseteq r.kind.handed
    <3>1. r.kind \in Freeing \/ r.kind.held \cup r.kind.read \subseteq r.kind.handed
      BY Types, PointedToIsHanded DEF IInv
    <3> QED
      BY <3>1 DEF PointsTo
  <2> HIDE DEF Owed
  <2>3. CASE completions[r.token].ignored_data = None
    BY <2>1, <2>3 DEF IInv, SlotHasOp, OpHasSlot, Waits, OwnedMemory
  <2>4. CASE completions[r.token].ignored_data # None
    BY <2>1, <2>2, <2>4 DEF IInv, RequestOfOp, OwnedMemory
  <2> QED
    BY <2>3, <2>4
<1> QED
  BY <1>1, InductiveInvariant, PTL

\* No pending operation is forgotten: its task is awake, or the slab has its
\* waker and the completion is on its way.
THEOREM PendingIsWoken == Spec => []PendingWillWake
<1>1. IInv => PendingWillWake
  <2> SUFFICES ASSUME IInv, NEW o \in Slots, op[o] # None,
                      op[o].completion_token # None
               PROVE  WakeIsComing(o, IoUring!Outstanding)
    BY DEF PendingWillWake
  <2>1. op[o].completion_token \in Tokens
    BY Types DEF IInv, OpType
  <2>2. IoUring!Outstanding \cup ToSet(cq) = Events
    BY DEF IoUring!Outstanding, Outstanding, Events, IoUring!ToSet, ToSet
  <2> QED
    BY <2>1, <2>2 DEF IInv, OpHasSlot, WillWake, Waits, WakeIsComing
<1> QED
  BY <1>1, InductiveInvariant, PTL

\* Whatever is in the submission queue will be flushed.
THEOREM QueueStaysAnnounced == Spec => []QueueIsAnnounced
BY InductiveInvariant, PTL DEF IInv

\* As long as an operation lives, io_uring works on the file it was made
\* for, although the queue names it by a number that is used again.
THEOREM ActsOnItsFile == Spec => []ActsOnOwnFile
<1>1. IInv => ActsOnOwnFile
  <2> SUFFICES ASSUME IInv, driver = "IoUring", NEW r \in kernel,
                      NEW o \in Slots, op[o] # None,
                      op[o].request = r.request
               PROVE  r.file = r.meant
    BY DEF ActsOnOwnFile, IoUring!ActsOnOwnFile
  <2>1. /\ r.token \in Tokens /\ completions[r.token] # None
        /\ completions[r.token].request = r.request
    BY Types DEF IInv, EventHasSlot, Events, Outstanding
  <2> QED
    BY <2>1 DEF IInv, Numbers, OwnFile, Waits
<1> QED
  BY <1>1, InductiveInvariant, PTL
=============================================================================

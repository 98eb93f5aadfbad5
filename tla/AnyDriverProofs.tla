--------------------------- MODULE AnyDriverProofs ---------------------------
(***************************************************************************)
(* Proofs about poll-based I/O on the three drivers (AnyDriver), for every *)
(* number of handles, tasks, tokens and polls: types, that what is armed   *)
(* has a request, and that each driver makes only steps that PollDriver    *)
(* allows.                                                                 *)
(***************************************************************************)
EXTENDS AnyDriver, TLAPS

\* Each handle is used in one direction.  With both, io_uring attributes
\* completions to the wrong one (uring.rs:331-346).
OneDirection == \A h \in Handles : \E d \in Directions : Uses[h] \subseteq {d}

-----------------------------------------------------------------------------
(* The inductive invariant.                                                *)

Reg(h) == registrations[token[h]]

TryingFits ==
  trying # None =>
    /\ Live(trying.handle)
    /\ trying.needs = trying.direction
    /\ trying.direction \in Uses[trying.handle]

\* Live handles have registrations, each its own.
TokensFit ==
  /\ \A h \in Handles : Live(h) => Reg(h) # None
  /\ \A g, h \in Handles : Live(g) /\ Live(h) /\ token[g] = token[h] => g = h

RequestOf(h, d) == [token |-> token[h], direction |-> d, of |-> h]

OnItsWay(h, d) == cq[token[h]] > 0 \/ polls[RequestOf(h, d)] > 0

\* A request polls the handle that has its token, until it polls none.
UringRequests ==
  \A r \in IoUring!Requests :
    polls[r] > 0 /\ r.of # Gone => token[r.of] = r.token

\* Whoever waits is armed; what is armed has a request, and is what the mask
\* says: drain_cq disarms it with the completion.
UringArmed ==
  \A h \in Handles, d \in Directions : Live(h) =>
    /\ Reg(h).waiter[d] # None => Reg(h).armed[d] = TRUE
    /\ Reg(h).armed[d] = TRUE =>
         d \in Uses[h] /\ Reg(h).poll_mask = {d} /\ OnItsWay(h, d)

\* As long as a registration remembers its interest, the kernel has it and
\* has not lost an edge; whoever waits does so for one direction.
MioWatches ==
  /\ \A h \in event : Live(h)
  /\ \A h \in Handles : Live(h) =>
       /\ Reg(h).interest # {} =>
            /\ registered[h] = Reg(h).interest
            /\ \A d \in registered[h] : ready[h][d] = TRUE => h \in event
       /\ Reg(h).waiter # None => \E d \in Uses[h] : Reg(h).interest = {d}

\* The poll of a registration watches its handle, for what it is used for.
IocpPolls ==
  /\ \A p \in posted : poll_ops[p] # None
  /\ \A h \in Handles : Live(h) /\ Reg(h).poll_token # None =>
       /\ poll_ops[Reg(h).poll_token] # None
       /\ poll_ops[Reg(h).poll_token].of = h
       /\ poll_ops[Reg(h).poll_token].registration_token = token[h]
       /\ \E d \in Uses[h] : poll_ops[Reg(h).poll_token].events = {d}

DriverInv ==
  /\ driver = "IoUring" => UringRequests /\ (OneDirection => UringArmed)
  /\ driver = "Mio" => MioWatches
  /\ driver = "Iocp" => IocpPolls

IInv ==
  /\ driver \in {"IoUring", "Mio", "Iocp"}
  /\ TypeOK /\ TryingFits /\ TokensFit
  /\ DriverInv

-----------------------------------------------------------------------------
(* Facts that the steps use.                                               *)

LEMMA Nones ==
  /\ None \notin Tokens /\ None \notin Tasks /\ None \notin PollTokens
  /\ Gone \notin Handles
  /\ None \notin IoUring!PollRegistration /\ None \notin Mio!Registration
  /\ None \notin Iocp!PollRegistration /\ None \notin Iocp!PollOp
  /\ None \notin [task : Tasks, handle : Handles, needs : Directions,
                  direction : Directions]
  /\ None \notin [task : Tasks, handle : Handles, direction : Directions]
  /\ \A h \in Handles : Uses[h] \subseteq Directions
<1>1. /\ None \notin Tokens /\ None \notin Tasks
      /\ \A h \in Handles : Uses[h] \subseteq Directions
  BY PollTasksAssumption DEF PollTasksAssumption
<1>2. None \notin PollTokens /\ Gone \notin Handles
  BY AnyDriverAssumption DEF AnyDriverAssumption
<1>3. /\ None \notin IoUring!PollRegistration /\ None \notin Mio!Registration
      /\ None \notin Iocp!PollRegistration /\ None \notin Iocp!PollOp
      /\ None \notin [task : Tasks, handle : Handles, needs : Directions,
                      direction : Directions]
      /\ None \notin [task : Tasks, handle : Handles, direction : Directions]
  BY NoneAssumption DEF NoneAssumption
<1> QED
  BY <1>1, <1>2, <1>3

\* The types of the drivers' variables.
UringType ==
  /\ registrations \in [Tokens -> IoUring!PollRegistration \cup {None}]
  /\ polls \in [IoUring!Requests -> Nat]
  /\ cq \in [Tokens -> Nat]

MioType ==
  /\ registrations \in [Tokens -> Mio!Registration \cup {None}]
  /\ registered \in [Handles -> SUBSET Directions]
  /\ event \subseteq Handles

IocpType ==
  /\ registrations \in [Tokens -> Iocp!PollRegistration \cup {None}]
  /\ poll_ops \in [PollTokens -> Iocp!PollOp \cup {None}]
  /\ posted \subseteq PollTokens

LEMMA TypesAre ==
  /\ IoUring!TypeOK <=> TasksTypeOK /\ UringType
  /\ Mio!TypeOK <=> TasksTypeOK /\ MioType
  /\ Iocp!TypeOK <=> TasksTypeOK /\ IocpType
BY DEF IoUring!TypeOK, Mio!TypeOK, Iocp!TypeOK, IoUring!TasksTypeOK,
       Mio!TasksTypeOK, Iocp!TasksTypeOK, TasksTypeOK, IoUring!Directions,
       Mio!Directions, Iocp!Directions, Directions, UringType, MioType, IocpType

LEMMA TypesAreNext ==
  /\ (IoUring!TypeOK)' <=> TasksTypeOK' /\ UringType'
  /\ (Mio!TypeOK)' <=> TasksTypeOK' /\ MioType'
  /\ (Iocp!TypeOK)' <=> TasksTypeOK' /\ IocpType'
BY DEF IoUring!TypeOK, Mio!TypeOK, Iocp!TypeOK, IoUring!TasksTypeOK,
       Mio!TasksTypeOK, Iocp!TasksTypeOK, TasksTypeOK, IoUring!Directions,
       Mio!Directions, Iocp!Directions, Directions, UringType, MioType, IocpType

LEMMA TaskTypes ==
  ASSUME IInv
  PROVE  /\ TasksTypeOK
         /\ driver = "IoUring" => UringType
         /\ driver = "Mio" => MioType
         /\ driver = "Iocp" => IocpType
BY TypesAre DEF IInv, TypeOK

\* The records of the slabs.
LEMMA Records ==
  /\ IoUring!PollRegistration =
       [poll_mask : Masks, waiter : [Directions -> Tasks \cup {None}],
        armed : [Directions -> BOOLEAN]]
  /\ Mio!Registration = [waiter : Tasks \cup {None}, interest : Masks \cup {{}}]
  /\ Iocp!PollRegistration =
       [waiter : Tasks \cup {None}, poll_token : PollTokens \cup {None}]
  /\ Iocp!PollOp =
       [registration_token : Tokens, events : SUBSET Directions,
        of : Handles \cup {Gone}]
  /\ IoUring!Requests =
       [token : Tokens, direction : Directions, of : Handles \cup {Gone}]
BY DEF IoUring!PollRegistration, Mio!Registration, Iocp!PollRegistration,
       Iocp!PollOp, IoUring!Requests, IoUring!Masks, Mio!Masks, Masks,
       IoUring!Directions, Mio!Directions, Iocp!Directions, Directions

\* A live handle's token is a token, and a handle with a token is live.
LEMMA LiveToken ==
  ASSUME IInv, NEW h \in Handles
  PROVE  /\ Live(h) <=> token[h] \in Tokens
         /\ \A k \in Tokens : token[h] = k => Live(h)
BY TaskTypes, Nones DEF TasksTypeOK, Live

LEMMA TryingType ==
  ASSUME IInv, trying # None
  PROVE  /\ trying.task \in Tasks /\ trying.handle \in Handles
         /\ trying.direction \in Directions /\ trying.needs = trying.direction
         /\ trying.direction \in Uses[trying.handle]
         /\ Live(trying.handle) /\ token[trying.handle] \in Tokens
<1>1. trying \in [task : Tasks, handle : Handles, needs : Directions,
                  direction : Directions]
  BY TaskTypes DEF TasksTypeOK
<1> QED
  BY <1>1, LiveToken DEF IInv, TryingFits

LEMMA Ops ==
  ASSUME NEW op \in AllPollOps
  PROVE  op.blocked_on \in Directions /\ op.waits_for = op.blocked_on
BY DEF AllPollOps, Directions, ReadOp, RecvOp, ReadvOp, RecvfromOp, AcceptOp,
       AcceptUnixOp, WriteOp, SendOp, WritevOp, SendtoOp, ConnectOp, SpliceOp,
       SendfileOp

-----------------------------------------------------------------------------
(* The steps of tasks.                                                     *)

\* What a step of a task does.
LEMMA TaskStepDoes ==
  ASSUME IInv, TaskStep
  PROVE  /\ token' = token
         /\ \/ \E t \in Tasks, h \in Handles, d \in Directions :
                 /\ trying = None /\ Live(h) /\ d \in Uses[h] /\ trying' = trying
                 /\ ready[h][d] = TRUE /\ ready' = [ready EXCEPT ![h][d] = FALSE]
                 /\ woken' = woken
            \/ \E t \in Tasks, h \in Handles, d \in Directions :
                 /\ trying = None /\ Live(h) /\ d \in Uses[h]
                 /\ trying' = [task |-> t, handle |-> h, needs |-> d,
                               direction |-> d]
                 /\ ready' = ready /\ woken' = woken
            \/ \E t \in Tasks :
                 /\ trying' = trying /\ ready' = ready /\ woken' = woken \ {t}
<1>0. ready \in [Handles -> [Directions -> BOOLEAN]]
  BY TaskTypes DEF TasksTypeOK
<1>1. ASSUME NEW t \in Tasks, NEW h \in Handles, NEW op \in AllPollOps,
             TryReady(t, h, op)
      PROVE  /\ token' = token /\ trying = None /\ Live(h)
             /\ op.blocked_on \in Directions /\ op.blocked_on \in Uses[h]
             /\ trying' = trying /\ ready[h][op.blocked_on] = TRUE
             /\ ready' = [ready EXCEPT ![h][op.blocked_on] = FALSE]
             /\ woken' = woken
  BY <1>0, <1>1, Ops DEF TryReady, Polls, Idle
<1>2. ASSUME NEW t \in Tasks, NEW h \in Handles, NEW op \in AllPollOps,
             TryBlocked(t, h, op)
      PROVE  /\ token' = token /\ trying = None /\ Live(h)
             /\ op.blocked_on \in Directions /\ op.blocked_on \in Uses[h]
             /\ trying' = [task |-> t, handle |-> h, needs |-> op.blocked_on,
                           direction |-> op.blocked_on]
             /\ ready' = ready /\ woken' = woken
  BY <1>2, Ops DEF TryBlocked, Polls, Idle
<1>3. ASSUME NEW t \in Tasks, NEW h \in Handles, NEW d \in Directions,
             ReadinessOp(t, h, d)
      PROVE  /\ token' = token /\ trying = None /\ Live(h) /\ d \in Uses[h]
             /\ trying' = [task |-> t, handle |-> h, needs |-> d, direction |-> d]
             /\ ready' = ready /\ woken' = woken
  BY <1>3 DEF ReadinessOp, Idle
<1>4. ASSUME NEW t \in Tasks, Pend(t)
      PROVE  /\ token' = token /\ trying' = trying /\ ready' = ready
             /\ woken' = woken \ {t}
  BY <1>4 DEF Pend
<1> QED
  BY <1>1, <1>2, <1>3, <1>4 DEF TaskStep

LEMMA TaskStep_IInv ==
  ASSUME IInv, TaskStep,
         UNCHANGED <<driver, registrations, uringVars, mioVars, iocpVars>>
  PROVE  IInv'
<1>1. UNCHANGED <<driver, registrations, polls, cq, registered, event, poll_ops,
                  posted, token>>
  BY TaskStepDoes DEF uringVars, mioVars, iocpVars
<1>2. TasksTypeOK
  BY TaskTypes
<1>3. /\ trying' = None \/ trying' = trying
         \/ \E t \in Tasks, h \in Handles, d \in Directions :
              /\ Live(h) /\ d \in Uses[h]
              /\ trying' = [task |-> t, handle |-> h, needs |-> d, direction |-> d]
      /\ ready' \in [Handles -> [Directions -> BOOLEAN]]
      /\ woken' \subseteq Tasks
      /\ \A h \in Handles, d \in Directions :
           ready'[h][d] = TRUE => ready[h][d] = TRUE
  <2>1. ready \in [Handles -> [Directions -> BOOLEAN]] /\ woken \subseteq Tasks
    BY <1>2 DEF TasksTypeOK
  <2>2. ASSUME NEW h \in Handles, NEW d \in Directions,
               ready' = [ready EXCEPT ![h][d] = FALSE]
        PROVE  /\ ready' \in [Handles -> [Directions -> BOOLEAN]]
               /\ \A g \in Handles, e \in Directions :
                    ready'[g][e] = TRUE => ready[g][e] = TRUE
    BY <2>1, <2>2
  <2>3. /\ ready' \in [Handles -> [Directions -> BOOLEAN]]
        /\ \A g \in Handles, e \in Directions :
             ready'[g][e] = TRUE => ready[g][e] = TRUE
    BY <2>1, <2>2, TaskStepDoes
  <2>4. woken' \subseteq Tasks
    BY <2>1, TaskStepDoes
  <2>5. \/ trying' = trying
        \/ \E t \in Tasks, h \in Handles, d \in Directions :
             /\ Live(h) /\ d \in Uses[h]
             /\ trying' = [task |-> t, handle |-> h, needs |-> d, direction |-> d]
    BY TaskStepDoes
  <2> QED
    BY <2>3, <2>4, <2>5
<1>4. TasksTypeOK' /\ TryingFits'
  <2>1. TryingFits'
    <3>1. CASE trying' = None
      BY <3>1 DEF TryingFits
    <3>2. CASE trying' = trying
      BY <1>1, <3>2 DEF IInv, TryingFits, Live
    <3>3. ASSUME NEW t \in Tasks, NEW h \in Handles, NEW d \in Directions,
                 Live(h), d \in Uses[h],
                 trying' = [task |-> t, handle |-> h, needs |-> d, direction |-> d]
          PROVE  TryingFits'
      BY <1>1, <3>3 DEF TryingFits, Live
    <3> QED
      BY <1>3, <3>1, <3>2, <3>3
  <2> QED
    BY <1>1, <1>2, <1>3, <2>1 DEF TasksTypeOK
<1>5. TypeOK'
  BY <1>1, <1>4, TaskTypes, TypesAreNext
     DEF TypeOK, UringType, MioType, IocpType
<1>6. TokensFit'
  BY <1>1 DEF IInv, TokensFit, Live, Reg
<1>7. driver = "IoUring" => UringRequests' /\ (OneDirection => UringArmed')
  BY <1>1 DEF IInv, DriverInv, UringRequests, UringArmed, Live, Reg, OnItsWay,
              RequestOf
<1>8. driver = "Mio" => MioWatches'
  <2> SUFFICES ASSUME driver = "Mio" PROVE MioWatches'
    OBVIOUS
  <2>1. MioWatches /\ \A h \in Handles : registered[h] \subseteq Directions
    BY TaskTypes DEF IInv, DriverInv, MioType
  <2> QED
    BY <1>1, <1>3, <2>1 DEF MioWatches, Live, Reg
<1>9. driver = "Iocp" => IocpPolls'
  BY <1>1 DEF IInv, DriverInv, IocpPolls, Live, Reg
<1> QED
  BY <1>1, <1>5, <1>4, <1>6, <1>7, <1>8, <1>9 DEF IInv, DriverInv

\* A change of the readiness that the kernel knows of.
LEMMA ReadyType ==
  ASSUME IInv, NEW h \in Handles, NEW d \in Directions,
         ready' = [ready EXCEPT ![h][d] = ~ready[h][d]]
  PROVE  /\ ready' \in [Handles -> [Directions -> BOOLEAN]]
         /\ \A g \in Handles, e \in Directions :
              g # h \/ e # d => ready'[g][e] = ready[g][e]
BY TaskTypes DEF TasksTypeOK

-----------------------------------------------------------------------------
(* What the steps of all drivers do to tokens and registrations.           *)

\* A handle is registered under a vacant key.
LEMMA Registers ==
  ASSUME IInv, NEW h \in Handles, NEW k \in Tokens, registrations'[k] # None,
         ~Live(h), registrations[k] = None, trying = None,
         token' = [token EXCEPT ![h] = k],
         \E r \in Readiness(h) : ready' = [ready EXCEPT ![h] = r],
         trying' = trying, woken' = woken,
         \A j \in Tokens : j # k => registrations'[j] = registrations[j]
  PROVE  /\ TasksTypeOK' /\ TryingFits' /\ TokensFit'
         /\ Live(h)' /\ token'[h] = k /\ Reg(h)' = registrations'[k]
         /\ \A g \in Handles : g # h =>
              /\ (Live(g)' <=> Live(g)) /\ token'[g] = token[g]
              /\ ready'[g] = ready[g]
              /\ Live(g) => token[g] # k /\ Reg(g)' = Reg(g)
<1>1. TasksTypeOK
  BY TaskTypes
<1>2. ready' \in [Handles -> [Directions -> BOOLEAN]]
      /\ \A g \in Handles : g # h => ready'[g] = ready[g]
  BY <1>1 DEF TasksTypeOK, Readiness
<1>3. TasksTypeOK'
  BY <1>1, <1>2 DEF TasksTypeOK
<1>4. TryingFits'
  BY DEF TryingFits
<1>5. token'[h] = k /\ Live(h)' /\ \A g \in Handles : g # h => token'[g] = token[g]
  BY <1>1, Nones DEF TasksTypeOK, Live
<1>6. Reg(h)' = registrations'[k]
  BY <1>5 DEF Reg
<1>7. \A g \in Handles : Live(g) => token[g] \in Tokens /\ Reg(g) # None
  BY LiveToken DEF IInv, TokensFit
<1>8. \A g \in Handles : g # h /\ Live(g) => token[g] # k /\ Reg(g)' = Reg(g)
  BY <1>5, <1>7 DEF Reg
<1>9. \A g \in Handles : g # h => (Live(g)' <=> Live(g))
  BY <1>5 DEF Live
<1>10. TokensFit'
  BY <1>5, <1>6, <1>7, <1>8, <1>9 DEF IInv, TokensFit
<1> QED
  BY <1>2, <1>3, <1>4, <1>5, <1>6, <1>8, <1>9, <1>10

\* A handle is deregistered.
LEMMA Deregisters ==
  ASSUME IInv, NEW h \in Handles, Live(h), trying = None,
         token' = [token EXCEPT ![h] = None],
         trying' = trying, ready' = ready, woken' = woken,
         \A j \in Tokens : j # token[h] => registrations'[j] = registrations[j]
  PROVE  /\ TasksTypeOK' /\ TryingFits' /\ TokensFit'
         /\ ~Live(h)' /\ token[h] \in Tokens
         /\ \A g \in Handles : g # h =>
              /\ (Live(g)' <=> Live(g)) /\ token'[g] = token[g]
              /\ Live(g) => token[g] # token[h] /\ Reg(g)' = Reg(g)
<1>1. TasksTypeOK
  BY TaskTypes
<1>2. TasksTypeOK' /\ TryingFits'
  BY <1>1 DEF TasksTypeOK, TryingFits
<1>3. token'[h] = None /\ ~Live(h)'
      /\ \A g \in Handles : g # h => token'[g] = token[g] /\ (Live(g)' <=> Live(g))
  BY <1>1 DEF TasksTypeOK, Live
<1>4. \A g \in Handles : Live(g) => token[g] \in Tokens
  BY LiveToken
<1>5. \A g \in Handles : g # h /\ Live(g) => token[g] # token[h]
  BY DEF IInv, TokensFit
<1>6. \A g \in Handles : g # h /\ Live(g) => Reg(g)' = Reg(g)
  BY <1>3, <1>4, <1>5 DEF Reg
<1>7. TokensFit'
  BY <1>3, <1>6 DEF IInv, TokensFit
<1> QED
  BY <1>2, <1>3, <1>4, <1>5, <1>6, <1>7

\* The registration under key k is changed, if there is one.
LEMMA Changes ==
  ASSUME IInv, NEW k \in Tokens,
         registrations'[k] # None \/ registrations[k] = None,
         token' = token,
         \A j \in Tokens : j # k => registrations'[j] = registrations[j]
  PROVE  /\ TokensFit'
         /\ \A g \in Handles : /\ Live(g)' <=> Live(g)
                               /\ Live(g) /\ token[g] = k => Reg(g)' = registrations'[k]
                               /\ Live(g) /\ token[g] # k => Reg(g)' = Reg(g)
<1>1. \A g \in Handles : Live(g) => token[g] \in Tokens /\ Reg(g) # None
  BY LiveToken DEF IInv, TokensFit
<1>2. \A g \in Handles : /\ Live(g)' <=> Live(g)
                         /\ Live(g) /\ token[g] = k => Reg(g)' = registrations'[k]
                         /\ Live(g) /\ token[g] # k => Reg(g)' = Reg(g)
  BY <1>1 DEF Live, Reg
<1>3. TokensFit'
  BY <1>1, <1>2 DEF IInv, TokensFit, Reg
<1> QED
  BY <1>2, <1>3

\* submit_poll ends the operation.
LEMMA Ends ==
  ASSUME IInv, trying' = None, UNCHANGED <<token, ready, woken>>
  PROVE  TasksTypeOK' /\ TryingFits'
BY TaskTypes DEF TasksTypeOK, TryingFits

\* A driver's step leaves operations alone.
LEMMA Leaves ==
  ASSUME IInv, UNCHANGED <<token, trying>>,
         ready' \in [Handles -> [Directions -> BOOLEAN]], woken' \subseteq Tasks
  PROVE  TasksTypeOK' /\ TryingFits'
BY TaskTypes DEF TasksTypeOK, IInv, TryingFits, Live

-----------------------------------------------------------------------------
(* io_uring.                                                               *)

LEMMA UringStep ==
  ASSUME driver = "IoUring", driver' = driver, TasksTypeOK', UringType',
         TryingFits', TokensFit', UringRequests', OneDirection => UringArmed'
  PROVE  IInv'
BY TypesAreNext DEF IInv, TypeOK, DriverInv

LEMMA UringTypes ==
  ASSUME IInv, driver = "IoUring"
  PROVE  /\ UringType /\ UringRequests /\ (OneDirection => UringArmed)
         /\ \A r \in IoUring!Requests : polls[r] \in Nat /\ r.token \in Tokens
              /\ r.direction \in Directions /\ r.of \in Handles \cup {Gone}
         /\ \A k \in Tokens : cq[k] \in Nat
         /\ \A h \in Handles : Live(h) =>
              /\ Reg(h) \in IoUring!PollRegistration
              /\ \A d \in Directions : RequestOf(h, d) \in IoUring!Requests
<1>1. UringType /\ UringRequests /\ (OneDirection => UringArmed)
  BY TaskTypes DEF IInv, DriverInv
<1>2. \A r \in IoUring!Requests : polls[r] \in Nat /\ r.token \in Tokens
        /\ r.direction \in Directions /\ r.of \in Handles \cup {Gone}
  BY <1>1, Records DEF UringType
<1>3. \A k \in Tokens : cq[k] \in Nat
  BY <1>1 DEF UringType
<1>4. ASSUME NEW h \in Handles, Live(h)
      PROVE  /\ Reg(h) \in IoUring!PollRegistration
             /\ \A d \in Directions : RequestOf(h, d) \in IoUring!Requests
  <2>1. token[h] \in Tokens /\ Reg(h) # None
    BY <1>4, LiveToken DEF IInv, TokensFit
  <2>2. Reg(h) \in IoUring!PollRegistration
    BY <1>1, <2>1 DEF UringType, Reg
  <2> QED
    BY <2>1, <2>2, Records DEF RequestOf
<1> QED
  BY <1>1, <1>2, <1>3, <1>4

LEMMA UringRegisters ==
  ASSUME IInv, driver = "IoUring", driver' = driver,
         NEW h \in Handles, NEW k \in Tokens, NEW interest \in Interests(h),
         IoUring!register_handle_with_mode(h, k, interest)
  PROVE  IInv'
<1> DEFINE v == [poll_mask |-> interest, waiter |-> [d \in Directions |-> None],
                 armed |-> [d \in Directions |-> FALSE]]
<1>1. /\ trying = None /\ ~Live(h) /\ registrations[k] = None
      /\ registrations' = [registrations EXCEPT ![k] = v]
      /\ token' = [token EXCEPT ![h] = k]
      /\ \E r \in Readiness(h) : ready' = [ready EXCEPT ![h] = r]
      /\ trying' = trying /\ woken' = woken /\ polls' = polls /\ cq' = cq
  BY DEF IoUring!register_handle_with_mode, IoUring!Idle, IoUring!Live, Live,
         IoUring!Adopt, IoUring!Readiness, Readiness, IoUring!Directions,
         Directions
<1>2. UringType /\ UringRequests /\ (OneDirection => UringArmed)
  BY UringTypes
<1>3. v \in IoUring!PollRegistration /\ v # None
  <2>1. /\ interest \in Masks
        /\ [d \in Directions |-> None] \in [Directions -> Tasks \cup {None}]
        /\ [d \in Directions |-> FALSE] \in [Directions -> BOOLEAN]
    BY DEF Interests
  <2>2. v \in IoUring!PollRegistration
    BY <2>1, Records
  <2> QED
    BY <2>2, Nones
<1> HIDE DEF v
<1>4. UringType'
  BY <1>1, <1>2, <1>3 DEF UringType
<1>5. /\ registrations'[k] = v
      /\ \A j \in Tokens : j # k => registrations'[j] = registrations[j]
  BY <1>1, <1>2 DEF UringType
<1>6. /\ TasksTypeOK' /\ TryingFits' /\ TokensFit'
      /\ Live(h)' /\ token'[h] = k /\ Reg(h)' = v
      /\ \A g \in Handles : g # h =>
           /\ (Live(g)' <=> Live(g)) /\ token'[g] = token[g]
           /\ Live(g) => token[g] # k /\ Reg(g)' = Reg(g)
  BY <1>1, <1>3, <1>5, Registers
<1>7. UringRequests'
  <2>1. ASSUME NEW r \in IoUring!Requests, polls[r] > 0, r.of # Gone
        PROVE  token'[r.of] = r.token
    <3>1. token[r.of] = r.token /\ r.of \in Handles /\ r.token \in Tokens
      BY <1>2, <2>1, UringTypes DEF UringRequests
    <3>2. Live(r.of)
      BY <3>1, LiveToken
    <3>3. r.of # h
      BY <1>1, <3>2
    <3> QED
      BY <1>6, <3>1, <3>3
  <2> QED
    BY <1>1, <2>1 DEF UringRequests
<1>8. ASSUME OneDirection PROVE UringArmed'
  <2> SUFFICES ASSUME NEW g \in Handles, NEW d \in Directions, Live(g)'
               PROVE  /\ Reg(g)'.waiter[d] # None => Reg(g)'.armed[d] = TRUE
                      /\ Reg(g)'.armed[d] = TRUE =>
                           /\ d \in Uses[g] /\ Reg(g)'.poll_mask = {d}
                           /\ OnItsWay(g, d)'
    BY DEF UringArmed
  <2>1. CASE g = h
    BY <1>6, <2>1 DEF v
  <2>2. CASE g # h
    BY <1>1, <1>2, <1>6, <1>8, <2>2 DEF UringArmed, OnItsWay, RequestOf
  <2> QED
    BY <2>1, <2>2
<1> QED
  BY <1>4, <1>6, <1>7, <1>8, UringStep

\* The requests of a handle that goes are left to poll nothing.
LEMMA Orphans ==
  ASSUME NEW h \in Handles, NEW p \in [IoUring!Requests -> Nat]
  PROVE  /\ IoUring!Orphan(h, p) \in [IoUring!Requests -> Nat]
         /\ \A r \in IoUring!Requests :
              /\ r.of = h => IoUring!Orphan(h, p)[r] = 0
              /\ r.of # h /\ r.of # Gone => IoUring!Orphan(h, p)[r] = p[r]
<1>1. \A r \in IoUring!Requests : r.direction = "read" =>
        /\ [r EXCEPT !.of = h] \in IoUring!Requests
        /\ [r EXCEPT !.of = h, !.direction = "write"] \in IoUring!Requests
  BY Records DEF Directions
<1>2. ASSUME NEW r \in IoUring!Requests, r.direction = "read"
      PROVE  p[r] + p[[r EXCEPT !.of = h]]
               + p[[r EXCEPT !.of = h, !.direction = "write"]] \in Nat
  <2> DEFINE q == [r EXCEPT !.of = h]
             s == [r EXCEPT !.of = h, !.direction = "write"]
  <2>1. q \in IoUring!Requests /\ s \in IoUring!Requests
    BY <1>1, <1>2
  <2> HIDE DEF q, s
  <2>2. p[r] + p[q] + p[s] \in Nat
    BY <2>1
  <2> QED
    BY <2>2 DEF q, s
<1> DEFINE sum(r) == p[r] + p[[r EXCEPT !.of = h]]
                       + p[[r EXCEPT !.of = h, !.direction = "write"]]
<1>3. IoUring!Orphan(h, p) =
        [r \in IoUring!Requests |->
           IF r.of = h THEN 0
           ELSE IF r.of = Gone /\ r.direction = "read" THEN sum(r) ELSE p[r]]
  BY DEF IoUring!Orphan
<1>4. \A r \in IoUring!Requests : r.direction = "read" => sum(r) \in Nat
  BY <1>2
<1> HIDE DEF sum
<1> QED
  BY <1>3, <1>4

LEMMA UringDeregisters ==
  ASSUME IInv, driver = "IoUring", driver' = driver, NEW h \in Handles,
         IoUring!deregister_handle(h)
  PROVE  IInv'
<1>1. /\ trying = None /\ Live(h)
      /\ registrations' = [registrations EXCEPT ![token[h]] = None]
      /\ token' = [token EXCEPT ![h] = None]
      /\ trying' = trying /\ ready' = ready /\ woken' = woken
  BY DEF IoUring!deregister_handle, IoUring!Idle, IoUring!Live, Live
<1>2. UringType /\ UringRequests /\ (OneDirection => UringArmed)
  BY UringTypes
<1>3. token[h] \in Tokens /\ registrations'[token[h]] = None
      /\ \A j \in Tokens : j # token[h] => registrations'[j] = registrations[j]
  BY <1>1, <1>2, LiveToken DEF UringType
<1>4. /\ TasksTypeOK' /\ TryingFits' /\ TokensFit' /\ ~Live(h)'
      /\ \A g \in Handles : g # h =>
           /\ (Live(g)' <=> Live(g)) /\ token'[g] = token[g]
           /\ Live(g) => token[g] # token[h] /\ Reg(g)' = Reg(g)
  BY <1>1, <1>3, Deregisters
<1> DEFINE Left(p) == /\ p \in [IoUring!Requests -> Nat]
                      /\ polls' = IoUring!Orphan(h, p)
                      /\ \A r \in IoUring!Requests : r.of # h => p[r] = polls[r]
           More == /\ cq' \in [Tokens -> Nat]
                   /\ \A k \in Tokens : cq'[k] >= cq[k]
<1>5. (\E p : Left(p)) /\ More
  <2>1. CASE polls' = IoUring!Orphan(h, polls) /\ cq' = cq
    <3>1. Left(polls) /\ More
      BY <1>2, <2>1 DEF UringType
    <3> QED
      BY <3>1
  <2>2. ASSUME NEW r \in IoUring!Requests, r.of = h, polls[r] > 0,
               polls' = IoUring!Orphan(h, [polls EXCEPT ![r] = @ - 1]),
               cq' = [cq EXCEPT ![r.token] = @ + 1]
        PROVE  (\E p : Left(p)) /\ More
    <3>1. r.token \in Tokens /\ polls[r] \in Nat
      BY UringTypes
    <3>2. [polls EXCEPT ![r] = @ - 1] \in [IoUring!Requests -> Nat]
      BY <1>2, <2>2, <3>1 DEF UringType
    <3>3. More
      BY <1>2, <2>2, <3>1 DEF UringType
    <3>4. \A q \in IoUring!Requests :
            q.of # h => [polls EXCEPT ![r] = @ - 1][q] = polls[q]
      BY <1>2, <2>2 DEF UringType
    <3>5. Left([polls EXCEPT ![r] = @ - 1])
      BY <2>2, <3>2, <3>4
    <3> HIDE DEF Left, More
    <3> QED
      BY <3>3, <3>5
  <2>3. \/ polls' = IoUring!Orphan(h, polls) /\ cq' = cq
        \/ \E r \in IoUring!Requests :
             /\ r.of = h /\ polls[r] > 0
             /\ polls' = IoUring!Orphan(h, [polls EXCEPT ![r] = @ - 1])
             /\ cq' = [cq EXCEPT ![r.token] = @ + 1]
    BY DEF IoUring!deregister_handle
  <2> HIDE DEF Left, More
  <2> QED
    BY <2>1, <2>2, <2>3
<1>6. /\ polls' \in [IoUring!Requests -> Nat] /\ cq' \in [Tokens -> Nat]
      /\ \A k \in Tokens : cq'[k] >= cq[k]
      /\ \A r \in IoUring!Requests :
           /\ r.of = h => polls'[r] = 0
           /\ r.of # h /\ r.of # Gone => polls'[r] = polls[r]
  BY <1>5, Orphans
<1>7. UringType'
  BY <1>1, <1>2, <1>6 DEF UringType
<1>8. UringRequests'
  <2>1. ASSUME NEW r \in IoUring!Requests, polls'[r] > 0, r.of # Gone
        PROVE  token'[r.of] = r.token
    <3>1. r.of # h /\ r.of \in Handles
      BY <1>6, <2>1, UringTypes
    <3>2. token[r.of] = r.token
      BY <1>2, <1>6, <2>1, <3>1 DEF UringRequests
    <3> QED
      BY <1>4, <3>1, <3>2
  <2> QED
    BY <2>1 DEF UringRequests
<1>9. ASSUME OneDirection PROVE UringArmed'
  <2> SUFFICES ASSUME NEW g \in Handles, NEW d \in Directions, Live(g)'
               PROVE  /\ Reg(g)'.waiter[d] # None => Reg(g)'.armed[d] = TRUE
                      /\ Reg(g)'.armed[d] = TRUE =>
                           /\ d \in Uses[g] /\ Reg(g)'.poll_mask = {d}
                           /\ OnItsWay(g, d)'
    BY DEF UringArmed
  <2>1. g # h /\ Live(g) /\ Reg(g)' = Reg(g) /\ token'[g] = token[g]
        /\ token[g] \in Tokens
    BY <1>4, LiveToken
  <2>2. OnItsWay(g, d) => OnItsWay(g, d)'
    <3>1. /\ RequestOf(g, d) \in IoUring!Requests /\ RequestOf(g, d).of = g
          /\ RequestOf(g, d)' = RequestOf(g, d) /\ g # Gone
      BY <2>1, UringTypes, Nones DEF RequestOf
    <3>2. polls'[RequestOf(g, d)] = polls[RequestOf(g, d)]
      BY <1>6, <2>1, <3>1
    <3>3. cq'[token[g]] >= cq[token[g]] /\ cq'[token[g]] \in Nat
          /\ cq[token[g]] \in Nat
      BY <1>6, <2>1, UringTypes
    <3> QED
      BY <2>1, <3>1, <3>2, <3>3 DEF OnItsWay
  <2> QED
    BY <1>2, <1>9, <2>1, <2>2 DEF UringArmed
<1> QED
  BY <1>4, <1>7, <1>8, <1>9, UringStep

\* The fields of a registration.
LEMMA UringFields ==
  ASSUME NEW r \in IoUring!PollRegistration
  PROVE  /\ r.poll_mask \in Masks
         /\ r.waiter \in [Directions -> Tasks \cup {None}]
         /\ r.armed \in [Directions -> BOOLEAN]
         /\ \A d \in Directions : r.waiter[d] \in Tasks \cup {None}
         /\ \A d \in Directions : r.armed[d] \in BOOLEAN
BY Records

LEMMA UringRecord ==
  ASSUME NEW m \in Masks, NEW w \in [Directions -> Tasks \cup {None}],
         NEW a \in [Directions -> BOOLEAN]
  PROVE  [poll_mask |-> m, waiter |-> w, armed |-> a] \in IoUring!PollRegistration
BY Records

LEMMA UringSubmits ==
  ASSUME IInv, driver = "IoUring", driver' = driver, IoUring!submit_poll
  PROVE  IInv'
<1> DEFINE h == trying.handle
           k == token[trying.handle]
           d == trying.direction
<1>0. /\ trying # None /\ h \in Handles /\ k \in Tokens /\ d \in Directions
      /\ trying.task \in Tasks /\ d \in Uses[h] /\ Live(h)
  BY TryingType DEF IoUring!submit_poll
<1>1. /\ registrations' = [registrations EXCEPT
             ![k] = IoUring!WithWaiter(registrations[k], d, trying.task)]
      /\ \/ registrations[k].armed[d] /\ polls' = polls
         \/ polls' = [polls EXCEPT ![RequestOf(h, d)] = @ + 1]
      /\ trying' = None
      /\ token' = token /\ cq' = cq /\ ready' = ready /\ woken' = woken
  BY DEF IoUring!submit_poll, RequestOf
<1>2. UringType /\ UringRequests /\ (OneDirection => UringArmed)
  BY UringTypes
<1>3. /\ registrations[k] = Reg(h) /\ Reg(h) \in IoUring!PollRegistration
      /\ RequestOf(h, d) \in IoUring!Requests
      /\ RequestOf(h, d).of = h /\ RequestOf(h, d).token = k
  BY <1>0, UringTypes DEF Reg, RequestOf
<1> HIDE DEF h, k, d
<1>4. /\ registrations'[k] \in IoUring!PollRegistration
      /\ registrations'[k].waiter[d] = trying.task
      /\ registrations'[k].armed[d] = TRUE
      /\ registrations'[k].poll_mask = {d}
      /\ \A e \in Directions : e # d =>
           /\ registrations'[k].waiter[e] = Reg(h).waiter[e]
           /\ registrations'[k].armed[e] = Reg(h).armed[e]
      /\ \A j \in Tokens : j # k => registrations'[j] = registrations[j]
  <2> DEFINE w == [Reg(h).waiter EXCEPT ![d] = trying.task]
             a == [Reg(h).armed EXCEPT ![d] = TRUE]
  <2>1. registrations'[k] = [poll_mask |-> {d}, waiter |-> w, armed |-> a]
        /\ \A j \in Tokens : j # k => registrations'[j] = registrations[j]
    BY <1>0, <1>1, <1>2, <1>3 DEF UringType, IoUring!WithWaiter
  <2>2. /\ Reg(h).waiter \in [Directions -> Tasks \cup {None}]
        /\ Reg(h).armed \in [Directions -> BOOLEAN]
    BY <1>3, UringFields
  <2>3. /\ w \in [Directions -> Tasks \cup {None}] /\ w[d] = trying.task
        /\ \A e \in Directions : e # d => w[e] = Reg(h).waiter[e]
    BY <1>0, <2>2
  <2>4. /\ a \in [Directions -> BOOLEAN] /\ a[d] = TRUE
        /\ \A e \in Directions : e # d => a[e] = Reg(h).armed[e]
    BY <1>0, <2>2
  <2>5. {d} \in Masks
    BY <1>0 DEF Masks
  <2> HIDE DEF w, a
  <2>6. registrations'[k] \in IoUring!PollRegistration
    BY <2>1, <2>3, <2>4, <2>5, UringRecord
  <2>7. registrations'[k].waiter = w /\ registrations'[k].armed = a
        /\ registrations'[k].poll_mask = {d}
    BY <2>1
  <2> QED
    BY <2>1, <2>3, <2>4, <2>6, <2>7
<1>5. /\ polls' \in [IoUring!Requests -> Nat]
      /\ \A r \in IoUring!Requests : polls'[r] >= polls[r]
      /\ \A r \in IoUring!Requests : r # RequestOf(h, d) => polls'[r] = polls[r]
      /\ \/ registrations[k].armed[d] /\ polls' = polls
         \/ polls'[RequestOf(h, d)] > 0
  BY <1>1, <1>2, <1>3 DEF UringType
<1>6. UringType'
  BY <1>1, <1>2, <1>4, <1>5 DEF UringType
<1>7. /\ TokensFit' /\ TasksTypeOK' /\ TryingFits'
      /\ \A g \in Handles : /\ Live(g)' <=> Live(g)
                            /\ Live(g) /\ token[g] = k => Reg(g)' = registrations'[k]
                            /\ Live(g) /\ token[g] # k => Reg(g)' = Reg(g)
  <2>1. registrations'[k] # None
    BY <1>4, Nones
  <2> QED
    BY <1>0, <1>1, <1>4, <2>1, Changes, Ends
<1>8. UringRequests'
  <2>1. ASSUME NEW r \in IoUring!Requests, polls'[r] > 0, r.of # Gone
        PROVE  token'[r.of] = r.token
    <3>1. CASE r = RequestOf(h, d)
      BY <1>1, <1>3, <3>1 DEF h, k
    <3>2. CASE r # RequestOf(h, d)
      BY <1>1, <1>2, <1>5, <2>1, <3>2 DEF UringRequests
    <3> QED
      BY <3>1, <3>2
  <2> QED
    BY <2>1 DEF UringRequests
<1>9. ASSUME OneDirection PROVE UringArmed'
  <2>0. UringArmed
    BY <1>2, <1>9
  <2> SUFFICES ASSUME NEW g \in Handles, NEW e \in Directions, Live(g)'
               PROVE  /\ Reg(g)'.waiter[e] # None => Reg(g)'.armed[e] = TRUE
                      /\ Reg(g)'.armed[e] = TRUE =>
                           /\ e \in Uses[g] /\ Reg(g)'.poll_mask = {e}
                           /\ OnItsWay(g, e)'
    BY DEF UringArmed
  <2>1. Live(g) /\ token[g] \in Tokens /\ RequestOf(g, e)' = RequestOf(g, e)
        /\ RequestOf(g, e) \in IoUring!Requests
    BY <1>1, <1>7, LiveToken, UringTypes DEF RequestOf
  <2>2. OnItsWay(g, e) => OnItsWay(g, e)'
    <3>1. polls'[RequestOf(g, e)] >= polls[RequestOf(g, e)]
          /\ polls'[RequestOf(g, e)] \in Nat /\ polls[RequestOf(g, e)] \in Nat
      BY <1>5, <2>1, UringTypes
    <3> QED
      BY <1>1, <2>1, <3>1 DEF OnItsWay
  <2>3. CASE g # h
    <3>1. token[g] # k
      BY <1>0, <2>1, <2>3 DEF IInv, TokensFit, h, k
    <3> QED
      BY <1>7, <2>0, <2>1, <2>2, <3>1 DEF UringArmed
  <2>4. CASE g = h /\ e = d
    <3>1. Reg(g)' = registrations'[k]
      BY <1>0, <1>7, <2>1, <2>4 DEF h, k
    <3>2. OnItsWay(g, e)'
      <4>1. CASE registrations[k].armed[d]
        <5>1. Reg(h).armed[d] = TRUE
          BY <1>0, <1>3, <4>1, Records
        <5> QED
          BY <1>0, <2>0, <2>2, <2>4, <5>1 DEF UringArmed
      <4>2. CASE polls'[RequestOf(g, e)] > 0
        BY <2>1, <4>2 DEF OnItsWay
      <4> QED
        BY <1>5, <2>4, <4>1, <4>2
    <3> QED
      BY <1>0, <1>4, <2>4, <3>1, <3>2
  <2>5. CASE g = h /\ e # d
    <3>1. /\ Reg(g)'.waiter[e] = Reg(h).waiter[e]
          /\ Reg(g)'.armed[e] = Reg(h).armed[e]
      BY <1>0, <1>4, <1>7, <2>1, <2>5 DEF h, k
    <3>2. e \notin Uses[h]
      BY <1>0, <1>9, <2>5 DEF OneDirection
    <3>3. Reg(h).waiter[e] = None /\ Reg(h).armed[e] # TRUE
      BY <1>0, <2>0, <3>2 DEF UringArmed
    <3> QED
      BY <3>1, <3>3
  <2> QED
    BY <2>3, <2>4, <2>5
<1> QED
  BY <1>6, <1>7, <1>8, <1>9, UringStep

LEMMA UringRefuses ==
  ASSUME IInv, driver = "IoUring", driver' = driver, IoUring!submit_poll_failed
  PROVE  IInv'
<1> DEFINE h == trying.handle
           k == token[trying.handle]
           d == trying.direction
<1>0. /\ trying # None /\ h \in Handles /\ k \in Tokens /\ d \in Directions
      /\ d \in Uses[h] /\ Live(h)
  BY TryingType DEF IoUring!submit_poll_failed
<1>1. /\ ~registrations[k].armed[d]
      /\ registrations' = [registrations EXCEPT ![k] =
           [poll_mask |-> {d},
            waiter |-> [registrations[k].waiter EXCEPT ![d] = None],
            armed |-> registrations[k].armed]]
      /\ trying' = None /\ polls' = polls
      /\ token' = token /\ cq' = cq /\ ready' = ready /\ woken' = woken
  BY DEF IoUring!submit_poll_failed
<1>2. UringType /\ UringRequests /\ (OneDirection => UringArmed)
  BY UringTypes
<1>3. registrations[k] = Reg(h) /\ Reg(h) \in IoUring!PollRegistration
  BY <1>0, UringTypes DEF Reg
<1> HIDE DEF h, k, d
<1>4. /\ registrations'[k] \in IoUring!PollRegistration
      /\ registrations'[k].waiter[d] = None
      /\ registrations'[k].armed = Reg(h).armed
      /\ \A e \in Directions : e # d =>
           registrations'[k].waiter[e] = Reg(h).waiter[e]
      /\ \A j \in Tokens : j # k => registrations'[j] = registrations[j]
  <2> DEFINE w == [Reg(h).waiter EXCEPT ![d] = None]
  <2>1. registrations'[k] =
          [poll_mask |-> {d}, waiter |-> w, armed |-> Reg(h).armed]
        /\ \A j \in Tokens : j # k => registrations'[j] = registrations[j]
    BY <1>0, <1>1, <1>2, <1>3 DEF UringType
  <2>2. /\ Reg(h).waiter \in [Directions -> Tasks \cup {None}]
        /\ Reg(h).armed \in [Directions -> BOOLEAN]
    BY <1>3, UringFields
  <2>3. /\ w \in [Directions -> Tasks \cup {None}] /\ w[d] = None
        /\ \A e \in Directions : e # d => w[e] = Reg(h).waiter[e]
    BY <1>0, <2>2
  <2>4. {d} \in Masks
    BY <1>0 DEF Masks
  <2> HIDE DEF w
  <2>5. registrations'[k] \in IoUring!PollRegistration
    BY <2>1, <2>2, <2>3, <2>4, UringRecord
  <2>6. registrations'[k].waiter = w /\ registrations'[k].armed = Reg(h).armed
    BY <2>1
  <2> QED
    BY <2>1, <2>3, <2>5, <2>6
<1>5. UringType'
  BY <1>1, <1>2, <1>4 DEF UringType
<1>6. /\ TokensFit' /\ TasksTypeOK' /\ TryingFits'
      /\ \A g \in Handles : /\ Live(g)' <=> Live(g)
                            /\ Live(g) /\ token[g] = k => Reg(g)' = registrations'[k]
                            /\ Live(g) /\ token[g] # k => Reg(g)' = Reg(g)
  <2>1. registrations'[k] # None
    BY <1>4, Nones
  <2> QED
    BY <1>0, <1>1, <1>4, <2>1, Changes, Ends
<1>7. UringRequests'
  BY <1>1, <1>2 DEF UringRequests
<1>8. ASSUME OneDirection PROVE UringArmed'
  <2>0. UringArmed
    BY <1>2, <1>8
  <2> SUFFICES ASSUME NEW g \in Handles, NEW e \in Directions, Live(g)'
               PROVE  /\ Reg(g)'.waiter[e] # None => Reg(g)'.armed[e] = TRUE
                      /\ Reg(g)'.armed[e] = TRUE =>
                           /\ e \in Uses[g] /\ Reg(g)'.poll_mask = {e}
                           /\ OnItsWay(g, e)'
    BY DEF UringArmed
  <2>1. Live(g) /\ (OnItsWay(g, e)' <=> OnItsWay(g, e))
    BY <1>1, <1>6 DEF OnItsWay, RequestOf
  <2>2. CASE g # h
    <3>1. token[g] # k
      BY <1>0, <2>1, <2>2 DEF IInv, TokensFit, h, k
    <3> QED
      BY <1>6, <2>0, <2>1, <3>1 DEF UringArmed
  <2>3. CASE g = h
    <3>1. Reg(g)' = registrations'[k]
      BY <1>6, <2>1, <2>3 DEF h, k
    <3>2. Reg(h).armed[e] # TRUE
      <4>1. CASE e = d
        BY <1>1, <1>3, <4>1
      <4>2. CASE e # d
        <5>1. e \notin Uses[h]
          BY <1>0, <1>8, <4>2 DEF OneDirection
        <5> QED
          BY <1>0, <2>0, <5>1 DEF UringArmed
      <4> QED
        BY <4>1, <4>2
    <3>3. Reg(g)'.waiter[e] = None
      <4>1. CASE e = d
        BY <1>4, <3>1, <4>1
      <4>2. CASE e # d
        <5>1. Reg(h).waiter[e] = None
          BY <1>0, <2>0, <3>2 DEF UringArmed
        <5>2. Reg(g)'.waiter[e] = Reg(h).waiter[e]
          BY <1>4, <3>1, <4>2
        <5> QED
          BY <5>1, <5>2
      <4> QED
        BY <4>1, <4>2
    <3>4. Reg(g)'.armed = Reg(h).armed
      BY <1>4, <3>1
    <3> QED
      BY <3>2, <3>3, <3>4
  <2> QED
    BY <2>2, <2>3
<1> QED
  BY <1>5, <1>6, <1>7, <1>8, UringStep

\* What drain_cq makes of a registration.
LEMMA UringDisarms ==
  ASSUME NEW r \in IoUring!PollRegistration
  PROVE  /\ IoUring!Disarmed(r) \in IoUring!PollRegistration
         /\ IoUring!Disarmed(r).poll_mask = r.poll_mask
         /\ \A d \in Directions :
              /\ d \in r.poll_mask => /\ IoUring!Disarmed(r).waiter[d] = None
                                      /\ IoUring!Disarmed(r).armed[d] = FALSE
              /\ d \notin r.poll_mask =>
                   /\ IoUring!Disarmed(r).waiter[d] = r.waiter[d]
                   /\ IoUring!Disarmed(r).armed[d] = r.armed[d]
         /\ IoUring!WokenBy(r) \subseteq Tasks
<1> DEFINE a == [d \in Directions |-> r.armed[d] /\ d \notin r.poll_mask]
           w == [d \in Directions |-> IF d \in r.poll_mask THEN None ELSE r.waiter[d]]
<1>1. r \in [poll_mask : Masks, waiter : [Directions -> Tasks \cup {None}],
             armed : [Directions -> BOOLEAN]]
  BY Records
<1>2. IoUring!Disarmed(r) = [r EXCEPT !.armed = a, !.waiter = w]
  BY DEF IoUring!Disarmed, IoUring!Directions, Directions
<1>3. /\ a \in [Directions -> BOOLEAN]
      /\ w \in [Directions -> Tasks \cup {None}]
      /\ \A d \in Directions :
           /\ d \in r.poll_mask => w[d] = None /\ a[d] = FALSE
           /\ d \notin r.poll_mask => w[d] = r.waiter[d] /\ a[d] = r.armed[d]
  BY <1>1
<1> HIDE DEF a, w
<1>4. /\ IoUring!Disarmed(r) =
           [poll_mask |-> r.poll_mask, waiter |-> w, armed |-> a]
      /\ r.poll_mask \in Masks
  BY <1>1, <1>2
<1>5. IoUring!Disarmed(r) \in IoUring!PollRegistration
  BY <1>3, <1>4, UringRecord
<1>6. IoUring!WokenBy(r) \subseteq Tasks
  BY <1>1 DEF IoUring!WokenBy, Directions
<1> QED
  BY <1>3, <1>4, <1>5, <1>6

LEMMA UringDrains ==
  ASSUME IInv, driver = "IoUring", driver' = driver, NEW k \in Tokens,
         IoUring!drain_cq(k)
  PROVE  IInv'
<1>1. /\ cq[k] > 0 /\ cq' = [cq EXCEPT ![k] = @ - 1]
      /\ token' = token /\ trying' = trying /\ polls' = polls /\ ready' = ready
      /\ \/ registrations[k] = None /\ registrations' = registrations
             /\ woken' = woken
         \/ /\ registrations[k] # None
            /\ registrations' = [registrations EXCEPT ![k] =
                                   IoUring!Disarmed(registrations[k])]
            /\ woken' = woken \cup IoUring!WokenBy(registrations[k])
  BY DEF IoUring!drain_cq
<1>2. UringType /\ UringRequests /\ (OneDirection => UringArmed)
  BY UringTypes
<1>3. /\ cq' \in [Tokens -> Nat]
      /\ \A j \in Tokens : j # k => cq'[j] = cq[j]
  BY <1>1, <1>2 DEF UringType
<1>4. /\ registrations[k] = None => registrations'[k] = None
      /\ registrations[k] # None =>
           /\ registrations[k] \in IoUring!PollRegistration
           /\ registrations'[k] = IoUring!Disarmed(registrations[k])
           /\ registrations'[k] \in IoUring!PollRegistration
      /\ \A j \in Tokens : j # k => registrations'[j] = registrations[j]
  <2>1. registrations[k] # None => registrations[k] \in IoUring!PollRegistration
    BY <1>2 DEF UringType
  <2>2. /\ registrations[k] = None => registrations'[k] = None
        /\ registrations[k] # None =>
             registrations'[k] = IoUring!Disarmed(registrations[k])
        /\ \A j \in Tokens : j # k => registrations'[j] = registrations[j]
    <3>1. CASE registrations[k] = None
      BY <1>1, <3>1
    <3>2. CASE registrations[k] # None
      BY <1>1, <1>2, <3>2 DEF UringType
    <3> QED
      BY <3>1, <3>2
  <2>3. registrations[k] # None =>
          IoUring!Disarmed(registrations[k]) \in IoUring!PollRegistration
    BY <2>1, UringDisarms
  <2> QED
    BY <2>1, <2>2, <2>3
<1>5. woken' \subseteq Tasks
  <2>1. woken \subseteq Tasks
    BY TaskTypes DEF TasksTypeOK
  <2> QED
    BY <1>1, <1>4, <2>1, UringDisarms
<1>6. UringType'
  BY <1>1, <1>2, <1>3, <1>4 DEF UringType
<1>7. TasksTypeOK' /\ TryingFits'
  <2>1. ready' \in [Handles -> [Directions -> BOOLEAN]]
    BY <1>1, TaskTypes DEF TasksTypeOK
  <2> QED
    BY <1>1, <1>5, <2>1, Leaves
<1>8. /\ TokensFit'
      /\ \A g \in Handles : /\ Live(g)' <=> Live(g)
                            /\ Live(g) /\ token[g] = k => Reg(g)' = registrations'[k]
                            /\ Live(g) /\ token[g] # k => Reg(g)' = Reg(g)
  <2>1. registrations'[k] # None \/ registrations[k] = None
    BY <1>4, Nones
  <2> QED
    BY <1>1, <1>4, <2>1, Changes
<1>9. UringRequests'
  BY <1>1, <1>2 DEF UringRequests
<1>10. ASSUME OneDirection PROVE UringArmed'
  <2>0. UringArmed
    BY <1>2, <1>10
  <2> SUFFICES ASSUME NEW g \in Handles, NEW e \in Directions, Live(g)'
               PROVE  /\ Reg(g)'.waiter[e] # None => Reg(g)'.armed[e] = TRUE
                      /\ Reg(g)'.armed[e] = TRUE =>
                           /\ e \in Uses[g] /\ Reg(g)'.poll_mask = {e}
                           /\ OnItsWay(g, e)'
    BY DEF UringArmed
  <2>1. Live(g) /\ token[g] \in Tokens /\ token'[g] = token[g]
    BY <1>1, <1>8, LiveToken
  <2>2. CASE token[g] # k
    <3>1. OnItsWay(g, e)' <=> OnItsWay(g, e)
      BY <1>1, <1>3, <2>1, <2>2 DEF OnItsWay, RequestOf
    <3> QED
      BY <1>8, <2>0, <2>1, <2>2, <3>1 DEF UringArmed
  <2>3. CASE token[g] = k
    <3>1. registrations[k] = Reg(g) /\ Reg(g) # None
          /\ Reg(g)' = IoUring!Disarmed(Reg(g))
          /\ Reg(g) \in IoUring!PollRegistration
      BY <1>4, <1>8, <2>1, <2>3 DEF IInv, TokensFit, Reg
    <3>2. Reg(g)'.waiter[e] = None /\ Reg(g)'.armed[e] # TRUE
      <4>1. CASE e \in Reg(g).poll_mask
        <5>1. /\ IoUring!Disarmed(Reg(g)).waiter[e] = None
              /\ IoUring!Disarmed(Reg(g)).armed[e] = FALSE
          BY <3>1, <4>1, UringDisarms
        <5> QED
          BY <3>1, <5>1
      <4>2. CASE e \notin Reg(g).poll_mask
        <5>1. Reg(g).armed[e] # TRUE /\ Reg(g).waiter[e] = None
          <6>1. Reg(g).armed[e] # TRUE
            <7>1. Reg(g).armed[e] = TRUE => Reg(g).poll_mask = {e}
              BY <2>0, <2>1 DEF UringArmed
            <7> QED
              BY <4>2, <7>1
          <6>2. Reg(g).waiter[e] = None
            BY <2>0, <2>1, <6>1 DEF UringArmed
          <6> QED
            BY <6>1, <6>2
        <5>2. /\ Reg(g)'.waiter[e] = Reg(g).waiter[e]
              /\ Reg(g)'.armed[e] = Reg(g).armed[e]
          <6>1. /\ IoUring!Disarmed(Reg(g)).waiter[e] = Reg(g).waiter[e]
                /\ IoUring!Disarmed(Reg(g)).armed[e] = Reg(g).armed[e]
            BY <3>1, <4>2, UringDisarms
          <6> QED
            BY <3>1, <6>1
        <5> QED
          BY <5>1, <5>2
      <4> QED
        BY <4>1, <4>2
    <3> QED
      BY <3>2
  <2> QED
    BY <2>2, <2>3
<1> QED
  BY <1>6, <1>7, <1>8, <1>9, <1>10, UringStep

LEMMA UringCompletes ==
  ASSUME IInv, driver = "IoUring", driver' = driver, NEW r \in IoUring!Requests,
         IoUring!PollCompletes(r)
  PROVE  IInv'
<1>1. /\ polls[r] > 0 /\ polls' = [polls EXCEPT ![r] = @ - 1]
      /\ cq' = [cq EXCEPT ![r.token] = @ + 1]
      /\ registrations' = registrations /\ token' = token /\ trying' = trying
      /\ ready' = ready /\ woken' = woken
  BY DEF IoUring!PollCompletes
<1>2. /\ UringType /\ UringRequests /\ (OneDirection => UringArmed)
      /\ r.token \in Tokens /\ polls[r] \in Nat /\ \A k \in Tokens : cq[k] \in Nat
  BY UringTypes
<1>3. /\ polls' \in [IoUring!Requests -> Nat] /\ cq' \in [Tokens -> Nat]
      /\ cq'[r.token] > 0 /\ \A k \in Tokens : cq'[k] >= cq[k] /\ cq'[k] \in Nat
      /\ \A q \in IoUring!Requests : q # r => polls'[q] = polls[q]
      /\ polls'[r] < polls[r]
  BY <1>1, <1>2 DEF UringType
<1>4. UringType'
  BY <1>1, <1>2, <1>3 DEF UringType
<1>5. TasksTypeOK' /\ TryingFits' /\ TokensFit'
  <2>1. TasksTypeOK' /\ TryingFits'
    BY <1>1, TaskTypes, Leaves DEF TasksTypeOK
  <2> QED
    BY <1>1, <2>1 DEF IInv, TokensFit, Live, Reg
<1>6. UringRequests'
  <2>1. ASSUME NEW q \in IoUring!Requests, polls'[q] > 0, q.of # Gone
        PROVE  token[q.of] = q.token
    <3>1. polls[q] > 0
      BY <1>1, <1>3, <2>1
    <3> QED
      BY <1>2, <2>1, <3>1 DEF UringRequests
  <2> QED
    BY <1>1, <2>1 DEF UringRequests
<1>7. ASSUME OneDirection PROVE UringArmed'
  <2>1. UringArmed
    BY <1>2, <1>7
  <2>2. ASSUME NEW g \in Handles, NEW d \in Directions, Live(g), OnItsWay(g, d)
        PROVE  OnItsWay(g, d)'
    <3>1. token[g] \in Tokens /\ RequestOf(g, d) \in IoUring!Requests
      BY <2>2, LiveToken, UringTypes
    <3>2. RequestOf(g, d)' = RequestOf(g, d) /\ RequestOf(g, d).token = token[g]
          /\ token'[g] = token[g]
      BY <1>1 DEF RequestOf
    <3>3. CASE RequestOf(g, d) = r
      BY <1>3, <3>1, <3>2, <3>3 DEF OnItsWay
    <3>4. CASE RequestOf(g, d) # r
      <4>1. polls'[RequestOf(g, d)] = polls[RequestOf(g, d)]
        BY <1>3, <3>1, <3>4
      <4>2. cq'[token[g]] >= cq[token[g]] /\ cq'[token[g]] \in Nat
            /\ cq[token[g]] \in Nat
        BY <1>2, <1>3, <3>1
      <4> QED
        BY <2>2, <3>2, <4>1, <4>2 DEF OnItsWay
    <3> QED
      BY <3>3, <3>4
  <2>3. \A g \in Handles : (Live(g)' <=> Live(g)) /\ Reg(g)' = Reg(g)
    BY <1>1 DEF Live, Reg
  <2> QED
    BY <2>1, <2>2, <2>3 DEF UringArmed
<1> QED
  BY <1>4, <1>5, <1>6, <1>7, UringStep

LEMMA UringReadiness ==
  ASSUME IInv, driver = "IoUring", driver' = driver,
         NEW h \in Handles, NEW d \in Directions, IoUring!ReadinessChanges(h, d)
  PROVE  IInv'
<1>1. /\ ready' = [ready EXCEPT ![h][d] = ~ready[h][d]]
      /\ registrations' = registrations /\ token' = token /\ trying' = trying
      /\ polls' = polls /\ cq' = cq /\ woken' = woken
  BY DEF IoUring!ReadinessChanges
<1>2. /\ UringType /\ UringRequests /\ (OneDirection => UringArmed)
      /\ woken \subseteq Tasks
  BY UringTypes, TaskTypes DEF TasksTypeOK
<1>3. TasksTypeOK' /\ TryingFits'
  BY <1>1, <1>2, ReadyType, Leaves
<1>4. TokensFit' /\ UringType'
  BY <1>1, <1>2 DEF IInv, TokensFit, Live, Reg, UringType
<1>5. UringRequests' /\ (OneDirection => UringArmed')
  BY <1>1, <1>2 DEF UringRequests, UringArmed, Live, Reg, OnItsWay, RequestOf
<1> QED
  BY <1>3, <1>4, <1>5, UringStep

LEMMA UringStep_IInv ==
  ASSUME IInv, UringDoes(IoUring!DriverStep)
  PROVE  IInv'
<1>1. driver = "IoUring" /\ driver' = driver /\ IoUring!DriverStep
  BY DEF UringDoes
<1>2. \A h \in Handles : IoUring!Interests(h) = Interests(h)
  BY DEF IoUring!Interests, Interests, IoUring!Masks, Masks, IoUring!Directions,
         Directions
<1>3. IoUring!Directions = Directions
  BY DEF IoUring!Directions, Directions
<1> QED
  BY <1>1, <1>2, <1>3, UringRegisters, UringDeregisters, UringSubmits,
     UringRefuses, UringDrains, UringCompletes, UringReadiness
     DEF IoUring!DriverStep

-----------------------------------------------------------------------------
(* mio.                                                                    *)

LEMMA MioStep ==
  ASSUME driver = "Mio", driver' = driver, TasksTypeOK', MioType',
         TryingFits', TokensFit', MioWatches'
  PROVE  IInv'
BY TypesAreNext DEF IInv, TypeOK, DriverInv

LEMMA MioTypes ==
  ASSUME IInv, driver = "Mio"
  PROVE  /\ MioType /\ MioWatches
         /\ \A h \in Handles : Live(h) =>
              /\ Reg(h) \in Mio!Registration /\ Reg(h) # None
              /\ Reg(h).waiter \in Tasks \cup {None}
              /\ Reg(h).interest \in SUBSET Directions
<1>1. MioType /\ MioWatches
  BY TaskTypes DEF IInv, DriverInv
<1>2. ASSUME NEW h \in Handles, Live(h)
      PROVE  /\ Reg(h) \in Mio!Registration /\ Reg(h) # None
             /\ Reg(h).waiter \in Tasks \cup {None}
             /\ Reg(h).interest \in SUBSET Directions
  <2>1. token[h] \in Tokens /\ Reg(h) # None
    BY <1>2, LiveToken DEF IInv, TokensFit
  <2>2. Reg(h) \in Mio!Registration
    BY <1>1, <2>1 DEF MioType, Reg
  <2> QED
    BY <2>1, <2>2, Records DEF Masks
<1> QED
  BY <1>1, <1>2

\* A registration is no None, and its fields are its fields.
LEMMA MioRecord ==
  ASSUME NEW t \in Tasks \cup {None}, NEW m \in Masks \cup {{}}
  PROVE  /\ [waiter |-> t, interest |-> m] \in Mio!Registration
         /\ [waiter |-> t, interest |-> m] # None
<1>1. [waiter |-> t, interest |-> m] \in Mio!Registration
  BY Records
<1> QED
  BY <1>1, Nones

LEMMA MioRegisters ==
  ASSUME IInv, driver = "Mio", driver' = driver,
         NEW h \in Handles, NEW k \in Tokens, NEW interest \in Interests(h),
         Mio!register_handle(h, k, interest)
  PROVE  IInv'
<1> DEFINE v == [waiter |-> None, interest |-> interest]
<1>1. /\ trying = None /\ ~Live(h) /\ registrations[k] = None
      /\ registrations' = [registrations EXCEPT ![k] = v]
      /\ token' = [token EXCEPT ![h] = k]
      /\ \E r \in Readiness(h) : ready' = [ready EXCEPT ![h] = r]
      /\ trying' = trying /\ woken' = woken
      /\ registered' = [registered EXCEPT ![h] = interest]
      /\ event' = IF \E d \in interest : ready'[h][d]
                    THEN event \cup {h} ELSE event \ {h}
  BY DEF Mio!register_handle, Mio!Idle, Mio!Live, Live, Mio!Adopt,
         Mio!Readiness, Readiness, Mio!Directions, Directions, Mio!KernelRegister
<1>2. MioType /\ MioWatches
  BY MioTypes
<1>3. /\ interest \in Masks /\ interest \in SUBSET Directions
      /\ v \in Mio!Registration /\ v # None
      /\ v.waiter = None /\ v.interest = interest
  BY MioRecord DEF Interests, Masks
<1> HIDE DEF v
<1>4. /\ registrations'[k] = v
      /\ \A j \in Tokens : j # k => registrations'[j] = registrations[j]
      /\ registrations' \in [Tokens -> Mio!Registration \cup {None}]
  BY <1>1, <1>2, <1>3 DEF MioType
<1>5. /\ registered' \in [Handles -> SUBSET Directions]
      /\ registered'[h] = interest
      /\ \A g \in Handles : g # h => registered'[g] = registered[g]
  BY <1>1, <1>2, <1>3 DEF MioType
<1>6. /\ event' \subseteq Handles
      /\ \A g \in Handles : g # h => (g \in event' <=> g \in event)
      /\ \A d \in interest : ready'[h][d] = TRUE => h \in event'
  BY <1>1, <1>2 DEF MioType
<1>7. /\ TasksTypeOK' /\ TryingFits' /\ TokensFit'
      /\ Live(h)' /\ Reg(h)' = v
      /\ \A g \in Handles : g # h =>
           /\ (Live(g)' <=> Live(g)) /\ ready'[g] = ready[g]
           /\ Live(g) => Reg(g)' = Reg(g)
  BY <1>1, <1>3, <1>4, Registers
<1>8. MioType'
  BY <1>4, <1>5, <1>6 DEF MioType
<1>9. MioWatches'
  <2>1. \A g \in event' : Live(g)'
    BY <1>2, <1>6, <1>7 DEF MioWatches
  <2>2. ASSUME NEW g \in Handles, Live(g)'
        PROVE  /\ Reg(g)'.interest # {} =>
                    /\ registered'[g] = Reg(g)'.interest
                    /\ \A d \in registered'[g] : ready'[g][d] = TRUE => g \in event'
               /\ Reg(g)'.waiter # None => \E d \in Uses[g] : Reg(g)'.interest = {d}
    <3>1. CASE g = h
      BY <1>3, <1>5, <1>6, <1>7, <3>1
    <3>2. CASE g # h
      <4>1. /\ Live(g) /\ Reg(g)' = Reg(g) /\ registered'[g] = registered[g]
            /\ ready'[g] = ready[g] /\ (g \in event' <=> g \in event)
        BY <1>5, <1>6, <1>7, <2>2, <3>2
      <4> QED
        BY <1>2, <4>1 DEF MioWatches
    <3> QED
      BY <3>1, <3>2
  <2> QED
    BY <2>1, <2>2 DEF MioWatches
<1> QED
  BY <1>7, <1>8, <1>9, MioStep

LEMMA MioDeregisters ==
  ASSUME IInv, driver = "Mio", driver' = driver, NEW h \in Handles,
         Mio!deregister_handle(h)
  PROVE  IInv'
<1>1. /\ trying = None /\ Live(h)
      /\ \/ registrations' = [registrations EXCEPT ![token[h]] = None]
         \/ registrations' = registrations
      /\ token' = [token EXCEPT ![h] = None]
      /\ registered' = [registered EXCEPT ![h] = {}]
      /\ event' = event \ {h}
      /\ trying' = trying /\ ready' = ready /\ woken' = woken
  BY DEF Mio!deregister_handle, Mio!Idle, Mio!Live, Live
<1>2. MioType /\ MioWatches
  BY MioTypes
<1>3. \A j \in Tokens : j # token[h] => registrations'[j] = registrations[j]
  BY <1>1, <1>2 DEF MioType
<1>4. /\ TasksTypeOK' /\ TryingFits' /\ TokensFit' /\ ~Live(h)'
      /\ \A g \in Handles : g # h =>
           (Live(g)' <=> Live(g)) /\ (Live(g) => Reg(g)' = Reg(g))
  BY <1>1, <1>3, Deregisters
<1>5. MioType' /\ \A g \in Handles : g # h => registered'[g] = registered[g]
  BY <1>1, <1>2 DEF MioType
<1>6. MioWatches'
  <2>1. \A g \in event' : Live(g)'
    BY <1>1, <1>2, <1>4 DEF MioWatches, MioType
  <2>2. ASSUME NEW g \in Handles, Live(g)'
        PROVE  /\ Reg(g)'.interest # {} =>
                    /\ registered'[g] = Reg(g)'.interest
                    /\ \A d \in registered'[g] : ready'[g][d] = TRUE => g \in event'
               /\ Reg(g)'.waiter # None => \E d \in Uses[g] : Reg(g)'.interest = {d}
    <3>1. /\ Live(g) /\ Reg(g)' = Reg(g) /\ registered'[g] = registered[g]
          /\ ready'[g] = ready[g] /\ (g \in event' <=> g \in event)
      BY <1>1, <1>4, <1>5, <2>2
    <3> QED
      BY <1>2, <3>1 DEF MioWatches
  <2> QED
    BY <2>1, <2>2 DEF MioWatches
<1> QED
  BY <1>4, <1>5, <1>6, MioStep

LEMMA MioSubmits ==
  ASSUME IInv, driver = "Mio", driver' = driver, Mio!submit_poll
  PROVE  IInv'
<1> DEFINE h == trying.handle
           k == token[trying.handle]
           d == trying.direction
           v == [waiter |-> trying.task, interest |-> {trying.direction}]
<1>0. /\ trying # None /\ h \in Handles /\ k \in Tokens /\ d \in Directions
      /\ trying.task \in Tasks /\ d \in Uses[h] /\ Live(h)
  BY TryingType DEF Mio!submit_poll
<1>1. /\ registrations' = [registrations EXCEPT ![k] = v]
      /\ trying' = None /\ token' = token /\ ready' = ready /\ woken' = woken
      /\ \/ registrations[k].interest = {d} /\ registered' = registered
              /\ event' = event
         \/ /\ registered' = [registered EXCEPT ![h] = {d}]
            /\ event' = IF \E e \in {d} : ready'[h][e]
                          THEN event \cup {h} ELSE event \ {h}
  BY DEF Mio!submit_poll, Mio!KernelRegister
<1>2. MioType /\ MioWatches
  BY MioTypes
<1>3. registrations[k] = Reg(h) /\ v \in Mio!Registration /\ v # None
      /\ v.waiter = trying.task /\ v.interest = {d}
  BY <1>0, MioRecord DEF Reg, Masks
<1> HIDE DEF h, k, d, v
<1>4. /\ registrations'[k] = v
      /\ \A j \in Tokens : j # k => registrations'[j] = registrations[j]
      /\ registrations' \in [Tokens -> Mio!Registration \cup {None}]
  BY <1>0, <1>1, <1>2, <1>3 DEF MioType
<1>5. /\ registered'[h] = {d} /\ registered' \in [Handles -> SUBSET Directions]
      /\ event' \subseteq Handles
      /\ ready[h][d] = TRUE => h \in event'
      /\ \A g \in Handles : g # h =>
           registered'[g] = registered[g] /\ (g \in event' <=> g \in event)
  <2>1. CASE registrations[k].interest = {d} /\ registered' = registered
               /\ event' = event
    BY <1>0, <1>2, <1>3, <2>1 DEF MioWatches, MioType
  <2>2. CASE /\ registered' = [registered EXCEPT ![h] = {d}]
             /\ event' = IF \E e \in {d} : ready'[h][e]
                           THEN event \cup {h} ELSE event \ {h}
    BY <1>0, <1>1, <1>2, <2>2 DEF MioType
  <2> QED
    BY <1>1, <2>1, <2>2
<1>6. /\ TokensFit' /\ TasksTypeOK' /\ TryingFits'
      /\ \A g \in Handles : /\ Live(g)' <=> Live(g)
                            /\ Live(g) /\ token[g] = k => Reg(g)' = registrations'[k]
                            /\ Live(g) /\ token[g] # k => Reg(g)' = Reg(g)
  BY <1>0, <1>1, <1>3, <1>4, Changes, Ends
<1>7. MioType'
  BY <1>4, <1>5 DEF MioType
<1>8. MioWatches'
  <2>1. \A g \in event' : Live(g)'
    BY <1>0, <1>2, <1>5, <1>6 DEF MioWatches
  <2>2. ASSUME NEW g \in Handles, Live(g)'
        PROVE  /\ Reg(g)'.interest # {} =>
                    /\ registered'[g] = Reg(g)'.interest
                    /\ \A e \in registered'[g] : ready'[g][e] = TRUE => g \in event'
               /\ Reg(g)'.waiter # None => \E e \in Uses[g] : Reg(g)'.interest = {e}
    <3>1. CASE g = h
      <4>1. Reg(g)' = v
        BY <1>0, <1>4, <1>6, <3>1 DEF h, k
      <4> QED
        BY <1>0, <1>1, <1>3, <1>5, <3>1, <4>1
    <3>2. CASE g # h
      <4>1. token[g] # k /\ Live(g)
        BY <1>0, <1>6, <2>2, <3>2 DEF IInv, TokensFit, h, k
      <4>2. /\ Reg(g)' = Reg(g) /\ registered'[g] = registered[g]
            /\ ready'[g] = ready[g] /\ (g \in event' <=> g \in event)
        BY <1>1, <1>5, <1>6, <3>2, <4>1
      <4> QED
        BY <1>2, <4>1, <4>2 DEF MioWatches
    <3> QED
      BY <3>1, <3>2
  <2> QED
    BY <2>1, <2>2 DEF MioWatches
<1> QED
  BY <1>6, <1>7, <1>8, MioStep

LEMMA MioRefuses ==
  ASSUME IInv, driver = "Mio", driver' = driver, Mio!submit_poll_failed
  PROVE  IInv'
<1>1. /\ trying' = None /\ registrations' = registrations /\ token' = token
      /\ registered' = registered /\ event' = event /\ ready' = ready
      /\ woken' = woken
  BY DEF Mio!submit_poll_failed
<1>2. MioType /\ MioWatches
  BY MioTypes
<1>3. TasksTypeOK' /\ TryingFits'
  BY <1>1, Ends
<1>4. TokensFit' /\ MioType' /\ MioWatches'
  BY <1>1, <1>2 DEF IInv, TokensFit, Live, Reg, MioType, MioWatches
<1> QED
  BY <1>3, <1>4, MioStep

LEMMA MioWaits ==
  ASSUME IInv, driver = "Mio", driver' = driver, NEW h \in Handles,
         Mio!wait_timeout(h)
  PROVE  IInv'
<1> DEFINE v == [waiter |-> None, interest |-> {}]
           k == token[h]
           w == {registrations[token[h]].waiter} \ {None}
<1>1. /\ h \in event /\ event' = event \ {h} /\ token' = token
      /\ trying' = trying /\ registered' = registered /\ ready' = ready
      /\ \/ /\ registrations' = [registrations EXCEPT ![k] = v]
            /\ woken' = woken \cup w
         \/ /\ ~\E d \in registered[h] : ready[h][d]
            /\ registrations' = registrations /\ woken' = woken
  BY DEF Mio!wait_timeout, Mio!event_handled, Mio!ReadyIn
<1>2. MioType /\ MioWatches
  BY MioTypes
<1>3. Live(h) /\ k \in Tokens
  BY <1>1, <1>2, LiveToken DEF MioWatches
<1>4. v \in Mio!Registration /\ v # None /\ v.waiter = None /\ v.interest = {}
  BY MioRecord
<1>5. woken' \subseteq Tasks
  <2>1. woken \subseteq Tasks /\ w \subseteq Tasks
    BY <1>3, MioTypes, TaskTypes DEF TasksTypeOK, Reg
  <2> QED
    BY <1>1, <2>1
<1> HIDE DEF v, k, w
<1>6. /\ \/ registrations'[k] = v
         \/ /\ ~\E d \in registered[h] : ready[h][d]
            /\ registrations'[k] = registrations[k]
      /\ \A j \in Tokens : j # k => registrations'[j] = registrations[j]
      /\ registrations' \in [Tokens -> Mio!Registration \cup {None}]
  BY <1>1, <1>2, <1>3, <1>4 DEF MioType
<1>7. MioType'
  BY <1>1, <1>2, <1>6 DEF MioType
<1>8. TasksTypeOK' /\ TryingFits'
  BY <1>1, <1>5, TaskTypes, Leaves DEF TasksTypeOK
<1>9. /\ TokensFit'
      /\ \A g \in Handles : /\ Live(g)' <=> Live(g)
                            /\ Live(g) /\ token[g] = k => Reg(g)' = registrations'[k]
                            /\ Live(g) /\ token[g] # k => Reg(g)' = Reg(g)
  <2>1. registrations'[k] # None
    BY <1>3, <1>4, <1>6, MioTypes DEF Reg, k
  <2> QED
    BY <1>1, <1>3, <1>6, <2>1, Changes
<1>10. MioWatches'
  <2>1. \A g \in event' : Live(g)'
    BY <1>1, <1>2, <1>9 DEF MioWatches, MioType
  <2>2. ASSUME NEW g \in Handles, Live(g)'
        PROVE  /\ Reg(g)'.interest # {} =>
                    /\ registered'[g] = Reg(g)'.interest
                    /\ \A e \in registered'[g] : ready'[g][e] = TRUE => g \in event'
               /\ Reg(g)'.waiter # None => \E e \in Uses[g] : Reg(g)'.interest = {e}
    <3>1. CASE g = h
      <4>1. Reg(g)' = registrations'[k] /\ registrations[k] = Reg(g)
        BY <1>3, <1>9, <3>1 DEF k, Reg
      <4>2. CASE registrations'[k] = v
        BY <1>4, <4>1, <4>2
      <4>3. CASE /\ ~\E d \in registered[h] : ready[h][d]
                 /\ registrations'[k] = registrations[k]
        BY <1>1, <1>2, <1>3, <3>1, <4>1, <4>3 DEF MioWatches
      <4> QED
        BY <1>6, <4>2, <4>3
    <3>2. CASE g # h
      <4>1. token[g] # k /\ Live(g)
        BY <1>3, <1>9, <2>2, <3>2 DEF IInv, TokensFit, k
      <4>2. /\ Reg(g)' = Reg(g) /\ registered'[g] = registered[g]
            /\ ready'[g] = ready[g] /\ (g \in event' <=> g \in event)
        BY <1>1, <1>9, <3>2, <4>1
      <4> QED
        BY <1>2, <4>1, <4>2 DEF MioWatches
    <3> QED
      BY <3>1, <3>2
  <2> QED
    BY <2>1, <2>2 DEF MioWatches
<1> QED
  BY <1>7, <1>8, <1>9, <1>10, MioStep

LEMMA MioReadiness ==
  ASSUME IInv, driver = "Mio", driver' = driver,
         NEW h \in Handles, NEW d \in Directions, Mio!ReadinessChanges(h, d)
  PROVE  IInv'
<1>1. /\ ready' = [ready EXCEPT ![h][d] = ~ready[h][d]] /\ Live(h)
      /\ event' = IF ready'[h][d] /\ d \in registered[h]
                    THEN event \cup {h} ELSE event
      /\ registrations' = registrations /\ token' = token /\ trying' = trying
      /\ registered' = registered /\ woken' = woken
  BY DEF Mio!ReadinessChanges, Mio!Live, Live
<1>2. MioType /\ MioWatches /\ woken \subseteq Tasks
  BY MioTypes, TaskTypes DEF TasksTypeOK
<1>3. TasksTypeOK' /\ TryingFits'
  BY <1>1, <1>2, ReadyType, Leaves
<1>4. TokensFit' /\ MioType'
  BY <1>1, <1>2 DEF IInv, TokensFit, Live, Reg, MioType
<1>5. MioWatches'
  <2>1. \A g \in Handles : (Live(g)' <=> Live(g)) /\ Reg(g)' = Reg(g)
    BY <1>1 DEF Live, Reg
  <2>2. \A g \in event' : Live(g)'
    BY <1>1, <1>2, <2>1 DEF MioWatches, MioType
  <2>3. ASSUME NEW g \in Handles, NEW e \in registered[g],
               \A c \in registered[g] : ready[g][c] = TRUE => g \in event,
               ready'[g][e] = TRUE
        PROVE  g \in event'
    <3>1. e \in Directions
      BY <1>2 DEF MioType
    <3>2. CASE g = h /\ e = d
      BY <1>1, <2>3, <3>2
    <3>3. CASE ~(g = h /\ e = d)
      BY <1>1, <2>3, <3>1, <3>3, ReadyType
    <3> QED
      BY <3>2, <3>3
  <2>4. ASSUME NEW g \in Handles, Live(g)'
        PROVE  /\ Reg(g)'.interest # {} =>
                    /\ registered'[g] = Reg(g)'.interest
                    /\ \A e \in registered'[g] : ready'[g][e] = TRUE => g \in event'
               /\ Reg(g)'.waiter # None => \E e \in Uses[g] : Reg(g)'.interest = {e}
    BY <1>1, <1>2, <2>1, <2>3, <2>4 DEF MioWatches
  <2> QED
    BY <2>2, <2>4 DEF MioWatches
<1> QED
  BY <1>3, <1>4, <1>5, MioStep

LEMMA MioStep_IInv ==
  ASSUME IInv, MioDoes(Mio!DriverStep)
  PROVE  IInv'
<1>1. driver = "Mio" /\ driver' = driver /\ Mio!DriverStep
  BY DEF MioDoes
<1>2. \A h \in Handles : Mio!Interests(h) = Interests(h)
  BY DEF Mio!Interests, Interests, Mio!Masks, Masks, Mio!Directions, Directions
<1>3. Mio!Directions = Directions
  BY DEF Mio!Directions, Directions
<1> QED
  BY <1>1, <1>2, <1>3, MioRegisters, MioDeregisters, MioSubmits, MioRefuses,
     MioWaits, MioReadiness DEF Mio!DriverStep

-----------------------------------------------------------------------------
(* IOCP.                                                                   *)

LEMMA IocpStep ==
  ASSUME driver = "Iocp", driver' = driver, TasksTypeOK', IocpType',
         TryingFits', TokensFit', IocpPolls'
  PROVE  IInv'
BY TypesAreNext DEF IInv, TypeOK, DriverInv

LEMMA IocpTypes ==
  ASSUME IInv, driver = "Iocp"
  PROVE  /\ IocpType /\ IocpPolls
         /\ \A h \in Handles : Live(h) =>
              /\ Reg(h) \in Iocp!PollRegistration /\ Reg(h) # None
              /\ Reg(h).waiter \in Tasks \cup {None}
              /\ Reg(h).poll_token \in PollTokens \cup {None}
<1>1. IocpType /\ IocpPolls
  BY TaskTypes DEF IInv, DriverInv
<1>2. ASSUME NEW h \in Handles, Live(h)
      PROVE  /\ Reg(h) \in Iocp!PollRegistration /\ Reg(h) # None
             /\ Reg(h).waiter \in Tasks \cup {None}
             /\ Reg(h).poll_token \in PollTokens \cup {None}
  <2>1. token[h] \in Tokens /\ Reg(h) # None
    BY <1>2, LiveToken DEF IInv, TokensFit
  <2>2. Reg(h) \in Iocp!PollRegistration
    BY <1>1, <2>1 DEF IocpType, Reg
  <2> QED
    BY <2>1, <2>2, Records
<1> QED
  BY <1>1, <1>2

LEMMA IocpRecord ==
  ASSUME NEW t \in Tasks \cup {None}, NEW p \in PollTokens \cup {None}
  PROVE  /\ [waiter |-> t, poll_token |-> p] \in Iocp!PollRegistration
         /\ [waiter |-> t, poll_token |-> p] # None
<1>1. [waiter |-> t, poll_token |-> p] \in Iocp!PollRegistration
  BY Records
<1> QED
  BY <1>1, Nones

\* A registration that keeps its poll keeps what IocpPolls says of it.
PollFits(h) ==
  Reg(h).poll_token # None =>
    /\ poll_ops[Reg(h).poll_token] # None
    /\ poll_ops[Reg(h).poll_token].of = h
    /\ poll_ops[Reg(h).poll_token].registration_token = token[h]
    /\ \E d \in Uses[h] : poll_ops[Reg(h).poll_token].events = {d}

LEMMA PollsFit ==
  /\ IocpPolls <=> /\ \A p \in posted : poll_ops[p] # None
                   /\ \A h \in Handles : Live(h) => PollFits(h)
  /\ IocpPolls' <=> /\ \A p \in posted' : poll_ops'[p] # None
                    /\ \A h \in Handles : Live(h)' => PollFits(h)'
BY DEF IocpPolls, PollFits

LEMMA PollKept ==
  ASSUME NEW h \in Handles, PollFits(h), token'[h] = token[h],
         Reg(h)'.poll_token = Reg(h).poll_token,
         Reg(h).poll_token # None =>
           poll_ops'[Reg(h).poll_token] = poll_ops[Reg(h).poll_token]
  PROVE  PollFits(h)'
BY DEF PollFits

LEMMA IocpRegisters ==
  ASSUME IInv, driver = "Iocp", driver' = driver,
         NEW h \in Handles, NEW k \in Tokens,
         Iocp!register_handle_with_mode(h, k)
  PROVE  IInv'
<1> DEFINE v == [waiter |-> None, poll_token |-> None]
<1>1. /\ trying = None /\ ~Live(h) /\ registrations[k] = None
      /\ registrations' = [registrations EXCEPT ![k] = v]
      /\ token' = [token EXCEPT ![h] = k]
      /\ \E r \in Readiness(h) : ready' = [ready EXCEPT ![h] = r]
      /\ trying' = trying /\ woken' = woken
      /\ poll_ops' = poll_ops /\ posted' = posted
  BY DEF Iocp!register_handle_with_mode, Iocp!Idle, Iocp!Live, Live, Iocp!Adopt,
         Iocp!Readiness, Readiness, Iocp!Directions, Directions
<1>2. IocpType /\ IocpPolls
  BY IocpTypes
<1>3. /\ v \in Iocp!PollRegistration /\ v # None /\ v.poll_token = None
  BY IocpRecord
<1> HIDE DEF v
<1>4. /\ registrations'[k] = v
      /\ \A j \in Tokens : j # k => registrations'[j] = registrations[j]
      /\ IocpType'
  BY <1>1, <1>2, <1>3 DEF IocpType
<1>5. /\ TasksTypeOK' /\ TryingFits' /\ TokensFit'
      /\ Live(h)' /\ Reg(h)' = v
      /\ \A g \in Handles : g # h =>
           /\ (Live(g)' <=> Live(g)) /\ token'[g] = token[g]
           /\ Live(g) => Reg(g)' = Reg(g)
  BY <1>1, <1>3, <1>4, Registers
<1>6. ASSUME NEW g \in Handles, Live(g)'
      PROVE  PollFits(g)'
  <2>1. CASE g = h
    BY <1>3, <1>5, <2>1 DEF PollFits
  <2>2. CASE g # h
    BY <1>1, <1>2, <1>5, <1>6, <2>2, PollsFit, PollKept
  <2> QED
    BY <2>1, <2>2
<1>7. IocpPolls'
  BY <1>1, <1>2, <1>6, PollsFit
<1> QED
  BY <1>4, <1>5, <1>7, IocpStep

\* Two registrations have two polls.
LEMMA PollsDiffer ==
  ASSUME IInv, driver = "Iocp", NEW g \in Handles, NEW h \in Handles, g # h,
         Live(g), Live(h), Reg(g).poll_token # None
  PROVE  Reg(g).poll_token # Reg(h).poll_token
BY IocpTypes DEF IocpPolls

LEMMA IocpDeregisters ==
  ASSUME IInv, driver = "Iocp", driver' = driver, NEW h \in Handles,
         Iocp!deregister_handle(h)
  PROVE  IInv'
<1> DEFINE p == Reg(h).poll_token
<1>1. /\ trying = None /\ Live(h)
      /\ registrations' = [registrations EXCEPT ![token[h]] = None]
      /\ token' = [token EXCEPT ![h] = None]
      /\ poll_ops' = IF p = None THEN poll_ops
                     ELSE [poll_ops EXCEPT ![p].of = Gone, ![p].events = {}]
      /\ posted' = posted
      /\ trying' = trying /\ ready' = ready /\ woken' = woken
  BY DEF Iocp!deregister_handle, Iocp!Idle, Iocp!Live, Live, Reg,
         Iocp!cancel_poll_operation
<1>2. IocpType /\ IocpPolls /\ p \in PollTokens \cup {None}
  BY <1>1, IocpTypes
<1>3. token[h] \in Tokens
      /\ \A j \in Tokens : j # token[h] => registrations'[j] = registrations[j]
  BY <1>1, <1>2, LiveToken DEF IocpType
<1>4. /\ TasksTypeOK' /\ TryingFits' /\ TokensFit' /\ ~Live(h)'
      /\ \A g \in Handles : g # h =>
           /\ (Live(g)' <=> Live(g)) /\ token'[g] = token[g]
           /\ Live(g) => Reg(g)' = Reg(g)
  BY <1>1, <1>3, Deregisters
<1>5. /\ poll_ops' \in [PollTokens -> Iocp!PollOp \cup {None}]
      /\ \A q \in PollTokens : /\ q # p => poll_ops'[q] = poll_ops[q]
                               /\ poll_ops[q] # None => poll_ops'[q] # None
  <2>1. CASE p = None
    BY <1>1, <1>2, <2>1 DEF IocpType
  <2>2. CASE p # None
    <3> DEFINE o == [poll_ops[p] EXCEPT !.of = Gone, !.events = {}]
    <3>1. p \in PollTokens /\ poll_ops[p] \in Iocp!PollOp
      BY <1>1, <1>2, <2>2 DEF IocpPolls, IocpType
    <3>2. o \in Iocp!PollOp /\ o # None
      <4>1. o \in Iocp!PollOp
        BY <3>1, Records
      <4> QED
        BY <4>1, Nones
    <3>3. poll_ops' = [poll_ops EXCEPT ![p] = o]
      BY <1>1, <1>2, <2>2, <3>1 DEF IocpType
    <3> HIDE DEF p, o
    <3> QED
      BY <1>2, <3>1, <3>2, <3>3 DEF IocpType
  <2> QED
    BY <2>1, <2>2
<1>6. IocpType'
  BY <1>1, <1>2, <1>5 DEF IocpType
<1>7. ASSUME NEW g \in Handles, Live(g)'
      PROVE  PollFits(g)'
  <2>1. /\ g # h /\ Live(g) /\ Reg(g)' = Reg(g) /\ token'[g] = token[g]
        /\ PollFits(g)
    BY <1>2, <1>4, <1>7, PollsFit
  <2>2. Reg(g).poll_token # None =>
          poll_ops'[Reg(g).poll_token] = poll_ops[Reg(g).poll_token]
    BY <1>1, <1>5, <2>1, IocpTypes, PollsDiffer
  <2> QED
    BY <2>1, <2>2, PollKept
<1>8. IocpPolls'
  <2>1. \A q \in posted' : poll_ops'[q] # None
    BY <1>1, <1>2, <1>5 DEF IocpPolls, IocpType
  <2> QED
    BY <1>7, <2>1, PollsFit
<1> QED
  BY <1>4, <1>6, <1>8, IocpStep

LEMMA IocpSubmits ==
  ASSUME IInv, driver = "Iocp", driver' = driver, Iocp!submit_poll
  PROVE  IInv'
<1> DEFINE h == trying.handle
           k == token[trying.handle]
           d == trying.direction
<1>0. /\ trying # None /\ h \in Handles /\ k \in Tokens /\ d \in Directions
      /\ trying.task \in Tasks /\ d \in Uses[h] /\ Live(h)
  BY TryingType DEF Iocp!submit_poll
<1>1. /\ trying' = None /\ token' = token /\ ready' = ready /\ woken' = woken
      /\ posted' = posted
      /\ \E p \in PollTokens : Iocp!arm_poll_operation(k, p, d, h)
  BY DEF Iocp!submit_poll
<1>2. /\ IocpType /\ IocpPolls /\ registrations[k] = Reg(h)
      /\ Reg(h) \in Iocp!PollRegistration
      /\ Reg(h).poll_token \in PollTokens \cup {None}
  BY <1>0, IocpTypes DEF Reg
<1> HIDE DEF h, k, d
<1>3. PICK p \in PollTokens : Iocp!arm_poll_operation(k, p, d, h)
  BY <1>1
<1> DEFINE q == IF Reg(h).poll_token # None THEN Reg(h).poll_token ELSE p
           v == [waiter |-> trying.task, poll_token |-> q]
           o == [registration_token |-> k, events |-> {d}, of |-> h]
<1>4. /\ v \in Iocp!PollRegistration /\ v # None /\ v.poll_token = q
      /\ q \in PollTokens /\ q # None
  <2>1. q \in PollTokens /\ q # None
    BY <1>2, Nones
  <2> HIDE DEF q
  <2> QED
    BY <1>0, <2>1, IocpRecord
<1>5. /\ o \in Iocp!PollOp /\ o # None
      /\ o.registration_token = k /\ o.events = {d} /\ o.of = h
  <2>1. o \in Iocp!PollOp
    BY <1>0, Records
  <2> QED
    BY <2>1, Nones
<1>6. registrations' = [registrations EXCEPT ![k] = v]
  <2>1. CASE Reg(h).poll_token # None
    <3>1. registrations' = [registrations EXCEPT ![k].waiter = trying.task]
      BY <1>2, <1>3, <2>1 DEF Iocp!arm_poll_operation
    <3>2. [Reg(h) EXCEPT !.waiter = trying.task] = v
      BY <1>2, <2>1, Records
    <3> QED
      BY <1>0, <1>2, <3>1, <3>2 DEF IocpType
  <2>2. CASE Reg(h).poll_token = None
    BY <1>2, <1>3, <2>2 DEF Iocp!arm_poll_operation
  <2> QED
    BY <2>1, <2>2
<1>7. \/ Reg(h).poll_token # None /\ poll_ops' = poll_ops
      \/ /\ Reg(h).poll_token = None /\ q = p /\ poll_ops[p] = None
         /\ poll_ops' = [poll_ops EXCEPT ![p] = o]
  BY <1>2, <1>3 DEF Iocp!arm_poll_operation
<1> HIDE DEF v, o
<1>8. /\ registrations'[k] = v
      /\ \A j \in Tokens : j # k => registrations'[j] = registrations[j]
      /\ registrations' \in [Tokens -> Iocp!PollRegistration \cup {None}]
  BY <1>0, <1>2, <1>4, <1>6 DEF IocpType
<1>9. /\ poll_ops' \in [PollTokens -> Iocp!PollOp \cup {None}]
      /\ \A x \in PollTokens : poll_ops[x] # None => poll_ops'[x] = poll_ops[x]
      /\ Reg(h).poll_token = None => q = p /\ poll_ops'[p] = o
  BY <1>2, <1>5, <1>7 DEF IocpType
<1>10. IocpType'
  BY <1>1, <1>2, <1>8, <1>9 DEF IocpType
<1>11. /\ TokensFit' /\ TasksTypeOK' /\ TryingFits'
       /\ \A g \in Handles : /\ Live(g)' <=> Live(g)
                             /\ Live(g) /\ token[g] = k => Reg(g)' = registrations'[k]
                             /\ Live(g) /\ token[g] # k => Reg(g)' = Reg(g)
  BY <1>0, <1>1, <1>4, <1>8, Changes, Ends
<1>12. ASSUME NEW g \in Handles, Live(g)'
       PROVE  PollFits(g)'
  <2>1. Live(g) /\ PollFits(g) /\ token'[g] = token[g]
        /\ (Reg(g).poll_token # None =>
              poll_ops'[Reg(g).poll_token] = poll_ops[Reg(g).poll_token])
    <3>1. Live(g) /\ PollFits(g) /\ token'[g] = token[g]
      BY <1>1, <1>2, <1>11, <1>12, PollsFit
    <3>2. Reg(g).poll_token \in PollTokens \cup {None}
      BY <3>1, IocpTypes
    <3> QED
      BY <1>9, <3>1, <3>2 DEF PollFits
  <2>2. CASE g # h
    <3>1. token[g] # k
      BY <1>0, <2>1, <2>2 DEF IInv, TokensFit, h, k
    <3> QED
      BY <1>11, <2>1, <3>1, PollKept
  <2>3. CASE g = h /\ Reg(h).poll_token # None
    <3>1. Reg(g)' = v /\ q = Reg(g).poll_token
      BY <1>8, <1>11, <2>1, <2>3 DEF h, k
    <3> QED
      BY <1>4, <2>1, <3>1, PollKept
  <2>4. CASE g = h /\ Reg(h).poll_token = None
    <3>1. Reg(g)'.poll_token = p /\ poll_ops'[p] = o /\ token'[g] = k
      BY <1>1, <1>4, <1>8, <1>9, <1>11, <2>1, <2>4 DEF h, k
    <3> QED
      BY <1>0, <1>5, <2>4, <3>1 DEF PollFits
  <2> QED
    BY <2>2, <2>3, <2>4
<1>13. IocpPolls'
  <2>1. \A x \in posted' : poll_ops'[x] # None
    BY <1>1, <1>2, <1>9 DEF IocpPolls, IocpType
  <2> QED
    BY <1>12, <2>1, PollsFit
<1> QED
  BY <1>10, <1>11, <1>13, IocpStep

LEMMA IocpRefuses ==
  ASSUME IInv, driver = "Iocp", driver' = driver, Iocp!submit_poll_failed
  PROVE  IInv'
<1> DEFINE h == trying.handle
           k == token[trying.handle]
           v == [waiter |-> trying.task, poll_token |-> None]
<1>0. /\ trying # None /\ h \in Handles /\ k \in Tokens
      /\ trying.task \in Tasks /\ Live(h)
  BY TryingType DEF Iocp!submit_poll_failed
<1>1. /\ trying' = None /\ token' = token /\ ready' = ready /\ woken' = woken
      /\ posted' = posted /\ poll_ops' = poll_ops
      /\ registrations[k].poll_token = None
      /\ registrations' = [registrations EXCEPT ![k].waiter = trying.task]
  BY DEF Iocp!submit_poll_failed
<1>2. /\ IocpType /\ IocpPolls /\ registrations[k] = Reg(h)
      /\ Reg(h) \in Iocp!PollRegistration
  BY <1>0, IocpTypes DEF Reg
<1>3. v \in Iocp!PollRegistration /\ v # None /\ v.poll_token = None
  BY <1>0, IocpRecord
<1> HIDE DEF h, k
<1>4. registrations' = [registrations EXCEPT ![k] = v]
  <2>1. [Reg(h) EXCEPT !.waiter = trying.task] = v
    BY <1>1, <1>2, Records
  <2> QED
    BY <1>0, <1>1, <1>2, <2>1 DEF IocpType
<1> HIDE DEF v
<1>5. /\ registrations'[k] = v
      /\ \A j \in Tokens : j # k => registrations'[j] = registrations[j]
      /\ IocpType'
  BY <1>0, <1>1, <1>2, <1>3, <1>4 DEF IocpType
<1>6. /\ TokensFit' /\ TasksTypeOK' /\ TryingFits'
      /\ \A g \in Handles : /\ Live(g)' <=> Live(g)
                            /\ Live(g) /\ token[g] = k => Reg(g)' = registrations'[k]
                            /\ Live(g) /\ token[g] # k => Reg(g)' = Reg(g)
  BY <1>0, <1>1, <1>3, <1>5, Changes, Ends
<1>7. ASSUME NEW g \in Handles, Live(g)'
      PROVE  PollFits(g)'
  <2>1. CASE token[g] = k
    BY <1>3, <1>5, <1>6, <1>7, <2>1 DEF PollFits
  <2>2. CASE token[g] # k
    BY <1>1, <1>2, <1>6, <1>7, <2>2, PollsFit, PollKept
  <2> QED
    BY <2>1, <2>2
<1>8. IocpPolls'
  BY <1>1, <1>2, <1>7, PollsFit
<1> QED
  BY <1>5, <1>6, <1>8, IocpStep

LEMMA IocpProcesses ==
  ASSUME IInv, driver = "Iocp", driver' = driver, NEW p \in PollTokens,
         Iocp!process_entries(p)
  PROVE  IInv'
<1> DEFINE k == poll_ops[p].registration_token
           r == registrations[k]
           q == IF r.poll_token = p THEN None ELSE r.poll_token
           v == [waiter |-> None, poll_token |-> q]
<1>1. /\ p \in posted /\ posted' = posted \ {p}
      /\ poll_ops' = [poll_ops EXCEPT ![p] = None]
      /\ token' = token /\ trying' = trying /\ ready' = ready
      /\ r = None => registrations' = registrations /\ woken' = woken
      /\ r # None =>
           /\ registrations' = [registrations EXCEPT ![k] =
                [waiter |-> None,
                 poll_token |-> IF r.poll_token = p THEN None ELSE r.poll_token]]
           /\ woken' = woken \cup ({r.waiter} \ {None})
  BY DEF Iocp!process_entries
<1>2. IocpType /\ IocpPolls /\ woken \subseteq Tasks
  BY IocpTypes, TaskTypes DEF TasksTypeOK
<1>3. k \in Tokens
  <2>1. poll_ops[p] \in Iocp!PollOp
    BY <1>1, <1>2 DEF IocpPolls, IocpType
  <2> QED
    BY <2>1, Records
<1>4. r # None =>
        /\ r \in Iocp!PollRegistration /\ r.waiter \in Tasks \cup {None}
        /\ r.poll_token \in PollTokens \cup {None}
        /\ r = [waiter |-> r.waiter, poll_token |-> r.poll_token]
  <2>1. r # None => r \in Iocp!PollRegistration
    BY <1>2, <1>3 DEF IocpType
  <2> HIDE DEF r
  <2> QED
    BY <2>1, Records
<1>5. r # None => /\ v \in Iocp!PollRegistration /\ v # None /\ v.poll_token = q
                  /\ registrations' = [registrations EXCEPT ![k] = v]
  <2>1. r # None => q \in PollTokens \cup {None}
    BY <1>4
  <2>2. r # None => registrations' = [registrations EXCEPT ![k] = v]
    BY <1>1
  <2> HIDE DEF q
  <2>3. r # None => v \in Iocp!PollRegistration /\ v # None /\ v.poll_token = q
    BY <2>1, IocpRecord
  <2> QED
    BY <2>2, <2>3
<1> HIDE DEF v
<1>6. /\ r # None => registrations'[k] = v
      /\ r = None => registrations'[k] = None
      /\ \A j \in Tokens : j # k => registrations'[j] = registrations[j]
      /\ registrations' \in [Tokens -> Iocp!PollRegistration \cup {None}]
  <2>1. CASE r = None
    BY <1>1, <1>2, <2>1 DEF IocpType
  <2>2. CASE r # None
    BY <1>2, <1>3, <1>5, <2>2 DEF IocpType
  <2> QED
    BY <2>1, <2>2
<1>7. /\ poll_ops' \in [PollTokens -> Iocp!PollOp \cup {None}]
      /\ \A x \in PollTokens : x # p => poll_ops'[x] = poll_ops[x]
      /\ posted' \subseteq PollTokens
  BY <1>1, <1>2 DEF IocpType
<1>8. IocpType'
  BY <1>6, <1>7 DEF IocpType
<1>9. TasksTypeOK' /\ TryingFits'
  <2>1. woken' \subseteq Tasks
    BY <1>1, <1>2, <1>4
  <2>2. ready' \in [Handles -> [Directions -> BOOLEAN]]
    BY <1>1, TaskTypes DEF TasksTypeOK
  <2> QED
    BY <1>1, <2>1, <2>2, Leaves
<1>10. /\ TokensFit'
       /\ \A g \in Handles : /\ Live(g)' <=> Live(g)
                             /\ Live(g) /\ token[g] = k => Reg(g)' = registrations'[k]
                             /\ Live(g) /\ token[g] # k => Reg(g)' = Reg(g)
  <2>1. registrations'[k] # None \/ registrations[k] = None
    BY <1>5, <1>6
  <2> QED
    BY <1>1, <1>3, <1>6, <2>1, Changes
<1>11. ASSUME NEW g \in Handles, Live(g)'
       PROVE  PollFits(g)'
  <2>1. Live(g) /\ PollFits(g) /\ token'[g] = token[g] /\ Reg(g) # None
        /\ Reg(g).poll_token \in PollTokens \cup {None}
    BY <1>1, <1>2, <1>10, <1>11, PollsFit, IocpTypes
  <2>2. CASE token[g] # k
    <3>1. Reg(g).poll_token # p
      BY <2>1, <2>2, Nones DEF PollFits
    <3>2. Reg(g).poll_token # None =>
            poll_ops'[Reg(g).poll_token] = poll_ops[Reg(g).poll_token]
      BY <1>7, <2>1, <3>1
    <3> QED
      BY <1>10, <2>1, <2>2, <3>2, PollKept
  <2>3. CASE token[g] = k
    <3>1. r = Reg(g) /\ Reg(g)' = v /\ v.poll_token = q
      BY <1>5, <1>6, <1>10, <2>1, <2>3 DEF Reg
    <3>2. CASE Reg(g).poll_token = p
      BY <3>1, <3>2 DEF PollFits
    <3>3. CASE Reg(g).poll_token # p
      BY <1>7, <2>1, <3>1, <3>3, PollKept
    <3> QED
      BY <3>2, <3>3
  <2> QED
    BY <2>2, <2>3
<1>12. IocpPolls'
  <2>1. \A x \in posted' : poll_ops'[x] # None
    BY <1>1, <1>2, <1>7 DEF IocpPolls, IocpType
  <2> QED
    BY <1>11, <2>1, PollsFit
<1> QED
  BY <1>8, <1>9, <1>10, <1>12, IocpStep

LEMMA IocpCompletes ==
  ASSUME IInv, driver = "Iocp", driver' = driver, NEW p \in PollTokens,
         Iocp!PollCompletes(p)
  PROVE  IInv'
<1>1. /\ poll_ops[p] # None /\ posted' = posted \cup {p}
      /\ registrations' = registrations /\ poll_ops' = poll_ops
      /\ token' = token /\ trying' = trying /\ ready' = ready /\ woken' = woken
  BY DEF Iocp!PollCompletes, Iocp!taskVars
<1>2. IocpType /\ IocpPolls
  BY IocpTypes
<1>3. TasksTypeOK' /\ TryingFits'
  BY <1>1, TaskTypes, Leaves DEF TasksTypeOK
<1>4. TokensFit' /\ IocpType'
  BY <1>1, <1>2 DEF IInv, TokensFit, Live, Reg, IocpType
<1>5. IocpPolls'
  BY <1>1, <1>2 DEF IocpPolls, Live, Reg
<1> QED
  BY <1>3, <1>4, <1>5, IocpStep

LEMMA IocpReadiness ==
  ASSUME IInv, driver = "Iocp", driver' = driver,
         NEW h \in Handles, NEW d \in Directions, Iocp!ReadinessChanges(h, d)
  PROVE  IInv'
<1>1. /\ ready' = [ready EXCEPT ![h][d] = ~ready[h][d]]
      /\ registrations' = registrations /\ poll_ops' = poll_ops
      /\ posted' = posted /\ token' = token /\ trying' = trying /\ woken' = woken
  BY DEF Iocp!ReadinessChanges, Iocp!driverVars
<1>2. IocpType /\ IocpPolls /\ woken \subseteq Tasks
  BY IocpTypes, TaskTypes DEF TasksTypeOK
<1>3. TasksTypeOK' /\ TryingFits'
  BY <1>1, <1>2, ReadyType, Leaves
<1>4. TokensFit' /\ IocpType' /\ IocpPolls'
  BY <1>1, <1>2 DEF IInv, TokensFit, Live, Reg, IocpType, IocpPolls
<1> QED
  BY <1>3, <1>4, IocpStep

LEMMA IocpStep_IInv ==
  ASSUME IInv, IocpDoes(Iocp!DriverStep)
  PROVE  IInv'
<1>1. driver = "Iocp" /\ driver' = driver /\ Iocp!DriverStep
  BY DEF IocpDoes
<1>2. Iocp!Directions = Directions
  BY DEF Iocp!Directions, Directions
<1> QED
  BY <1>1, <1>2, IocpRegisters, IocpDeregisters, IocpSubmits, IocpRefuses,
     IocpProcesses, IocpCompletes, IocpReadiness DEF Iocp!DriverStep

-----------------------------------------------------------------------------
(* The invariant.                                                          *)

LEMMA Init_IInv ==
  ASSUME Init
  PROVE  IInv
<1>1. /\ driver \in {"IoUring", "Mio", "Iocp"} /\ trying = None
      /\ token = [h \in Handles |-> None] /\ woken = Tasks
      /\ ready = [h \in Handles |-> [d \in Directions |-> FALSE]]
      /\ registrations = [k \in Tokens |-> None]
      /\ polls = [r \in IoUring!Requests |-> 0] /\ cq = [k \in Tokens |-> 0]
      /\ registered = [h \in Handles |-> {}] /\ event = {}
      /\ poll_ops = [p \in PollTokens |-> None] /\ posted = {}
  BY DEF Init, TasksInit, IoUring!DriverInit, Mio!DriverInit, Iocp!DriverInit
<1>2. TasksTypeOK /\ UringType /\ MioType /\ IocpType
  BY <1>1 DEF TasksTypeOK, UringType, MioType, IocpType
<1>3. \A h \in Handles : ~Live(h)
  BY <1>1 DEF Live
<1>4. TryingFits /\ TokensFit
  BY <1>1, <1>3 DEF TryingFits, TokensFit
<1>5. UringRequests /\ UringArmed /\ MioWatches /\ IocpPolls
  BY <1>1, <1>3 DEF UringRequests, UringArmed, MioWatches, IocpPolls
<1> QED
  BY <1>1, <1>2, <1>4, <1>5, TypesAre DEF IInv, TypeOK, DriverInv

LEMMA Next_IInv ==
  ASSUME IInv, [Next]_vars
  PROVE  IInv'
<1>1. CASE UNCHANGED vars
  <2>1. /\ driver' = driver /\ token' = token /\ trying' = trying
        /\ ready' = ready /\ woken' = woken /\ registrations' = registrations
        /\ polls' = polls /\ cq' = cq /\ registered' = registered
        /\ event' = event /\ poll_ops' = poll_ops /\ posted' = posted
    BY <1>1 DEF vars, taskVars, uringVars, mioVars, iocpVars
  <2>2. TasksTypeOK' /\ TryingFits' /\ TokensFit'
    BY <2>1, TaskTypes DEF IInv, TasksTypeOK, TryingFits, TokensFit, Live, Reg
  <2>3. TypeOK'
    BY <2>1, <2>2, TaskTypes, TypesAreNext
       DEF TypeOK, UringType, MioType, IocpType
  <2>4. DriverInv'
    BY <2>1 DEF IInv, DriverInv, UringRequests, UringArmed, MioWatches, IocpPolls,
                Live, Reg, OnItsWay, RequestOf
  <2> QED
    BY <2>1, <2>2, <2>3, <2>4 DEF IInv
<1> QED
  BY <1>1, TaskStep_IInv, UringStep_IInv, MioStep_IInv, IocpStep_IInv DEF Next

\* The inductive invariant holds of whichever driver a runtime has.
THEOREM Invariant == Spec => []IInv
<1>1. Init => IInv
  BY Init_IInv
<1>2. IInv /\ [Next]_vars => IInv'
  BY Next_IInv
<1> QED
  BY <1>1, <1>2, PTL DEF Spec

\* The state of the three drivers and of the tasks keeps its types; the
\* completion queue and the requests of io_uring are never overdrawn
\* (uring.rs:328-351).
THEOREM TypeCorrect == Spec => []TypeOK
<1>1. IInv => TypeOK
  BY DEF IInv
<1> QED
  BY <1>1, Invariant, PTL

\* A registration that says it is armed (io_uring) or has a poll_token (IOCP)
\* has a request or a completion of its own on its way; on io_uring, if each
\* handle is used in one direction (uring.rs:567-578, iocp.rs:411-507, 826-865).
THEOREM ArmedRequests ==
  Spec => []((driver = "IoUring" => OneDirection) => ArmedHasRequest)
<1>1. ASSUME IInv, driver = "IoUring" => OneDirection
      PROVE  ArmedHasRequest
  <2>1. ASSUME driver = "IoUring"
        PROVE  IoUring!ArmedHasRequest
    <3> SUFFICES ASSUME NEW h \in Handles, NEW d \in Directions, Live(h),
                        registrations[token[h]].armed[d]
                 PROVE  cq[token[h]] > 0 \/
                          polls[[token |-> token[h], direction |-> d, of |-> h]] > 0
      BY DEF IoUring!ArmedHasRequest, IoUring!Covered, IoUring!Live, Live,
             IoUring!Directions, Directions
    <3>1. Reg(h).armed[d] = TRUE
      BY <2>1, UringTypes, UringFields DEF Reg
    <3>2. OnItsWay(h, d)
      BY <1>1, <2>1, <3>1, UringTypes DEF UringArmed
    <3> QED
      BY <3>2 DEF OnItsWay, RequestOf
  <2>2. ASSUME driver = "Iocp"
        PROVE  Iocp!ArmedHasRequest
    BY <1>1, <2>2, IocpTypes DEF IocpPolls, Iocp!ArmedHasRequest, Iocp!Live, Live, Reg
  <2> QED
    BY <2>1, <2>2 DEF ArmedHasRequest
<1> QED
  BY <1>1, Invariant, PTL

-----------------------------------------------------------------------------
(* The promise: every step of a driver is a step that PollDriver allows,   *)
(* or changes nothing that PollDriver speaks of.                           *)

Waker == Tasks \cup {None}

\* What waiting says, where the invariant holds.
Waits(h, d) ==
  CASE driver = "IoUring" ->
         IF Live(h) THEN Reg(h).waiter[d] ELSE None
    [] driver = "Mio" ->
         IF Live(h) /\ Reg(h).interest = {d} THEN Reg(h).waiter ELSE None
    [] driver = "Iocp" ->
         IF /\ Live(h) /\ Reg(h).poll_token # None
            /\ poll_ops[Reg(h).poll_token].events = {d}
           THEN Reg(h).waiter ELSE None

LEMMA WaitsAre ==
  ASSUME IInv, NEW h \in Handles, NEW d \in Directions
  PROVE  /\ driver = "IoUring" =>
              Waits(h, d) = IF Live(h) THEN Reg(h).waiter[d] ELSE None
         /\ driver = "Mio" =>
              Waits(h, d) = IF Live(h) /\ Reg(h).interest = {d}
                              THEN Reg(h).waiter ELSE None
         /\ driver = "Iocp" =>
              Waits(h, d) = IF /\ Live(h) /\ Reg(h).poll_token # None
                               /\ poll_ops[Reg(h).poll_token].events = {d}
                              THEN Reg(h).waiter ELSE None
         /\ Waits(h, d) \in Waker
         /\ ~Live(h) => Waits(h, d) = None
<1>1. CASE driver = "IoUring"
  <2>1. Waits(h, d) = IF Live(h) THEN Reg(h).waiter[d] ELSE None
    BY <1>1 DEF Waits
  <2>2. Live(h) => Reg(h).waiter[d] \in Waker
    BY <1>1, UringTypes, UringFields DEF Waker
  <2> QED
    BY <1>1, <2>1, <2>2 DEF Waker
<1>2. CASE driver = "Mio"
  <2>1. Waits(h, d) = IF Live(h) /\ Reg(h).interest = {d}
                        THEN Reg(h).waiter ELSE None
    BY <1>2 DEF Waits
  <2> QED
    BY <1>2, <2>1, MioTypes DEF Waker
<1>3. CASE driver = "Iocp"
  <2>1. Waits(h, d) = IF /\ Live(h) /\ Reg(h).poll_token # None
                         /\ poll_ops[Reg(h).poll_token].events = {d}
                        THEN Reg(h).waiter ELSE None
    BY <1>3 DEF Waits
  <2> QED
    BY <1>3, <2>1, IocpTypes DEF Waker
<1> QED
  BY <1>1, <1>2, <1>3 DEF IInv

\* Whoever a registration has waiting is owed a wake.
LEMMA WaitingIs ==
  ASSUME OneDirection, IInv
  PROVE  /\ waiting \in [Handles -> [Directions -> Waker]]
         /\ \A h \in Handles, d \in Directions : waiting[h][d] = Waits(h, d)
<1>1. CASE driver = "IoUring"
  <2>1. waiting = [h \in Handles |-> [d \in Directions |->
                     IF Live(h) /\ OnItsWay(h, d)
                       THEN Reg(h).waiter[d] ELSE None]]
    BY <1>1 DEF waiting, IoUring!waiting, IoUring!Live, Live, IoUring!Covered,
                OnItsWay, RequestOf, Reg, IoUring!Directions, Directions
  <2>2. ASSUME NEW h \in Handles, NEW d \in Directions
        PROVE  (IF Live(h) /\ OnItsWay(h, d) THEN Reg(h).waiter[d] ELSE None)
                 = Waits(h, d)
    <3>1. Live(h) /\ Reg(h).waiter[d] # None => OnItsWay(h, d)
      BY <1>1, UringTypes DEF UringArmed
    <3> QED
      BY <1>1, <3>1, WaitsAre
  <2> QED
    BY <2>1, <2>2, WaitsAre
<1>2. CASE driver = "Mio"
  <2>1. waiting = [h \in Handles |-> [d \in Directions |->
                     IF /\ Live(h) /\ Reg(h).interest = {d}
                        /\ d \in registered[h]
                        /\ ready[h][d] => h \in event
                       THEN Reg(h).waiter ELSE None]]
    BY <1>2 DEF waiting, Mio!waiting, Mio!Live, Live, Reg, Mio!Directions, Directions
  <2>2. ASSUME NEW h \in Handles, NEW d \in Directions
        PROVE  (IF /\ Live(h) /\ Reg(h).interest = {d}
                   /\ d \in registered[h]
                   /\ ready[h][d] => h \in event
                  THEN Reg(h).waiter ELSE None) = Waits(h, d)
    <3>1. ASSUME Live(h), Reg(h).interest = {d}
          PROVE  d \in registered[h] /\ (ready[h][d] => h \in event)
      <4>1. ready[h][d] \in BOOLEAN
        BY TaskTypes DEF TasksTypeOK
      <4> QED
        BY <1>2, <3>1, <4>1, MioTypes DEF MioWatches
    <3> QED
      BY <1>2, <3>1, WaitsAre
  <2> QED
    BY <2>1, <2>2, WaitsAre
<1>3. CASE driver = "Iocp"
  <2>1. waiting = [h \in Handles |-> [d \in Directions |->
                     IF /\ Live(h) /\ Reg(h).poll_token # None
                        /\ poll_ops[Reg(h).poll_token] # None
                        /\ d \in poll_ops[Reg(h).poll_token].events
                       THEN Reg(h).waiter ELSE None]]
    BY <1>3 DEF waiting, Iocp!waiting, Iocp!Live, Live, Reg, Iocp!Directions,
                Directions
  <2>2. ASSUME NEW h \in Handles, NEW d \in Directions
        PROVE  (IF /\ Live(h) /\ Reg(h).poll_token # None
                   /\ poll_ops[Reg(h).poll_token] # None
                   /\ d \in poll_ops[Reg(h).poll_token].events
                  THEN Reg(h).waiter ELSE None) = Waits(h, d)
    <3>1. ASSUME Live(h), Reg(h).poll_token # None
          PROVE  /\ poll_ops[Reg(h).poll_token] # None
                 /\ d \in poll_ops[Reg(h).poll_token].events <=>
                      poll_ops[Reg(h).poll_token].events = {d}
      BY <1>3, <3>1, IocpTypes DEF IocpPolls
    <3> QED
      BY <1>3, <3>1, WaitsAre
  <2> QED
    BY <2>1, <2>2, WaitsAre
<1> QED
  BY <1>1, <1>2, <1>3 DEF IInv

WaitingFits ==
  /\ waiting \in [Handles -> [Directions -> Waker]]
  /\ \A h \in Handles, d \in Directions :
       /\ waiting[h][d] = Waits(h, d)
       /\ ~Live(h) => Waits(h, d) = None

LEMMA WaitingBefore ==
  ASSUME OneDirection
  PROVE  IInv => WaitingFits
BY WaitingIs, WaitsAre DEF WaitingFits

LEMMA WaitingAfter ==
  ASSUME OneDirection
  PROVE  IInv' => WaitingFits'
<1>1. IInv => WaitingFits
  BY WaitingBefore
<1> QED
  BY <1>1, PTL

\* Functions that agree everywhere, or everywhere else.
LEMMA Agree ==
  ASSUME NEW f \in [Handles -> [Directions -> Waker]],
         NEW g \in [Handles -> [Directions -> Waker]],
         \A h \in Handles, d \in Directions : g[h][d] = f[h][d]
  PROVE  g = f
<1>1. \A h \in Handles : g[h] = f[h]
  <2> TAKE h \in Handles
  <2>1. f[h] \in [Directions -> Waker] /\ g[h] \in [Directions -> Waker]
    OBVIOUS
  <2> QED
    BY <2>1
<1> QED
  BY <1>1

LEMMA Elsewhere ==
  ASSUME NEW f \in [Handles -> [Directions -> Waker]],
         NEW g \in [Handles -> [Directions -> Waker]],
         NEW h \in Handles, NEW d \in Directions,
         \A i \in Handles, e \in Directions :
           ~(i = h /\ e = d) => g[i][e] = f[i][e]
  PROVE  g = [f EXCEPT ![h][d] = g[h][d]]
<1> DEFINE u == [f EXCEPT ![h][d] = g[h][d]]
<1>1. u \in [Handles -> [Directions -> Waker]]
  OBVIOUS
<1>2. \A i \in Handles, e \in Directions : g[i][e] = u[i][e]
  OBVIOUS
<1> HIDE DEF u
<1>3. g = u
  BY <1>1, <1>2, Agree
<1> QED
  BY <1>3 DEF u

LEMMA NoneOf ==
  ASSUME NEW f \in [Handles -> [Directions -> Waker]],
         NEW g \in [Handles -> [Directions -> Waker]], NEW h \in Handles,
         \A d \in Directions : g[h][d] = None,
         \A i \in Handles, e \in Directions : i # h => g[i][e] = f[i][e]
  PROVE  g = [f EXCEPT ![h] = [d \in Directions |-> None]]
<1> DEFINE u == [f EXCEPT ![h] = [d \in Directions |-> None]]
<1>1. u \in [Handles -> [Directions -> Waker]]
  BY DEF Waker
<1>2. \A i \in Handles, e \in Directions : g[i][e] = u[i][e]
  OBVIOUS
<1> HIDE DEF u
<1>3. g = u
  BY <1>1, <1>2, Agree
<1> QED
  BY <1>3 DEF u

\* A step that PollDriver allows, or that changes nothing it speaks of.
Promised == [Promise!Next]_(Promise!vars)

LEMMA ByStutter ==
  ASSUME OneDirection, IInv, IInv',
         \A g \in Handles : Live(g)' <=> Live(g),
         \A g \in Handles, e \in Directions : Waits(g, e)' = Waits(g, e),
         trying' = trying, ready' = ready, woken' = woken
  PROVE  Promised
<1>1. waiting' = waiting
  BY WaitingBefore, WaitingAfter, Agree DEF WaitingFits
<1>2. {h \in Handles : Live(h)}' = {h \in Handles : Live(h)} /\ asking' = asking
  BY DEF asking
<1> QED
  BY <1>1, <1>2 DEF Promised, Promise!vars

LEMMA BySpurious ==
  ASSUME OneDirection, IInv, IInv', NEW t \in Tasks,
         \A g \in Handles : Live(g)' <=> Live(g),
         \A g \in Handles, e \in Directions : Waits(g, e)' = Waits(g, e),
         trying' = trying, ready' = ready,
         woken' = woken \cup {t} \/ woken' = woken \ {t}
  PROVE  Promised
<1>1. waiting' = waiting
  BY WaitingBefore, WaitingAfter, Agree DEF WaitingFits
<1>2. {h \in Handles : Live(h)}' = {h \in Handles : Live(h)} /\ asking' = asking
  BY DEF asking
<1>3. Promise!Run(t) \/ Promise!Spurious(t)
  BY <1>1, <1>2 DEF Promise!Run, Promise!Spurious
<1> QED
  BY <1>3 DEF Promised, Promise!Next

LEMMA ByReadiness ==
  ASSUME OneDirection, IInv, IInv', NEW h \in Handles, NEW d \in Directions,
         \A g \in Handles : Live(g)' <=> Live(g),
         \A g \in Handles, e \in Directions : Waits(g, e)' = Waits(g, e),
         trying' = trying, woken' = woken,
         ready' = [ready EXCEPT ![h][d] = ~ready[h][d]]
  PROVE  Promised
<1>1. waiting' = waiting
  BY WaitingBefore, WaitingAfter, Agree DEF WaitingFits
<1>2. {i \in Handles : Live(i)}' = {i \in Handles : Live(i)} /\ asking' = asking
  BY DEF asking
<1>3. Promise!Readiness(h, d)
  BY <1>1, <1>2 DEF Promise!Readiness
<1> QED
  BY <1>3 DEF Promised, Promise!Next

LEMMA ByAsk ==
  ASSUME OneDirection, IInv, IInv', NEW t \in Tasks, NEW h \in Handles,
         NEW d \in Directions, trying = None, Live(h),
         \A g \in Handles : Live(g)' <=> Live(g),
         \A g \in Handles, e \in Directions : Waits(g, e)' = Waits(g, e),
         trying' = [task |-> t, handle |-> h, needs |-> d, direction |-> d],
         woken' = woken, ready' = ready
  PROVE  Promised
<1>1. waiting' = waiting
  BY WaitingBefore, WaitingAfter, Agree DEF WaitingFits
<1>2. {i \in Handles : Live(i)}' = {i \in Handles : Live(i)}
  OBVIOUS
<1>3. asking = None /\ asking' = [task |-> t, handle |-> h, direction |-> d]
  <2>1. trying' # None
    BY Nones
  <2> QED
    BY <2>1 DEF asking
<1>4. Promise!Ask(t, h, d)
  BY <1>1, <1>2, <1>3 DEF Promise!Ask
<1> QED
  BY <1>4 DEF Promised, Promise!Next

LEMMA WaitingChanges ==
  ASSUME WaitingFits, WaitingFits', NEW h \in Handles, NEW d \in Directions,
         \A g \in Handles, e \in Directions :
           ~(g = h /\ e = d) => Waits(g, e)' = Waits(g, e)
  PROVE  waiting' = [waiting EXCEPT ![h][d] = waiting'[h][d]]
BY Elsewhere DEF WaitingFits

LEMMA ByAnswer ==
  ASSUME OneDirection, IInv, IInv', trying # None, trying' = None,
         NEW h \in Handles, NEW d \in Directions,
         h = trying.handle, d = trying.direction,
         \A g \in Handles : Live(g)' <=> Live(g),
         Waits(h, d)' \in {trying.task, None},
         \A g \in Handles, e \in Directions :
           ~(g = h /\ e = d) => Waits(g, e)' = Waits(g, e),
         woken' = woken, ready' = ready
  PROVE  Promised
<1>1. trying.needs = d /\ trying.task \in Tasks
  BY TryingType
<1>2. WaitingFits /\ WaitingFits'
  BY WaitingBefore, WaitingAfter
<1>3. waiting' = [waiting EXCEPT ![h][d] = waiting'[h][d]]
  BY <1>2, WaitingChanges
<1>4. waiting'[h][d] \in {trying.task, None}
  BY <1>2 DEF WaitingFits
<1>5. {i \in Handles : Live(i)}' = {i \in Handles : Live(i)}
  OBVIOUS
<1>6. /\ asking # None /\ asking' = None /\ asking.task = trying.task
      /\ asking.handle = h /\ asking.direction = d
  <2>1. asking = [task |-> trying.task, handle |-> h, direction |-> d]
    BY <1>1 DEF asking
  <2> QED
    BY <1>1, <2>1, Nones DEF asking
<1>7. Promise!Answer
  BY <1>3, <1>4, <1>5, <1>6 DEF Promise!Answer
<1> QED
  BY <1>7 DEF Promised, Promise!Next

LEMMA ByWake ==
  ASSUME OneDirection, IInv, IInv', NEW h \in Handles, NEW d \in Directions,
         \A g \in Handles : Live(g)' <=> Live(g),
         Waits(h, d) # None, Waits(h, d)' = None,
         \A g \in Handles, e \in Directions :
           ~(g = h /\ e = d) => Waits(g, e)' = Waits(g, e),
         trying' = trying, ready' = ready, woken' = woken \cup {Waits(h, d)}
  PROVE  Promised
<1>1. WaitingFits /\ WaitingFits'
  BY WaitingBefore, WaitingAfter
<1>2. waiting' = [waiting EXCEPT ![h][d] = waiting'[h][d]]
  BY <1>1, WaitingChanges
<1>3. waiting'[h][d] = None /\ waiting[h][d] = Waits(h, d)
  BY <1>1 DEF WaitingFits
<1>4. {i \in Handles : Live(i)}' = {i \in Handles : Live(i)} /\ asking' = asking
  BY DEF asking
<1>5. Promise!Wake(h, d)
  BY <1>2, <1>3, <1>4 DEF Promise!Wake
<1> QED
  BY <1>5 DEF Promised, Promise!Next

LEMMA ByRegister ==
  ASSUME OneDirection, IInv, IInv', NEW h \in Handles, ~Live(h), Live(h)',
         \A g \in Handles : g # h => (Live(g)' <=> Live(g)),
         \A e \in Directions : Waits(h, e)' = None,
         \A g \in Handles, e \in Directions : g # h => Waits(g, e)' = Waits(g, e),
         trying' = trying, woken' = woken,
         \E r \in Readiness(h) : ready' = [ready EXCEPT ![h] = r]
  PROVE  Promised
<1>1. WaitingFits /\ WaitingFits'
  BY WaitingBefore, WaitingAfter
<1>2. waiting' = waiting
  <2>1. \A g \in Handles, e \in Directions : waiting'[g][e] = waiting[g][e]
    BY <1>1 DEF WaitingFits
  <2> QED
    BY <1>1, <2>1, Agree DEF WaitingFits
<1>3. /\ {i \in Handles : Live(i)}' = {i \in Handles : Live(i)} \cup {h}
      /\ h \notin {i \in Handles : Live(i)} /\ asking' = asking
  BY DEF asking
<1>4. ready' \in {[ready EXCEPT ![h] = r] : r \in [Directions -> BOOLEAN]}
  BY DEF Readiness
<1>5. Promise!Register(h)
  BY <1>2, <1>3, <1>4 DEF Promise!Register
<1> QED
  BY <1>5 DEF Promised, Promise!Next

LEMMA ByDeregister ==
  ASSUME OneDirection, IInv, IInv', NEW h \in Handles, Live(h), ~Live(h)',
         \A g \in Handles : g # h => (Live(g)' <=> Live(g)),
         \A g \in Handles, e \in Directions : g # h => Waits(g, e)' = Waits(g, e),
         trying' = trying, woken' = woken, ready' = ready
  PROVE  Promised
<1>1. WaitingFits /\ WaitingFits'
  BY WaitingBefore, WaitingAfter
<1>2. waiting' = [waiting EXCEPT ![h] = [d \in Directions |-> None]]
  <2>1. \A g \in Handles, e \in Directions : g # h => waiting'[g][e] = waiting[g][e]
    BY <1>1 DEF WaitingFits
  <2>2. \A e \in Directions : waiting'[h][e] = None
    BY <1>1 DEF WaitingFits
  <2> QED
    BY <1>1, <2>1, <2>2, NoneOf DEF WaitingFits
<1>3. /\ {i \in Handles : Live(i)}' = {i \in Handles : Live(i)} \ {h}
      /\ h \in {i \in Handles : Live(i)} /\ asking' = asking
  BY DEF asking
<1>4. Promise!Deregister(h)
  BY <1>2, <1>3 DEF Promise!Deregister, Promise!NoWaiters
<1> QED
  BY <1>4 DEF Promised, Promise!Next

\* What is owed depends on the registration alone, and for IOCP on its poll.
LEMMA WaitsKept ==
  ASSUME IInv, IInv', driver' = driver, NEW h \in Handles, NEW d \in Directions,
         Live(h)' <=> Live(h), Live(h) => Reg(h)' = Reg(h),
         driver = "Iocp" /\ Live(h) /\ Reg(h).poll_token # None =>
           poll_ops'[Reg(h).poll_token] = poll_ops[Reg(h).poll_token]
  PROVE  Waits(h, d)' = Waits(h, d)
<1>1. CASE driver = "IoUring"
  BY <1>1 DEF Waits
<1>2. CASE driver = "Mio"
  BY <1>2 DEF Waits
<1>3. CASE driver = "Iocp"
  BY <1>3 DEF Waits
<1> QED
  BY <1>1, <1>2, <1>3 DEF IInv

LEMMA TaskStep_Promised ==
  ASSUME OneDirection, IInv, IInv', TaskStep,
         UNCHANGED <<driver, registrations, uringVars, mioVars, iocpVars>>
  PROVE  Promised
<1>1. /\ driver' = driver /\ registrations' = registrations /\ token' = token
      /\ poll_ops' = poll_ops
  BY TaskStepDoes DEF iocpVars
<1>2. \A g \in Handles : (Live(g)' <=> Live(g)) /\ Reg(g)' = Reg(g)
  BY <1>1 DEF Live, Reg
<1>3. \A g \in Handles, e \in Directions : Waits(g, e)' = Waits(g, e)
  BY <1>1, <1>2, WaitsKept
<1>4. ASSUME NEW h \in Handles, NEW d \in Directions, trying' = trying,
             ready[h][d] = TRUE, ready' = [ready EXCEPT ![h][d] = FALSE],
             woken' = woken
      PROVE  Promised
  <2>1. ready' = [ready EXCEPT ![h][d] = ~ready[h][d]]
    BY <1>4
  <2> QED
    BY <1>2, <1>3, <1>4, <2>1, ByReadiness
<1>5. ASSUME NEW t \in Tasks, NEW h \in Handles, NEW d \in Directions,
             trying = None, Live(h),
             trying' = [task |-> t, handle |-> h, needs |-> d, direction |-> d],
             ready' = ready, woken' = woken
      PROVE  Promised
  BY <1>2, <1>3, <1>5, ByAsk
<1>6. ASSUME NEW t \in Tasks, trying' = trying, ready' = ready,
             woken' = woken \ {t}
      PROVE  Promised
  BY <1>2, <1>3, <1>6, BySpurious
<1> QED
  BY <1>4, <1>5, <1>6, TaskStepDoes

LEMMA OnlyUse ==
  ASSUME OneDirection, NEW h \in Handles, NEW d \in Uses[h], NEW e \in Uses[h]
  PROVE  d = e
BY DEF OneDirection

LEMMA UringStep_Promised ==
  ASSUME OneDirection, IInv, IInv', UringDoes(IoUring!DriverStep)
  PROVE  Promised
<1>0. /\ driver = "IoUring" /\ driver' = driver /\ driver' = "IoUring"
      /\ IoUring!DriverStep
  BY DEF UringDoes
<1>1. /\ UringType /\ UringArmed
      /\ \A h \in Handles : IoUring!Interests(h) = Interests(h)
      /\ IoUring!Directions = Directions
  BY <1>0, UringTypes
     DEF IoUring!Interests, Interests, IoUring!Masks, Masks, IoUring!Directions,
         Directions
<1>2. \A h \in Handles, d \in Directions :
        /\ Waits(h, d) = IF Live(h) THEN Reg(h).waiter[d] ELSE None
        /\ Waits(h, d)' = IF Live(h)' THEN Reg(h)'.waiter[d] ELSE None
  BY <1>0 DEF Waits
<1>3. ASSUME NEW h \in Handles, NEW k \in Tokens, NEW interest \in Interests(h),
             IoUring!register_handle_with_mode(h, k, interest)
      PROVE  Promised
  <2> DEFINE w == [d \in Directions |-> None]
             v == [poll_mask |-> interest, waiter |-> w,
                   armed |-> [d \in Directions |-> FALSE]]
  <2>1. /\ trying = None /\ ~Live(h) /\ registrations[k] = None
        /\ registrations' = [registrations EXCEPT ![k] = v]
        /\ token' = [token EXCEPT ![h] = k]
        /\ \E r \in Readiness(h) : ready' = [ready EXCEPT ![h] = r]
        /\ trying' = trying /\ woken' = woken
    BY <1>3 DEF IoUring!register_handle_with_mode, IoUring!Idle, IoUring!Live, Live,
           IoUring!Adopt, IoUring!Readiness, Readiness, IoUring!Directions,
           Directions
  <2>2. registrations'[k] = v /\ v.waiter = w
        /\ \A j \in Tokens : j # k => registrations'[j] = registrations[j]
    BY <1>1, <2>1 DEF UringType
  <2>3. \A d \in Directions : w[d] = None
    OBVIOUS
  <2> HIDE DEF v, w
  <2>4. token'[h] = k
    BY <2>1, TaskTypes DEF TasksTypeOK
  <2>5. registrations'[k] # None
    <3>1. Live(h)' /\ Reg(h)' = registrations'[k]
      BY <2>4, Nones DEF Live, Reg
    <3> QED
      BY <3>1 DEF IInv, TokensFit
  <2>6. /\ Live(h)' /\ Reg(h)' = v
        /\ \A g \in Handles : g # h =>
             (Live(g)' <=> Live(g)) /\ (Live(g) => Reg(g)' = Reg(g))
    BY <2>1, <2>2, <2>5, Registers
  <2>7. \A e \in Directions : Waits(h, e)' = None
    BY <1>2, <2>2, <2>3, <2>6
  <2>8. \A g \in Handles, e \in Directions : g # h => Waits(g, e)' = Waits(g, e)
    BY <1>0, <2>6, WaitsKept
  <2> QED
    BY <2>1, <2>6, <2>7, <2>8, ByRegister
<1>4. ASSUME NEW h \in Handles, IoUring!deregister_handle(h)
      PROVE  Promised
  <2>1. /\ trying = None /\ Live(h)
        /\ registrations' = [registrations EXCEPT ![token[h]] = None]
        /\ token' = [token EXCEPT ![h] = None]
        /\ trying' = trying /\ ready' = ready /\ woken' = woken
    BY <1>4 DEF IoUring!deregister_handle, IoUring!Idle, IoUring!Live, Live
  <2>2. \A j \in Tokens : j # token[h] => registrations'[j] = registrations[j]
    BY <1>1, <2>1, LiveToken DEF UringType
  <2>3. /\ ~Live(h)'
        /\ \A g \in Handles : g # h =>
             (Live(g)' <=> Live(g)) /\ (Live(g) => Reg(g)' = Reg(g))
    BY <2>1, <2>2, Deregisters
  <2>4. \A g \in Handles, e \in Directions : g # h => Waits(g, e)' = Waits(g, e)
    BY <1>0, <2>3, WaitsKept
  <2> QED
    BY <2>1, <2>3, <2>4, ByDeregister
<1>5. ASSUME IoUring!submit_poll \/ IoUring!submit_poll_failed
      PROVE  Promised
  <2>1. trying # None /\ trying' = None /\ token' = token /\ ready' = ready
        /\ woken' = woken
    BY <1>5 DEF IoUring!submit_poll, IoUring!submit_poll_failed
  <2>2. PICK h \in Handles, d \in Directions, k \in Tokens :
          /\ h = trying.handle /\ d = trying.direction /\ k = token[h]
          /\ Live(h) /\ trying.task \in Tasks
    BY <2>1, TryingType
  <2>3. /\ registrations[k] = Reg(h)
        /\ Reg(h).waiter \in [Directions -> Tasks \cup {None}]
    BY <1>0, <2>2, UringTypes, UringFields DEF Reg
  <2>4. /\ registrations'[k].waiter = [Reg(h).waiter EXCEPT ![d] = trying.task]
             \/ registrations'[k].waiter = [Reg(h).waiter EXCEPT ![d] = None]
        /\ \A j \in Tokens : j # k => registrations'[j] = registrations[j]
    <3>1. CASE IoUring!submit_poll
      <4>1. registrations' = [registrations EXCEPT ![k] =
              [poll_mask |-> {d},
               waiter |-> [Reg(h).waiter EXCEPT ![d] = trying.task],
               armed |-> [Reg(h).armed EXCEPT ![d] = TRUE]]]
        BY <2>2, <2>3, <3>1 DEF IoUring!submit_poll, IoUring!WithWaiter
      <4> QED
        BY <1>1, <4>1 DEF UringType
    <3>2. CASE IoUring!submit_poll_failed
      <4>1. registrations' = [registrations EXCEPT ![k] =
              [poll_mask |-> {d},
               waiter |-> [Reg(h).waiter EXCEPT ![d] = None],
               armed |-> Reg(h).armed]]
        BY <2>2, <2>3, <3>2 DEF IoUring!submit_poll_failed
      <4> QED
        BY <1>1, <4>1 DEF UringType
    <3> QED
      BY <1>5, <3>1, <3>2
  <2>5. /\ registrations'[k].waiter[d] \in {trying.task, None}
        /\ \A e \in Directions : e # d =>
             registrations'[k].waiter[e] = Reg(h).waiter[e]
    BY <2>3, <2>4
  <2>6. \A g \in Handles : Live(g)' <=> Live(g)
    BY <2>1 DEF Live
  <2>7. Reg(h)' = registrations'[k]
    BY <2>1, <2>2 DEF Reg
  <2>8. Waits(h, d)' \in {trying.task, None}
    BY <1>2, <2>2, <2>5, <2>6, <2>7
  <2>9. ASSUME NEW g \in Handles, NEW e \in Directions, ~(g = h /\ e = d)
        PROVE  Waits(g, e)' = Waits(g, e)
    <3>1. CASE g = h
      BY <1>2, <2>2, <2>5, <2>6, <2>7, <2>9, <3>1
    <3>2. CASE g # h
      <4>1. Live(g) => token[g] # k /\ token[g] \in Tokens
        BY <2>2, <3>2, LiveToken DEF IInv, TokensFit
      <4>2. Live(g) => Reg(g)' = Reg(g)
        BY <2>1, <2>4, <4>1 DEF Reg
      <4> QED
        BY <1>0, <2>6, <4>2, WaitsKept
    <3> QED
      BY <3>1, <3>2
  <2> QED
    BY <2>1, <2>2, <2>6, <2>8, <2>9, ByAnswer
<1>6. ASSUME NEW r \in IoUring!Requests, IoUring!PollCompletes(r)
      PROVE  Promised
  <2>1. /\ registrations' = registrations /\ token' = token /\ trying' = trying
        /\ ready' = ready /\ woken' = woken
    BY <1>6 DEF IoUring!PollCompletes
  <2>2. \A g \in Handles : (Live(g)' <=> Live(g)) /\ Reg(g)' = Reg(g)
    BY <2>1 DEF Live, Reg
  <2>3. \A g \in Handles, e \in Directions : Waits(g, e)' = Waits(g, e)
    BY <1>0, <2>2, WaitsKept
  <2> QED
    BY <2>1, <2>2, <2>3, ByStutter
<1>7. ASSUME NEW h \in Handles, NEW d \in Directions,
             IoUring!ReadinessChanges(h, d)
      PROVE  Promised
  <2>1. /\ registrations' = registrations /\ token' = token /\ trying' = trying
        /\ ready' = [ready EXCEPT ![h][d] = ~ready[h][d]] /\ woken' = woken
    BY <1>7 DEF IoUring!ReadinessChanges
  <2>2. \A g \in Handles : (Live(g)' <=> Live(g)) /\ Reg(g)' = Reg(g)
    BY <2>1 DEF Live, Reg
  <2>3. \A g \in Handles, e \in Directions : Waits(g, e)' = Waits(g, e)
    BY <1>0, <2>2, WaitsKept
  <2> QED
    BY <2>1, <2>2, <2>3, ByReadiness
<1>8. ASSUME NEW k \in Tokens, IoUring!drain_cq(k)
      PROVE  Promised
  <2>1. /\ token' = token /\ trying' = trying /\ ready' = ready
        /\ \/ registrations' = registrations /\ woken' = woken
           \/ /\ registrations[k] # None
              /\ registrations' = [registrations EXCEPT ![k] =
                                     IoUring!Disarmed(registrations[k])]
              /\ woken' = woken \cup IoUring!WokenBy(registrations[k])
    BY <1>8 DEF IoUring!drain_cq
  <2>2. \A g \in Handles : Live(g)' <=> Live(g)
    BY <2>1 DEF Live
  <2>3. CASE registrations' = registrations /\ woken' = woken
    <3>1. \A g \in Handles : Reg(g)' = Reg(g)
      BY <2>1, <2>3 DEF Reg
    <3>2. \A g \in Handles, e \in Directions : Waits(g, e)' = Waits(g, e)
      BY <1>0, <2>2, <3>1, WaitsKept
    <3> QED
      BY <2>1, <2>2, <2>3, <3>2, ByStutter
  <2>4. CASE /\ registrations[k] # None
             /\ registrations' = [registrations EXCEPT ![k] =
                                    IoUring!Disarmed(registrations[k])]
             /\ woken' = woken \cup IoUring!WokenBy(registrations[k])
    <3> DEFINE r == registrations[k]
               c == IF "write" \in r.poll_mask THEN "write" ELSE "read"
    <3>1. /\ r \in IoUring!PollRegistration
          /\ registrations'[k] = IoUring!Disarmed(r)
          /\ \A j \in Tokens : j # k => registrations'[j] = registrations[j]
      BY <1>1, <2>4 DEF UringType
    <3>2. woken' = woken \cup ({r.waiter[c]} \ {None}) /\ c \in Directions
      BY <2>4 DEF IoUring!WokenBy, Directions
    <3>3. r.waiter[c] \in Tasks \cup {None}
      BY <3>1, <3>2, UringFields
    <3>4. \A g \in Handles, e \in Directions : token[g] # k => Waits(g, e)' = Waits(g, e)
      <4>1. \A g \in Handles : Live(g) /\ token[g] # k => Reg(g)' = Reg(g)
        BY <2>1, <3>1, LiveToken DEF Reg
      <4> QED
        BY <1>0, <2>2, <4>1, WaitsKept
    <3>5. ASSUME NEW g \in Handles, Live(g), token[g] = k
          PROVE  /\ Reg(g) = r
                 /\ \A e \in Directions : Waits(g, e) = r.waiter[e]
                 /\ \A e \in Directions : Waits(g, e)' = None
                 /\ \A e \in Directions : r.waiter[e] # None => c = e
                 /\ \A i \in Handles : i # g => token[i] # k
      <4>1. Reg(g) = r /\ Reg(g)' = IoUring!Disarmed(r)
        BY <2>1, <3>1, <3>5 DEF Reg
      <4>2. \A e \in Directions : r.waiter[e] # None => r.poll_mask = {e}
        BY <1>1, <3>5, <4>1 DEF UringArmed
      <4>3. \A e \in Directions : r.waiter[e] # None => c = e
        BY <4>2 DEF Directions
      <4>4. \A e \in Directions : Reg(g)'.waiter[e] = None
        <5> TAKE e \in Directions
        <5>1. CASE e \in r.poll_mask
          <6>1. IoUring!Disarmed(r).waiter[e] = None
            BY <3>1, <5>1, UringDisarms
          <6> QED
            BY <4>1, <6>1
        <5>2. CASE e \notin r.poll_mask
          <6>1. r.waiter[e] = None
            BY <4>2, <5>2
          <6>2. Reg(g)'.waiter[e] = r.waiter[e]
            <7>1. IoUring!Disarmed(r).waiter[e] = r.waiter[e]
              BY <3>1, <5>2, UringDisarms
            <7> QED
              BY <4>1, <7>1
          <6> QED
            BY <6>1, <6>2
        <5> QED
          BY <5>1, <5>2
      <4>5. \A i \in Handles : i # g => token[i] # k
        BY <3>5, LiveToken DEF IInv, TokensFit
      <4> HIDE DEF r, c
      <4> QED
        BY <1>2, <2>2, <3>5, <4>1, <4>3, <4>4, <4>5
    <3> HIDE DEF r, c
    <3>6. CASE \E g \in Handles : Live(g) /\ token[g] = k
      <4>1. PICK g \in Handles : Live(g) /\ token[g] = k
        BY <3>6
      <4>2. CASE r.waiter[c] = None
        <5>1. woken' = woken
          BY <3>2, <4>2
        <5>2. \A e \in Directions : r.waiter[e] = None
          BY <3>5, <4>1, <4>2
        <5>3. \A i \in Handles, e \in Directions : Waits(i, e)' = Waits(i, e)
          BY <3>4, <3>5, <4>1, <5>2
        <5> QED
          BY <2>1, <2>2, <5>1, <5>3, ByStutter
      <4>3. CASE r.waiter[c] # None
        <5>1. PICK x \in Directions : x = c
          BY <3>2
        <5>2. /\ Waits(g, x) # None /\ Waits(g, x)' = None
              /\ woken' = woken \cup {Waits(g, x)}
          BY <3>2, <3>5, <4>1, <4>3, <5>1
        <5>3. \A i \in Handles, e \in Directions :
                ~(i = g /\ e = x) => Waits(i, e)' = Waits(i, e)
          BY <3>4, <3>5, <4>1, <5>1
        <5> QED
          BY <2>1, <2>2, <5>2, <5>3, ByWake
      <4> QED
        BY <4>2, <4>3
    <3>7. CASE ~\E g \in Handles : Live(g) /\ token[g] = k
      <4>1. \A g \in Handles : token[g] # k
        BY <3>7, LiveToken
      <4>2. \A g \in Handles, e \in Directions : Waits(g, e)' = Waits(g, e)
        BY <3>4, <4>1
      <4>3. woken' = woken \/ \E t \in Tasks : woken' = woken \cup {t}
        BY <3>2, <3>3
      <4> QED
        BY <2>1, <2>2, <4>2, <4>3, ByStutter, BySpurious
    <3> QED
      BY <3>6, <3>7
  <2> QED
    BY <2>1, <2>3, <2>4
<1> QED
  BY <1>0, <1>1, <1>3, <1>4, <1>5, <1>6, <1>7, <1>8 DEF IoUring!DriverStep

LEMMA MioStep_Promised ==
  ASSUME OneDirection, IInv, IInv', MioDoes(Mio!DriverStep)
  PROVE  Promised
<1>0. /\ driver = "Mio" /\ driver' = driver /\ driver' = "Mio"
      /\ Mio!DriverStep
  BY DEF MioDoes
<1>1. /\ MioType /\ MioWatches
      /\ \A h \in Handles : Mio!Interests(h) = Interests(h)
      /\ Mio!Directions = Directions
  BY <1>0, MioTypes
     DEF Mio!Interests, Interests, Mio!Masks, Masks, Mio!Directions, Directions
<1>2. \A h \in Handles, d \in Directions :
        /\ Waits(h, d) = IF Live(h) /\ Reg(h).interest = {d}
                           THEN Reg(h).waiter ELSE None
        /\ Waits(h, d)' = IF Live(h)' /\ Reg(h)'.interest = {d}
                            THEN Reg(h)'.waiter ELSE None
  BY <1>0 DEF Waits
<1>3. ASSUME NEW h \in Handles, NEW k \in Tokens, NEW interest \in Interests(h),
             Mio!register_handle(h, k, interest)
      PROVE  Promised
  <2> DEFINE v == [waiter |-> None, interest |-> interest]
  <2>1. /\ trying = None /\ ~Live(h) /\ registrations[k] = None
        /\ registrations' = [registrations EXCEPT ![k] = v]
        /\ token' = [token EXCEPT ![h] = k]
        /\ \E r \in Readiness(h) : ready' = [ready EXCEPT ![h] = r]
        /\ trying' = trying /\ woken' = woken
    BY <1>3 DEF Mio!register_handle, Mio!Idle, Mio!Live, Live, Mio!Adopt,
                Mio!Readiness, Readiness, Mio!Directions, Directions
  <2>2. registrations'[k] = v /\ v.waiter = None /\ v # None
        /\ \A j \in Tokens : j # k => registrations'[j] = registrations[j]
    BY <1>1, <2>1, MioRecord DEF MioType, Interests
  <2> HIDE DEF v
  <2>3. /\ Live(h)' /\ Reg(h)' = v
        /\ \A g \in Handles : g # h =>
             (Live(g)' <=> Live(g)) /\ (Live(g) => Reg(g)' = Reg(g))
    BY <2>1, <2>2, Registers
  <2>4. \A e \in Directions : Waits(h, e)' = None
    BY <1>2, <2>2, <2>3
  <2>5. \A g \in Handles, e \in Directions : g # h => Waits(g, e)' = Waits(g, e)
    BY <1>0, <2>3, WaitsKept
  <2> QED
    BY <2>1, <2>3, <2>4, <2>5, ByRegister
<1>4. ASSUME NEW h \in Handles, Mio!deregister_handle(h)
      PROVE  Promised
  <2>1. /\ trying = None /\ Live(h)
        /\ \/ registrations' = [registrations EXCEPT ![token[h]] = None]
           \/ registrations' = registrations
        /\ token' = [token EXCEPT ![h] = None]
        /\ trying' = trying /\ ready' = ready /\ woken' = woken
    BY <1>4 DEF Mio!deregister_handle, Mio!Idle, Mio!Live, Live
  <2>2. \A j \in Tokens : j # token[h] => registrations'[j] = registrations[j]
    BY <1>1, <2>1 DEF MioType
  <2>3. /\ ~Live(h)'
        /\ \A g \in Handles : g # h =>
             (Live(g)' <=> Live(g)) /\ (Live(g) => Reg(g)' = Reg(g))
    BY <2>1, <2>2, Deregisters
  <2>4. \A g \in Handles, e \in Directions : g # h => Waits(g, e)' = Waits(g, e)
    BY <1>0, <2>3, WaitsKept
  <2> QED
    BY <2>1, <2>3, <2>4, ByDeregister
<1>5. ASSUME Mio!submit_poll
      PROVE  Promised
  <2>1. trying # None /\ trying' = None /\ token' = token /\ ready' = ready
        /\ woken' = woken
    BY <1>5 DEF Mio!submit_poll
  <2>2. PICK h \in Handles, d \in Directions, k \in Tokens :
          /\ h = trying.handle /\ d = trying.direction /\ k = token[h]
          /\ Live(h) /\ trying.task \in Tasks /\ d \in Uses[h]
    BY <2>1, TryingType
  <2>3. registrations' = [registrations EXCEPT ![k] =
                            [waiter |-> trying.task, interest |-> {d}]]
    BY <1>5, <2>2 DEF Mio!submit_poll
  <2>4. /\ registrations'[k].waiter = trying.task
        /\ registrations'[k].interest = {d}
        /\ \A j \in Tokens : j # k => registrations'[j] = registrations[j]
    BY <1>1, <2>3 DEF MioType
  <2>5. \A g \in Handles : Live(g)' <=> Live(g)
    BY <2>1 DEF Live
  <2>6. Reg(h)' = registrations'[k]
    BY <2>1, <2>2 DEF Reg
  <2>7. Waits(h, d)' = trying.task
    BY <1>2, <2>2, <2>4, <2>5, <2>6
  <2>8. ASSUME NEW g \in Handles, NEW e \in Directions, ~(g = h /\ e = d)
        PROVE  Waits(g, e)' = Waits(g, e)
    <3>1. CASE g = h
      <4>1. {d} # {e}
        BY <2>8, <3>1
      <4>2. Waits(g, e)' = None
        BY <1>2, <2>4, <2>6, <3>1, <4>1
      <4>3. Reg(h).waiter # None => Reg(h).interest # {e}
        <5>1. Reg(h).waiter # None => Reg(h).interest = {d}
          BY <1>1, <2>2, OnlyUse DEF MioWatches
        <5> QED
          BY <4>1, <5>1
      <4> QED
        BY <1>2, <3>1, <4>2, <4>3
    <3>2. CASE g # h
      <4>1. Live(g) => token[g] # k /\ token[g] \in Tokens
        BY <2>2, <3>2, LiveToken DEF IInv, TokensFit
      <4>2. Live(g) => Reg(g)' = Reg(g)
        BY <2>1, <2>4, <4>1 DEF Reg
      <4> QED
        BY <1>0, <2>5, <4>2, WaitsKept
    <3> QED
      BY <3>1, <3>2
  <2> QED
    BY <2>1, <2>2, <2>5, <2>7, <2>8, ByAnswer
<1>6. ASSUME Mio!submit_poll_failed
      PROVE  Promised
  <2>1. /\ trying # None /\ trying' = None /\ token' = token /\ ready' = ready
        /\ woken' = woken /\ registrations' = registrations
        /\ registrations[token[trying.handle]].interest # {trying.direction}
    BY <1>6 DEF Mio!submit_poll_failed
  <2>2. PICK h \in Handles, d \in Directions :
          h = trying.handle /\ d = trying.direction
    BY <2>1, TryingType
  <2>3. \A g \in Handles : (Live(g)' <=> Live(g)) /\ Reg(g)' = Reg(g)
    BY <2>1 DEF Live, Reg
  <2>4. \A g \in Handles, e \in Directions : Waits(g, e)' = Waits(g, e)
    BY <1>0, <2>3, WaitsKept
  <2>5. Waits(h, d)' = None
    <3>1. Reg(h).interest # {d}
      BY <2>1, <2>2 DEF Reg
    <3> QED
      BY <1>2, <2>4, <3>1
  <2> QED
    BY <2>1, <2>2, <2>3, <2>4, <2>5, ByAnswer
<1>7. ASSUME NEW h \in Handles, NEW d \in Directions, Mio!ReadinessChanges(h, d)
      PROVE  Promised
  <2>1. /\ registrations' = registrations /\ token' = token /\ trying' = trying
        /\ ready' = [ready EXCEPT ![h][d] = ~ready[h][d]] /\ woken' = woken
    BY <1>7 DEF Mio!ReadinessChanges
  <2>2. \A g \in Handles : (Live(g)' <=> Live(g)) /\ Reg(g)' = Reg(g)
    BY <2>1 DEF Live, Reg
  <2>3. \A g \in Handles, e \in Directions : Waits(g, e)' = Waits(g, e)
    BY <1>0, <2>2, WaitsKept
  <2> QED
    BY <2>1, <2>2, <2>3, ByReadiness
<1>8. ASSUME NEW h \in Handles, Mio!wait_timeout(h)
      PROVE  Promised
  <2>1. /\ token' = token /\ trying' = trying /\ ready' = ready /\ h \in event
        /\ \/ registrations' = registrations /\ woken' = woken
           \/ /\ registrations' = [registrations EXCEPT ![token[h]] =
                                     [waiter |-> None, interest |-> {}]]
              /\ woken' = woken \cup ({registrations[token[h]].waiter} \ {None})
    BY <1>8 DEF Mio!wait_timeout, Mio!event_handled
  <2>2. \A g \in Handles : Live(g)' <=> Live(g)
    BY <2>1 DEF Live
  <2>3. CASE registrations' = registrations /\ woken' = woken
    <3>1. \A g \in Handles : Reg(g)' = Reg(g)
      BY <2>1, <2>3 DEF Reg
    <3>2. \A g \in Handles, e \in Directions : Waits(g, e)' = Waits(g, e)
      BY <1>0, <2>2, <3>1, WaitsKept
    <3> QED
      BY <2>1, <2>2, <2>3, <3>2, ByStutter
  <2>4. CASE /\ registrations' = [registrations EXCEPT ![token[h]] =
                                    [waiter |-> None, interest |-> {}]]
             /\ woken' = woken \cup ({registrations[token[h]].waiter} \ {None})
    <3>1. Live(h) /\ token[h] \in Tokens
      BY <1>1, <2>1, LiveToken DEF MioWatches
    <3>2. /\ Reg(h)' = [waiter |-> None, interest |-> {}]
          /\ \A j \in Tokens : j # token[h] => registrations'[j] = registrations[j]
          /\ woken' = woken \cup ({Reg(h).waiter} \ {None})
      BY <1>1, <2>1, <2>4, <3>1 DEF MioType, Reg
    <3>3. \A e \in Directions : Waits(h, e)' = None
      BY <1>2, <3>2
    <3>4. ASSUME NEW g \in Handles, NEW e \in Directions, g # h
          PROVE  Waits(g, e)' = Waits(g, e)
      <4>1. Live(g) => token[g] # token[h] /\ token[g] \in Tokens
        BY <3>1, <3>4, LiveToken DEF IInv, TokensFit
      <4>2. Live(g) => Reg(g)' = Reg(g)
        BY <2>1, <3>2, <4>1 DEF Reg
      <4> QED
        BY <1>0, <2>2, <4>2, WaitsKept
    <3>5. CASE Reg(h).waiter = None
      <4>1. \A g \in Handles, e \in Directions : Waits(g, e)' = Waits(g, e)
        BY <1>2, <3>3, <3>4, <3>5
      <4>2. woken' = woken
        BY <3>2, <3>5
      <4> QED
        BY <2>1, <2>2, <4>1, <4>2, ByStutter
    <3>6. CASE Reg(h).waiter # None
      <4>1. PICK d \in Uses[h] : Reg(h).interest = {d}
        BY <1>1, <3>1, <3>6 DEF MioWatches
      <4>2. d \in Directions
        BY <4>1, Nones
      <4>3. Waits(h, d) = Reg(h).waiter
            /\ \A e \in Directions : e # d => Waits(h, e) = None
        BY <1>2, <3>1, <4>1, <4>2
      <4>4. woken' = woken \cup {Waits(h, d)}
        BY <3>2, <3>6, <4>3
      <4>5. \A g \in Handles, e \in Directions :
              ~(g = h /\ e = d) => Waits(g, e)' = Waits(g, e)
        BY <3>3, <3>4, <4>3
      <4> QED
        BY <2>1, <2>2, <3>3, <3>6, <4>2, <4>3, <4>4, <4>5, ByWake
    <3> QED
      BY <3>5, <3>6
  <2> QED
    BY <2>1, <2>3, <2>4
<1> QED
  BY <1>0, <1>1, <1>3, <1>4, <1>5, <1>6, <1>7, <1>8 DEF Mio!DriverStep

LEMMA IocpStep_Promised ==
  ASSUME OneDirection, IInv, IInv', IocpDoes(Iocp!DriverStep)
  PROVE  Promised
<1>0. /\ driver = "Iocp" /\ driver' = driver /\ driver' = "Iocp"
      /\ Iocp!DriverStep
  BY DEF IocpDoes
<1>1. IocpType /\ IocpPolls /\ Iocp!Directions = Directions
  BY <1>0, IocpTypes DEF Iocp!Directions, Directions
<1>2. \A h \in Handles, d \in Directions :
        /\ Waits(h, d) = IF /\ Live(h) /\ Reg(h).poll_token # None
                            /\ poll_ops[Reg(h).poll_token].events = {d}
                           THEN Reg(h).waiter ELSE None
        /\ Waits(h, d)' = IF /\ Live(h)' /\ Reg(h)'.poll_token # None
                             /\ poll_ops'[Reg(h)'.poll_token].events = {d}
                            THEN Reg(h)'.waiter ELSE None
  BY <1>0 DEF Waits
<1>3. ASSUME NEW h \in Handles, NEW k \in Tokens,
             Iocp!register_handle_with_mode(h, k)
      PROVE  Promised
  <2> DEFINE v == [waiter |-> None, poll_token |-> None]
  <2>1. /\ trying = None /\ ~Live(h) /\ registrations[k] = None
        /\ registrations' = [registrations EXCEPT ![k] = v]
        /\ token' = [token EXCEPT ![h] = k]
        /\ \E r \in Readiness(h) : ready' = [ready EXCEPT ![h] = r]
        /\ trying' = trying /\ woken' = woken /\ poll_ops' = poll_ops
    BY <1>3 DEF Iocp!register_handle_with_mode, Iocp!Idle, Iocp!Live, Live,
                Iocp!Adopt, Iocp!Readiness, Readiness, Iocp!Directions, Directions
  <2>2. registrations'[k] = v /\ v.poll_token = None /\ v # None
        /\ \A j \in Tokens : j # k => registrations'[j] = registrations[j]
    BY <1>1, <2>1, IocpRecord DEF IocpType
  <2> HIDE DEF v
  <2>3. /\ Live(h)' /\ Reg(h)' = v
        /\ \A g \in Handles : g # h =>
             (Live(g)' <=> Live(g)) /\ (Live(g) => Reg(g)' = Reg(g))
    BY <2>1, <2>2, Registers
  <2>4. \A e \in Directions : Waits(h, e)' = None
    BY <1>2, <2>2, <2>3
  <2>5. \A g \in Handles, e \in Directions : g # h => Waits(g, e)' = Waits(g, e)
    BY <1>0, <2>1, <2>3, WaitsKept
  <2> QED
    BY <2>1, <2>3, <2>4, <2>5, ByRegister
<1>4. ASSUME NEW h \in Handles, Iocp!deregister_handle(h)
      PROVE  Promised
  <2>1. /\ trying = None /\ Live(h)
        /\ registrations' = [registrations EXCEPT ![token[h]] = None]
        /\ token' = [token EXCEPT ![h] = None]
        /\ poll_ops' = IF Reg(h).poll_token = None THEN poll_ops
                       ELSE [poll_ops EXCEPT ![Reg(h).poll_token].of = Gone,
                                             ![Reg(h).poll_token].events = {}]
        /\ trying' = trying /\ ready' = ready /\ woken' = woken
    BY <1>4 DEF Iocp!deregister_handle, Iocp!Idle, Iocp!Live, Live, Reg,
                Iocp!cancel_poll_operation
  <2>2. \A j \in Tokens : j # token[h] => registrations'[j] = registrations[j]
    BY <1>1, <2>1, LiveToken DEF IocpType
  <2>3. /\ ~Live(h)'
        /\ \A g \in Handles : g # h =>
             (Live(g)' <=> Live(g)) /\ (Live(g) => Reg(g)' = Reg(g))
    BY <2>1, <2>2, Deregisters
  <2>4. ASSUME NEW q \in PollTokens, q # Reg(h).poll_token
        PROVE  poll_ops'[q] = poll_ops[q]
    <3>1. CASE Reg(h).poll_token = None
      BY <2>1, <3>1
    <3>2. CASE Reg(h).poll_token # None
      BY <1>1, <2>1, <2>4, <3>2 DEF IocpType
    <3> QED
      BY <3>1, <3>2
  <2>5. ASSUME NEW g \in Handles, NEW e \in Directions, g # h
        PROVE  Waits(g, e)' = Waits(g, e)
    <3>1. Live(g) /\ Reg(g).poll_token # None =>
            Reg(g).poll_token # Reg(h).poll_token /\ Reg(g).poll_token \in PollTokens
      BY <1>0, <2>1, <2>5, PollsDiffer, IocpTypes
    <3> QED
      BY <1>0, <2>3, <2>4, <2>5, <3>1, WaitsKept
  <2> QED
    BY <2>1, <2>3, <2>5, ByDeregister
<1>5. ASSUME Iocp!submit_poll
      PROVE  Promised
  <2>1. trying # None /\ trying' = None /\ token' = token /\ ready' = ready
        /\ woken' = woken
    BY <1>5 DEF Iocp!submit_poll
  <2>2. PICK h \in Handles, d \in Directions, k \in Tokens :
          /\ h = trying.handle /\ d = trying.direction /\ k = token[h]
          /\ Live(h) /\ trying.task \in Tasks /\ d \in Uses[h]
    BY <2>1, TryingType
  <2>3. PICK p \in PollTokens : Iocp!arm_poll_operation(k, p, d, h)
    BY <1>5, <2>2 DEF Iocp!submit_poll
  <2>4. /\ registrations[k] = Reg(h) /\ Reg(h)' = registrations'[k]
        /\ Reg(h) \in Iocp!PollRegistration
        /\ Reg(h).poll_token \in PollTokens \cup {None}
        /\ \A g \in Handles : Live(g)' <=> Live(g)
    BY <1>0, <2>1, <2>2, IocpTypes DEF Reg, Live
  <2>5. CASE Reg(h).poll_token # None
    <3>1. /\ registrations' = [registrations EXCEPT ![k].waiter = trying.task]
          /\ poll_ops' = poll_ops
      BY <2>3, <2>4, <2>5 DEF Iocp!arm_poll_operation
    <3>2. registrations'[k] = [Reg(h) EXCEPT !.waiter = trying.task]
          /\ \A j \in Tokens : j # k => registrations'[j] = registrations[j]
      BY <1>1, <2>4, <3>1 DEF IocpType
    <3>3. Reg(h)'.waiter = trying.task /\ Reg(h)'.poll_token = Reg(h).poll_token
      <4>1. Reg(h) \in [waiter : Tasks \cup {None}, poll_token : PollTokens \cup {None}]
        BY <2>4, Records
      <4> QED
        BY <2>4, <3>2, <4>1
    <3>4. poll_ops[Reg(h).poll_token].events = {d}
      BY <1>1, <2>2, <2>5, OnlyUse DEF IocpPolls
    <3>5. Waits(h, d)' = trying.task
      BY <1>2, <2>2, <2>4, <2>5, <3>1, <3>3, <3>4
    <3>6. ASSUME NEW g \in Handles, NEW e \in Directions, ~(g = h /\ e = d)
          PROVE  Waits(g, e)' = Waits(g, e)
      <4>1. CASE g = h
        <5>1. {d} # {e}
          BY <3>6, <4>1
        <5> QED
          BY <1>2, <3>1, <3>3, <3>4, <4>1, <5>1
      <4>2. CASE g # h
        <5>1. Live(g) => token[g] # k /\ token[g] \in Tokens
          BY <2>2, <4>2, LiveToken DEF IInv, TokensFit
        <5>2. Live(g) => Reg(g)' = Reg(g)
          BY <2>1, <3>2, <5>1 DEF Reg
        <5> QED
          BY <1>0, <2>4, <3>1, <5>2, WaitsKept
      <4> QED
        BY <4>1, <4>2
    <3> QED
      BY <2>1, <2>2, <2>4, <3>5, <3>6, ByAnswer
  <2>6. CASE Reg(h).poll_token = None
    <3> DEFINE o == [registration_token |-> k, events |-> {d}, of |-> h]
               v == [waiter |-> trying.task, poll_token |-> p]
    <3>1. /\ registrations' = [registrations EXCEPT ![k] = v]
          /\ poll_ops' = [poll_ops EXCEPT ![p] = o] /\ poll_ops[p] = None
      BY <2>3, <2>4, <2>6 DEF Iocp!arm_poll_operation
    <3>2. v.waiter = trying.task /\ v.poll_token = p /\ o.events = {d} /\ p # None
      BY Nones
    <3> HIDE DEF v, o
    <3>3. /\ Reg(h)' = v /\ poll_ops'[p] = o
          /\ \A j \in Tokens : j # k => registrations'[j] = registrations[j]
          /\ \A q \in PollTokens : q # p => poll_ops'[q] = poll_ops[q]
      BY <1>1, <2>4, <3>1 DEF IocpType
    <3>4. Waits(h, d)' = trying.task
      BY <1>2, <2>2, <2>4, <3>2, <3>3
    <3>5. ASSUME NEW g \in Handles, NEW e \in Directions, ~(g = h /\ e = d)
          PROVE  Waits(g, e)' = Waits(g, e)
      <4>1. CASE g = h
        <5>1. {d} # {e}
          BY <3>5, <4>1
        <5> QED
          BY <1>2, <2>6, <3>2, <3>3, <4>1, <5>1
      <4>2. CASE g # h
        <5>1. Live(g) => token[g] # k /\ token[g] \in Tokens
          BY <2>2, <4>2, LiveToken DEF IInv, TokensFit
        <5>2. Live(g) => Reg(g)' = Reg(g)
          BY <2>1, <3>3, <5>1 DEF Reg
        <5>3. Live(g) /\ Reg(g).poll_token # None =>
                Reg(g).poll_token \in PollTokens /\ Reg(g).poll_token # p
          BY <1>0, <1>1, <3>1, IocpTypes DEF IocpPolls
        <5> QED
          BY <1>0, <2>4, <3>3, <5>2, <5>3, WaitsKept
      <4> QED
        BY <4>1, <4>2
    <3> QED
      BY <2>1, <2>2, <2>4, <3>4, <3>5, ByAnswer
  <2> QED
    BY <2>5, <2>6
<1>6. ASSUME Iocp!submit_poll_failed
      PROVE  Promised
  <2>1. /\ trying # None /\ trying' = None /\ token' = token /\ ready' = ready
        /\ woken' = woken /\ poll_ops' = poll_ops
    BY <1>6 DEF Iocp!submit_poll_failed
  <2>2. PICK h \in Handles, d \in Directions, k \in Tokens :
          /\ h = trying.handle /\ d = trying.direction /\ k = token[h] /\ Live(h)
    BY <2>1, TryingType
  <2>3. /\ registrations[k] = Reg(h) /\ Reg(h)' = registrations'[k]
        /\ Reg(h) \in Iocp!PollRegistration
        /\ \A g \in Handles : Live(g)' <=> Live(g)
    BY <1>0, <2>1, <2>2, IocpTypes DEF Reg, Live
  <2>4. /\ Reg(h).poll_token = None
        /\ registrations' = [registrations EXCEPT ![k].waiter = trying.task]
    BY <1>6, <2>2, <2>3 DEF Iocp!submit_poll_failed
  <2>5. /\ registrations'[k] = [Reg(h) EXCEPT !.waiter = trying.task]
        /\ \A j \in Tokens : j # k => registrations'[j] = registrations[j]
    BY <1>1, <2>3, <2>4 DEF IocpType
  <2>6. Reg(h)'.poll_token = None
    <3>1. Reg(h) \in [waiter : Tasks \cup {None}, poll_token : PollTokens \cup {None}]
      BY <2>3, Records
    <3> QED
      BY <2>3, <2>4, <2>5, <3>1
  <2>7. \A e \in Directions : Waits(h, e)' = None /\ Waits(h, e) = None
    BY <1>2, <2>4, <2>6
  <2>8. ASSUME NEW g \in Handles, NEW e \in Directions, g # h
        PROVE  Waits(g, e)' = Waits(g, e)
    <3>1. Live(g) => token[g] # k /\ token[g] \in Tokens
      BY <2>2, <2>8, LiveToken DEF IInv, TokensFit
    <3>2. Live(g) => Reg(g)' = Reg(g)
      BY <2>1, <2>5, <3>1 DEF Reg
    <3> QED
      BY <1>0, <2>1, <2>3, <3>2, WaitsKept
  <2> QED
    BY <2>1, <2>2, <2>3, <2>7, <2>8, ByAnswer
<1>7. ASSUME NEW h \in Handles, NEW d \in Directions, Iocp!ReadinessChanges(h, d)
      PROVE  Promised
  <2>1. /\ registrations' = registrations /\ token' = token /\ trying' = trying
        /\ ready' = [ready EXCEPT ![h][d] = ~ready[h][d]] /\ woken' = woken
        /\ poll_ops' = poll_ops
    BY <1>7 DEF Iocp!ReadinessChanges, Iocp!driverVars
  <2>2. \A g \in Handles : (Live(g)' <=> Live(g)) /\ Reg(g)' = Reg(g)
    BY <2>1 DEF Live, Reg
  <2>3. \A g \in Handles, e \in Directions : Waits(g, e)' = Waits(g, e)
    BY <1>0, <2>1, <2>2, WaitsKept
  <2> QED
    BY <2>1, <2>2, <2>3, ByReadiness
<1>8. ASSUME NEW p \in PollTokens, Iocp!PollCompletes(p)
      PROVE  Promised
  <2>1. /\ registrations' = registrations /\ token' = token /\ trying' = trying
        /\ ready' = ready /\ woken' = woken /\ poll_ops' = poll_ops
    BY <1>8 DEF Iocp!PollCompletes, Iocp!taskVars
  <2>2. \A g \in Handles : (Live(g)' <=> Live(g)) /\ Reg(g)' = Reg(g)
    BY <2>1 DEF Live, Reg
  <2>3. \A g \in Handles, e \in Directions : Waits(g, e)' = Waits(g, e)
    BY <1>0, <2>1, <2>2, WaitsKept
  <2> QED
    BY <2>1, <2>2, <2>3, ByStutter
<1>9. ASSUME NEW p \in PollTokens, Iocp!process_entries(p)
      PROVE  Promised
  <2> DEFINE r == registrations[poll_ops[p].registration_token]
  <2>1. /\ token' = token /\ trying' = trying /\ ready' = ready
        /\ p \in posted /\ poll_ops' = [poll_ops EXCEPT ![p] = None]
        /\ r = None => registrations' = registrations /\ woken' = woken
        /\ r # None =>
             /\ registrations' =
                  [registrations EXCEPT ![poll_ops[p].registration_token] =
                     [waiter |-> None,
                      poll_token |-> IF r.poll_token = p THEN None ELSE r.poll_token]]
             /\ woken' = woken \cup ({r.waiter} \ {None})
    BY <1>9 DEF Iocp!process_entries
  <2>2. PICK k \in Tokens : k = poll_ops[p].registration_token
    <3>1. poll_ops[p] \in Iocp!PollOp
      BY <1>1, <2>1 DEF IocpPolls, IocpType
    <3> QED
      BY <3>1, Records
  <2>3. /\ \A j \in Tokens : j # k => registrations'[j] = registrations[j]
        /\ \A q \in PollTokens : q # p => poll_ops'[q] = poll_ops[q]
        /\ \A g \in Handles : Live(g)' <=> Live(g)
    <3>1. \A j \in Tokens : j # k => registrations'[j] = registrations[j]
      <4>1. CASE r = None
        BY <2>1, <4>1
      <4>2. CASE r # None
        BY <1>1, <2>1, <2>2, <4>2 DEF IocpType
      <4> QED
        BY <4>1, <4>2
    <3> QED
      BY <1>1, <2>1, <3>1 DEF IocpType, Live
  <2>4. ASSUME NEW g \in Handles, NEW e \in Directions, token[g] # k
        PROVE  Waits(g, e)' = Waits(g, e)
    <3>1. Live(g) => Reg(g)' = Reg(g)
      BY <2>1, <2>3, <2>4, LiveToken DEF Reg
    <3>2. Live(g) /\ Reg(g).poll_token # None =>
            Reg(g).poll_token \in PollTokens /\ Reg(g).poll_token # p
      BY <1>0, <1>1, <2>2, <2>4, IocpTypes DEF IocpPolls
    <3> QED
      BY <1>0, <2>3, <3>1, <3>2, WaitsKept
  <2>5. r # None => r.waiter \in Tasks \cup {None}
    <3>1. r # None => r \in Iocp!PollRegistration
      BY <1>1, <2>2 DEF IocpType
    <3> HIDE DEF r
    <3> QED
      BY <3>1, Records
  <2>6. CASE \E g \in Handles : Live(g) /\ token[g] = k
    <3>1. PICK g \in Handles : Live(g) /\ token[g] = k
      BY <2>6
    <3>2. r = Reg(g) /\ Reg(g) # None /\ \A i \in Handles : i # g => token[i] # k
      BY <2>2, <3>1, LiveToken DEF IInv, TokensFit, Reg
    <3>3. Reg(g)'.waiter = None /\ woken' = woken \cup ({Reg(g).waiter} \ {None})
      BY <1>1, <2>1, <2>2, <3>1, <3>2 DEF IocpType, Reg
    <3> HIDE DEF r
    <3>4. \A e \in Directions : Waits(g, e)' = None
      BY <1>2, <3>3
    <3>5. CASE \A e \in Directions : Waits(g, e) = None
      <4>1. \A i \in Handles, e \in Directions : Waits(i, e)' = Waits(i, e)
        BY <2>4, <3>2, <3>4, <3>5
      <4>2. woken' = woken \/ \E t \in Tasks : woken' = woken \cup {t}
        BY <2>5, <3>2, <3>3
      <4> QED
        BY <2>1, <2>3, <4>1, <4>2, ByStutter, BySpurious
    <3>6. CASE ~\A e \in Directions : Waits(g, e) = None
      <4>1. PICK d \in Directions : Waits(g, d) # None
        BY <3>6
      <4>2. /\ Reg(g).poll_token # None /\ Waits(g, d) = Reg(g).waiter
            /\ poll_ops[Reg(g).poll_token].events = {d}
        BY <1>2, <4>1
      <4>3. \A e \in Directions : e # d => Waits(g, e) = None
        <5>1. \A e \in Directions : e # d => {d} # {e}
          OBVIOUS
        <5> QED
          BY <1>2, <4>2, <5>1
      <4>4. woken' = woken \cup {Waits(g, d)}
        BY <3>3, <4>1, <4>2
      <4>5. \A i \in Handles, e \in Directions :
              ~(i = g /\ e = d) => Waits(i, e)' = Waits(i, e)
        BY <2>4, <3>2, <3>4, <4>3
      <4> QED
        BY <2>1, <2>3, <3>4, <4>1, <4>4, <4>5, ByWake
    <3> QED
      BY <3>5, <3>6
  <2>7. CASE ~\E g \in Handles : Live(g) /\ token[g] = k
    <3>1. \A g \in Handles : token[g] # k
      BY <2>7, LiveToken
    <3>2. \A g \in Handles, e \in Directions : Waits(g, e)' = Waits(g, e)
      BY <2>4, <3>1
    <3>3. woken' = woken \/ \E t \in Tasks : woken' = woken \cup {t}
      BY <2>1, <2>5
    <3> QED
      BY <2>1, <2>3, <3>2, <3>3, ByStutter, BySpurious
  <2> QED
    BY <2>6, <2>7
<1> QED
  BY <1>0, <1>1, <1>3, <1>4, <1>5, <1>6, <1>7, <1>8, <1>9 DEF Iocp!DriverStep

LEMMA Next_Promised ==
  ASSUME OneDirection, IInv, IInv', [Next]_vars
  PROVE  Promised
<1>1. CASE UNCHANGED vars
  <2>1. /\ driver' = driver /\ token' = token /\ trying' = trying
        /\ ready' = ready /\ woken' = woken /\ registrations' = registrations
        /\ poll_ops' = poll_ops
    BY <1>1 DEF vars, taskVars, iocpVars
  <2>2. \A g \in Handles : (Live(g)' <=> Live(g)) /\ Reg(g)' = Reg(g)
    BY <2>1 DEF Live, Reg
  <2>3. \A g \in Handles, e \in Directions : Waits(g, e)' = Waits(g, e)
    BY <2>1, <2>2, WaitsKept
  <2> QED
    BY <2>1, <2>2, <2>3, ByStutter
<1> QED
  BY <1>1, TaskStep_Promised, UringStep_Promised, MioStep_Promised,
     IocpStep_Promised DEF Next

\* Whichever driver a runtime has, its steps are steps of PollDriver: a
\* waiter goes away only by being woken, replaced, refused or deregistered,
\* although tokens are reused while completions of an earlier owner are on
\* their way and edges of epoll are consumed when nobody waits (uring.rs:328-351,
\* 530-602, mio.rs:74-99, 199-227, iocp.rs:550-606, 826-865).  Each handle is
\* used in one direction.
THEOREM Refinement ==
  OneDirection => (Spec => Promise!Init /\ [][Promise!Next]_(Promise!vars))
<1> SUFFICES ASSUME OneDirection
             PROVE  Spec => Promise!Init /\ [][Promise!Next]_(Promise!vars)
  OBVIOUS
<1>1. Init => Promise!Init
  <2> SUFFICES ASSUME Init PROVE Promise!Init
    OBVIOUS
  <2>1. IInv
    BY Init_IInv
  <2>2. /\ trying = None /\ token = [h \in Handles |-> None] /\ woken = Tasks
        /\ ready = [h \in Handles |-> [d \in Directions |-> FALSE]]
    BY DEF Init, TasksInit
  <2>3. \A h \in Handles : ~Live(h)
    BY <2>2 DEF Live
  <2>4. waiting = [h \in Handles |-> [d \in Directions |-> None]]
    <3> DEFINE n == [h \in Handles |-> [d \in Directions |-> None]]
    <3>1. n \in [Handles -> [Directions -> Waker]]
          /\ \A h \in Handles, d \in Directions : n[h][d] = None
      BY DEF Waker
    <3>2. /\ waiting \in [Handles -> [Directions -> Waker]]
          /\ \A h \in Handles, d \in Directions : waiting[h][d] = None
      BY <2>1, <2>3, WaitingBefore DEF WaitingFits
    <3> HIDE DEF n
    <3>3. waiting = n
      BY <3>1, <3>2, Agree
    <3> QED
      BY <3>3 DEF n
  <2>5. {h \in Handles : Live(h)} = {} /\ asking = None
    BY <2>2, <2>3 DEF asking
  <2> QED
    BY <2>2, <2>4, <2>5 DEF Promise!Init, Promise!NoWaiters
<1>2. IInv /\ IInv' /\ [Next]_vars => [Promise!Next]_(Promise!vars)
  BY Next_Promised DEF Promised
<1> QED
  BY <1>1, <1>2, Invariant, PTL DEF Spec

LEMMA Accepts ==
  ASSUME OneDirection, IInv, IInv', submit_poll
  PROVE  waiting'[trying.handle][trying.needs] = trying.task
<1>1. trying # None /\ token' = token
  BY DEF submit_poll, UringDoes, MioDoes, IocpDoes, IoUring!submit_poll,
         Mio!submit_poll, Iocp!submit_poll
<1>2. PICK h \in Handles, d \in Directions, k \in Tokens :
        /\ h = trying.handle /\ d = trying.direction /\ k = token[h]
        /\ Live(h) /\ trying.task \in Tasks /\ d \in Uses[h] /\ trying.needs = d
  BY <1>1, TryingType
<1>3. /\ registrations[k] = Reg(h) /\ Reg(h)' = registrations'[k] /\ Live(h)'
  BY <1>1, <1>2 DEF Reg, Live
<1>4. waiting'[h][d] = Waits(h, d)'
  BY WaitingAfter DEF WaitingFits
<1>5. ASSUME UringDoes(IoUring!submit_poll)
      PROVE  Waits(h, d)' = trying.task
  <2>1. driver = "IoUring" /\ driver' = "IoUring" /\ IoUring!submit_poll
    BY <1>5 DEF UringDoes
  <2>2. /\ registrations \in [Tokens -> IoUring!PollRegistration \cup {None}]
        /\ Reg(h).waiter \in [Directions -> Tasks \cup {None}]
    BY <1>2, <2>1, UringTypes, UringFields DEF UringType
  <2>3. registrations' = [registrations EXCEPT ![k] =
          [poll_mask |-> {d}, waiter |-> [Reg(h).waiter EXCEPT ![d] = trying.task],
           armed |-> [Reg(h).armed EXCEPT ![d] = TRUE]]]
    BY <1>2, <1>3, <2>1 DEF IoUring!submit_poll, IoUring!WithWaiter
  <2>4. Reg(h)'.waiter[d] = trying.task
    BY <1>3, <2>2, <2>3
  <2> QED
    BY <1>3, <2>1, <2>4 DEF Waits
<1>6. ASSUME MioDoes(Mio!submit_poll)
      PROVE  Waits(h, d)' = trying.task
  <2>1. driver = "Mio" /\ driver' = "Mio" /\ Mio!submit_poll
    BY <1>6 DEF MioDoes
  <2>2. registrations \in [Tokens -> Mio!Registration \cup {None}]
    BY <2>1, MioTypes DEF MioType
  <2>3. registrations' = [registrations EXCEPT ![k] =
                            [waiter |-> trying.task, interest |-> {d}]]
    BY <1>2, <2>1 DEF Mio!submit_poll
  <2>4. Reg(h)'.waiter = trying.task /\ Reg(h)'.interest = {d}
    BY <1>3, <2>2, <2>3
  <2> QED
    BY <1>3, <2>1, <2>4 DEF Waits
<1>7. ASSUME IocpDoes(Iocp!submit_poll)
      PROVE  Waits(h, d)' = trying.task
  <2>1. driver = "Iocp" /\ driver' = "Iocp" /\ Iocp!submit_poll
    BY <1>7 DEF IocpDoes
  <2>2. /\ IocpType /\ IocpPolls /\ IocpPolls'
        /\ Reg(h) \in Iocp!PollRegistration
    BY <1>2, <2>1, IocpTypes DEF IInv, DriverInv
  <2>3. PICK p \in PollTokens : Iocp!arm_poll_operation(k, p, d, h)
    BY <1>2, <2>1 DEF Iocp!submit_poll
  <2>4. Reg(h)'.waiter = trying.task /\ Reg(h)'.poll_token # None
    <3>1. CASE Reg(h).poll_token # None
      <4>1. registrations' = [registrations EXCEPT ![k].waiter = trying.task]
        BY <1>3, <2>3, <3>1 DEF Iocp!arm_poll_operation
      <4>2. registrations'[k] = [Reg(h) EXCEPT !.waiter = trying.task]
        BY <1>3, <2>2, <4>1 DEF IocpType
      <4>3. Reg(h) \in [waiter : Tasks \cup {None},
                        poll_token : PollTokens \cup {None}]
        BY <2>2, Records
      <4> QED
        BY <1>3, <3>1, <4>2, <4>3
    <3>2. CASE Reg(h).poll_token = None
      <4>1. registrations' = [registrations EXCEPT ![k] =
                                [waiter |-> trying.task, poll_token |-> p]]
        BY <1>3, <2>3, <3>2 DEF Iocp!arm_poll_operation
      <4> QED
        BY <1>3, <2>2, <4>1, Nones DEF IocpType
    <3> QED
      BY <3>1, <3>2
  <2>5. poll_ops'[Reg(h)'.poll_token].events = {d}
    BY <1>2, <1>3, <2>2, <2>4, OnlyUse DEF IocpPolls
  <2> QED
    BY <1>3, <2>1, <2>4, <2>5 DEF Waits
<1>8. Waits(h, d)' = trying.task
  BY <1>5, <1>6, <1>7 DEF submit_poll
<1> QED
  BY <1>2, <1>4, <1>8

\* A waker that submit_poll accepts is owed its wake from then on
\* (uring.rs:530-602, mio.rs:199-227, iocp.rs:826-865).
THEOREM Accepted == OneDirection => (Spec => AcceptedIsOwed)
<1> SUFFICES ASSUME OneDirection PROVE Spec => AcceptedIsOwed
  OBVIOUS
<1>1. IInv /\ IInv' /\ [Next]_vars =>
        [submit_poll => waiting'[trying.handle][trying.needs] = trying.task]_vars
  BY Accepts
<1> QED
  BY <1>1, Invariant, PTL DEF Spec, AcceptedIsOwed
=============================================================================

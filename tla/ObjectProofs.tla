---------------------------- MODULE ObjectProofs ----------------------------
(***************************************************************************)
(* Proofs about the objects of RuntimeObjects: registered handles          *)
(* (Handles), for every number of objects, descriptors, files and slab     *)
(* keys; and what moves bytes, for every buffer size, every number of jobs *)
(* and every amount of data: copy (Copies), the AsyncRead and AsyncWrite   *)
(* wrapper (Wrapper) and reads through the blocking pool (Pool).           *)
(***************************************************************************)
EXTENDS RuntimeObjects, SequenceTheorems, FiniteSetTheorems, TLAPS

-----------------------------------------------------------------------------
(* Registered handles.                                                     *)

ObjectType ==
  [poll : BOOLEAN, fd : Fds, token : Tokens, mode : {"Poll", "Completion"}]

RegistrationType == [fd : Fds, mode : {"Poll", "Completion"}]

HandleType ==
  /\ type \in Handles!AllTypes
  /\ completion \in BOOLEAN /\ unbound \in BOOLEAN
  /\ file \in [Fds -> Files \cup {None}]
  /\ nonblocking \in [Files -> BOOLEAN]
  /\ raw \subseteq Fds
  /\ obj \in [Objects -> ObjectType \cup {None}]
  /\ registrations \in [Tokens -> RegistrationType \cup {None}]

Has(o, f) == obj[o] # None /\ obj[o].fd = f
Holds(o, k) == obj[o] # None /\ obj[o].token = k

\* What is owned is open and is owned once; what is open is owned.
Owners ==
  /\ \A o \in Objects, f \in Fds : Has(o, f) => file[f] # None /\ f \notin raw
  /\ \A o, p \in Objects, f \in Fds : Has(o, f) /\ Has(p, f) => o = p
  /\ \A f \in raw : file[f] # None
  /\ \A f \in Fds : file[f] # None =>
       f \in raw \/ \E o \in Objects : Has(o, f)

\* The keys of two objects differ, as long as none has lost its registration.
Registered ==
  /\ \A o \in Objects : obj[o] # None =>
       registrations[obj[o].token] = [fd |-> obj[o].fd, mode |-> obj[o].mode]
  /\ \A k \in Tokens : registrations[k] # None =>
       k \in leaked \/ \E o \in Objects : Holds(o, k)
  /\ \A o, p \in Objects, k \in Tokens : Holds(o, k) /\ Holds(p, k) => o = p

\* Two descriptors have one file only if it was cloned.
Shared ==
  \A f, g \in Fds :
    (f # g /\ file[f] # None /\ file[f] = file[g]) => file[f] \in cloned

HandleInv ==
  /\ HandleType
  /\ Owners
  /\ unbound = FALSE => Registered
  /\ Shared
  /\ NonblockingFitsMode

-----------------------------------------------------------------------------
(* Facts that the steps use.                                               *)

LEMMA NoneIsNone ==
  /\ None \notin ObjectType /\ None \notin RegistrationType
  /\ None \notin Files /\ None \notin Tokens /\ None \notin Fds
  /\ Token0 \in Tokens
BY RuntimeObjectsAssumption, NoneAssumption
DEF RuntimeObjectsAssumption, NoneAssumption, ObjectType, RegistrationType

LEMMA Types ==
  ASSUME HandleInv
  PROVE  /\ \A o \in Objects : obj[o] # None =>
              /\ obj[o] \in ObjectType
              /\ obj[o].fd \in Fds /\ obj[o].token \in Tokens
              /\ obj[o].mode \in {"Poll", "Completion"}
              /\ obj[o].poll \in BOOLEAN
              /\ Has(o, obj[o].fd) /\ Holds(o, obj[o].token)
         /\ \A o \in Objects : obj[o] # None => file[obj[o].fd] \in Files
         /\ \A f \in Fds : file[f] # None => file[f] \in Files
         /\ type.poll \subseteq {"Poll", "Completion"}
<1>1. \A o \in Objects : obj[o] # None =>
        /\ obj[o] \in ObjectType
        /\ obj[o].fd \in Fds /\ obj[o].token \in Tokens
        /\ obj[o].mode \in {"Poll", "Completion"}
        /\ obj[o].poll \in BOOLEAN
        /\ Has(o, obj[o].fd) /\ Holds(o, obj[o].token)
  BY DEF HandleInv, HandleType, ObjectType, Has, Holds
<1>2. \A f \in Fds : file[f] # None => file[f] \in Files
  BY DEF HandleInv, HandleType
<1>3. \A t \in Handles!AllTypes : t.poll \subseteq {"Poll", "Completion"}
  BY DEF Handles!AllTypes, Handles!TcpStream, Handles!TcpListener,
         Handles!UnixStream, Handles!UnixListener, Handles!UdpSocket,
         Handles!Pipe
<1>4. \A o \in Objects : obj[o] # None => file[obj[o].fd] \in Files
  BY <1>1, <1>2 DEF HandleInv, Owners
<1> QED
  BY <1>1, <1>2, <1>3, <1>4 DEF HandleInv, HandleType

LEMMA EffectiveMode ==
  ASSUME NEW mode \in {"Poll", "Completion"}
  PROVE  Handles!Effective(mode) \in {"Poll", "Completion"}
BY DEF Handles!Effective

\* The flag of the file of an object's descriptor fits the object.
Fits(o) ==
  nonblocking[file[obj[o].fd]] = ~Handles!uses_completion(obj[o].mode)

LEMMA FlagFits ==
  NonblockingFitsMode <=>
    \A o \in Objects :
      (obj[o] # None /\ file[obj[o].fd] \notin cloned \cup unset) => Fits(o)
BY DEF NonblockingFitsMode, Handles!NonblockingFitsMode, Fits

-----------------------------------------------------------------------------
(* The program's own descriptors.                                          *)

LEMMA NewSocket_Inv ==
  ASSUME HandleInv, NEW f \in Fds, Handles!NewSocket(f)
  PROVE  HandleInv'
<1> USE DEF HandleInv
<1> DEFINE d == Handles!FreshFile
<1>1. d \in Files /\ \A g \in Fds : file[g] # d
  BY DEF Handles!NewSocket, Handles!FreshFile, Handles!Unused
<1>2. PICK b \in BOOLEAN : nonblocking' = [nonblocking EXCEPT ![d] = b]
  BY DEF Handles!NewSocket
<1>3. /\ UNCHANGED <<type, completion, obj, registrations, leaked, unbound>>
      /\ file[f] = None /\ file' = [file EXCEPT ![f] = d]
      /\ cloned' = cloned \ {d} /\ unset' = unset \ {d}
      /\ raw' = raw \cup {f}
  BY DEF Handles!NewSocket, Handles!fixed
<1> HIDE DEF d
<1>4. HandleType'
  BY <1>1, <1>2, <1>3 DEF HandleType
<1>5. \A g \in Fds : file'[g] = IF g = f THEN d ELSE file[g]
  BY <1>3 DEF HandleType
<1>6. \A o \in Objects, g \in Fds : Has(o, g)' <=> Has(o, g)
  BY <1>3 DEF Has
<1>7. \A o \in Objects : ~Has(o, f)
  BY <1>3 DEF Owners
<1>8. Owners'
  BY <1>1, <1>3, <1>5, <1>6, <1>7, NoneIsNone DEF Owners
<1>9. unbound' = FALSE => Registered'
  BY <1>3 DEF Registered, Holds
<1>10. Shared'
  BY <1>1, <1>3, <1>5 DEF Shared
<1>11. NonblockingFitsMode'
  <2> SUFFICES ASSUME NEW o \in Objects, obj[o] # None,
                      file'[obj[o].fd] \notin cloned' \cup unset'
               PROVE  Fits(o)'
    BY <1>3 DEF NonblockingFitsMode, Handles!NonblockingFitsMode, Fits
  <2>1. obj[o].fd # f /\ obj[o].fd \in Fds
    BY <1>7, Types
  <2>2. file'[obj[o].fd] = file[obj[o].fd] /\ file[obj[o].fd] # d
    BY <1>1, <1>5, <2>1
  <2>3. file[obj[o].fd] \in Files
    BY Types
  <2>4. file[obj[o].fd] \notin cloned \cup unset
    BY <1>3, <2>2
  <2>5. nonblocking'[file[obj[o].fd]] = nonblocking[file[obj[o].fd]]
    BY <1>2, <2>2, <2>3 DEF HandleType
  <2>6. Fits(o)
    BY <2>4, FlagFits
  <2> QED
    BY <1>3, <2>2, <2>5, <2>6 DEF Fits, Handles!uses_completion
<1> QED
  BY <1>4, <1>8, <1>9, <1>10, <1>11

\* A descriptor of the program is closed.
LEMMA Close_Inv ==
  ASSUME HandleInv, NEW f \in raw,
         raw' = raw \ {f}, file' = Handles!Closed(f),
         UNCHANGED <<type, completion, nonblocking, unset, cloned, obj>>,
         registrations' \in [Tokens -> RegistrationType \cup {None}],
         unbound' \in BOOLEAN, unbound' = FALSE => Registered'
  PROVE  HandleInv'
<1> USE DEF HandleInv, Handles!Closed
<1>1. f \in Fds /\ \A o \in Objects : ~Has(o, f)
  BY DEF Owners, HandleType
<1>2. \A g \in Fds : file'[g] = IF g = f THEN None ELSE file[g]
  BY <1>1 DEF HandleType
<1>3. HandleType'
  BY <1>1 DEF HandleType
<1>4. \A o \in Objects, g \in Fds : Has(o, g)' <=> Has(o, g)
  BY DEF Has
<1>5. Owners'
  BY <1>1, <1>2, <1>4 DEF Owners
<1>6. Shared'
  BY <1>2 DEF Shared
<1>7. NonblockingFitsMode'
  <2> SUFFICES ASSUME NEW o \in Objects, obj[o] # None,
                      file'[obj[o].fd] \notin cloned \cup unset
               PROVE  Fits(o)'
    BY DEF NonblockingFitsMode, Handles!NonblockingFitsMode, Fits
  <2>1. file'[obj[o].fd] = file[obj[o].fd]
    BY <1>1, <1>2, Types
  <2>2. Fits(o)
    BY <2>1, FlagFits
  <2> QED
    BY <2>1, <2>2 DEF Fits, Handles!uses_completion
<1> QED
  BY <1>3, <1>5, <1>6, <1>7

LEMMA CloseRaw_Inv ==
  ASSUME HandleInv, NEW f \in Fds, Handles!CloseRaw(f)
  PROVE  HandleInv'
<1>1. /\ f \in raw /\ raw' = raw \ {f} /\ file' = Handles!Closed(f)
      /\ UNCHANGED <<type, completion, nonblocking, unset, cloned, obj,
                     registrations, leaked, unbound>>
  BY DEF Handles!CloseRaw, Handles!fixed
<1>2. unbound' \in BOOLEAN /\ (unbound' = FALSE => Registered')
  BY <1>1 DEF HandleInv, HandleType, Registered, Holds
<1>3. registrations' \in [Tokens -> RegistrationType \cup {None}]
  BY <1>1 DEF HandleInv, HandleType
<1> QED
  BY <1>1, <1>2, <1>3, Close_Inv

LEMMA from_std_unregistered_Inv ==
  ASSUME HandleInv, NEW f \in Fds, Handles!from_std_unregistered(f)
  PROVE  HandleInv'
<1>1. /\ f \in raw /\ raw' = raw \ {f} /\ file' = Handles!Closed(f)
      /\ UNCHANGED <<type, completion, nonblocking, unset, cloned, obj, leaked>>
      /\ registrations' = [registrations EXCEPT ![Token0] = None]
      /\ unbound' = (registrations[Token0] # None)
      /\ ~unbound
  BY DEF Handles!from_std_unregistered, Handles!fixed, Handles!FirstFailure
<1>2. unbound' \in BOOLEAN
  BY <1>1
<1>3. registrations' \in [Tokens -> RegistrationType \cup {None}]
  BY <1>1 DEF HandleInv, HandleType
<1>4. ASSUME unbound' = FALSE
      PROVE  Registered'
  <2>1. registrations[Token0] = None /\ unbound = FALSE
    BY <1>1, <1>4 DEF HandleInv, HandleType
  <2>2. registrations' = registrations
    BY <1>1, <2>1, NoneIsNone DEF HandleInv, HandleType
  <2> QED
    BY <1>1, <2>1, <2>2 DEF HandleInv, Registered, Holds
<1> QED
  BY <1>1, <1>2, <1>3, <1>4, Close_Inv

LEMMA from_std_blocking_Inv ==
  ASSUME HandleInv, NEW f \in Fds, NEW k \in Tokens,
         Handles!from_std_blocking(f, k)
  PROVE  HandleInv'
<1> DEFINE r == [fd |-> f, mode |-> "Poll"]
<1>1. /\ f \in raw /\ raw' = raw \ {f} /\ file' = Handles!Closed(f)
      /\ UNCHANGED <<type, completion, nonblocking, unset, cloned, obj, unbound>>
      /\ leaked' = leaked \cup {k} /\ registrations[k] = None
      /\ registrations' = [registrations EXCEPT ![k] = r]
  BY DEF Handles!from_std_blocking, Handles!fixed
<1>2. unbound' \in BOOLEAN
  BY <1>1 DEF HandleInv, HandleType
<1>3. r \in RegistrationType
  BY DEF RegistrationType
<1> HIDE DEF r
<1>4. /\ registrations' \in [Tokens -> RegistrationType \cup {None}]
      /\ \A j \in Tokens :
           registrations'[j] = IF j = k THEN r ELSE registrations[j]
  BY <1>1, <1>3 DEF HandleInv, HandleType
<1>5. ASSUME unbound' = FALSE
      PROVE  Registered'
  <2>1. Registered /\ UNCHANGED obj
    BY <1>1, <1>5 DEF HandleInv
  <2>2. \A o \in Objects, j \in Tokens : Holds(o, j)' <=> Holds(o, j)
    BY <2>1 DEF Holds
  <2>3. \A o \in Objects : obj[o] # None =>
          obj[o].token # k /\ obj[o].token \in Tokens
    <3> SUFFICES ASSUME NEW o \in Objects, obj[o] # None
                 PROVE  obj[o].token # k /\ obj[o].token \in Tokens
      OBVIOUS
    <3>1. /\ obj[o].fd \in Fds /\ obj[o].token \in Tokens
          /\ obj[o].mode \in {"Poll", "Completion"}
      BY Types
    <3>2. [fd |-> obj[o].fd, mode |-> obj[o].mode] # None
      BY <3>1, NoneIsNone DEF RegistrationType
    <3> QED
      BY <1>1, <2>1, <3>1, <3>2 DEF Registered
  <2> QED
    BY <1>1, <1>4, <2>1, <2>2, <2>3 DEF Registered
<1> QED
  BY <1>1, <1>2, <1>4, <1>5, Close_Inv

-----------------------------------------------------------------------------
(* An object for a descriptor.                                             *)

\* While every object is registered, no object has a vacant key.
LEMMA VacantKey ==
  ASSUME HandleInv, Registered, NEW k \in Tokens, registrations[k] = None
  PROVE  \A o \in Objects : ~Holds(o, k)
<1> SUFFICES ASSUME NEW o \in Objects, Holds(o, k)
             PROVE  FALSE
  OBVIOUS
<1>1. /\ obj[o] # None /\ obj[o].token = k /\ obj[o].fd \in Fds
      /\ obj[o].mode \in {"Poll", "Completion"}
  BY Types DEF Holds
<1>2. [fd |-> obj[o].fd, mode |-> obj[o].mode] # None
  BY <1>1, NoneIsNone DEF RegistrationType
<1> QED
  BY <1>1, <1>2 DEF Registered

\* O_NONBLOCK of the file d, and of no other, is set to what fits the mode, or
\* the call that should do so has failed.
Flagged(d, mode) ==
  /\ nonblocking' \in [Files -> BOOLEAN]
  /\ \A e \in Files : e # d => nonblocking'[e] = nonblocking[e]
  /\ \A e \in Files : e # d /\ e \in unset => e \in unset'
  /\ d \in unset' \/ nonblocking'[d] = ~Handles!uses_completion(mode)

LEMMA SetFlag ==
  ASSUME HandleInv, NEW d \in Files, NEW mode \in {"Poll", "Completion"},
         \/ Handles!set_nonblocking(d, mode)
         \/ Handles!Set(d, ~Handles!uses_completion(mode))
         \/ Handles!NotSet(d)
         \/ /\ nonblocking' = [nonblocking EXCEPT ![d] = TRUE]
            /\ unset' = unset \cup {d}
  PROVE  Flagged(d, mode)
<1> DEFINE b == ~Handles!uses_completion(mode)
<1>1. b \in BOOLEAN
  BY DEF Handles!uses_completion, HandleInv, HandleType
<1>2. nonblocking \in [Files -> BOOLEAN]
  BY DEF HandleInv, HandleType
<1>3. CASE Handles!Set(d, b)
  <2>1. nonblocking' = [nonblocking EXCEPT ![d] = b] /\ unset' = unset \ {d}
    BY <1>3 DEF Handles!Set
  <2> HIDE DEF b
  <2>2. /\ nonblocking' \in [Files -> BOOLEAN] /\ nonblocking'[d] = b
        /\ \A e \in Files : e # d => nonblocking'[e] = nonblocking[e]
    BY <1>1, <1>2, <2>1
  <2> QED
    BY <2>1, <2>2 DEF Flagged, b
<1>4. CASE Handles!NotSet(d)
  BY <1>2, <1>4 DEF Handles!NotSet, Flagged
<1>5. CASE /\ nonblocking' = [nonblocking EXCEPT ![d] = TRUE]
           /\ unset' = unset \cup {d}
  BY <1>2, <1>5 DEF Flagged
<1> QED
  BY <1>3, <1>4, <1>5 DEF Handles!set_nonblocking

LEMMA Adopt_Inv ==
  ASSUME HandleInv, NEW o \in Objects, NEW f \in Fds, NEW d \in Files,
         NEW poll \in BOOLEAN, NEW mode \in {"Poll", "Completion"},
         NEW k \in Tokens,
         Handles!Adopt(o, f, d, poll, mode, k),
         file' = [file EXCEPT ![f] = d], raw' = raw \ {f},
         \A p \in Objects : ~Has(p, f),
         cloned \subseteq cloned', Shared',
         UNCHANGED <<type, completion, leaked, unbound>>
  PROVE  HandleInv'
<1> USE DEF HandleInv
<1> DEFINE m == Handles!Effective(mode)
           r == [fd |-> f, mode |-> m]
           n == [poll |-> poll, fd |-> f, token |-> k, mode |-> m]
<1>1. /\ obj[o] = None /\ registrations[k] = None
      /\ registrations' = [registrations EXCEPT ![k] = r]
      /\ obj' = [obj EXCEPT ![o] = n]
      /\ Handles!set_nonblocking(d, m)
  BY DEF Handles!Adopt
<1>2. m \in {"Poll", "Completion"}
  BY EffectiveMode
<1> HIDE DEF m
<1>3. n \in ObjectType /\ r \in RegistrationType
  BY <1>2 DEF ObjectType, RegistrationType
<1>4. /\ n.fd = f /\ n.token = k /\ n.mode = m
      /\ r = [fd |-> n.fd, mode |-> n.mode]
      /\ n # None /\ r # None
  BY <1>3, NoneIsNone
<1> HIDE DEF n, r
<1>5. Flagged(d, m)
  BY <1>1, <1>2, SetFlag
<1>6. HandleType'
  BY <1>1, <1>3, <1>5 DEF HandleType, Flagged
<1>7. /\ \A p \in Objects : obj'[p] = IF p = o THEN n ELSE obj[p]
      /\ \A g \in Fds : file'[g] = IF g = f THEN d ELSE file[g]
      /\ \A j \in Tokens :
           registrations'[j] = IF j = k THEN r ELSE registrations[j]
  BY <1>1 DEF HandleType
<1>8. \A p \in Objects, g \in Fds :
        Has(p, g)' <=> (p = o /\ g = f) \/ (p # o /\ Has(p, g))
  BY <1>4, <1>7 DEF Has
<1>9. \A p \in Objects, j \in Tokens :
        Holds(p, j)' <=> (p = o /\ j = k) \/ (p # o /\ Holds(p, j))
  BY <1>4, <1>7 DEF Holds
<1>10. ~Has(o, f) /\ \A g \in Fds : ~Has(o, g)
  BY <1>1 DEF Has
<1>11. Owners'
  <2>1. \A p \in Objects, g \in Fds :
          Has(p, g)' => file'[g] # None /\ g \notin raw'
    BY <1>7, <1>8, NoneIsNone DEF Owners
  <2>2. \A p, q \in Objects, g \in Fds : Has(p, g)' /\ Has(q, g)' => p = q
    BY <1>8 DEF Owners
  <2>3. \A g \in raw' : file'[g] # None
    BY <1>7 DEF Owners, HandleType
  <2>4. \A g \in Fds : file'[g] # None =>
          g \in raw' \/ \E p \in Objects : Has(p, g)'
    BY <1>7, <1>8, <1>10 DEF Owners
  <2> QED
    BY <2>1, <2>2, <2>3, <2>4 DEF Owners
<1>12. ASSUME unbound' = FALSE
       PROVE  Registered'
  <2>1. Registered
    BY <1>12
  <2>2. \A p \in Objects : ~Holds(p, k)
    BY <1>1, <2>1, VacantKey
  <2>3. \A p \in Objects : obj'[p] # None =>
          registrations'[obj'[p].token] =
            [fd |-> obj'[p].fd, mode |-> obj'[p].mode]
    <3> SUFFICES ASSUME NEW p \in Objects, obj'[p] # None
                 PROVE  registrations'[obj'[p].token] =
                          [fd |-> obj'[p].fd, mode |-> obj'[p].mode]
      OBVIOUS
    <3>1. CASE p = o
      BY <1>4, <1>7, <3>1
    <3>2. CASE p # o
      <4>1. obj'[p] = obj[p] /\ obj[p].token \in Tokens /\ obj[p].token # k
        BY <1>7, <2>2, <3>2, Types DEF Holds
      <4> QED
        BY <1>7, <2>1, <4>1 DEF Registered
    <3> QED
      BY <3>1, <3>2
  <2>4. \A j \in Tokens : registrations'[j] # None =>
          j \in leaked' \/ \E p \in Objects : Holds(p, j)'
    BY <1>1, <1>7, <1>9, <2>1 DEF Registered, Holds
  <2>5. \A p, q \in Objects, j \in Tokens :
          Holds(p, j)' /\ Holds(q, j)' => p = q
    BY <1>9, <2>1, <2>2 DEF Registered
  <2> QED
    BY <2>3, <2>4, <2>5 DEF Registered
<1>13. NonblockingFitsMode'
  <2> SUFFICES ASSUME NEW p \in Objects, obj'[p] # None,
                      file'[obj'[p].fd] \notin cloned' \cup unset'
               PROVE  Fits(p)'
    BY DEF NonblockingFitsMode, Handles!NonblockingFitsMode, Fits
  <2>1. CASE p = o
    <3>1. obj'[p] = n /\ file'[n.fd] = d
      BY <1>4, <1>7, <2>1
    <3> QED
      BY <1>4, <1>5, <3>1 DEF Fits, Flagged, Handles!uses_completion
  <2>2. CASE p # o
    <3>1. obj'[p] = obj[p] /\ obj[p] # None
      BY <1>7, <2>2
    <3>2. obj[p].fd \in Fds /\ obj[p].fd # f /\ file[obj[p].fd] \in Files
      BY <3>1, Types
    <3>3. file'[obj[p].fd] = file[obj[p].fd] /\ file'[f] = d
      BY <1>7, <3>2
    <3>4. file[obj[p].fd] # d
      BY <3>1, <3>2, <3>3, NoneIsNone DEF Shared
    <3>5. /\ nonblocking'[file[obj[p].fd]] = nonblocking[file[obj[p].fd]]
          /\ file[obj[p].fd] \notin cloned \cup unset
      BY <1>5, <3>1, <3>2, <3>3, <3>4 DEF Flagged
    <3>6. Fits(p)
      BY <3>1, <3>5, FlagFits
    <3> QED
      BY <3>1, <3>3, <3>5, <3>6 DEF Fits, Handles!uses_completion
  <2> QED
    BY <2>1, <2>2
<1> QED
  BY <1>6, <1>11, <1>12, <1>13

LEMMA from_std_with_mode_Inv ==
  ASSUME HandleInv, NEW o \in Objects, NEW f \in Fds, NEW k \in Tokens,
         Handles!from_std_with_mode(o, f, k)
  PROVE  HandleInv'
<1>1. /\ f \in raw /\ raw' = raw \ {f}
      /\ UNCHANGED <<type, completion, file, cloned, leaked, unbound>>
  BY DEF Handles!from_std_with_mode, Handles!fixed
<1>2. PICK poll \in BOOLEAN, mode \in {"Poll", "Completion"} :
        Handles!Adopt(o, f, file[f], poll, mode, k)
  BY Types DEF Handles!from_std_with_mode
<1>3. file[f] \in Files /\ \A p \in Objects : ~Has(p, f)
  BY <1>1, Types DEF HandleInv, Owners
<1>4. file' = [file EXCEPT ![f] = file[f]] /\ cloned \subseteq cloned'
  BY <1>1 DEF HandleInv, HandleType
<1>5. Shared'
  BY <1>1 DEF HandleInv, Shared
<1> QED
  BY <1>1, <1>2, <1>3, <1>4, <1>5, Adopt_Inv

LEMMA try_clone_Inv ==
  ASSUME HandleInv, NEW o \in Objects, NEW p \in Objects, NEW f \in Fds,
         NEW k \in Tokens, Handles!try_clone(o, p, f, k)
  PROVE  HandleInv'
<1> DEFINE d == file[obj[o].fd]
<1>1. /\ obj[o] # None /\ file[f] = None
      /\ file' = [file EXCEPT ![f] = d] /\ cloned' = cloned \cup {d}
      /\ Handles!Adopt(p, f, d, obj[o].poll, "Completion", k)
      /\ UNCHANGED <<type, completion, raw, leaked, unbound>>
  BY DEF Handles!try_clone, Handles!fixed
<1>2. d \in Files /\ obj[o].poll \in BOOLEAN
  BY <1>1, Types
<1> HIDE DEF d
<1>3. raw' = raw \ {f} /\ \A q \in Objects : ~Has(q, f)
  BY <1>1 DEF HandleInv, Owners
<1>4. Shared'
  <2>1. \A g \in Fds : file'[g] = IF g = f THEN d ELSE file[g]
    BY <1>1 DEF HandleInv, HandleType
  <2> QED
    BY <1>1, <2>1 DEF HandleInv, Shared
<1>5. cloned \subseteq cloned'
  BY <1>1
<1> QED
  BY <1>1, <1>2, <1>3, <1>4, <1>5, Adopt_Inv

-----------------------------------------------------------------------------
(* An object changes its mode, its key or its type.                        *)

LEMMA Change_Inv ==
  ASSUME HandleInv, NEW o \in Objects, obj[o] # None, NEW n \in ObjectType,
         n.fd = obj[o].fd, obj' = [obj EXCEPT ![o] = n],
         UNCHANGED <<type, completion, file, cloned, raw>>,
         registrations' \in [Tokens -> RegistrationType \cup {None}],
         unbound' \in BOOLEAN, unbound' = FALSE => Registered',
         \/ UNCHANGED <<nonblocking, unset>> /\ n.mode = obj[o].mode
         \/ Flagged(file[obj[o].fd], n.mode)
  PROVE  HandleInv'
<1> USE DEF HandleInv
<1>1. \A p \in Objects : obj'[p] = IF p = o THEN n ELSE obj[p]
  BY DEF HandleType
<1>2. nonblocking' \in [Files -> BOOLEAN]
  BY DEF Flagged, HandleType
<1>3. HandleType'
  BY <1>2 DEF HandleType
<1>4. n # None
  BY NoneIsNone
<1>5. \A p \in Objects, g \in Fds : Has(p, g)' <=> Has(p, g)
  BY <1>1, <1>4 DEF Has
<1>6. Owners'
  BY <1>5 DEF Owners
<1>7. Shared'
  BY DEF Shared
<1>8. NonblockingFitsMode'
  <2> SUFFICES ASSUME NEW p \in Objects, obj'[p] # None,
                      file[obj'[p].fd] \notin cloned \cup unset'
               PROVE  Fits(p)'
    BY DEF NonblockingFitsMode, Handles!NonblockingFitsMode, Fits
  <2>1. file[obj[o].fd] \in Files
    BY Types
  <2>2. CASE p = o
    <3>1. obj'[p] = n /\ file[obj'[p].fd] = file[obj[o].fd]
      BY <1>1, <2>2
    <3>2. CASE UNCHANGED <<nonblocking, unset>> /\ n.mode = obj[o].mode
      <4>1. Fits(o)
        BY <3>1, <3>2, FlagFits
      <4> QED
        BY <3>1, <3>2, <4>1 DEF Fits, Handles!uses_completion
    <3>3. CASE Flagged(file[obj[o].fd], n.mode)
      <4>1. nonblocking'[file[obj[o].fd]] = ~Handles!uses_completion(n.mode)
        BY <3>1, <3>3 DEF Flagged
      <4> QED
        BY <3>1, <4>1 DEF Fits, Handles!uses_completion
    <3> QED
      BY <3>2, <3>3
  <2>3. CASE p # o
    <3>1. obj'[p] = obj[p] /\ obj[p] # None
      BY <1>1, <2>3
    <3>2. /\ obj[p].fd \in Fds /\ obj[o].fd \in Fds
          /\ Has(p, obj[p].fd) /\ Has(o, obj[o].fd)
          /\ file[obj[p].fd] \in Files
      BY <3>1, Types
    <3>3. obj[p].fd # obj[o].fd
      BY <2>3, <3>2 DEF Owners
    <3>4. file[obj[p].fd] # file[obj[o].fd]
      BY <3>1, <3>2, <3>3, NoneIsNone DEF Shared
    <3>5. /\ nonblocking'[file[obj[p].fd]] = nonblocking[file[obj[p].fd]]
          /\ file[obj[p].fd] \notin cloned \cup unset
      BY <3>1, <3>2, <3>4 DEF Flagged
    <3>6. Fits(p)
      BY <3>1, <3>5, FlagFits
    <3> QED
      BY <3>1, <3>5, <3>6 DEF Fits, Handles!uses_completion
  <2> QED
    BY <2>2, <2>3
<1> QED
  BY <1>3, <1>6, <1>7, <1>8

LEMMA Reregister_Registered ==
  ASSUME HandleInv, NEW o \in Objects, obj[o] # None, NEW n \in ObjectType,
         n.fd = obj[o].fd, Registered, UNCHANGED leaked,
         obj' = [obj EXCEPT ![o] = n],
         \/ /\ n.mode = obj[o].mode /\ n.token = obj[o].token
            /\ UNCHANGED registrations
         \/ Handles!Reregister(o, n.mode, n.token)
  PROVE  Registered'
<1>1. /\ obj[o] \in ObjectType /\ obj[o].token \in Tokens
      /\ n.token \in Tokens /\ n # None
      /\ n.fd \in Fds /\ n.mode \in {"Poll", "Completion"}
      /\ Holds(o, obj[o].token)
  BY Types, NoneIsNone DEF ObjectType
<1>2. \A p \in Objects : obj'[p] = IF p = o THEN n ELSE obj[p]
  BY DEF HandleInv, HandleType
<1>3. \A p \in Objects, j \in Tokens : Holds(p, j)' <=>
        (p = o /\ j = n.token) \/ (p # o /\ Holds(p, j))
  BY <1>1, <1>2 DEF Holds
<1>4. \A p \in Objects : p # o => ~Holds(p, obj[o].token)
  BY <1>1 DEF Registered
<1>5. CASE /\ n.mode = obj[o].mode /\ n.token = obj[o].token
           /\ UNCHANGED registrations
  <2>1. n.token = obj[o].token /\ registrations' = registrations
    BY <1>5
  <2>2. \A p \in Objects, j \in Tokens : Holds(p, j)' <=> Holds(p, j)
    BY <1>1, <1>3, <1>4, <2>1 DEF Holds
  <2>3. \A p \in Objects : obj'[p] # None =>
          registrations'[obj'[p].token] =
            [fd |-> obj'[p].fd, mode |-> obj'[p].mode]
    BY <1>2, <1>5, <2>1 DEF Registered
  <2> QED
    BY <2>1, <2>2, <2>3 DEF Registered
<1>6. CASE Handles!Reregister(o, n.mode, n.token)
  <2> DEFINE r == [fd |-> n.fd, mode |-> n.mode]
  <2>1. /\ n.token = obj[o].token \/ registrations[n.token] = None
        /\ registrations' = [registrations EXCEPT
             ![obj[o].token] = None, ![n.token] = r]
    BY <1>6 DEF Handles!Reregister
  <2>2. r # None
    BY <1>1, NoneIsNone DEF RegistrationType
  <2> HIDE DEF r
  <2>3. \A j \in Tokens : registrations'[j] =
          IF j = n.token THEN r
          ELSE IF j = obj[o].token THEN None ELSE registrations[j]
    BY <1>1, <2>1 DEF HandleInv, HandleType
  <2>4. \A p \in Objects : p # o => ~Holds(p, n.token)
    <3>1. CASE registrations[n.token] = None
      BY <1>1, <3>1, VacantKey
    <3> QED
      BY <1>4, <2>1, <3>1
  <2>5. \A p \in Objects : obj'[p] # None =>
          registrations'[obj'[p].token] =
            [fd |-> obj'[p].fd, mode |-> obj'[p].mode]
    <3> SUFFICES ASSUME NEW p \in Objects, obj'[p] # None
                 PROVE  registrations'[obj'[p].token] =
                          [fd |-> obj'[p].fd, mode |-> obj'[p].mode]
      OBVIOUS
    <3>1. CASE p = o
      BY <1>1, <1>2, <2>3, <3>1 DEF r
    <3>2. CASE p # o
      <4>1. obj'[p] = obj[p] /\ obj[p] # None
        BY <1>2, <3>2
      <4>2. Holds(p, obj[p].token) /\ obj[p].token \in Tokens
        BY <4>1, Types
      <4>3. obj[p].token # n.token /\ obj[p].token # obj[o].token
        BY <1>1, <1>4, <2>4, <3>2, <4>2
      <4> QED
        BY <2>3, <4>1, <4>2, <4>3 DEF Registered
    <3> QED
      BY <3>1, <3>2
  <2>6. \A j \in Tokens : registrations'[j] # None =>
          j \in leaked' \/ \E p \in Objects : Holds(p, j)'
    <3> SUFFICES ASSUME NEW j \in Tokens, registrations'[j] # None,
                        j \notin leaked
                 PROVE  \E p \in Objects : Holds(p, j)'
      OBVIOUS
    <3>1. CASE j = n.token
      BY <1>3, <3>1
    <3>2. CASE j # n.token
      <4>1. j # obj[o].token /\ registrations[j] # None
        BY <2>3, <3>2
      <4>2. PICK p \in Objects : Holds(p, j)
        BY <4>1 DEF Registered
      <4>3. p # o
        BY <4>1, <4>2 DEF Holds
      <4> QED
        BY <1>3, <4>2, <4>3
    <3> QED
      BY <3>1, <3>2
  <2>7. \A p, q \in Objects, j \in Tokens :
          Holds(p, j)' /\ Holds(q, j)' => p = q
    BY <1>3, <2>4 DEF Registered
  <2> QED
    BY <2>5, <2>6, <2>7 DEF Registered
<1> QED
  BY <1>5, <1>6

\* What rebinding and setting the flag do to an object.
LEMMA Rebind_Inv ==
  ASSUME HandleInv, NEW o \in Objects, obj[o] # None, NEW n \in ObjectType,
         n.fd = obj[o].fd, obj' = [obj EXCEPT ![o] = n],
         \/ Handles!rebind_mode(o, n.mode, n.token)
         \/ Handles!Reregister(o, n.mode, n.token),
         Flagged(file[obj[o].fd], n.mode),
         UNCHANGED <<type, completion, file, cloned, raw, leaked, unbound>>
  PROVE  HandleInv'
<1>1. /\ obj[o].fd \in Fds /\ obj[o].token \in Tokens
      /\ n.mode \in {"Poll", "Completion"} /\ n.token \in Tokens
  BY Types DEF ObjectType
<1>2. [fd |-> obj[o].fd, mode |-> n.mode] \in RegistrationType
  BY <1>1 DEF RegistrationType
<1>3. \/ /\ n.mode = obj[o].mode /\ n.token = obj[o].token
         /\ UNCHANGED registrations
      \/ Handles!Reregister(o, n.mode, n.token)
  BY DEF Handles!rebind_mode
<1>4. registrations' \in [Tokens -> RegistrationType \cup {None}]
  BY <1>1, <1>2, <1>3 DEF Handles!Reregister, HandleInv, HandleType
<1>5. unbound' \in BOOLEAN
  BY DEF HandleInv, HandleType
<1>6. unbound' = FALSE => Registered'
  BY <1>3, Reregister_Registered DEF HandleInv
<1> QED
  BY <1>4, <1>5, <1>6, Change_Inv

LEMMA Convert_Inv ==
  ASSUME HandleInv, NEW o \in Objects, NEW poll \in BOOLEAN,
         NEW mode \in {"Poll", "Completion"}, NEW k \in Tokens,
         Handles!Convert(o, poll, mode, k)
  PROVE  HandleInv'
<1> DEFINE m == Handles!Effective(mode)
           n == [obj[o] EXCEPT !.mode = m, !.token = k, !.poll = poll]
<1>1. /\ obj[o] # None
      /\ Handles!rebind_mode(o, m, k)
      /\ Handles!set_nonblocking(file[obj[o].fd], m)
      /\ obj' = [obj EXCEPT ![o].mode = m, ![o].token = k, ![o].poll = poll]
      /\ UNCHANGED <<type, completion, file, cloned, raw, leaked, unbound>>
  BY DEF Handles!Convert, Handles!fixed
<1>2. obj[o] \in ObjectType /\ obj[o].fd \in Fds /\ obj[o].token \in Tokens
  BY <1>1, Types
<1>3. m \in {"Poll", "Completion"}
  BY EffectiveMode
<1> HIDE DEF m
<1>4. obj' = [obj EXCEPT ![o] = n]
  BY <1>1, <1>2 DEF HandleInv, HandleType
<1>5. /\ n \in ObjectType /\ n.fd = obj[o].fd /\ n.token = k /\ n.mode = m
  BY <1>2, <1>3 DEF ObjectType
<1> HIDE DEF n
<1>6. Flagged(file[obj[o].fd], m)
  BY <1>1, <1>3, SetFlag, Types
<1> QED
  BY <1>1, <1>4, <1>5, <1>6, Rebind_Inv

LEMMA connect_one_Inv ==
  ASSUME HandleInv, NEW o \in Objects, NEW k \in Tokens,
         Handles!connect_one(o, k)
  PROVE  HandleInv'
<1> DEFINE d == file[obj[o].fd]
<1>1. /\ obj[o] # None
      /\ UNCHANGED <<type, completion, file, cloned, raw, leaked, unbound>>
  BY DEF Handles!connect_one, Handles!fixed
<1>2. /\ obj[o] \in ObjectType /\ d \in Files
      /\ obj[o].mode \in {"Poll", "Completion"}
  BY <1>1, Types
<1> HIDE DEF d
<1>3. PICK m \in {"Poll", "Completion"} :
        /\ Handles!rebind_mode(o, m, k) \/ Handles!Reregister(o, m, k)
        /\ obj' = [obj EXCEPT ![o] = [obj[o] EXCEPT !.mode = m, !.token = k]]
        /\ Flagged(d, m)
  <2>1. CASE /\ Handles!rebind_mode(o, "Poll", k)
             /\ Handles!Set(d, TRUE) \/ Handles!NotSet(d)
             /\ obj' = [obj EXCEPT ![o].mode = "Poll", ![o].token = k]
    <3>1. ~Handles!uses_completion("Poll")
      BY DEF Handles!uses_completion
    <3>2. Flagged(d, "Poll")
      <4>1. CASE Handles!Set(d, TRUE)
        <5>1. Handles!Set(d, ~Handles!uses_completion("Poll"))
          BY <3>1, <4>1 DEF Handles!Set
        <5> QED
          BY <1>2, <5>1, SetFlag
      <4>2. CASE Handles!NotSet(d)
        BY <1>2, <4>2, SetFlag
      <4> QED
        BY <2>1, <4>1, <4>2
    <3>3. obj' = [obj EXCEPT ![o] =
                    [obj[o] EXCEPT !.mode = "Poll", !.token = k]]
      BY <1>2, <2>1 DEF HandleInv, HandleType
    <3> QED
      BY <2>1, <3>2, <3>3
  <2>2. CASE /\ IF obj[o].mode = "Poll"
                  THEN Handles!rebind_mode(o, "Poll", k)
                  ELSE Handles!Reregister(o, obj[o].mode, k)
             /\ obj' = [obj EXCEPT ![o].token = k]
             /\ \/ Handles!Set(d, ~Handles!uses_completion(obj[o].mode))
                \/ /\ nonblocking' = [nonblocking EXCEPT ![d] = TRUE]
                   /\ unset' = unset \cup {d}
    <3>1. \/ Handles!rebind_mode(o, obj[o].mode, k)
          \/ Handles!Reregister(o, obj[o].mode, k)
      BY <2>2
    <3>2. Flagged(d, obj[o].mode)
      BY <1>2, <2>2, SetFlag
    <3>3. [obj[o] EXCEPT !.mode = obj[o].mode, !.token = k]
            = [obj[o] EXCEPT !.token = k]
      BY <1>2 DEF ObjectType
    <3>4. obj' = [obj EXCEPT ![o] =
                    [obj[o] EXCEPT !.mode = obj[o].mode, !.token = k]]
      BY <2>2, <3>3 DEF HandleInv, HandleType
    <3> QED
      BY <1>2, <3>1, <3>2, <3>4
  <2> QED
    BY <2>1, <2>2 DEF Handles!connect_one, d
<1> DEFINE n == [obj[o] EXCEPT !.mode = m, !.token = k]
<1>4. /\ n \in ObjectType /\ n.fd = obj[o].fd /\ n.token = k /\ n.mode = m
  BY <1>2, <1>3 DEF ObjectType
<1>5. obj' = [obj EXCEPT ![o] = n]
  BY <1>3
<1> HIDE DEF n
<1> QED
  BY <1>1, <1>3, <1>4, <1>5, Rebind_Inv DEF d

LEMMA Conversions_Inv ==
  ASSUME HandleInv, NEW o \in Objects, NEW k \in Tokens,
         \/ Handles!into_poll(o, k)
         \/ Handles!into_completion(o, k)
         \/ Handles!connect_one(o, k)
  PROVE  HandleInv'
<1>1. CASE Handles!into_poll(o, k)
  BY <1>1, Convert_Inv DEF Handles!into_poll
<1>2. CASE Handles!into_completion(o, k)
  BY <1>2, Convert_Inv DEF Handles!into_completion
<1>3. CASE Handles!connect_one(o, k)
  BY <1>3, connect_one_Inv
<1> QED
  BY <1>1, <1>2, <1>3

LEMMA into_adaptive_Inv ==
  ASSUME HandleInv, NEW o \in Objects, Handles!into_adaptive(o)
  PROVE  HandleInv'
<1> DEFINE n == [obj[o] EXCEPT !.poll = FALSE]
<1>1. /\ obj[o] # None /\ obj' = [obj EXCEPT ![o].poll = FALSE]
      /\ UNCHANGED <<type, completion, file, nonblocking, unset, cloned, raw,
                     registrations, leaked, unbound>>
  BY DEF Handles!into_adaptive, Handles!fixed
<1>2. obj[o] \in ObjectType
  BY <1>1, Types
<1>3. obj' = [obj EXCEPT ![o] = n]
  BY <1>1, <1>2 DEF HandleInv, HandleType
<1>4. /\ n \in ObjectType /\ n.fd = obj[o].fd /\ n.token = obj[o].token
      /\ n.mode = obj[o].mode
  BY <1>2 DEF ObjectType
<1> HIDE DEF n
<1>5. /\ registrations' \in [Tokens -> RegistrationType \cup {None}]
      /\ unbound' \in BOOLEAN
  BY <1>1 DEF HandleInv, HandleType
<1>6. unbound' = FALSE => Registered'
  BY <1>1, <1>3, <1>4, Reregister_Registered DEF HandleInv
<1> QED
  BY <1>1, <1>3, <1>4, <1>5, <1>6, Change_Inv

LEMMA connect_one_failed_Inv ==
  ASSUME HandleInv, NEW o \in Objects, Handles!connect_one_failed(o)
  PROVE  HandleInv'
<1>1. /\ obj[o] # None /\ unbound' = TRUE
      /\ registrations' = [registrations EXCEPT ![obj[o].token] = None]
      /\ UNCHANGED <<type, completion, file, cloned, raw, leaked>>
  BY DEF Handles!connect_one_failed, Handles!fixed
<1>2. obj[o] \in ObjectType /\ file[obj[o].fd] \in Files
  BY <1>1, Types
<1>3. registrations' \in [Tokens -> RegistrationType \cup {None}]
  BY <1>1 DEF HandleInv, HandleType
<1>4. CASE UNCHANGED <<obj, nonblocking, unset>>
  <2>1. obj' = [obj EXCEPT ![o] = obj[o]]
    BY <1>4 DEF HandleInv, HandleType
  <2> QED
    BY <1>1, <1>2, <1>3, <1>4, <2>1, Change_Inv
<1>5. CASE /\ obj' = [obj EXCEPT ![o].mode = "Poll"]
           /\ Handles!Set(file[obj[o].fd], TRUE)
  <2> DEFINE n == [obj[o] EXCEPT !.mode = "Poll"]
  <2>1. obj' = [obj EXCEPT ![o] = n]
    BY <1>2, <1>5 DEF HandleInv, HandleType
  <2>2. n \in ObjectType /\ n.fd = obj[o].fd /\ n.mode = "Poll"
    BY <1>2 DEF ObjectType
  <2> HIDE DEF n
  <2>3. Handles!Set(file[obj[o].fd], ~Handles!uses_completion("Poll"))
    BY <1>5 DEF Handles!Set, Handles!uses_completion
  <2>4. Flagged(file[obj[o].fd], "Poll")
    BY <1>2, <2>3, SetFlag
  <2> QED
    BY <1>1, <1>3, <2>1, <2>2, <2>4, Change_Inv
<1> QED
  BY <1>4, <1>5 DEF Handles!connect_one_failed

-----------------------------------------------------------------------------
(* An object is given up.                                                  *)

LEMMA Release_Inv ==
  ASSUME HandleInv, NEW o \in Objects, obj[o] # None,
         registrations' = [registrations EXCEPT ![obj[o].token] = None],
         obj' = [obj EXCEPT ![o] = None],
         UNCHANGED <<type, completion, nonblocking, unset, cloned, leaked,
                     unbound>>,
         \/ file' = Handles!Closed(obj[o].fd) /\ raw' = raw
         \/ file' = file /\ raw' = raw \cup {obj[o].fd}
  PROVE  HandleInv'
<1> USE DEF HandleInv, Handles!Closed
<1>1. /\ obj[o].fd \in Fds /\ obj[o].token \in Tokens
      /\ Has(o, obj[o].fd) /\ Holds(o, obj[o].token)
  BY Types
<1>2. HandleType'
  BY <1>1 DEF HandleType
<1>3. /\ \A p \in Objects : obj'[p] = IF p = o THEN None ELSE obj[p]
      /\ \A j \in Tokens : registrations'[j] =
           IF j = obj[o].token THEN None ELSE registrations[j]
  BY <1>1 DEF HandleType
<1>4. \A p \in Objects, g \in Fds : Has(p, g)' <=> p # o /\ Has(p, g)
  BY <1>3 DEF Has
<1>5. \A p \in Objects, j \in Tokens : Holds(p, j)' <=> p # o /\ Holds(p, j)
  BY <1>3 DEF Holds
<1>6. \A g \in Fds : file'[g] = file[g] \/ (g = obj[o].fd /\ file'[g] = None)
  BY <1>1 DEF HandleType
<1>7. Owners'
  <2>1. \A p \in Objects : p # o => ~Has(p, obj[o].fd)
    BY <1>1 DEF Owners
  <2>2. file[obj[o].fd] # None /\ obj[o].fd \notin raw
    BY <1>1 DEF Owners
  <2>3. CASE file' = Handles!Closed(obj[o].fd) /\ raw' = raw
    <3>1. \A g \in Fds :
            file'[g] = IF g = obj[o].fd THEN None ELSE file[g]
      BY <1>1, <2>3 DEF HandleType
    <3>2. \A g \in Fds : Has(o, g) => g = obj[o].fd
      BY DEF Has
    <3> QED
      BY <1>4, <2>1, <2>2, <2>3, <3>1, <3>2 DEF Owners, HandleType
  <2>4. CASE file' = file /\ raw' = raw \cup {obj[o].fd}
    <3>1. \A g \in Fds : Has(o, g) => g = obj[o].fd
      BY DEF Has
    <3> QED
      BY <1>4, <2>1, <2>2, <2>4, <3>1 DEF Owners
  <2> QED
    BY <2>3, <2>4
<1>8. ASSUME unbound' = FALSE
      PROVE  Registered'
  <2>1. Registered
    BY <1>8
  <2>2. \A p \in Objects : p # o => ~Holds(p, obj[o].token)
    BY <1>1, <2>1 DEF Registered
  <2>3. \A p \in Objects : obj'[p] # None =>
          registrations'[obj'[p].token] =
            [fd |-> obj'[p].fd, mode |-> obj'[p].mode]
    <3> SUFFICES ASSUME NEW p \in Objects, obj'[p] # None
                 PROVE  registrations'[obj'[p].token] =
                          [fd |-> obj'[p].fd, mode |-> obj'[p].mode]
      OBVIOUS
    <3>1. p # o /\ obj'[p] = obj[p] /\ obj[p] # None
      BY <1>3
    <3>2. Holds(p, obj[p].token) /\ obj[p].token \in Tokens
      BY <3>1, Types
    <3>3. obj[p].token # obj[o].token
      BY <2>2, <3>1, <3>2
    <3> QED
      BY <1>3, <2>1, <3>1, <3>2, <3>3 DEF Registered
  <2>4. \A j \in Tokens : registrations'[j] # None =>
          j \in leaked' \/ \E p \in Objects : Holds(p, j)'
    <3> SUFFICES ASSUME NEW j \in Tokens, registrations'[j] # None,
                        j \notin leaked
                 PROVE  \E p \in Objects : Holds(p, j)'
      OBVIOUS
    <3>1. j # obj[o].token /\ registrations[j] # None
      BY <1>3
    <3>2. PICK p \in Objects : Holds(p, j)
      BY <2>1, <3>1 DEF Registered
    <3>3. p # o
      BY <3>1, <3>2 DEF Holds
    <3> QED
      BY <1>5, <3>2, <3>3
  <2>5. \A p, q \in Objects, j \in Tokens :
          Holds(p, j)' /\ Holds(q, j)' => p = q
    BY <1>5, <2>1 DEF Registered
  <2> QED
    BY <2>3, <2>4, <2>5 DEF Registered
<1>9. Shared'
  BY <1>6 DEF Shared
<1>10. NonblockingFitsMode'
  <2> SUFFICES ASSUME NEW p \in Objects, obj'[p] # None,
                      file'[obj'[p].fd] \notin cloned \cup unset
               PROVE  Fits(p)'
    BY DEF NonblockingFitsMode, Handles!NonblockingFitsMode, Fits
  <2>1. p # o /\ obj'[p] = obj[p] /\ obj[p] # None
    BY <1>3
  <2>2. obj[p].fd \in Fds /\ Has(p, obj[p].fd)
    BY <2>1, Types
  <2>3. obj[p].fd # obj[o].fd
    BY <1>1, <2>1, <2>2 DEF Owners
  <2>4. file'[obj[p].fd] = file[obj[p].fd]
    BY <1>6, <2>2, <2>3
  <2>5. Fits(p)
    BY <2>1, <2>4, FlagFits
  <2> QED
    BY <2>1, <2>4, <2>5 DEF Fits, Handles!uses_completion
<1> QED
  BY <1>2, <1>7, <1>8, <1>9, <1>10

LEMMA DropObject_Inv ==
  ASSUME HandleInv, NEW o \in Objects,
         Handles!DropObject(o) \/ Handles!into_raw_fd(o)
  PROVE  HandleInv'
BY Release_Inv DEF Handles!DropObject, Handles!into_raw_fd, Handles!fixed

-----------------------------------------------------------------------------
(* The invariant.                                                          *)

LEMMA HandleInit ==
  Init => HandleInv
<1> SUFFICES ASSUME Init
             PROVE  HandleInv
  OBVIOUS
<1> USE DEF Init, Handles!Init
<1>1. HandleType
  BY DEF HandleType
<1>2. \A o \in Objects : obj[o] = None
  OBVIOUS
<1>3. Owners
  BY <1>2 DEF Owners, Has
<1>4. Registered
  BY <1>2 DEF Registered, Holds
<1>5. Shared
  BY DEF Shared
<1>6. NonblockingFitsMode
  BY <1>2 DEF NonblockingFitsMode, Handles!NonblockingFitsMode
<1> QED
  BY <1>1, <1>3, <1>4, <1>5, <1>6 DEF HandleInv

LEMMA HandleStutter ==
  ASSUME HandleInv, UNCHANGED handleVars
  PROVE  HandleInv'
<1> USE DEF handleVars
<1>1. HandleType'
  BY DEF HandleInv, HandleType
<1>2. Owners' /\ Shared'
  BY DEF HandleInv, Owners, Has, Shared
<1>3. unbound' = FALSE => Registered'
  BY DEF HandleInv, Registered, Holds
<1>4. NonblockingFitsMode'
  BY DEF HandleInv, NonblockingFitsMode, Handles!NonblockingFitsMode,
         Handles!uses_completion
<1> QED
  BY <1>1, <1>2, <1>3, <1>4 DEF HandleInv

LEMMA HandleStep ==
  ASSUME HandleInv, Handles!Next
  PROVE  HandleInv'
<1>1. ASSUME NEW f \in Fds, Handles!NewSocket(f)
      PROVE  HandleInv'
  BY <1>1, NewSocket_Inv
<1>2. ASSUME NEW f \in Fds, Handles!from_std_unregistered(f)
      PROVE  HandleInv'
  BY <1>2, from_std_unregistered_Inv
<1>3. ASSUME NEW f \in Fds, Handles!CloseRaw(f)
      PROVE  HandleInv'
  BY <1>3, CloseRaw_Inv
<1>4. ASSUME NEW f \in Fds, NEW k \in Tokens, Handles!from_std_blocking(f, k)
      PROVE  HandleInv'
  BY <1>4, from_std_blocking_Inv
<1>5. ASSUME NEW o \in Objects, NEW f \in Fds, NEW k \in Tokens,
             Handles!from_std_with_mode(o, f, k)
      PROVE  HandleInv'
  BY <1>5, from_std_with_mode_Inv
<1>6. ASSUME NEW o \in Objects, NEW p \in Objects, NEW f \in Fds,
             NEW k \in Tokens, Handles!try_clone(o, p, f, k)
      PROVE  HandleInv'
  BY <1>6, try_clone_Inv
<1>7. ASSUME NEW o \in Objects, NEW k \in Tokens,
             \/ Handles!into_poll(o, k)
             \/ Handles!into_completion(o, k)
             \/ Handles!connect_one(o, k)
      PROVE  HandleInv'
  BY <1>7, Conversions_Inv
<1>8. ASSUME NEW o \in Objects, Handles!into_adaptive(o)
      PROVE  HandleInv'
  BY <1>8, into_adaptive_Inv
<1>9. ASSUME NEW o \in Objects, Handles!connect_one_failed(o)
      PROVE  HandleInv'
  BY <1>9, connect_one_failed_Inv
<1>10. ASSUME NEW o \in Objects,
              Handles!DropObject(o) \/ Handles!into_raw_fd(o)
       PROVE  HandleInv'
  BY <1>10, DropObject_Inv
<1> QED
  BY <1>1, <1>2, <1>3, <1>4, <1>5, <1>6, <1>7, <1>8, <1>9, <1>10
  DEF Handles!Next

\* Whatever is done with handles, and whichever registration fails, HandleInv
\* is true (fd_inner.rs, and the sockets and pipes that have handles).
THEOREM HandleInvariant == Spec => []HandleInv
<1>1. HandleInv /\ [Next]_vars => HandleInv'
  <2>1. [Next]_vars => Handles!Next \/ UNCHANGED handleVars
    BY DEF Next, vars
  <2> QED
    BY <2>1, HandleStep, HandleStutter
<1> QED
  BY <1>1, HandleInit, PTL DEF Spec

-----------------------------------------------------------------------------
(* The properties.                                                         *)

\* A set of which each member is the same has one member.
LEMMA OneMember ==
  ASSUME NEW S, NEW x \in S, \A y \in S : y = x
  PROVE  Cardinality(S) = 1
<1>1. S = {x}
  OBVIOUS
<1> QED
  BY <1>1, FS_Singleton

\* The driver's registrations are those of the live objects, one each, for
\* their own descriptor and mode, unless a failure has taken one away or left
\* one behind (fd_inner.rs:61-84, 113-135, 172-177).
THEOREM RegistrationsAreOwn == Spec => []RegistrationIsOwn
<1>1. ASSUME HandleInv
      PROVE  RegistrationIsOwn
  <2> SUFFICES ASSUME ~unbound
               PROVE  RegistrationIsOwn
    BY DEF RegistrationIsOwn, Handles!RegistrationIsOwn
  <2>1. Registered
    BY <1>1 DEF HandleInv, HandleType
  <2>2. ASSUME NEW k \in Tokens, registrations[k] # None, k \notin leaked
        PROVE  Cardinality({o \in Objects :
                              obj[o] # None /\ obj[o].token = k}) = 1
    <3>1. PICK o \in Objects : Holds(o, k)
      BY <2>1, <2>2 DEF Registered
    <3> DEFINE S == {p \in Objects : obj[p] # None /\ obj[p].token = k}
    <3>2. o \in S /\ \A p \in S : p = o
      BY <2>1, <3>1 DEF Registered, Holds
    <3> HIDE DEF S
    <3>3. Cardinality(S) = 1
      BY <3>2, OneMember
    <3> QED
      BY <3>3 DEF S
  <2>3. \A o \in Objects : obj[o] # None =>
          registrations[obj[o].token] = [fd |-> obj[o].fd, mode |-> obj[o].mode]
    BY <2>1 DEF Registered
  <2> QED
    BY <2>2, <2>3, Zenon DEF RegistrationIsOwn, Handles!RegistrationIsOwn,
                             Handles!Cardinality, Cardinality
<1> QED
  BY <1>1, HandleInvariant, PTL

\* Every open descriptor has one owner that will close it, an object or the
\* program, and a closed one has none: nothing is leaked and nothing closed
\* twice (tcp/stream.rs:559-618, 788-796).
THEOREM DescriptorsHaveOneOwner == Spec => []DescriptorHasOneOwner
<1>1. ASSUME HandleInv
      PROVE  DescriptorHasOneOwner
  <2> SUFFICES ASSUME NEW f \in Fds
               PROVE  Cardinality({o \in Objects :
                                     obj[o] # None /\ obj[o].fd = f})
                        + Cardinality({f} \cap raw) =
                      IF file[f] = None THEN 0 ELSE 1
    BY Zenon DEF DescriptorHasOneOwner, Handles!DescriptorHasOneOwner,
                Handles!Cardinality, Cardinality
  <2> DEFINE S == {o \in Objects : obj[o] # None /\ obj[o].fd = f}
  <2>1. \A o \in Objects : o \in S <=> Has(o, f)
    BY DEF Has
  <2>2. S \subseteq Objects
    OBVIOUS
  <2> HIDE DEF S
  <2>3. Owners
    BY <1>1 DEF HandleInv
  <2>4. CASE file[f] = None
    <3>1. S = {} /\ {f} \cap raw = {}
      BY <2>1, <2>2, <2>3, <2>4 DEF Owners
    <3>2. Cardinality({}) = 0
      BY FS_EmptySet
    <3> QED
      BY <2>4, <3>1, <3>2 DEF S
  <2>5. CASE file[f] # None /\ f \in raw
    <3>1. S = {} /\ {f} \cap raw = {f}
      BY <2>1, <2>2, <2>3, <2>5 DEF Owners
    <3>2. Cardinality({}) = 0 /\ Cardinality({f}) = 1
      BY FS_EmptySet, FS_Singleton
    <3> QED
      BY <2>5, <3>1, <3>2 DEF S
  <2>6. CASE file[f] # None /\ f \notin raw
    <3>1. PICK o \in Objects : Has(o, f)
      BY <2>3, <2>6 DEF Owners
    <3>2. o \in S /\ \A p \in S : p = o
      BY <2>1, <2>2, <2>3, <3>1 DEF Owners
    <3>3. Cardinality(S) = 1
      BY <3>2, OneMember
    <3>4. {f} \cap raw = {} /\ Cardinality({}) = 0
      BY <2>6, FS_EmptySet
    <3> QED
      BY <2>6, <3>3, <3>4 DEF S
  <2> QED
    BY <2>4, <2>5, <2>6
<1> QED
  BY <1>1, HandleInvariant, PTL

\* A file that no clone shares, and whose flag could be set when it was last
\* tried, is non-blocking exactly if its object works by readiness, through
\* all conversions, whichever of them fail (tcp/stream.rs:384, 392-404,
\* 457-465, io/pipe.rs:91-138, udp/mod.rs:172-181).
THEOREM NonblockingFits == Spec => []NonblockingFitsMode
<1>1. HandleInv => NonblockingFitsMode
  BY DEF HandleInv
<1> QED
  BY <1>1, HandleInvariant, PTL

-----------------------------------------------------------------------------
(* Copies.                                                                 *)

\* The counters are numbers.  A copy that fails may leave bytes behind.
CopyInv ==
  /\ taken \in [Copies!Ends -> Nat]
  /\ written \in [Copies!Ends -> Nat]
  /\ left \in [Copies!Ends -> Nat]
  /\ pc \in [Copies!Ends -> {"read", "write", "flush", "done", "failed"}]
  /\ NothingLost

LEMMA CopyStep ==
  ASSUME CopyInv, Copies!Next
  PROVE  CopyInv'
<1> USE DEF CopyInv, NothingLost, Copies!NothingLost, Copies!Ends,
            Copies!peerVars
<1>1. ASSUME NEW x \in Copies!Ends, Copies!PeerSends(x) \/ Copies!PeerCloses(x)
      PROVE  CopyInv'
  BY <1>1 DEF Copies!PeerSends, Copies!PeerCloses
<1>2. ASSUME NEW x \in Copies!Ends, Copies!Lock(x)
      PROVE  CopyInv'
  BY <1>2 DEF Copies!Lock
<1>3. ASSUME NEW x \in Copies!Ends, Copies!Read(x)
      PROVE  CopyInv'
  <2>1. PICK n \in 1..BufferSize :
          /\ taken' = [taken EXCEPT ![x] = @ + n]
          /\ left' = [left EXCEPT ![x] = n]
    BY <1>3 DEF Copies!Read
  <2>2. /\ pc[x] = "read" /\ pc' = [pc EXCEPT ![x] = "write"]
        /\ UNCHANGED written
    BY <1>3 DEF Copies!Read, Copies!Unlock
  <2>3. n \in Nat
    BY RuntimeObjectsAssumption DEF RuntimeObjectsAssumption
  <2> QED
    BY <2>1, <2>2, <2>3 DEF Copies!Other
<1>4. ASSUME NEW x \in Copies!Ends, Copies!ReadNothing(x)
      PROVE  CopyInv'
  BY <1>4 DEF Copies!ReadNothing, Copies!Unlock
<1>5. ASSUME NEW x \in Copies!Ends, Copies!Write(x)
      PROVE  CopyInv'
  <2>1. PICK n \in 1..left[x] :
          /\ written' = [written EXCEPT ![Copies!Other(x)] = @ + n]
          /\ left' = [left EXCEPT ![x] = @ - n]
          /\ pc' = [pc EXCEPT ![x] = IF n = left[x] THEN "read" ELSE "write"]
    BY <1>5 DEF Copies!Write, Copies!Unlock
  <2>2. UNCHANGED taken
    BY <1>5 DEF Copies!Write
  <2>3. left[x] \in Nat /\ n \in Nat /\ left[x] - n \in Nat
    OBVIOUS
  <2>4. Copies!Other(x) \in Copies!Ends /\ Copies!Other(x) # x
        /\ \A y \in Copies!Ends : y # x => Copies!Other(y) = x /\ y = Copies!Other(x)
    BY DEF Copies!Other
  <2>5. /\ written'[Copies!Other(x)] = written[Copies!Other(x)] + n
        /\ written'[x] = written[x]
        /\ left'[x] = left[x] - n
        /\ left'[Copies!Other(x)] = left[Copies!Other(x)]
        /\ written' \in [Copies!Ends -> Nat] /\ left' \in [Copies!Ends -> Nat]
    BY <2>1, <2>3, <2>4
  <2> QED
    BY <2>1, <2>2, <2>3, <2>4, <2>5
<1>6. ASSUME NEW x \in Copies!Ends, Copies!Flush(x) \/ Copies!Fails(x)
      PROVE  CopyInv'
  BY <1>6 DEF Copies!Flush, Copies!Fails, Copies!Unlock
<1> QED
  BY <1>1, <1>2, <1>3, <1>4, <1>5, <1>6 DEF Copies!Next, Copies!CopyStep

\* Whatever copy has read is in its buffer or written, in both directions at
\* once and for every pattern of short writes.
THEOREM NothingIsLost == Spec => []NothingLost
<1>1. Init => CopyInv
  BY DEF Init, Copies!Init, Copies!Ends, Copies!Other, CopyInv, NothingLost,
         Copies!NothingLost
<1>2. CopyInv /\ [Next]_vars => CopyInv'
  <2>1. Next => Copies!Next \/ UNCHANGED copyVars
    BY DEF Next
  <2>2. [Next]_vars => Copies!Next \/ UNCHANGED copyVars
    BY <2>1 DEF vars
  <2>3. CopyInv /\ UNCHANGED copyVars => CopyInv'
    BY DEF CopyInv, copyVars, NothingLost, Copies!NothingLost
  <2> QED
    BY <2>2, <2>3, CopyStep
<1>3. CopyInv => NothingLost
  BY DEF CopyInv
<1> QED
  BY <1>1, <1>2, <1>3, PTL DEF Spec

-----------------------------------------------------------------------------
(* The wrapper.                                                            *)

\* The counts: a write future has bytes to write, and no more than it was
\* created with.
Counts ==
  /\ {read_buf, write_fut, chunk, source, returned, sink, accepted,
      unreported} \subseteq Nat
  /\ write_fut <= chunk
  /\ write_fut = 0 => chunk = 0
  /\ BytesAreKept

\* Where the object is.  There is a read future only with an empty buffer.
Place ==
  \/ in_place = TRUE /\ read_fut = FALSE /\ write_fut = 0 /\ flush_fut = FALSE
  \/ /\ in_place = FALSE /\ read_fut = TRUE /\ write_fut = 0
     /\ flush_fut = FALSE /\ read_buf = 0
  \/ in_place = FALSE /\ read_fut = FALSE /\ write_fut > 0 /\ flush_fut = FALSE
  \/ in_place = FALSE /\ read_fut = FALSE /\ write_fut = 0 /\ flush_fut = TRUE

WrapperInv == Counts /\ Place

LEMMA WrapperStep ==
  ASSUME WrapperInv, Wrapper!Next
  PROVE  WrapperInv'
<1> USE DEF WrapperInv, Wrapper!readVars, Wrapper!writeVars
<1>0. BUFFER_SIZE \in Nat /\ MaxChunk \in Nat
  BY RuntimeObjectsAssumption DEF RuntimeObjectsAssumption
<1> USE <1>0
<1>1. ASSUME NEW room \in 1..MaxChunk, Wrapper!FromBuffer(room)
      PROVE  WrapperInv'
  <2>1. Place'
    BY <1>1 DEF Wrapper!FromBuffer, Place
  <2>2. Counts'
    BY <1>1
    DEF Wrapper!FromBuffer, Wrapper!Minimum, Counts, BytesAreKept,
        Wrapper!BytesAreKept
  <2> QED
    BY <2>1, <2>2
<1>2. ASSUME NEW room \in 1..MaxChunk, NEW n \in 0..BUFFER_SIZE,
             Wrapper!poll_read_ready(room, n)
      PROVE  WrapperInv'
  <2>1. Place'
    BY <1>2 DEF Wrapper!poll_read_ready, Wrapper!MayRead, Place
  <2>2. read_buf = 0
    BY <1>2 DEF Wrapper!poll_read_ready, Wrapper!MayRead, Place
  <2>3. Counts'
    BY <1>2, <2>2
    DEF Wrapper!poll_read_ready, Wrapper!Minimum, Counts, BytesAreKept,
        Wrapper!BytesAreKept
  <2> QED
    BY <2>1, <2>3
<1>3. ASSUME Wrapper!poll_read_pending
      PROVE  WrapperInv'
  <2>1. Place'
    BY <1>3 DEF Wrapper!poll_read_pending, Wrapper!MayRead, Place
  <2>2. Counts'
    BY <1>3
    DEF Wrapper!poll_read_pending, Counts, BytesAreKept,
        Wrapper!BytesAreKept
  <2> QED
    BY <2>1, <2>2
<1>4. ASSUME NEW n \in 1..MaxChunk, Wrapper!poll_write_ready(n)
      PROVE  WrapperInv'
  <2>1. Place'
    BY <1>4 DEF Wrapper!poll_write_ready, Wrapper!MayWrite, Place
  <2>2. Counts'
    BY <1>4
    DEF Wrapper!poll_write_ready, Wrapper!ToWrite, Counts, BytesAreKept,
        Wrapper!BytesAreKept
  <2> QED
    BY <2>1, <2>2
<1>5. ASSUME NEW n \in 1..MaxChunk, NEW w \in 0..(MaxChunk - 1),
             Wrapper!poll_write_pending(n, w)
      PROVE  WrapperInv'
  <2>1. Place'
    BY <1>5
    DEF Wrapper!poll_write_pending, Wrapper!MayWrite, Wrapper!ToWrite, Place,
        Counts
  <2>2. w \in Nat /\ n \in Nat
    OBVIOUS
  <2>3. write_fut = 0 => Counts'
    BY <1>5, <2>2
    DEF Wrapper!poll_write_pending, Wrapper!ToWrite, Counts, BytesAreKept,
        Wrapper!BytesAreKept
  <2>4. write_fut > 0 => Counts'
    BY <1>5, <2>2
    DEF Wrapper!poll_write_pending, Wrapper!ToWrite, Counts, BytesAreKept,
        Wrapper!BytesAreKept
  <2>5. write_fut = 0 \/ write_fut > 0
    BY DEF Counts
  <2> QED
    BY <2>1, <2>3, <2>4, <2>5
<1>6. ASSUME NEW n \in 1..MaxChunk, NEW w \in 0..(MaxChunk - 1),
             Wrapper!poll_write_failed(n, w)
      PROVE  WrapperInv'
  <2>1. Place'
    BY <1>6 DEF Wrapper!poll_write_failed, Wrapper!MayWrite, Place
  <2>2. w \in Nat /\ n \in Nat
    OBVIOUS
  <2>3. write_fut = 0 => Counts'
    BY <1>6, <2>2
    DEF Wrapper!poll_write_failed, Wrapper!ToWrite, Counts, BytesAreKept,
        Wrapper!BytesAreKept
  <2>4. write_fut > 0 => Counts'
    BY <1>6, <2>2
    DEF Wrapper!poll_write_failed, Wrapper!ToWrite, Counts, BytesAreKept,
        Wrapper!BytesAreKept
  <2>5. write_fut = 0 \/ write_fut > 0
    BY DEF Counts
  <2> QED
    BY <2>1, <2>3, <2>4, <2>5
<1>7. ASSUME Wrapper!poll_flush_pending \/ Wrapper!poll_flush_ready
      PROVE  WrapperInv'
  <2>1. Place'
    BY <1>7
    DEF Wrapper!poll_flush_pending, Wrapper!poll_flush_ready,
        Wrapper!MayFlush, Place
  <2>2. Counts'
    BY <1>7
    DEF Wrapper!poll_flush_pending, Wrapper!poll_flush_ready, Counts,
        BytesAreKept, Wrapper!BytesAreKept
  <2> QED
    BY <2>1, <2>2
<1> QED
  BY <1>1, <1>2, <1>3, <1>4, <1>5, <1>6, <1>7 DEF Wrapper!Next

LEMMA WrapperInvariant == Spec => []WrapperInv
<1>1. Init => WrapperInv
  BY DEF Init, Wrapper!Init, WrapperInv, Counts, Place, BytesAreKept,
         Wrapper!BytesAreKept
<1>2. WrapperInv /\ [Next]_vars => WrapperInv'
  <2>1. [Next]_vars => Wrapper!Next \/ UNCHANGED wrapperVars
    BY DEF Next, vars
  <2>2. WrapperInv /\ UNCHANGED wrapperVars => WrapperInv'
    BY DEF WrapperInv, wrapperVars, Counts, Place, BytesAreKept,
           Wrapper!BytesAreKept
  <2> QED
    BY <2>1, <2>2, WrapperStep
<1> QED
  BY <1>1, <1>2, PTL DEF Spec

\* The object is in its place or in exactly one future, whatever order reads,
\* writes and flushes are polled in and whichever fail.
THEOREM ObjectStaysSomewhere == Spec => []ObjectIsSomewhere
<1>1. WrapperInv => ObjectIsSomewhere
  <2> USE DEF Wrapper!One, Place, ObjectIsSomewhere, Wrapper!ObjectIsSomewhere
  <2>1. Counts => (write_fut = 0 => ~(write_fut > 0))
    BY DEF Counts
  <2> QED
    BY <2>1 DEF WrapperInv
<1> QED
  BY <1>1, WrapperInvariant, PTL

\* No byte is lost or repeated between the object and its tokio callers.
THEOREM BytesStayKept == Spec => []BytesAreKept
BY WrapperInvariant, PTL DEF WrapperInv, Counts

-----------------------------------------------------------------------------
(* The pool.                                                               *)

PoolType ==
  /\ source_kind \in {"file", "stdin", "pipe"}
  /\ cursor \in 0..MaxPos /\ stream \in 0..MaxPos
  /\ call \in Jobs \cup {None}
  /\ job \in [Jobs -> {"none", "queued", "running", "sent", "dropped",
                       "returned", "lost"}]
  /\ cells \subseteq Jobs
  /\ offset \in [Jobs -> 0..MaxPos]
  /\ result \in [Jobs -> (0..MaxPos) \X (0..MaxPos)]
  /\ got \in Seq(Nat)

\* The caller awaits a job that has not been answered, and while it awaits
\* one, no other job has the pipe.
Ownership ==
  /\ call # None => job[call] \in {"queued", "running", "sent", "dropped"}
  /\ (source_kind = "pipe" /\ call # None) =>
       /\ present = FALSE
       /\ \A j \in Jobs : j # call => job[j] \notin {"queued", "running"}
  /\ TakenOnce

\* A job reads once.  The one that is awaited reads a file at the cursor,
\* and a stream behind all that was returned.
Positions ==
  /\ \A j \in Jobs :
       /\ result[j][1] <= result[j][2]
       /\ job[j] \notin {"sent", "lost", "returned"} =>
            result[j][1] = 0 /\ result[j][2] = 0
  /\ source_kind = "file" =>
       \A j \in Jobs : call = j =>
         /\ offset[j] = cursor
         /\ job[j] = "sent" => result[j][1] = cursor
  /\ source_kind # "file" =>
       /\ \A j \in Jobs : result[j][2] <= stream
       /\ \A i \in DOMAIN got : got[i] < stream
       /\ \A j \in Jobs : (call = j /\ job[j] = "sent") =>
            \A i \in DOMAIN got : got[i] < result[j][1]

PoolInv == PoolType /\ Ownership /\ Positions /\ ReadsInOrder

\* The bytes from a to b - 1 as a sequence.
LEMMA BytesSeq ==
  ASSUME NEW a \in Nat, NEW b \in Nat, a <= b
  PROVE  /\ Pool!Bytes(a, b) \in Seq(Nat)
         /\ Len(Pool!Bytes(a, b)) = b - a
         /\ \A i \in 1..(b - a) : Pool!Bytes(a, b)[i] = a + i - 1
<1>1. b - a \in Nat /\ \A i \in 1..(b - a) : a + i - 1 \in Nat
  OBVIOUS
<1>2. Pool!Bytes(a, b) \in [1..(b - a) -> Nat]
  BY <1>1 DEF Pool!Bytes
<1>3. Pool!Bytes(a, b) \in Seq(Nat)
  BY <1>1, <1>2, SeqDef
<1> QED
  BY <1>1, <1>2, <1>3 DEF Pool!Bytes

\* Reading on at b gives the bytes from a on.
LEMMA BytesConcat ==
  ASSUME NEW a \in Nat, NEW b \in Nat, NEW c \in Nat, a <= b, b <= c
  PROVE  Pool!Bytes(a, b) \o Pool!Bytes(b, c) = Pool!Bytes(a, c)
<1> DEFINE s == Pool!Bytes(a, b)
           t == Pool!Bytes(b, c)
           u == Pool!Bytes(a, c)
<1>1. /\ s \in Seq(Nat) /\ Len(s) = b - a
      /\ \A i \in 1..(b - a) : s[i] = a + i - 1
  BY BytesSeq
<1>2. /\ t \in Seq(Nat) /\ Len(t) = c - b
      /\ \A i \in 1..(c - b) : t[i] = b + i - 1
  BY BytesSeq
<1>3. a <= c
  OBVIOUS
<1>4. /\ u \in Seq(Nat) /\ Len(u) = c - a
      /\ \A i \in 1..(c - a) : u[i] = a + i - 1
  BY <1>3, BytesSeq
<1> HIDE DEF s, t, u
<1>5. /\ s \o t \in Seq(Nat) /\ Len(s \o t) = Len(s) + Len(t)
      /\ \A i \in 1..(Len(s) + Len(t)) :
           (s \o t)[i] = IF i <= Len(s) THEN s[i] ELSE t[i - Len(s)]
  BY <1>1, <1>2, ConcatProperties
<1>6. Len(s) + Len(t) = Len(u)
  BY <1>1, <1>2, <1>4
<1>7. ASSUME NEW i \in 1..Len(u)
      PROVE  (s \o t)[i] = u[i]
  <2>1. i \in 1..(c - a) /\ i \in 1..(Len(s) + Len(t)) /\ i \in Nat
    BY <1>4, <1>6, <1>7
  <2>2. CASE i <= b - a
    BY <1>1, <1>4, <1>5, <2>1, <2>2
  <2>3. CASE i > b - a
    <3>1. i - (b - a) \in 1..(c - b)
      BY <2>1, <2>3
    <3>2. t[i - (b - a)] = b + (i - (b - a)) - 1
      BY <1>2, <3>1
    <3>3. (s \o t)[i] = t[i - (b - a)]
      BY <1>1, <1>5, <2>1, <2>3
    <3>4. u[i] = a + i - 1
      BY <1>4, <2>1
    <3> QED
      BY <2>1, <3>2, <3>3, <3>4
  <2> QED
    BY <2>1, <2>2, <2>3
<1>8. s \o t = u
  BY <1>4, <1>5, <1>6, <1>7, SeqEqual
<1> QED
  BY <1>8 DEF s, t, u

Increasing(s) == \A i \in 1..(Len(s) - 1) : s[i] < s[i + 1]

\* Bytes behind all that were returned keep the order.
LEMMA BytesExtend ==
  ASSUME NEW s \in Seq(Nat), Increasing(s),
         NEW a \in Nat, NEW b \in Nat, a <= b,
         \A i \in DOMAIN s : s[i] < a
  PROVE  LET u == s \o Pool!Bytes(a, b)
         IN /\ u \in Seq(Nat) /\ Increasing(u)
            /\ \A i \in DOMAIN u : u[i] < b
            /\ \A i \in DOMAIN s : \E j \in DOMAIN u : u[j] = s[i]
            /\ \A x \in a..(b - 1) : \E j \in DOMAIN u : u[j] = x
<1> DEFINE t == Pool!Bytes(a, b)
           u == s \o t
           m == Len(s)
           n == b - a
<1>1. /\ t \in Seq(Nat) /\ Len(t) = n
      /\ \A i \in 1..n : t[i] = a + i - 1
  BY BytesSeq
<1>2. n \in Nat /\ m \in Nat /\ DOMAIN s = 1..m
  OBVIOUS
<1> HIDE DEF t
<1>3. /\ u \in Seq(Nat) /\ Len(u) = m + n
      /\ \A i \in 1..(m + n) : u[i] = IF i <= m THEN s[i] ELSE t[i - m]
  <2>1. /\ s \o t \in Seq(Nat) /\ Len(s \o t) = Len(s) + Len(t)
        /\ \A i \in 1..(Len(s) + Len(t)) :
             (s \o t)[i] = IF i <= Len(s) THEN s[i] ELSE t[i - Len(s)]
    BY <1>1, ConcatProperties
  <2> QED
    BY <1>1, <2>1
<1>4. \A i \in 1..m : s[i] < a /\ s[i] \in Nat
  BY <1>2
<1> HIDE DEF u, m
<1>5. DOMAIN u = 1..(m + n)
  BY <1>3
<1>6. \A i \in 1..m : u[i] = s[i]
  BY <1>2, <1>3
<1>7. ASSUME NEW i \in 1..(m + n), i > m
      PROVE  u[i] = a + (i - m) - 1
  <2>1. i - m \in 1..n
    BY <1>2, <1>7
  <2> QED
    BY <1>1, <1>2, <1>3, <1>7, <2>1
<1>8. Increasing(u)
  <2> SUFFICES ASSUME NEW i \in 1..(m + n - 1)
               PROVE  u[i] < u[i + 1]
    BY <1>2, <1>3 DEF Increasing
  <2>1. i \in Nat /\ i \in 1..(m + n) /\ i + 1 \in 1..(m + n)
    BY <1>2
  <2>2. CASE i + 1 <= m
    BY <1>2, <1>6, <2>1, <2>2 DEF Increasing, m
  <2>3. CASE i = m
    <3>1. u[i + 1] = a
      BY <1>2, <1>7, <2>1, <2>3
    <3> QED
      BY <1>2, <1>4, <1>6, <2>1, <2>3, <3>1
  <2>4. CASE i > m
    BY <1>2, <1>7, <2>1, <2>4
  <2> QED
    BY <1>2, <2>1, <2>2, <2>3, <2>4
<1>9. ASSUME NEW i \in DOMAIN u
      PROVE  u[i] < b
  <2>1. i \in 1..(m + n) /\ i \in Nat
    BY <1>2, <1>5, <1>9
  <2>2. CASE i <= m
    BY <1>2, <1>4, <1>6, <2>1, <2>2
  <2>3. CASE i > m
    BY <1>2, <1>7, <2>1, <2>3
  <2> QED
    BY <1>2, <2>1, <2>2, <2>3
<1>10. \A i \in DOMAIN s : \E j \in DOMAIN u : u[j] = s[i]
  BY <1>2, <1>5, <1>6
<1>11. ASSUME NEW x \in a..(b - 1)
       PROVE  \E j \in DOMAIN u : u[j] = x
  <2> DEFINE j == m + (x - a) + 1
  <2>1. j \in 1..(m + n) /\ j > m /\ a + (j - m) - 1 = x
    BY <1>2
  <2>2. u[j] = x
    BY <1>7, <2>1
  <2> QED
    BY <1>5, <2>1, <2>2
<1> QED
  BY <1>3, <1>8, <1>9, <1>10, <1>11 DEF u, t

\* Where a read of at most n bytes ends.
LEMMA ReadEnds ==
  ASSUME NEW from \in 0..MaxPos, NEW n \in 0..2
  PROVE  /\ Pool!Minimum(from + n, MaxPos) \in 0..MaxPos
         /\ from <= Pool!Minimum(from + n, MaxPos)
BY RuntimeObjectsAssumption DEF RuntimeObjectsAssumption, Pool!Minimum

-----------------------------------------------------------------------------
(* One lemma for each part of the pool's invariant.                        *)

LEMMA PoolTypeStep ==
  ASSUME PoolInv, Pool!Next
  PROVE  PoolType'
<1> USE DEF PoolInv, PoolType
<1>0. MaxPos \in Nat
  BY RuntimeObjectsAssumption DEF RuntimeObjectsAssumption
<1>1. ASSUME NEW n \in 0..2, Pool!ReadBlocking(n)
      PROVE  PoolType'
  <2> DEFINE from == IF source_kind = "file" THEN cursor ELSE stream
             to == Pool!Minimum(from + n, MaxPos)
  <2>1. to \in 0..MaxPos /\ from <= to /\ from \in Nat /\ to \in Nat
    <3>1. from \in 0..MaxPos
      OBVIOUS
    <3>2. to \in 0..MaxPos /\ from <= to
      BY <3>1, ReadEnds
    <3> QED
      BY <1>0, <3>1, <3>2
  <2>2. /\ got' = got \o Pool!Bytes(from, to)
        /\ cursor' = (IF source_kind = "file" THEN to ELSE cursor)
        /\ stream' = (IF source_kind = "file" THEN stream ELSE to)
        /\ UNCHANGED <<source_kind, call, job, cells, offset, result>>
    BY <1>1 DEF Pool!ReadBlocking
  <2>3. got' \in Seq(Nat)
    <3>1. Pool!Bytes(from, to) \in Seq(Nat)
      BY <2>1, BytesSeq
    <3> QED
      BY <2>2, <3>1, ConcatProperties
  <2> QED
    BY <2>1, <2>2, <2>3
<1>2. ASSUME NEW j \in Jobs, Pool!spawn_blocking(j)
      PROVE  PoolType'
  BY <1>2 DEF Pool!spawn_blocking
<1>3. ASSUME NEW j \in Jobs, Pool!JobStarts(j)
      PROVE  PoolType'
  BY <1>3 DEF Pool!JobStarts
<1>4. ASSUME NEW j \in Jobs, Pool!JobDropped(j)
      PROVE  PoolType'
  BY <1>4 DEF Pool!JobDropped
<1>5. ASSUME NEW j \in Jobs, NEW n \in 0..2, Pool!JobEnds(j, n)
      PROVE  PoolType'
  <2> DEFINE from == Pool!Position(j)
             to == Pool!Minimum(from + n, MaxPos)
  <2>1. from \in 0..MaxPos
    BY DEF Pool!Position
  <2>2. to \in 0..MaxPos
    BY <2>1, ReadEnds
  <2>3. /\ result' = [result EXCEPT ![j] = <<from, to>>]
        /\ stream' = (IF source_kind = "file" THEN stream ELSE to)
        /\ job' = [job EXCEPT ![j] = IF call = j THEN "sent" ELSE "lost"]
        /\ UNCHANGED <<source_kind, cursor, call, cells, offset, got>>
    BY <1>5 DEF Pool!JobEnds
  <2>4. <<from, to>> \in (0..MaxPos) \X (0..MaxPos)
    BY <2>1, <2>2
  <2> HIDE DEF from, to
  <2>5. result' \in [Jobs -> (0..MaxPos) \X (0..MaxPos)]
    BY <2>3, <2>4
  <2> QED
    BY <2>2, <2>3, <2>5
<1>6. ASSUME NEW j \in Jobs, Pool!Returned(j)
      PROVE  PoolType'
  <2>1. /\ result[j][1] \in 0..MaxPos /\ result[j][2] \in 0..MaxPos
        /\ result[j][1] <= result[j][2]
    BY DEF Positions
  <2>2. /\ call = j /\ job[j] = "sent" /\ call' = None
        /\ job' = [job EXCEPT ![j] = "returned"]
        /\ got' = got \o Pool!Bytes(result[j][1], result[j][2])
        /\ cursor' = (IF source_kind = "file"
                        THEN cursor + (result[j][2] - result[j][1]) ELSE cursor)
        /\ UNCHANGED <<source_kind, stream, cells, offset, result>>
    BY <1>6 DEF Pool!Returned
  <2>3. got' \in Seq(Nat)
    <3>1. Pool!Bytes(result[j][1], result[j][2]) \in Seq(Nat)
      <4>1. result[j][1] \in Nat /\ result[j][2] \in Nat
        BY <1>0, <2>1
      <4> QED
        BY <2>1, <4>1, BytesSeq
    <3> QED
      BY <2>2, <3>1, ConcatProperties
  <2>4. source_kind = "file" => result[j][1] = cursor
    BY <2>2 DEF Positions
  <2>5. cursor' \in 0..MaxPos
    BY <1>0, <2>1, <2>2, <2>4
  <2> QED
    BY <2>2, <2>3, <2>5
<1>7. ASSUME NEW j \in Jobs, Pool!Rejected(j)
      PROVE  PoolType'
  BY <1>7 DEF Pool!Rejected
<1>8. ASSUME NEW j \in Jobs, Pool!DropCall(j)
      PROVE  PoolType'
  BY <1>8 DEF Pool!DropCall
<1> QED
  BY <1>1, <1>2, <1>3, <1>4, <1>5, <1>6, <1>7, <1>8 DEF Pool!Next

LEMMA OwnershipStep ==
  ASSUME PoolInv, Pool!Next
  PROVE  Ownership'
<1> USE DEF PoolInv, PoolType, Ownership, TakenOnce, Pool!TakenOnce
<1>0. None \notin Jobs
  BY RuntimeObjectsAssumption DEF RuntimeObjectsAssumption
<1>1. ASSUME NEW n \in 0..2, Pool!ReadBlocking(n)
      PROVE  Ownership'
  BY <1>1 DEF Pool!ReadBlocking
<1>2. ASSUME NEW j \in Jobs, Pool!spawn_blocking(j)
      PROVE  Ownership'
  BY <1>0, <1>2 DEF Pool!spawn_blocking
<1>3. ASSUME NEW j \in Jobs, Pool!JobStarts(j)
      PROVE  Ownership'
  BY <1>0, <1>3 DEF Pool!JobStarts
<1>4. ASSUME NEW j \in Jobs, Pool!JobDropped(j)
      PROVE  Ownership'
  BY <1>0, <1>4 DEF Pool!JobDropped
<1>5. ASSUME NEW j \in Jobs, NEW n \in 0..2, Pool!JobEnds(j, n)
      PROVE  Ownership'
  BY <1>0, <1>5 DEF Pool!JobEnds
<1>6. ASSUME NEW j \in Jobs, Pool!Returned(j)
      PROVE  Ownership'
  BY <1>0, <1>6 DEF Pool!Returned
<1>7. ASSUME NEW j \in Jobs, Pool!Rejected(j)
      PROVE  Ownership'
  BY <1>0, <1>7 DEF Pool!Rejected
<1>8. ASSUME NEW j \in Jobs, Pool!DropCall(j)
      PROVE  Ownership'
  BY <1>0, <1>8 DEF Pool!DropCall
<1> QED
  BY <1>1, <1>2, <1>3, <1>4, <1>5, <1>6, <1>7, <1>8 DEF Pool!Next

\* A byte of a stream that was read is accounted for.
Covered(b) ==
  \/ \E i \in DOMAIN got : got[i] = b
  \/ \E j \in Jobs : /\ job[j] = "lost" \/ call = j
                     /\ result[j][1] <= b /\ b < result[j][2]

LEMMA OrderOf ==
  ReadsInOrder <=>
    /\ source_kind = "file" => got = Pool!Bytes(0, cursor)
    /\ source_kind # "file" =>
         Increasing(got) /\ \A b \in 0..(stream - 1) : Covered(b)
BY DEF ReadsInOrder, Pool!ReadsInOrder, Increasing, Covered

\* The bytes from `from' to `to' are returned to the caller, of a file from
\* the cursor on, of a stream behind all others.
LEMMA OrderReturned ==
  ASSUME PoolInv, PoolType', NEW from \in 0..MaxPos, NEW to \in 0..MaxPos,
         from <= to, got' = got \o Pool!Bytes(from, to),
         UNCHANGED source_kind,
         source_kind = "file" => from = cursor /\ cursor' = to,
         source_kind # "file" =>
           /\ \A i \in DOMAIN got : got[i] < from
           /\ to <= stream'
           /\ \A b \in 0..(stream' - 1) :
                Covered(b)' \/ (\E i \in DOMAIN got : got[i] = b)
                            \/ b \in from..(to - 1)
  PROVE  /\ ReadsInOrder'
         /\ source_kind # "file" => \A i \in DOMAIN got' : got'[i] < stream'
<1>0. /\ MaxPos \in Nat /\ from \in Nat /\ to \in Nat
      /\ cursor \in Nat /\ stream' \in Nat /\ got \in Seq(Nat)
  BY RuntimeObjectsAssumption
  DEF RuntimeObjectsAssumption, PoolInv, PoolType
<1>1. CASE source_kind = "file"
  <2>1. got = Pool!Bytes(0, cursor)
    BY <1>1, OrderOf DEF PoolInv
  <2>2. from = cursor /\ cursor' = to /\ 0 \in Nat /\ 0 <= from
    BY <1>0, <1>1
  <2>3. Pool!Bytes(0, from) \o Pool!Bytes(from, to) = Pool!Bytes(0, to)
    BY <1>0, <2>2, BytesConcat
  <2>4. got' = Pool!Bytes(0, cursor')
    BY <2>1, <2>2, <2>3
  <2>5. ReadsInOrder'
    BY <1>1, <2>4 DEF ReadsInOrder, Pool!ReadsInOrder
  <2> QED
    BY <1>1, <2>5
<1>2. CASE source_kind # "file"
  <2>1. Increasing(got)
    BY <1>2, OrderOf DEF PoolInv
  <2>2. /\ got' \in Seq(Nat) /\ Increasing(got')
        /\ \A i \in DOMAIN got' : got'[i] < to
        /\ \A i \in DOMAIN got : \E j \in DOMAIN got' : got'[j] = got[i]
        /\ \A x \in from..(to - 1) : \E j \in DOMAIN got' : got'[j] = x
    <3> DEFINE u == got \o Pool!Bytes(from, to)
    <3>1. \A i \in DOMAIN got : got[i] < from
      BY <1>2
    <3>2. /\ u \in Seq(Nat) /\ Increasing(u)
          /\ \A i \in DOMAIN u : u[i] < to
          /\ \A i \in DOMAIN got : \E j \in DOMAIN u : u[j] = got[i]
          /\ \A x \in from..(to - 1) : \E j \in DOMAIN u : u[j] = x
      BY <1>0, <2>1, <3>1, BytesExtend, Zenon
    <3> QED
      BY <3>2
  <2>3. \A b \in 0..(stream' - 1) : Covered(b)'
    BY <1>2, <2>2 DEF Covered
  <2>4. ReadsInOrder'
    BY <1>2, <2>2, <2>3
    DEF ReadsInOrder, Pool!ReadsInOrder, Increasing, Covered
  <2>5. \A i \in DOMAIN got' : got'[i] \in Nat
    BY <2>2
  <2>6. \A i \in DOMAIN got' : got'[i] < stream'
    BY <1>0, <1>2, <2>2, <2>5
  <2> QED
    BY <2>4, <2>6
<1> QED
  BY <1>1, <1>2

LEMMA OrderStep ==
  ASSUME PoolInv, Pool!Next
  PROVE  Positions' /\ ReadsInOrder'
<1> USE DEF PoolInv
<1>0. MaxPos \in Nat /\ None \notin Jobs
  BY RuntimeObjectsAssumption DEF RuntimeObjectsAssumption
<1>00. PoolType'
  BY PoolTypeStep
<1>t. /\ cursor \in 0..MaxPos /\ stream \in 0..MaxPos
      /\ got \in Seq(Nat) /\ \A i \in DOMAIN got : got[i] \in Nat
      /\ \A j \in Jobs : result[j][1] \in 0..MaxPos /\ result[j][2] \in 0..MaxPos
                         /\ offset[j] \in 0..MaxPos
  BY DEF PoolType
\* Steps that read nothing.
<1>k. ASSUME UNCHANGED <<source_kind, cursor, stream, result, got>>,
             \A j \in Jobs : /\ job'[j] \notin {"sent", "lost", "returned"} =>
                                  job[j] \notin {"sent", "lost", "returned"}
                             /\ job[j] = "lost" => job'[j] = "lost"
                             /\ call = j => \/ call' = j
                                            \/ job'[j] = "lost"
                                            \/ job[j] \notin {"sent", "lost", "returned"}
                             /\ call' = j => /\ offset'[j] =
                                                  IF call = j THEN offset[j]
                                                              ELSE cursor
                                             /\ job'[j] = "sent" =>
                                                  call = j /\ job[j] = "sent"
      PROVE  Positions' /\ ReadsInOrder'
  <2>1. Positions'
    BY <1>k DEF Positions
  <2>2. \A j \in Jobs : job[j] \notin {"sent", "lost", "returned"} =>
          result[j][1] = 0 /\ result[j][2] = 0
    BY DEF Positions
  <2>3. ASSUME NEW b \in 0..(stream - 1), Covered(b)
        PROVE  Covered(b)'
    <3>1. CASE \E i \in DOMAIN got : got[i] = b
      BY <1>k, <3>1 DEF Covered
    <3>2. ASSUME NEW j \in Jobs, job[j] = "lost" \/ call = j,
                 result[j][1] <= b, b < result[j][2]
          PROVE  Covered(b)'
      <4>1. job[j] \in {"sent", "lost", "returned"}
        BY <1>t, <2>2, <3>2
      <4>2. job'[j] = "lost" \/ call' = j
        BY <1>k, <3>2, <4>1
      <4> QED
        BY <1>k, <3>2, <4>2 DEF Covered
    <3> QED
      BY <2>3, <3>1, <3>2 DEF Covered
  <2>4. source_kind # "file" =>
          Increasing(got') /\ \A b \in 0..(stream' - 1) : Covered(b)'
    BY <1>k, <2>3, OrderOf
  <2>5. source_kind = "file" => got' = Pool!Bytes(0, cursor')
    BY <1>k, OrderOf
  <2>6. ReadsInOrder'
    BY <1>k, <2>4, <2>5
    DEF ReadsInOrder, Pool!ReadsInOrder, Increasing, Covered
  <2> QED
    BY <2>1, <2>6
<1>1. ASSUME NEW n \in 0..2, Pool!ReadBlocking(n)
      PROVE  Positions' /\ ReadsInOrder'
  <2> DEFINE from == IF source_kind = "file" THEN cursor ELSE stream
             to == Pool!Minimum(from + n, MaxPos)
  <2>1. /\ from \in 0..MaxPos /\ to \in 0..MaxPos /\ from <= to
    BY <1>t, ReadEnds
  <2>2. /\ got' = got \o Pool!Bytes(from, to)
        /\ cursor' = (IF source_kind = "file" THEN to ELSE cursor)
        /\ stream' = (IF source_kind = "file" THEN stream ELSE to)
        /\ call = None
        /\ UNCHANGED <<source_kind, call, job, cells, offset, result>>
    BY <1>1 DEF Pool!ReadBlocking
  <2> HIDE DEF to
  <2>3. source_kind # "file" => \A i \in DOMAIN got : got[i] < stream
    BY DEF Positions
  <2>4. ASSUME source_kind # "file", NEW b \in 0..(stream' - 1)
        PROVE  \/ Covered(b)' \/ (\E i \in DOMAIN got : got[i] = b)
               \/ b \in from..(to - 1)
    <3>1. CASE b < stream
      <4>1. Covered(b)
        BY <1>0, <1>t, <2>1, <2>2, <2>4, <3>1, OrderOf
      <4> QED
        BY <2>2, <4>1 DEF Covered
    <3>2. CASE b >= stream
      BY <1>0, <1>t, <2>1, <2>2, <2>4, <3>2
    <3> QED
      BY <1>0, <1>t, <2>1, <2>2, <3>1, <3>2
  <2>5. /\ ReadsInOrder'
        /\ source_kind # "file" => \A i \in DOMAIN got' : got'[i] < stream'
    <3>1. source_kind = "file" => from = cursor /\ cursor' = to
      BY <2>2
    <3>2. source_kind # "file" => from = stream /\ to <= stream'
      BY <1>0, <2>1, <2>2
    <3> QED
      BY <1>00, <2>1, <2>2, <2>3, <2>4, <3>1, <3>2, OrderReturned
  <2>6. source_kind # "file" => \A j \in Jobs : result[j][2] <= stream'
    BY <1>0, <1>t, <2>1, <2>2 DEF Positions
  <2>7. Positions'
    BY <1>0, <2>2, <2>5, <2>6 DEF Positions
  <2> QED
    BY <2>5, <2>7
<1>2. ASSUME NEW j \in Jobs, Pool!spawn_blocking(j)
      PROVE  Positions' /\ ReadsInOrder'
  BY <1>0, <1>2, <1>k DEF Pool!spawn_blocking, PoolType
<1>3. ASSUME NEW j \in Jobs, Pool!JobStarts(j)
      PROVE  Positions' /\ ReadsInOrder'
  BY <1>0, <1>3, <1>k DEF Pool!JobStarts, PoolType
<1>4. ASSUME NEW j \in Jobs, Pool!JobDropped(j)
      PROVE  Positions' /\ ReadsInOrder'
  BY <1>0, <1>4, <1>k DEF Pool!JobDropped, PoolType
<1>5. ASSUME NEW j \in Jobs, NEW n \in 0..2, Pool!JobEnds(j, n)
      PROVE  Positions' /\ ReadsInOrder'
  <2> DEFINE from == Pool!Position(j)
             to == Pool!Minimum(from + n, MaxPos)
  <2>1. from \in 0..MaxPos
    BY <1>t DEF Pool!Position
  <2>2. to \in 0..MaxPos /\ from <= to
    BY <2>1, ReadEnds
  <2>3. /\ result' = [result EXCEPT ![j] = <<from, to>>]
        /\ stream' = (IF source_kind = "file" THEN stream ELSE to)
        /\ job[j] = "running"
        /\ job' = [job EXCEPT ![j] = IF call = j THEN "sent" ELSE "lost"]
        /\ UNCHANGED <<source_kind, cursor, call, cells, offset, got>>
        /\ from = IF source_kind = "file" THEN offset[j] ELSE stream
    BY <1>5 DEF Pool!JobEnds, Pool!Position
  <2> HIDE DEF from, to
  <2>4. /\ result'[j][1] = from /\ result'[j][2] = to
        /\ job'[j] = (IF call = j THEN "sent" ELSE "lost")
        /\ \A i \in Jobs : i # j => result'[i] = result[i] /\ job'[i] = job[i]
    BY <2>3 DEF PoolType
  <2>5. result[j][1] = 0 /\ result[j][2] = 0
    BY <2>3 DEF Positions
  <2>6. stream <= stream'
    BY <1>0, <1>t, <2>2, <2>3
  <2>7. Positions'
    <3>1. \A i \in Jobs : /\ result'[i][1] <= result'[i][2]
                          /\ job'[i] \notin {"sent", "lost", "returned"} =>
                               result'[i][1] = 0 /\ result'[i][2] = 0
      BY <2>2, <2>4 DEF Positions
    <3>2. source_kind = "file" =>
            \A i \in Jobs : call = i =>
              /\ offset[i] = cursor
              /\ job'[i] = "sent" => result'[i][1] = cursor
      BY <2>3, <2>4 DEF Positions
    <3>3. ASSUME source_kind # "file"
          PROVE  /\ \A i \in Jobs : result'[i][2] <= stream'
                 /\ \A i \in DOMAIN got : got[i] < stream'
                 /\ \A i \in Jobs : (call = i /\ job'[i] = "sent") =>
                      \A m \in DOMAIN got : got[m] < result'[i][1]
      <4>1. \A m \in DOMAIN got : got[m] < stream
        BY <3>3 DEF Positions
      <4>2. \A m \in DOMAIN got : got[m] < stream'
        BY <1>0, <1>t, <2>2, <2>3, <2>6, <4>1
      <4>3. \A i \in Jobs : result'[i][2] <= stream'
        BY <1>0, <1>t, <2>2, <2>3, <2>4, <2>6, <3>3 DEF Positions
      <4>4. \A i \in Jobs : (call = i /\ job'[i] = "sent") =>
              \A m \in DOMAIN got : got[m] < result'[i][1]
        BY <2>3, <2>4, <3>3, <4>1 DEF Positions
      <4> QED
        BY <4>2, <4>3, <4>4
    <3> QED
      BY <2>3, <3>1, <3>2, <3>3 DEF Positions
  <2>8. ASSUME source_kind # "file", NEW b \in 0..(stream' - 1)
        PROVE  Covered(b)'
    <3>1. CASE b < stream
      <4>1. Covered(b)
        BY <1>0, <1>t, <2>2, <2>3, <2>8, <3>1, OrderOf
      <4>2. \A i \in Jobs : i = j => ~(result[i][1] <= b /\ b < result[i][2])
        BY <1>0, <1>t, <2>2, <2>3, <2>5, <2>8
      <4> QED
        BY <2>3, <2>4, <4>1, <4>2 DEF Covered
    <3>2. CASE b >= stream
      <4>1. from <= b /\ b < to
        BY <1>0, <1>t, <2>2, <2>3, <2>8, <3>2
      <4> QED
        BY <2>3, <2>4, <4>1 DEF Covered
    <3> QED
      BY <1>0, <1>t, <2>2, <2>3, <3>1, <3>2
  <2>9. ReadsInOrder'
    <3>1. source_kind # "file" => Increasing(got')
      BY <2>3, OrderOf
    <3>2. source_kind = "file" => got' = Pool!Bytes(0, cursor')
      BY <2>3, OrderOf
    <3> QED
      BY <2>3, <2>8, <3>1, <3>2
      DEF ReadsInOrder, Pool!ReadsInOrder, Increasing, Covered
  <2> QED
    BY <2>7, <2>9
<1>6. ASSUME NEW j \in Jobs, Pool!Returned(j)
      PROVE  Positions' /\ ReadsInOrder'
  <2> DEFINE from == result[j][1]
             to == result[j][2]
  <2>1. from \in 0..MaxPos /\ to \in 0..MaxPos /\ from <= to
    BY <1>t DEF Positions
  <2>2. /\ call = j /\ job[j] = "sent" /\ call' = None
        /\ job' = [job EXCEPT ![j] = "returned"]
        /\ got' = got \o Pool!Bytes(from, to)
        /\ cursor' = (IF source_kind = "file"
                        THEN cursor + (to - from) ELSE cursor)
        /\ UNCHANGED <<source_kind, stream, cells, offset, result>>
    BY <1>6 DEF Pool!Returned
  <2>3. /\ job'[j] = "returned"
        /\ \A i \in Jobs : i # j => job'[i] = job[i]
    BY <2>2 DEF PoolType
  <2>4. source_kind = "file" => from = cursor /\ cursor' = to
    BY <1>0, <1>t, <2>1, <2>2 DEF Positions
  <2>5. source_kind # "file" =>
          (\A i \in DOMAIN got : got[i] < from) /\ to <= stream'
    BY <2>2 DEF Positions
  <2> HIDE DEF from, to
  <2>6. ASSUME source_kind # "file", NEW b \in 0..(stream' - 1)
        PROVE  \/ Covered(b)' \/ (\E i \in DOMAIN got : got[i] = b)
               \/ b \in from..(to - 1)
    <3>1. Covered(b)
      BY <2>2, <2>6, OrderOf
    <3>2. ASSUME NEW i \in Jobs, job[i] = "lost" \/ call = i,
                 result[i][1] <= b, b < result[i][2]
          PROVE  Covered(b)' \/ b \in from..(to - 1)
      <4>1. CASE i = j
        <5>1. from <= b /\ b < to
          BY <3>2, <4>1 DEF from, to
        <5>2. b \in Nat /\ from \in Nat /\ to \in Nat
          BY <1>0, <1>t, <2>1, <2>2, <2>6
        <5> QED
          BY <5>1, <5>2
      <4>2. CASE i # j
        BY <2>2, <2>3, <3>2, <4>2 DEF Covered
      <4> QED
        BY <4>1, <4>2
    <3> QED
      BY <3>1, <3>2 DEF Covered
  <2>7. /\ ReadsInOrder'
        /\ source_kind # "file" => \A i \in DOMAIN got' : got'[i] < stream'
    BY <1>00, <2>1, <2>2, <2>4, <2>5, <2>6, OrderReturned
  <2>8. \A i \in Jobs : call' # i
    BY <1>0, <2>2
  <2>9. \A i \in Jobs : job'[i] \notin {"sent", "lost", "returned"} =>
          job[i] \notin {"sent", "lost", "returned"}
    BY <2>3
  <2>10. Positions'
    BY <2>2, <2>7, <2>8, <2>9 DEF Positions
  <2> QED
    BY <2>7, <2>10
<1>7. ASSUME NEW j \in Jobs, Pool!Rejected(j)
      PROVE  Positions' /\ ReadsInOrder'
  BY <1>0, <1>7, <1>k DEF Pool!Rejected, PoolType
<1>8. ASSUME NEW j \in Jobs, Pool!DropCall(j)
      PROVE  Positions' /\ ReadsInOrder'
  BY <1>0, <1>8, <1>k DEF Pool!DropCall, PoolType, Ownership
<1> QED
  BY <1>1, <1>2, <1>3, <1>4, <1>5, <1>6, <1>7, <1>8 DEF Pool!Next

LEMMA PoolInvariant == Spec => []PoolInv
<1>1. Init => PoolInv
  <2> SUFFICES ASSUME Init PROVE PoolInv
    OBVIOUS
  <2> USE DEF Init, Pool!Init
  <2>1. MaxPos \in Nat /\ None \notin Jobs
    BY RuntimeObjectsAssumption DEF RuntimeObjectsAssumption
  <2>2. PoolType
    BY <2>1 DEF PoolType
  <2>3. Ownership
    BY <2>1 DEF Ownership, TakenOnce, Pool!TakenOnce
  <2>4. Positions
    BY <2>1 DEF Positions
  <2>5. ReadsInOrder
    <3>1. Pool!Bytes(0, 0) = <<>>
      BY BytesSeq, EmptySeq
    <3>2. Len(<<>>) = 0
      OBVIOUS
    <3> QED
      BY <3>1, <3>2 DEF ReadsInOrder, Pool!ReadsInOrder
  <2> QED
    BY <2>2, <2>3, <2>4, <2>5 DEF PoolInv
<1>2. PoolInv /\ [Next]_vars => PoolInv'
  <2>1. [Next]_vars => Pool!Next \/ UNCHANGED poolVars
    BY DEF Next, vars
  <2>2. PoolInv /\ UNCHANGED poolVars => PoolInv'
    BY DEF PoolInv, poolVars, PoolType, Ownership, Positions, TakenOnce,
           ReadsInOrder, Pool!TakenOnce, Pool!ReadsInOrder
  <2> QED
    BY <2>1, <2>2, PoolTypeStep, OwnershipStep, OrderStep DEF PoolInv
<1> QED
  BY <1>1, <1>2, PTL DEF Spec

\* Whoever is to take the object and the buffer out of the cell finds them,
\* and a pipe is with its owner or in one job, for every number of jobs.
THEOREM CellIsTakenOnce == Spec => []TakenOnce
BY PoolInvariant, PTL DEF PoolInv, Ownership

\* Reads through the pool return each byte once and in order, and only bytes
\* whose reader had left are missing.
THEOREM ReadsStayInOrder == Spec => []ReadsInOrder
BY PoolInvariant, PTL DEF PoolInv
=============================================================================

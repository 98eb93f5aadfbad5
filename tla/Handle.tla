------------------------------- MODULE Handle -------------------------------
(***************************************************************************)
(* Sockets, listeners and pipes: a descriptor with its registration        *)
(* (InnerRawHandle), converted between its adaptive and its poll-only      *)
(* type, cloned, given away and dropped.  The objects of a behaviour are   *)
(* of one type; those of two types share descriptor numbers and slab keys  *)
(* just as two of one type do.                                             *)
(*                                                                         *)
(* O_NONBLOCK belongs to the open file, which a clone shares.  None of the *)
(* calls waits, and an operation borrows the object, so each is one step.  *)
(***************************************************************************)
EXTENDS ObjectTypes, Naturals, FiniteSets

CONSTANTS
  Objects,   \* places an object can be in
  Fds,       \* descriptor numbers
  Files,     \* open files
  Tokens,    \* the keys of the driver's slab
  Token0,    \* the first of them
  None

VARIABLES
  type,         \* the type of the objects
  completion,   \* the driver's supports_completion
  file,         \* the open file behind a descriptor; None where closed
  nonblocking,  \* O_NONBLOCK of the open files
  unset,        \* files whose last change of O_NONBLOCK failed (history)
  cloned,       \* files that try_clone has been used on
  raw,          \* descriptors that belong to the program
  obj,          \* the objects; None where there is none
  registrations,
  leaked,       \* registrations that no handle will ever remove
  unbound       \* a live object has lost its registration (history)

fixed == <<type, completion>>
vars == <<fixed, file, nonblocking, unset, cloned, raw, obj, registrations,
          leaked, unbound>>

Init ==
  /\ type \in AllTypes
  /\ completion \in BOOLEAN
  /\ file = [f \in Fds |-> None]
  /\ nonblocking = [d \in Files |-> FALSE]
  /\ unset = {}
  /\ cloned = {}
  /\ raw = {}
  /\ obj = [o \in Objects |-> None]
  /\ registrations = [k \in Tokens |-> None]
  /\ leaked = {}
  /\ unbound = FALSE

\* Completion mode is Poll mode where the driver has no completions.
Effective(mode) == IF completion THEN mode ELSE "Poll"

uses_completion(mode) == completion /\ mode = "Completion"

Closed(f) == [file EXCEPT ![f] = None]

\* An open file has no name of its own: it gets one that is not in use.
Unused == {d \in Files : \A f \in Fds : file[f] # d}
FreshFile == CHOOSE d \in Unused : TRUE

\* The program gets a socket from the standard library, or accept returns one.
\* Bound: there are as many names of files as Files has.
NewSocket(f) ==
  /\ file[f] = None
  /\ Unused # {}
  /\ file' = [file EXCEPT ![f] = FreshFile]
  /\ \E b \in BOOLEAN :
       nonblocking' = [nonblocking EXCEPT ![FreshFile] = b]
  /\ unset' = unset \ {FreshFile}
  /\ cloned' = cloned \ {FreshFile}
  /\ raw' = raw \cup {f}
  /\ UNCHANGED <<fixed, obj, registrations, leaked, unbound>>

Set(d, b) ==
  /\ nonblocking' = [nonblocking EXCEPT ![d] = b]
  /\ unset' = unset \ {d}

\* fcntl, or ioctlsocket, fails and the flag is as it was.
NotSet(d) ==
  /\ UNCHANGED nonblocking
  /\ unset' = unset \cup {d}

\* Mutant: O_NONBLOCK is left as it was, although no call failed.
set_nonblocking_forgotten(d, mode) == UNCHANGED <<nonblocking, unset>>

\* O_NONBLOCK is made to fit the mode.  A pipe does not look at what fcntl
\* returns and goes on; elsewhere a failure ends the object.
set_nonblocking(d, mode) ==
  \/ Set(d, ~uses_completion(mode))
  \/ ~type.checked /\ NotSet(d)

\* from_std_with_mode on a descriptor: register the handle, then set the
\* file's O_NONBLOCK.
Adopt(o, f, d, poll, requested, k) ==
  /\ obj[o] = None
  /\ registrations[k] = None
  /\ LET mode == Effective(requested)
     IN /\ registrations' = [registrations EXCEPT ![k] =
                               [fd |-> f, mode |-> mode]]
        /\ obj' = [obj EXCEPT ![o] =
                     [poll |-> poll, fd |-> f, token |-> k, mode |-> mode]]
        /\ set_nonblocking(d, mode)

\* The adaptive type asks for completions, the poll-only type for what its
\* constructors say.
from_std_with_mode(o, f, k) ==
  /\ f \in raw
  /\ \/ Adopt(o, f, file[f], FALSE, "Completion", k)
     \/ \E mode \in type.poll : Adopt(o, f, file[f], TRUE, mode, k)
  /\ raw' = raw \ {f}
  /\ UNCHANGED <<fixed, file, cloned, leaked, unbound>>

\* Bound: one failure that costs a registration in a behaviour.
FirstFailure == leaked = {} /\ ~unbound

\* The registration fails and the socket is closed.  The handle, which has no
\* token yet, is dropped too and deregisters Token(0), whosoever that is.
from_std_unregistered(f) ==
  /\ FirstFailure
  /\ f \in raw
  /\ raw' = raw \ {f}
  /\ file' = Closed(f)
  /\ registrations' = [registrations EXCEPT ![Token0] = None]
  /\ unbound' = (registrations[Token0] # None)
  /\ UNCHANGED <<fixed, nonblocking, unset, cloned, obj, leaked>>

\* set_nonblocking fails: the socket is closed and its handle, which is
\* ManuallyDrop, forgotten.
from_std_blocking(f, k) ==
  /\ type.checked /\ FirstFailure
  /\ f \in raw
  /\ registrations[k] = None
  /\ registrations' = [registrations EXCEPT ![k] =
                         [fd |-> f, mode |-> "Poll"]]
  /\ leaked' = leaked \cup {k}
  /\ raw' = raw \ {f}
  /\ file' = Closed(f)
  /\ UNCHANGED <<fixed, nonblocking, unset, cloned, obj, unbound>>

-----------------------------------------------------------------------------
\* Mutant: the registration for the other mode is added to the first.
rebind_mode_registering_twice(o, mode, k) ==
  /\ registrations[k] = None
  /\ registrations' = [registrations EXCEPT ![k] =
                         [fd |-> obj[o].fd, mode |-> mode]]

\* The registration is removed and a new one made, under the same key or
\* another.  Without a registration to remove the call fails.
Reregister(o, mode, k) ==
  LET old == obj[o].token
  IN /\ registrations[old] # None
     /\ k = old \/ registrations[k] = None
     /\ registrations' = [registrations EXCEPT
          ![old] = None, ![k] = [fd |-> obj[o].fd, mode |-> mode]]

rebind_mode(o, mode, k) ==
  \/ obj[o].mode = mode /\ k = obj[o].token /\ UNCHANGED registrations
  \/ obj[o].mode # mode /\ Reregister(o, mode, k)

\* What into_poll and into_completion do to the handle.
Convert(o, poll, requested, k) ==
  /\ obj[o] # None
  /\ LET mode == Effective(requested)
     IN /\ rebind_mode(o, mode, k)
        /\ set_nonblocking(file[obj[o].fd], mode)
        /\ obj' = [obj EXCEPT ![o].mode = mode, ![o].token = k,
                              ![o].poll = poll]
  /\ UNCHANGED <<fixed, file, cloned, raw, leaked, unbound>>

into_poll(o, k) ==
  /\ type.converts
  /\ obj[o] # None /\ ~obj[o].poll
  /\ Convert(o, TRUE, "Poll", k)

into_completion(o, k) ==
  /\ type.converts
  /\ obj[o] # None /\ obj[o].poll
  /\ Convert(o, FALSE, "Completion", k)

into_adaptive(o) ==
  /\ type.converts
  /\ obj[o] # None /\ obj[o].poll
  /\ obj' = [obj EXCEPT ![o].poll = FALSE]
  /\ UNCHANGED <<fixed, file, nonblocking, unset, cloned, raw, registrations,
                 leaked, unbound>>

\* On Windows connect polls and then returns to the mode it found; if it is
\* dropped in between, the handle goes on in Poll mode.  Its first
\* set_nonblocking may fail, which leaves the handle in Poll mode too, and its
\* second, which leaves a non-blocking file to either mode.
connect_one(o, k) ==
  /\ type.rebinds /\ completion
  /\ obj[o] # None
  /\ LET d == file[obj[o].fd]
     IN \/ /\ rebind_mode(o, "Poll", k)
           /\ Set(d, TRUE) \/ NotSet(d)
           /\ obj' = [obj EXCEPT ![o].mode = "Poll", ![o].token = k]
        \/ /\ IF obj[o].mode = "Poll" THEN rebind_mode(o, "Poll", k)
                                     ELSE Reregister(o, obj[o].mode, k)
           /\ obj' = [obj EXCEPT ![o].token = k]
           /\ \/ Set(d, ~uses_completion(obj[o].mode))
              \/ /\ nonblocking' = [nonblocking EXCEPT ![d] = TRUE]
                 /\ unset' = unset \cup {d}
  /\ UNCHANGED <<fixed, file, cloned, raw, leaked, unbound>>

\* One of its two registrations fails: the object has a token without a
\* registration now, in the mode it had, or in Poll mode.
connect_one_failed(o) ==
  /\ type.rebinds /\ completion /\ FirstFailure
  /\ obj[o] # None /\ obj[o].mode = "Completion"
  /\ registrations[obj[o].token] # None
  /\ registrations' = [registrations EXCEPT ![obj[o].token] = None]
  /\ unbound' = TRUE
  /\ \/ UNCHANGED <<obj, nonblocking, unset>>
     \/ /\ obj' = [obj EXCEPT ![o].mode = "Poll"]
        /\ Set(file[obj[o].fd], TRUE)
  /\ UNCHANGED <<fixed, file, cloned, raw, leaked>>

-----------------------------------------------------------------------------
\* Drop: the handle is deregistered before the descriptor is closed.  The
\* conversions and connects that fail end here too; a handle whose new
\* registration failed has a stale token then, and its slot is vacant.
DropObject(o) ==
  /\ obj[o] # None
  /\ registrations' = [registrations EXCEPT ![obj[o].token] = None]
  /\ file' = Closed(obj[o].fd)
  /\ obj' = [obj EXCEPT ![o] = None]
  /\ UNCHANGED <<fixed, nonblocking, unset, cloned, raw, leaked, unbound>>

\* Mutant: the object is dropped although its descriptor was given away.
into_raw_fd_dropping(o) ==
  /\ obj[o] # None
  /\ registrations' = [registrations EXCEPT ![obj[o].token] = None]
  /\ raw' = raw \cup {obj[o].fd}
  /\ file' = Closed(obj[o].fd)
  /\ obj' = [obj EXCEPT ![o] = None]
  /\ UNCHANGED <<fixed, nonblocking, unset, cloned, leaked, unbound>>

\* into_raw_fd, into_raw_socket and into_std.
into_raw_fd(o) ==
  /\ obj[o] # None
  /\ registrations' = [registrations EXCEPT ![obj[o].token] = None]
  /\ raw' = raw \cup {obj[o].fd}
  /\ obj' = [obj EXCEPT ![o] = None]
  /\ UNCHANGED <<fixed, file, nonblocking, unset, cloned, leaked, unbound>>

\* The program closes a descriptor it owns.
CloseRaw(f) ==
  /\ f \in raw
  /\ raw' = raw \ {f}
  /\ file' = Closed(f)
  /\ UNCHANGED <<fixed, nonblocking, unset, cloned, obj, registrations,
                 leaked, unbound>>

\* UdpSocket::try_clone, which PollUdpSocket::try_clone wraps: the clone is
\* registered for completions whatever the original is.
try_clone(o, p, f, k) ==
  /\ type.clones
  /\ obj[o] # None
  /\ file[f] = None
  /\ LET d == file[obj[o].fd]
     IN /\ file' = [file EXCEPT ![f] = d]
        /\ cloned' = cloned \cup {d}
        /\ Adopt(p, f, d, obj[o].poll, "Completion", k)
  /\ UNCHANGED <<fixed, raw, leaked, unbound>>

Next ==
  \/ \E f \in Fds : NewSocket(f) \/ from_std_unregistered(f) \/ CloseRaw(f)
  \/ \E f \in Fds, k \in Tokens : from_std_blocking(f, k)
  \/ \E o \in Objects, f \in Fds, k \in Tokens :
       \/ from_std_with_mode(o, f, k)
       \/ \E p \in Objects : try_clone(o, p, f, k)
  \/ \E o \in Objects, k \in Tokens :
       into_poll(o, k) \/ into_completion(o, k) \/ connect_one(o, k)
  \/ \E o \in Objects : into_adaptive(o) \/ connect_one_failed(o)
                           \/ DropObject(o) \/ into_raw_fd(o)

Spec == Init /\ [][Next]_vars

-----------------------------------------------------------------------------
\* The driver's registrations are those of the live objects, one each, for
\* their own descriptor and mode: none is left behind for a descriptor number
\* that another file may get, other than by a set_nonblocking that fails in
\* from_std.  It says nothing once a failed registration has taken another
\* object's away, or a failed connect its own (fd_inner.rs:61-84, 113-135,
\* 172-177, tcp/stream.rs:368-386, udp/mod.rs:165-183).
RegistrationIsOwn ==
  unbound \/
  /\ \A o \in Objects : obj[o] # None =>
       registrations[obj[o].token] = [fd |-> obj[o].fd, mode |-> obj[o].mode]
  /\ \A k \in Tokens : registrations[k] # None =>
       \/ k \in leaked
       \/ Cardinality({o \in Objects : obj[o] # None /\ obj[o].token = k}) = 1

\* Every open descriptor has one owner, an object or the program, which will
\* close it; and nobody owns a closed one (tcp/stream.rs:559-618, 788-796).
DescriptorHasOneOwner ==
  \A f \in Fds :
    Cardinality({o \in Objects : obj[o] # None /\ obj[o].fd = f})
      + Cardinality({f} \cap raw) = IF file[f] = None THEN 0 ELSE 1

\* A file is non-blocking exactly if its object works by readiness, through
\* all conversions: an operation that is tried on a blocking descriptor would
\* stop the whole runtime, one given to io_uring on a non-blocking descriptor
\* fails instead of waiting.  Clones share the flag and are left out, and so
\* is a file while the last attempt to set its flag has failed and the object
\* went on: a pipe ignores the failure, and connect of a UDP socket on Windows
\* returns it but leaves the socket as it is; the next conversion that sets
\* the flag mends it (tcp/stream.rs:384, 392-404, 457-465, io/pipe.rs:91-98,
\* 107-114, 131-138, udp/mod.rs:172-181, 478-480).
NonblockingFitsMode ==
  \A o \in Objects :
    (obj[o] # None /\ file[obj[o].fd] \notin cloned \cup unset) =>
      nonblocking[file[obj[o].fd]] = ~uses_completion(obj[o].mode)
=============================================================================

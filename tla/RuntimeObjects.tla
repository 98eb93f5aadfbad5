-------------------------- MODULE RuntimeObjects --------------------------
(***************************************************************************)
(* The objects that a program has of the runtime: child processes, sockets *)
(* and pipes with their registrations, files and streams that are read in  *)
(* the blocking pool, the AsyncRead and AsyncWrite wrapper, and a pair of  *)
(* objects that copy_bidirectional copies between.  They share no state,   *)
(* so a behaviour is about one of them; the others stay as they begin.     *)
(***************************************************************************)
EXTENDS Naturals, Sequences, FiniteSets

CONSTANTS
  None,
  Children, Reapers, Kinds,                \* Process
  Objects, Fds, Files, Tokens, Token0,     \* Handle
  Jobs, MaxPos,                            \* BlockingIo
  BUFFER_SIZE, MaxBytes, MaxChunk,         \* AsyncWrap
  MaxCopied, BufferSize                    \* Copy

ASSUME RuntimeObjectsAssumption ==
  /\ None \notin Children \cup Reapers \cup Jobs
  /\ None \notin Objects \cup Fds \cup Files \cup Tokens
  /\ Token0 \in Tokens
  /\ Kinds \subseteq {"completion", "poll", "signal", "blocking", "windows"}
  /\ {MaxPos, MaxBytes, MaxCopied} \subseteq Nat
  /\ {BUFFER_SIZE, MaxChunk, BufferSize} \subseteq Nat \ {0}

\* None is none of the records of Handle.
ASSUME NoneAssumption ==
  /\ None \notin [fd : Fds, mode : {"Poll", "Completion"}]
  /\ None \notin [poll : BOOLEAN, fd : Fds, token : Tokens,
                  mode : {"Poll", "Completion"}]

VARIABLES
  part,
  kind, runtime, proc, inner, wait, sender, cell, used, channel, processes,
  sigchld, op, threads, lost, failed,                    \* Process
  type, completion, file, nonblocking, unset, cloned, raw, obj,
  registrations, leaked, unbound,                        \* Handle
  source_kind, present, cursor, stream, call, job, cells, offset, result,
  got,                                                   \* BlockingIo
  in_place, read_buf, read_fut, flush_fut, write_fut, chunk, source,
  returned, sink, accepted, unreported,                  \* AsyncWrap
  sized, sent, eof, taken, written, lock, pc, left       \* Copy

Processes == INSTANCE Process
Handles == INSTANCE Handle
Pool == INSTANCE BlockingIo WITH
          kind <- source_kind, inner <- present, cell <- cells
Wrapper == INSTANCE AsyncWrap WITH inner <- in_place
Copies == INSTANCE Copy WITH MaxBytes <- MaxCopied

processVars == <<kind, runtime, proc, inner, wait, sender, cell, used, channel,
                 processes, sigchld, op, threads, lost, failed>>
handleVars == <<type, completion, file, nonblocking, unset, cloned, raw, obj,
                registrations, leaked, unbound>>
poolVars == <<source_kind, present, cursor, stream, call, job, cells, offset,
              result, got>>
wrapperVars == <<in_place, read_buf, read_fut, flush_fut, write_fut, chunk,
                 source, returned, sink, accepted, unreported>>
copyVars == <<sized, sent, eof, taken, written, lock, pc, left>>
vars == <<part, processVars, handleVars, poolVars, wrapperVars, copyVars>>

Init ==
  /\ part \in {"process", "handle", "pool", "wrapper", "copy"}
  /\ Processes!Init
  /\ Handles!Init
  /\ Pool!Init
  /\ Wrapper!Init
  /\ Copies!Init
  /\ part # "process" => kind = "blocking"
  /\ part # "handle" => ~completion /\ type = Handles!Pipe
  /\ part # "pool" => source_kind = "file"
  /\ part # "copy" => sized = {}

Next ==
  \/ /\ part = "process" /\ Processes!Next
     /\ UNCHANGED <<part, handleVars, poolVars, wrapperVars, copyVars>>
  \/ /\ part = "handle" /\ Handles!Next
     /\ UNCHANGED <<part, processVars, poolVars, wrapperVars, copyVars>>
  \/ /\ part = "pool" /\ Pool!Next
     /\ UNCHANGED <<part, processVars, handleVars, wrapperVars, copyVars>>
  \/ /\ part = "wrapper" /\ Wrapper!Next
     /\ UNCHANGED <<part, processVars, handleVars, poolVars, copyVars>>
  \/ /\ part = "copy" /\ Copies!Next
     /\ UNCHANGED <<part, processVars, handleVars, poolVars, wrapperVars>>

\* Reapers and copies go on, see the modules.
Fairness ==
  /\ Processes!Fairness
  /\ part = "copy" => Copies!Fairness

Spec == Init /\ [][Next]_vars /\ Fairness

-----------------------------------------------------------------------------
(* The properties of the parts.                                            *)

\* A process that was not reaped is waited for by exactly one party, or was
\* lost; no pidfd task calls waitpid for a pid that was given back
\* (reaper.rs:31-61, 208-244, waitpid.rs:88-103).
OneWaiter == Processes!OneWaiter

\* A process is lost to the reaper only if the future of wait was dropped, if
\* its pidfd task gave up, with the runtime, or while nobody waits for it, if
\* its SIGCHLD reaper was replaced or a call failed
\* (reaper.rs:31-61, 109-115, 217-222, 259-262, executor.rs:361-363).
LostOnlyByCancelling == Processes!LostOnlyByCancelling

\* A process that exits after its Child was dropped or waited for is reaped
\* or lost, and a wait for it does not stay pending, unless a SIGCHLD goes
\* unheard (reaper.rs:31-61, 99-145, 201-245, 256-300).
ExitedIsReaped == Processes!ExitedIsReaped

\* The driver's registrations are those of the live objects, one each, for
\* their own descriptor and mode, as long as no failure has taken one away
\* (fd_inner.rs:113-135, 172-177).
RegistrationIsOwn == Handles!RegistrationIsOwn

\* Every open descriptor has one owner, an object or the program
\* (tcp/stream.rs:559-618, 788-796).
DescriptorHasOneOwner == Handles!DescriptorHasOneOwner

\* A file that is not shared with a clone, and whose flag could be set, is
\* non-blocking exactly if its object works by readiness (tcp/stream.rs:384,
\* 392-404, 457-465, io/pipe.rs:91-138, udp/mod.rs:172-181).
NonblockingFitsMode == Handles!NonblockingFitsMode

\* Whoever is to take the object and the buffer of a blocking job finds them,
\* and a pipe is with its owner or in one job (process/mod.rs:132-196).
TakenOnce == Pool!TakenOnce

\* Reads through the pool return bytes in order, each once: of a file all up
\* to the cursor, of a stream all but those that a job read whose caller had
\* left (fs/file.rs:696-705, stdio.rs:111-135, 202-216).
ReadsInOrder == Pool!ReadsInOrder

\* The wrapped object is in its place or in one future, and comes back
\* (async_wrap.rs:115-129, 171-203, 210-226).
ObjectIsSomewhere == Wrapper!ObjectIsSomewhere

\* The wrapper neither loses nor repeats a byte (async_wrap.rs:89-108,
\* 130-151, 178-203).
BytesAreKept == Wrapper!BytesAreKept

\* Whatever a copy has read is in its buffer or has been written
\* (io/util.rs:40-67).
NothingLost == Copies!NothingLost

\* Once both peers have closed, both copies come to an end
\* (io/util.rs:128-152, 204-225).
EndsWhenClosed == Copies!EndsWhenClosed
=============================================================================

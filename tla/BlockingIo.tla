----------------------------- MODULE BlockingIo -----------------------------
(***************************************************************************)
(* Reads that the blocking pool does for an object: a File without         *)
(* completions, standard input, or the pipe of a child (writes, flushes    *)
(* and Command::status and output move their object in the same way).  The *)
(* buffer, and for a pipe the object itself, is put in a shared cell from  *)
(* which the job on the pool takes it; the result brings it back.  If the  *)
(* pool drops the job, the caller takes it out of the cell again.          *)
(*                                                                         *)
(* The caller may drop the future at any time; the job goes on then.       *)
(* Bytes are numbered by their position in the file or the stream.         *)
(***************************************************************************)
EXTENDS Naturals, Sequences, FiniteSets

CONSTANTS
  Jobs,       \* the jobs given to the pool
  MaxPos,     \* length of the file or the stream
  None

VARIABLES
  kind,       \* "file", "stdin" or "pipe"
  inner,      \* the object is in its place; a pipe is not during a job
  cursor,     \* File::cursor
  stream,     \* position of a stream, that any reader moves
  call,       \* the job that the caller awaits, or None
  job,        \* state of each job; its result is "lost" if nobody takes it
  cell,       \* the jobs whose cell is full
  offset,     \* where a job for a file reads
  result,     \* bytes that a job has read: from and to
  got         \* the bytes that the caller received (history)

vars == <<kind, inner, cursor, stream, call, job, cell, offset, result, got>>

Init ==
  /\ kind \in {"file", "stdin", "pipe"}
  /\ inner = TRUE
  /\ cursor = 0 /\ stream = 0
  /\ call = None
  /\ job = [j \in Jobs |-> "none"]
  /\ cell = {}
  /\ offset = [j \in Jobs |-> 0]
  /\ result = [j \in Jobs |-> <<0, 0>>]
  /\ got = <<>>

Minimum(x, y) == IF x < y THEN x ELSE y

\* Position of the next byte that a read would return.
Position(j) == IF kind = "file" THEN offset[j] ELSE stream

\* Bytes from..to-1.
Bytes(from, to) == [i \in 1..(to - from) |-> from + i - 1]

-----------------------------------------------------------------------------
\* The first poll of a read: fill the cell, send the job to the pool.  A pipe
\* that is not there makes the read fail (stdio_closed_error).
spawn_blocking(j) ==
  /\ call = None
  /\ inner
  /\ job[j] = "none"
  /\ job' = [job EXCEPT ![j] = "queued"]
  /\ cell' = cell \cup {j}
  /\ offset' = [offset EXCEPT ![j] = cursor]
  /\ inner' = (kind # "pipe")
  /\ call' = j
  /\ UNCHANGED <<kind, cursor, stream, result, got>>

\* Without a runtime, or with a File that is not offloaded, the caller reads
\* by itself.
ReadBlocking(n) ==
  /\ call = None
  /\ inner
  /\ LET from == IF kind = "file" THEN cursor ELSE stream
         to == Minimum(from + n, MaxPos)
     IN /\ got' = got \o Bytes(from, to)
        /\ cursor' = IF kind = "file" THEN to ELSE cursor
        /\ stream' = IF kind = "file" THEN stream ELSE to
  /\ UNCHANGED <<kind, inner, call, job, cell, offset, result>>

\* The pool runs the job: it takes what is in the cell.
JobStarts(j) ==
  /\ job[j] = "queued"
  /\ job' = [job EXCEPT ![j] = "running"]
  /\ cell' = cell \ {j}
  /\ UNCHANGED <<kind, inner, cursor, stream, call, offset, result, got>>

\* The system call returns up to n bytes, or an error (none); the result goes
\* to the channel and, if the caller has left, is dropped with all in it.
JobEnds(j, n) ==
  /\ job[j] = "running"
  /\ LET from == Position(j)
         to == Minimum(from + n, MaxPos)
     IN /\ result' = [result EXCEPT ![j] = <<from, to>>]
        /\ stream' = IF kind = "file" THEN stream ELSE to
  /\ job' = [job EXCEPT ![j] = IF call = j THEN "sent" ELSE "lost"]
  /\ UNCHANGED <<kind, inner, cursor, call, cell, offset, got>>

\* The pool drops a job that it has not begun.
JobDropped(j) ==
  /\ job[j] = "queued"
  /\ job' = [job EXCEPT ![j] = "dropped"]
  /\ cell' = IF call = j THEN cell ELSE cell \ {j}
  /\ UNCHANGED <<kind, inner, cursor, stream, call, offset, result, got>>

\* Mutant: the cursor moves by what was asked for.
Returned_in_full(j) ==
  /\ call = j /\ job[j] = "sent"
  /\ inner' = TRUE
  /\ call' = None
  /\ job' = [job EXCEPT ![j] = "returned"]
  /\ got' = got \o Bytes(result[j][1], result[j][2])
  /\ cursor' = IF kind = "file" THEN cursor + 2 ELSE cursor
  /\ UNCHANGED <<kind, stream, cell, offset, result>>

\* The read returns the result.
Returned(j) ==
  /\ call = j /\ job[j] = "sent"
  /\ inner' = TRUE
  /\ call' = None
  /\ job' = [job EXCEPT ![j] = "returned"]
  /\ got' = got \o Bytes(result[j][1], result[j][2])
  /\ cursor' = IF kind = "file" THEN cursor + (result[j][2] - result[j][1])
               ELSE cursor
  /\ UNCHANGED <<kind, stream, cell, offset, result>>

\* The job was dropped: the object and the buffer are taken out of the cell.
Rejected(j) ==
  /\ call = j /\ job[j] = "dropped"
  /\ inner' = TRUE
  /\ call' = None
  /\ cell' = cell \ {j}
  /\ UNCHANGED <<kind, cursor, stream, job, offset, result, got>>

\* Mutant: the caller takes the object with it when it leaves.
DropCall_taking(j) ==
  /\ call = j
  /\ call' = None
  /\ inner' = TRUE
  /\ job' = IF job[j] = "sent" THEN [job EXCEPT ![j] = "lost"] ELSE job
  /\ cell' = cell \ {j}
  /\ UNCHANGED <<kind, cursor, stream, offset, result, got>>

\* The future is dropped with its end of the channel and of the cell.
DropCall(j) ==
  /\ call = j
  /\ call' = None
  /\ job' = IF job[j] = "sent" THEN [job EXCEPT ![j] = "lost"] ELSE job
  /\ cell' = IF job[j] = "dropped" THEN cell \ {j} ELSE cell
  /\ UNCHANGED <<kind, inner, cursor, stream, offset, result, got>>

Next ==
  \/ \E n \in 0..2 : ReadBlocking(n)
  \/ \E j \in Jobs :
       \/ spawn_blocking(j) \/ JobStarts(j) \/ JobDropped(j)
       \/ \E n \in 0..2 : JobEnds(j, n)
       \/ Returned(j) \/ Rejected(j) \/ DropCall(j)

Spec == Init /\ [][Next]_vars

-----------------------------------------------------------------------------
\* Whoever is to take the object and the buffer from the cell finds them
\* there, so that no expect fails; and a pipe is with its owner or in one
\* job, never in both (process/mod.rs:132-196, fs/file.rs:605-670).
TakenOnce ==
  /\ \A j \in Jobs :
       (job[j] = "queued" \/ (call = j /\ job[j] = "dropped")) => j \in cell
  /\ kind = "pipe" => (inner => \A j \in Jobs : job[j] \notin {"queued", "running"})

\* Reads return what there is to read in order, each byte once.  Those of a
\* file return all up to the cursor, whichever reads fail or are dropped,
\* although dropped ones still happen (fs/file.rs:696-705); of a stream, only
\* those bytes are missing that a job read whose caller had left
\* (stdio.rs:111-135, 202-216).
ReadsInOrder ==
  /\ kind = "file" => got = Bytes(0, cursor)
  /\ kind # "file" =>
       /\ \A i \in 1..(Len(got) - 1) : got[i] < got[i + 1]
       /\ \A b \in 0..(stream - 1) :
            \/ \E i \in DOMAIN got : got[i] = b
            \/ \E j \in Jobs : /\ job[j] = "lost" \/ call = j
                               /\ result[j][1] <= b /\ b < result[j][2]
=============================================================================

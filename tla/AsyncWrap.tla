----------------------------- MODULE AsyncWrap -----------------------------
(***************************************************************************)
(* AsyncWrap (util/async_wrap.rs): an object whose read and write are      *)
(* futures behind tokio's poll functions.  A poll that has to wait leaves  *)
(* its future, with the object in it, for the next poll of the same kind.  *)
(* A reader and a writer, or one task doing both, poll in any order and    *)
(* may turn to something else after Pending; a writer polls again with the *)
(* bytes it has polled with, which the wrapper relies on, or gives up.     *)
(* Bytes are counted.  A write of the object that accepts nothing would    *)
(* be repeated for ever in one poll, and does not happen here.             *)
(***************************************************************************)
EXTENDS Naturals

CONSTANTS
  BUFFER_SIZE,   \* most that a read of the object returns
  MaxBytes,      \* bound on the bytes read, and on the bytes written
  MaxChunk       \* most that a caller asks for or writes at a time

VARIABLES
  inner,       \* the object is in its place
  read_buf,    \* bytes in read_buf that are not returned yet
  read_fut, flush_fut,   \* there is such a future, and it has the object
  write_fut,   \* bytes that the write future has still to write; 0: no future
  chunk,       \* bytes that it was created with
  source,      \* bytes read from the object
  returned,    \* bytes returned to the reader (history)
  sink,        \* bytes written to the object
  accepted,    \* bytes that the writer was told were written (history)
  unreported   \* bytes written by writes that failed (history)

readVars == <<read_buf, read_fut, source, returned>>
writeVars == <<write_fut, chunk, sink, accepted, unreported>>
vars == <<inner, readVars, writeVars, flush_fut>>

Init ==
  /\ inner = TRUE
  /\ read_buf = 0 /\ write_fut = 0 /\ chunk = 0
  /\ read_fut = FALSE /\ flush_fut = FALSE
  /\ source = 0 /\ returned = 0 /\ sink = 0 /\ accepted = 0
  /\ unreported = 0

Minimum(x, y) == IF x < y THEN x ELSE y

\* Mutant: what the caller had no room for is dropped.
FromBuffer_dropping(room) ==
  /\ ~read_fut /\ read_buf > 0
  /\ returned' = returned + Minimum(room, read_buf)
  /\ read_buf' = 0
  /\ UNCHANGED <<inner, read_fut, source, writeVars, flush_fut>>

\* poll_read with something in read_buf; the object may be elsewhere.
FromBuffer(room) ==
  /\ ~read_fut /\ read_buf > 0
  /\ returned' = returned + Minimum(room, read_buf)
  /\ read_buf' = read_buf - Minimum(room, read_buf)
  /\ UNCHANGED <<inner, read_fut, source, writeVars, flush_fut>>

\* A poll that has its future, or can create it.  Otherwise the object is in
\* use and the poll fails, which changes nothing.
MayRead == read_fut \/ (inner /\ read_buf = 0)
MayWrite == write_fut > 0 \/ inner
MayFlush == flush_fut \/ inner

poll_read_pending ==
  /\ MayRead
  /\ inner' = FALSE
  /\ read_fut' = TRUE
  /\ UNCHANGED <<read_buf, source, returned, writeVars, flush_fut>>

\* The read is done, with n bytes (none at the end, or with an error).
poll_read_ready(room, n) ==
  /\ MayRead
  /\ source + n <= MaxBytes
  /\ inner' = TRUE
  /\ read_fut' = FALSE
  /\ source' = source + n
  /\ returned' = returned + Minimum(room, n)
  /\ read_buf' = n - Minimum(room, n)
  /\ UNCHANGED <<writeVars, flush_fut>>

\* The bytes that a poll of the write future begins with.
ToWrite(n) == IF write_fut > 0 THEN write_fut ELSE n

\* The object accepts w bytes, in one or several writes, and has to wait.
poll_write_pending(n, w) ==
  /\ MayWrite
  /\ write_fut = 0 => sink + n <= MaxBytes
  /\ w < ToWrite(n)
  /\ inner' = FALSE
  /\ chunk' = IF write_fut > 0 THEN chunk ELSE n
  /\ write_fut' = ToWrite(n) - w
  /\ sink' = sink + w
  /\ UNCHANGED <<readVars, accepted, unreported, flush_fut>>

\* The object accepts all that is left: all bytes of the future are reported.
poll_write_ready(n) ==
  /\ MayWrite
  /\ write_fut = 0 => sink + n <= MaxBytes
  /\ inner' = TRUE
  /\ sink' = sink + ToWrite(n)
  /\ accepted' = accepted + IF write_fut > 0 THEN chunk ELSE n
  /\ write_fut' = 0 /\ chunk' = 0
  /\ UNCHANGED <<readVars, unreported, flush_fut>>

\* Mutant: the object is lost with an error.
poll_write_failed_losing(n, w) ==
  /\ MayWrite
  /\ w < ToWrite(n)
  /\ inner' = FALSE
  /\ sink' = sink + w
  /\ write_fut' = 0 /\ chunk' = 0
  /\ unreported' = unreported + (chunk - write_fut) + w
  /\ UNCHANGED <<readVars, accepted, flush_fut>>

\* The object fails after it has accepted w bytes.
poll_write_failed(n, w) ==
  /\ MayWrite
  /\ write_fut = 0 => sink + n <= MaxBytes
  /\ w < ToWrite(n)
  /\ inner' = TRUE
  /\ sink' = sink + w
  /\ write_fut' = 0 /\ chunk' = 0
  /\ unreported' = unreported + (chunk - write_fut) + w
  /\ UNCHANGED <<readVars, accepted, flush_fut>>

poll_flush_pending ==
  /\ MayFlush
  /\ inner' = FALSE
  /\ flush_fut' = TRUE
  /\ UNCHANGED <<readVars, writeVars>>

poll_flush_ready ==
  /\ MayFlush
  /\ inner' = TRUE
  /\ flush_fut' = FALSE
  /\ UNCHANGED <<readVars, writeVars>>

Next ==
  \/ \E room \in 1..MaxChunk :
       \/ FromBuffer(room)
       \/ \E n \in 0..BUFFER_SIZE : poll_read_ready(room, n)
  \/ poll_read_pending
  \/ \E n \in 1..MaxChunk :
       \/ poll_write_ready(n)
       \/ \E w \in 0..(MaxChunk - 1) :
            poll_write_pending(n, w) \/ poll_write_failed(n, w)
  \/ poll_flush_pending \/ poll_flush_ready

Spec == Init /\ [][Next]_vars

-----------------------------------------------------------------------------
One(b) == IF b THEN 1 ELSE 0

\* The object is in its place or in one future, and comes back whatever order
\* reads, writes and flushes are polled in and whichever fail: otherwise the
\* wrapper would refuse everything from then on (async_wrap.rs:115-129,
\* 171-203, 210-226).
ObjectIsSomewhere ==
  One(inner) + One(read_fut) + One(write_fut > 0) + One(flush_fut) = 1

\* The wrapper neither loses nor repeats a byte: what was read from the
\* object was returned or is in read_buf, and what was written to it was
\* reported, belongs to the write that is under way or to one that failed,
\* however polls of both sides mix (async_wrap.rs:89-108, 130-151, 178-203).
BytesAreKept ==
  /\ source = returned + read_buf
  /\ sink = accepted + unreported + (chunk - write_fut)
=============================================================================

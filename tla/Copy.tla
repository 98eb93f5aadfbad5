-------------------------------- MODULE Copy --------------------------------
(***************************************************************************)
(* copy and copy_bidirectional (io/util.rs) over split objects.  The two   *)
(* halves of an object share it through one lock, which a half holds from  *)
(* the call of read, write or flush until it returns, so while the object  *)
(* makes it wait too.  Two copies run, one in each direction, and each     *)
(* waits for a lock, for its object, or not at all.                        *)
(*                                                                         *)
(* Bytes are counted.  The peer of an object sends at most MaxBytes and    *)
(* may close its side; it takes what is written to it.                     *)
(***************************************************************************)
EXTENDS Naturals

CONSTANTS MaxBytes, BufferSize, None

Ends == {"a", "b"}
Other(x) == IF x = "a" THEN "b" ELSE "a"

VARIABLES
  sized,     \* the objects that take an empty buffer for a read of nothing:
             \* files, standard input and the pipes of children
  sent, eof, \* what the peer of each object has sent, and that it closed
  taken,     \* bytes read from each object
  written,   \* bytes written to each object
  lock,      \* the object's lock: the end whose copy holds it
  pc, left   \* the copy that reads from each object: where it is, and the
             \* bytes of its buffer that are not written yet

peerVars == <<sized, sent, eof>>
vars == <<peerVars, taken, written, lock, pc, left>>

Init ==
  /\ sized \in SUBSET Ends
  /\ sent = [x \in Ends |-> 0]
  /\ eof = [x \in Ends |-> FALSE]
  /\ taken = [x \in Ends |-> 0]
  /\ written = [x \in Ends |-> 0]
  /\ lock = [x \in Ends |-> None]
  /\ pc = [x \in Ends |-> "read"]
  /\ left = [x \in Ends |-> 0]

\* The peer sends or closes.
PeerSends(x) ==
  /\ ~eof[x] /\ sent[x] < MaxBytes
  /\ sent' = [sent EXCEPT ![x] = @ + 1]
  /\ UNCHANGED <<sized, eof, taken, written, lock, pc, left>>

PeerCloses(x) ==
  /\ ~eof[x]
  /\ eof' = [eof EXCEPT ![x] = TRUE]
  /\ UNCHANGED <<sized, sent, taken, written, lock, pc, left>>

\* The object whose lock the copy from x needs at a point.
Needs(x) == IF pc[x] = "read" THEN x ELSE Other(x)

\* lock().await in one of the halves.
Lock(x) ==
  /\ pc[x] \in {"read", "write", "flush"}
  /\ lock[Needs(x)] = None
  /\ lock' = [lock EXCEPT ![Needs(x)] = x]
  /\ UNCHANGED <<peerVars, taken, written, pc, left>>

\* The call returns, the guard is dropped and the copy goes on at `next'.
Unlock(x, next) ==
  /\ lock' = [lock EXCEPT ![Needs(x)] = None]
  /\ pc' = [pc EXCEPT ![x] = next]

\* The read returns bytes.
Read(x) ==
  /\ pc[x] = "read" /\ lock[x] = x
  /\ x \notin sized
  /\ \E n \in 1..BufferSize :
       /\ taken[x] + n <= sent[x]
       /\ taken' = [taken EXCEPT ![x] = @ + n]
       /\ left' = [left EXCEPT ![x] = n]
  /\ Unlock(x, "write")
  /\ UNCHANGED <<peerVars, written>>

\* The read returns 0: at the end, or at once because the buffer, which was
\* cleared, has no length.
ReadNothing(x) ==
  /\ pc[x] = "read" /\ lock[x] = x
  /\ x \in sized \/ (eof[x] /\ taken[x] = sent[x])
  /\ Unlock(x, "flush")
  /\ UNCHANGED <<peerVars, taken, written, left>>

\* Mutant: what a short write leaves over is not written any more.
Write_once(x) ==
  /\ pc[x] = "write" /\ lock[Other(x)] = x
  /\ \E n \in 1..left[x] :
       written' = [written EXCEPT ![Other(x)] = @ + n]
  /\ left' = [left EXCEPT ![x] = 0]
  /\ Unlock(x, "read")
  /\ UNCHANGED <<peerVars, taken>>

\* A write of all or of some bytes; the rest has to wait for the lock again.
Write(x) ==
  /\ pc[x] = "write" /\ lock[Other(x)] = x
  /\ \E n \in 1..left[x] :
       /\ written' = [written EXCEPT ![Other(x)] = @ + n]
       /\ left' = [left EXCEPT ![x] = @ - n]
       /\ Unlock(x, IF n = left[x] THEN "read" ELSE "write")
  /\ UNCHANGED <<peerVars, taken>>

Flush(x) ==
  /\ pc[x] = "flush" /\ lock[Other(x)] = x
  /\ Unlock(x, "done")
  /\ UNCHANGED <<peerVars, taken, written, left>>

\* Mutant: the guard outlives the call that failed.
Fails_locked(x) ==
  /\ pc[x] \in {"read", "write", "flush"}
  /\ lock[Needs(x)] = x
  /\ pc' = [pc EXCEPT ![x] = "failed"]
  /\ UNCHANGED <<peerVars, taken, written, lock, left>>

\* A read, write or flush fails, or a write returns 0.
Fails(x) ==
  /\ pc[x] \in {"read", "write", "flush"}
  /\ lock[Needs(x)] = x
  /\ Unlock(x, "failed")
  /\ UNCHANGED <<peerVars, taken, written, left>>

CopyStep(x) ==
  Lock(x) \/ Read(x) \/ ReadNothing(x) \/ Write(x) \/ Flush(x)

Next ==
  \E x \in Ends : PeerSends(x) \/ PeerCloses(x) \/ CopyStep(x) \/ Fails(x)

\* join polls both copies, and objects wake them when they can go on.  Nobody
\* has to send, to close or to fail.
Fairness == \A x \in Ends : WF_vars(CopyStep(x))

Spec == Init /\ [][Next]_vars /\ Fairness

-----------------------------------------------------------------------------
\* Whatever was read is in the buffer or has been written, through short
\* writes and with the other copy in between (io/util.rs:40-67).
NothingLost ==
  \A x \in Ends :
    /\ taken[x] = written[Other(x)] + left[x]
    /\ pc[x] \in {"read", "flush", "done"} => left[x] = 0

\* Once both peers have closed, both copies come to an end: neither keeps a
\* lock that the other waits for (io/util.rs:128-152, 204-225).
EndsWhenClosed == (eof["a"] /\ eof["b"]) ~>
  \A x \in Ends : pc[x] \in {"done", "failed"}

\* What copy_bidirectional promises: bytes read from one object are written
\* to the other (io/util.rs:195-199).
ReadIsWritten ==
  \A x \in Ends : (left[x] > 0) ~> (left[x] = 0 \/ pc[x] = "failed")
=============================================================================

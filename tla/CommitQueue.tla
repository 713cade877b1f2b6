---------------------------- MODULE CommitQueue ----------------------------
(***************************************************************************)
(* What a ByteQueue promises to the one thread that writes and the one     *)
(* that reads: a bounded queue of bytes, in which written bytes can be     *)
(* read when they are committed, and room is given back when what was read *)
(* is committed.  Until then either side can take back what it did.        *)
(***************************************************************************)
EXTENDS Integers, Sequences

CONSTANTS
  Bytes,    \* the values of a byte
  Capacity  \* ByteQueue.capacity()

VARIABLES
  content,    \* the bytes between the last commit of the reader and the writer
  committed,  \* how many of them the writer has committed
  taken,      \* how many of these the reader has read or skipped
  out         \* the bytes that the last read returned

queue == <<content, committed, taken, out>>

Init == content = <<>> /\ committed = 0 /\ taken = 0 /\ out = <<>>

Write ==
  /\ \E n \in 1 .. Capacity - Len(content) : \E s \in [1 .. n -> Bytes] :
       content' = content \o s
  /\ UNCHANGED <<committed, taken, out>>

CommitWrite ==
  /\ committed' = Len(content)
  /\ UNCHANGED <<content, taken, out>>

RollbackWrite ==
  /\ content' = SubSeq(content, 1, committed)
  /\ UNCHANGED <<committed, taken, out>>

Read ==
  /\ \E n \in 1 .. committed - taken :
       /\ out' = SubSeq(content, taken + 1, taken + n)
       /\ taken' = taken + n
  /\ UNCHANGED <<content, committed>>

Skip ==
  /\ \E n \in 1 .. committed - taken : taken' = taken + n
  /\ UNCHANGED <<content, committed, out>>

RollbackRead == taken' = 0 /\ UNCHANGED <<content, committed, out>>

\* Gives the room of n bytes back.
Release(n) ==
  /\ content' = SubSeq(content, n + 1, Len(content))
  /\ committed' = committed - n /\ taken' = 0
  /\ UNCHANGED out

CommitRead == Release(taken)
Clear      == Release(committed)

Next == \/ Write \/ CommitWrite \/ RollbackWrite
        \/ Read \/ Skip \/ RollbackRead \/ CommitRead \/ Clear

Spec == Init /\ [][Next]_queue
=============================================================================

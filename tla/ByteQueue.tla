----------------------------- MODULE ByteQueue -----------------------------
(***************************************************************************)
(* The byte queue of the Java library (org.chabu.container.internal): a    *)
(* ring that one thread fills through ByteQueueInputPortImpl and another   *)
(* one empties through ByteQueueOutputPortImpl, without a lock.  Each side *)
(* computes the room or the bytes it has from its own mark and from the    *)
(* position the other side committed, and then copies: the bulk transfers  *)
(* are two steps, between which the other thread runs.                     *)
(*                                                                         *)
(* An exception leaves the positions as they were, so it is no step.       *)
(***************************************************************************)
EXTENDS Integers, Sequences

CONSTANTS
  Bytes,     \* the values of a byte
  Zero,      \* the one a new array holds
  Capacity,  \* ByteQueue.capacity()
  Cautious   \* the application avoids the uses the code does not carry out:
             \* a bulk write beyond free(), padding that reaches the end of
             \* the array, a skip across it

ASSUME ByteQueueAssumption ==
  Zero \in Bytes /\ Capacity \in Nat \ {0} /\ Cautious \in BOOLEAN

VARIABLES
  buf,           \* ByteQueueImpl.buf
  writeIdx,      \* input port: end of what is committed
  writeMarkIdx,  \* input port: end of what is written
  readIdx,       \* output port: begin of what is not read and committed
  readMarkIdx,   \* output port: begin of what is not read
  writing,       \* input port: the bytes of a bulk write that was checked
  reading,       \* output port: the size of a bulk read that was checked
  out            \* the bytes that the last read returned

vars == <<buf, writeIdx, writeMarkIdx, readIdx, readMarkIdx, writing, reading, out>>

L     == Capacity + 1   \* buf.length
Slots == 0 .. L - 1

Init ==
  /\ buf = [i \in Slots |-> Zero]
  /\ writeIdx = 0 /\ writeMarkIdx = 0 /\ readIdx = 0 /\ readMarkIdx = 0
  /\ writing = <<>> /\ reading = 0 /\ out = <<>>

\* How many bytes lie between position r and position w.
Fill(r, w) == IF r > w THEN w + L - r ELSE w - r

\* A mutant: the slot that tells a full ring from an empty one is used, too.
RoomFull(w) == Capacity + 1 - Fill(readIdx, w)

Room(w) == Capacity - Fill(readIdx, w)

freeCommitted == Room(writeIdx)
free          == Room(writeMarkIdx)
available     == Fill(readMarkIdx, writeIdx)

\* The slot n behind a position, and n behind it for one that is not the end.
At(r, n) == IF r + n < L THEN r + n ELSE r + n - L

\* The bytes s put into the ring from position w on, across its end.
Offset(w, i) == IF i >= w THEN i - w ELSE i + L - w
Filled(w, s) ==
  [i \in Slots |-> IF Offset(w, i) < Len(s) THEN s[Offset(w, i) + 1] ELSE buf[i]]

\* The n bytes of the ring from position r on, across its end.
Taken(r, n) == [k \in 1 .. n |-> buf[At(r, k - 1)]]

Chunks(n) == UNION {[1 .. k -> Bytes] : k \in 1 .. n}
Integer   == {1, 2, 4}   \* the sizes of a byte, a short and an int

-----------------------------------------------------------------------------
(* The writing thread.                                                     *)

\* write and offer look at the room behind the committed position only.
checkWrite ==
  /\ writing = <<>> /\ writeMarkIdx < L
  /\ \E s \in Chunks(IF Cautious THEN free ELSE freeCommitted) : writing' = s
  /\ UNCHANGED <<buf, writeIdx, writeMarkIdx, readIdx, readMarkIdx, reading, out>>

\* A mutant: the position is not reset at the end of the array.
copyInPast ==
  /\ writing # <<>>
  /\ buf' = Filled(writeMarkIdx, writing)
  /\ writeMarkIdx' = writeMarkIdx + Len(writing)
  /\ writing' = <<>>
  /\ UNCHANGED <<writeIdx, readIdx, readMarkIdx, reading, out>>

copyIn ==
  /\ writing # <<>>
  /\ buf' = Filled(writeMarkIdx, writing)
  /\ writeMarkIdx' = At(writeMarkIdx, Len(writing))
  /\ writing' = <<>>
  /\ UNCHANGED <<writeIdx, readIdx, readMarkIdx, reading, out>>

\* writeByte, writeShort and writeInt.
writeInteger ==
  /\ writing = <<>> /\ writeMarkIdx < L
  /\ \E s \in Chunks(free) :
       /\ Len(s) \in Integer
       /\ buf' = Filled(writeMarkIdx, s)
       /\ writeMarkIdx' = At(writeMarkIdx, Len(s))
  /\ UNCHANGED <<writeIdx, readIdx, readMarkIdx, writing, reading, out>>

\* Padding that ends at the end of the array leaves the mark there.  Padding
\* that goes on from the begin of the array goes on for too long: only what
\* was filled is subtracted, not the length of the array.
writePadding ==
  /\ writing = <<>>
  /\ \E b \in Bytes, n \in 1 .. free :
       LET end  == writeMarkIdx + n
           over == end > L
           last == IF over THEN end - (L - writeMarkIdx) ELSE end
       IN  /\ Cautious => end < L
           /\ last <= L
           /\ buf' = [i \in Slots |->
                IF (over /\ (i >= writeMarkIdx \/ i < last))
                   \/ (~ over /\ writeMarkIdx <= i /\ i < last) THEN b ELSE buf[i]]
           /\ writeMarkIdx' = last
  /\ UNCHANGED <<writeIdx, readIdx, readMarkIdx, writing, reading, out>>

commitWrite ==
  /\ writing = <<>>
  /\ writeIdx' = writeMarkIdx
  /\ UNCHANGED <<buf, writeMarkIdx, readIdx, readMarkIdx, writing, reading, out>>

rollbackWrite ==
  /\ writing = <<>>
  /\ writeMarkIdx' = writeIdx
  /\ UNCHANGED <<buf, writeIdx, readIdx, readMarkIdx, writing, reading, out>>

Writer == \/ checkWrite \/ copyIn \/ writeInteger \/ writePadding
          \/ commitWrite \/ rollbackWrite

-----------------------------------------------------------------------------
(* The reading thread.                                                     *)

\* read and poll look at what is available.
checkRead ==
  /\ reading = 0
  /\ \E n \in 1 .. available : reading' = n
  /\ UNCHANGED <<buf, writeIdx, writeMarkIdx, readIdx, readMarkIdx, writing, out>>

\* A mutant: begins where the last commit was.
copyOutCommitted ==
  /\ reading # 0
  /\ out' = Taken(readIdx, reading)
  /\ readMarkIdx' = At(readMarkIdx, reading)
  /\ reading' = 0
  /\ UNCHANGED <<buf, writeIdx, writeMarkIdx, readIdx, writing>>

\* A mark at the end of the array stays there until the next read.
copyOut ==
  /\ reading # 0
  /\ out' = Taken(readMarkIdx, reading)
  /\ readMarkIdx' = LET end == readMarkIdx + reading
                    IN  IF end > L THEN end - L ELSE end
  /\ reading' = 0
  /\ UNCHANGED <<buf, writeIdx, writeMarkIdx, readIdx, writing>>

\* readByte, readShort and readInt: with the mark at the end of the array they
\* throw an ArrayIndexOutOfBoundsException.
readInteger ==
  /\ reading = 0 /\ readMarkIdx < L
  /\ \E n \in (1 .. available) \cap Integer :
       /\ out' = Taken(readMarkIdx, n)
       /\ readMarkIdx' = At(readMarkIdx, n)
  /\ UNCHANGED <<buf, writeIdx, writeMarkIdx, readIdx, writing, reading>>

\* A skip across the end of the array stops at its begin.
skip ==
  /\ reading = 0
  /\ \E n \in 1 .. available :
       LET next == readMarkIdx + n IN
         /\ Cautious => next <= L
         /\ readMarkIdx' = IF next >= L THEN 0 ELSE next
  /\ UNCHANGED <<buf, writeIdx, writeMarkIdx, readIdx, writing, reading, out>>

commitRead ==
  /\ reading = 0
  /\ readIdx' = readMarkIdx
  /\ UNCHANGED <<buf, writeIdx, writeMarkIdx, readMarkIdx, writing, reading, out>>

rollbackRead ==
  /\ reading = 0
  /\ readMarkIdx' = readIdx
  /\ UNCHANGED <<buf, writeIdx, writeMarkIdx, readIdx, writing, reading, out>>

clear ==
  /\ reading = 0
  /\ readMarkIdx' = writeIdx /\ readIdx' = writeIdx
  /\ UNCHANGED <<buf, writeIdx, writeMarkIdx, writing, reading, out>>

Reader == \/ checkRead \/ copyOut \/ readInteger \/ skip
          \/ commitRead \/ rollbackRead \/ clear

Next == Writer \/ Reader

Spec == Init /\ [][Next]_vars

-----------------------------------------------------------------------------
(* Properties. *)

TypeOK ==
  /\ buf \in [Slots -> Bytes]
  /\ writeIdx \in 0 .. L /\ writeMarkIdx \in 0 .. L
  /\ readIdx \in 0 .. L /\ readMarkIdx \in 0 .. L
  /\ writing \in Seq(Bytes)
  /\ reading \in 0 .. Capacity
  /\ out \in Seq(Bytes)

\* The positions keep their order around the ring, whatever the two threads
\* do meanwhile: readIdx, readMarkIdx, writeIdx, writeMarkIdx.  What a thread
\* has checked stays true until it copies.
PositionsOrdered ==
  /\ Fill(readIdx, readMarkIdx) + Fill(readMarkIdx, writeIdx) = Fill(readIdx, writeIdx)
  /\ Fill(readIdx, writeIdx) + Fill(writeIdx, writeMarkIdx) = Fill(readIdx, writeMarkIdx)
  /\ Fill(readIdx, writeMarkIdx) <= Capacity
  /\ Len(writing) <= free
  /\ reading <= available

\* The assertions of the code hold at any time between the check of a transfer
\* and its copy, also those that mix positions of both threads: no result is
\* negative, a write that fills the queue does not make it look empty, and the
\* bytes of a read lie before the mark of the writer, which moves meanwhile.
Written == At(writeMarkIdx, Len(writing))

AssertsHold ==
  /\ freeCommitted >= 0 /\ free >= 0 /\ available >= 0
  /\ writing # <<>> => writeMarkIdx < L /\ Written # readIdx
  /\ reading # 0 =>
       LET end == readMarkIdx + reading
       IN  IF end > L
           THEN writeMarkIdx < readMarkIdx /\ L - readMarkIdx < reading
                /\ end - L <= writeMarkIdx
           ELSE end <= writeMarkIdx \/ writeMarkIdx < readMarkIdx

\* The ring is the bounded queue with commit and rollback on both sides that
\* the two interfaces describe.
Content   == Taken(readIdx, Fill(readIdx, writeMarkIdx))
Committed == Fill(readIdx, writeIdx)
TakenSize == Fill(readIdx, readMarkIdx)

Queue == INSTANCE CommitQueue WITH
  content <- Content, committed <- Committed, taken <- TakenSize

QueueKept == Queue!Spec
=============================================================================

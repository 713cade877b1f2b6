-------------------------- MODULE ByteQueue_proofs --------------------------
(***************************************************************************)
(* Proofs about the byte queue of the Java library, for every capacity and *)
(* every set of bytes, under the uses the code carries out (Cautious).     *)
(***************************************************************************)
EXTENDS ByteQueue, SequenceTheorems, TLAPS

\* What every step keeps.  The writer's positions never rest at the end of
\* the array; those of the reader may.
Inv ==
  /\ TypeOK
  /\ writeIdx # L /\ writeMarkIdx # L
  /\ PositionsOrdered

-----------------------------------------------------------------------------
(* The helpers. *)

\* A chunk is a sequence of one up to n bytes.
LEMMA ChunkType ==
  ASSUME NEW n \in Int, NEW s \in Chunks(n)
  PROVE  s \in Seq(Bytes) /\ Len(s) \in 1 .. n /\ s # <<>>
<1>1. PICK k \in 1 .. n : s \in [1 .. k -> Bytes]
  BY DEF Chunks
<1>2. k \in Nat /\ k >= 1
  BY <1>1
<1>3. s \in Seq(Bytes)
  BY <1>1, <1>2
<1>4. Len(s) = k
  BY <1>1, <1>2
<1> QED
  BY <1>1, <1>2, <1>3, <1>4, EmptySeq

\* What is filled into the ring are bytes.
LEMMA FilledType ==
  ASSUME NEW w \in Slots, NEW s \in Seq(Bytes), buf \in [Slots -> Bytes]
  PROVE  Filled(w, s) \in [Slots -> Bytes]
<1>1. ASSUME NEW i \in Slots, Offset(w, i) < Len(s)
      PROVE  s[Offset(w, i) + 1] \in Bytes
  <2>1. Offset(w, i) + 1 \in 1 .. Len(s)
    BY <1>1, ByteQueueAssumption, LenProperties DEF Offset, Slots, L
  <2> QED
    BY <2>1, ElementOfSeq
<1> QED
  BY <1>1 DEF Filled

\* What is read from the ring are bytes.
LEMMA TakenType ==
  ASSUME NEW r \in 0 .. L, NEW n \in 0 .. L - 1, buf \in [Slots -> Bytes]
  PROVE  /\ Taken(r, n) \in Seq(Bytes) /\ Len(Taken(r, n)) = n
         /\ \A k \in 1 .. n : Taken(r, n)[k] = buf[At(r, k - 1)]
<1>1. ASSUME NEW k \in 1 .. n
      PROVE  At(r, k - 1) \in Slots
  BY ByteQueueAssumption DEF At, Slots, L
<1>2. Taken(r, n) \in [1 .. n -> Bytes]
  BY <1>1 DEF Taken
<1>3. n \in Nat
  BY ByteQueueAssumption DEF L
<1> QED
  BY <1>2, <1>3 DEF Taken

-----------------------------------------------------------------------------
(* The inductive invariant. *)

LEMMA InvInit == Init => Inv
BY ByteQueueAssumption, EmptySeq
  DEF Init, Inv, TypeOK, PositionsOrdered, Fill, Slots, L, free, Room, available

\* A step of the writer keeps the invariant.
LEMMA WriterStep ==
  ASSUME Cautious, Inv, Writer
  PROVE  Inv'
<1> USE ByteQueueAssumption
<1>0. free \in 0 .. Capacity /\ writeMarkIdx \in Slots /\ L \in Nat
  BY DEF Inv, TypeOK, PositionsOrdered, free, Room, Fill, L, Slots
<1>1. CASE checkWrite
  <2>1. PICK s \in Chunks(free) : writing' = s
    BY <1>1 DEF checkWrite
  <2>2. writing' \in Seq(Bytes) /\ Len(writing') <= free
    BY <2>1, <1>0, ChunkType
  <2> QED
    BY <1>1, <2>2
      DEF checkWrite, Inv, TypeOK, PositionsOrdered, free, Room, available
<1>2. CASE copyIn
  <2> DEFINE n == Len(writing)
  <2>1. n \in 0 .. free /\ writing \in Seq(Bytes)
    BY LenProperties DEF Inv, TypeOK, PositionsOrdered
  <2>2. buf' \in [Slots -> Bytes]
    BY <1>0, <1>2, FilledType DEF copyIn, Inv, TypeOK
  <2>3. writing' = <<>> /\ Len(writing') = 0 /\ writing' \in Seq(Bytes)
    BY <1>2 DEF copyIn
  <2> HIDE DEF n
  <2>4. writeMarkIdx' = At(writeMarkIdx, n)
        /\ UNCHANGED <<writeIdx, readIdx, readMarkIdx, reading, out>>
    BY <1>2 DEF copyIn, n
  <2> QED
    BY <1>0, <2>1, <2>2, <2>3, <2>4
      DEF Inv, TypeOK, PositionsOrdered, Fill, At, L, free, Room, available
<1>3. CASE writeInteger
  <2>1. PICK s \in Chunks(free) :
             buf' = Filled(writeMarkIdx, s) /\ writeMarkIdx' = At(writeMarkIdx, Len(s))
    BY <1>3 DEF writeInteger
  <2> DEFINE n == Len(s)
  <2>2. s \in Seq(Bytes) /\ n \in 0 .. free
    BY <2>1, <1>0, ChunkType
  <2>3. buf' \in [Slots -> Bytes]
    BY <1>0, <2>1, <2>2, FilledType DEF Inv, TypeOK
  <2>4. writing = <<>> /\ Len(writing) = 0
        /\ UNCHANGED <<writeIdx, readIdx, readMarkIdx, writing, reading, out>>
    BY <1>3 DEF writeInteger
  <2> HIDE DEF n
  <2>5. writeMarkIdx' = At(writeMarkIdx, n)
    BY <2>1 DEF n
  <2> QED
    BY <1>0, <2>2, <2>3, <2>4, <2>5
      DEF Inv, TypeOK, PositionsOrdered, Fill, At, L, free, Room, available
<1>4. CASE writePadding
  <2>1. PICK b \in Bytes, n \in 1 .. free :
             /\ writeMarkIdx' = writeMarkIdx + n /\ writeMarkIdx + n < L
             /\ buf' = [i \in Slots |->
                          IF writeMarkIdx <= i /\ i < writeMarkIdx + n THEN b ELSE buf[i]]
    BY <1>4, <1>0 DEF writePadding, L, Slots
  <2>2. buf' \in [Slots -> Bytes]
    BY <2>1 DEF Inv, TypeOK
  <2>3. writing = <<>> /\ Len(writing) = 0
        /\ UNCHANGED <<writeIdx, readIdx, readMarkIdx, writing, reading, out>>
    BY <1>4 DEF writePadding
  <2> QED
    BY <1>0, <2>1, <2>2, <2>3
      DEF Inv, TypeOK, PositionsOrdered, Fill, L, free, Room, available
<1>5. CASE commitWrite
  <2>1. writing = <<>> /\ Len(writing) = 0
    BY <1>5 DEF commitWrite
  <2> QED
    BY <1>0, <1>5, <2>1
      DEF commitWrite, Inv, TypeOK, PositionsOrdered, Fill, L, free, Room, available
<1>6. CASE rollbackWrite
  <2>1. writing = <<>> /\ Len(writing) = 0
    BY <1>6 DEF rollbackWrite
  <2> QED
    BY <1>0, <1>6, <2>1
      DEF rollbackWrite, Inv, TypeOK, PositionsOrdered, Fill, L, free, Room, available
<1> QED
  BY <1>1, <1>2, <1>3, <1>4, <1>5, <1>6 DEF Writer

\* A step of the reader keeps the invariant.
LEMMA ReaderStep ==
  ASSUME Cautious, Inv, Reader
  PROVE  Inv'
<1> USE ByteQueueAssumption
<1>0. available \in 0 .. Capacity /\ readMarkIdx \in 0 .. L /\ L \in Nat
  BY DEF Inv, TypeOK, PositionsOrdered, available, Fill, L
<1>1. CASE checkRead
  BY <1>0, <1>1
    DEF checkRead, Inv, TypeOK, PositionsOrdered, free, Room, available
<1>2. CASE copyOut
  <2>1. reading \in 0 .. available
    BY <1>0 DEF Inv, TypeOK, PositionsOrdered
  <2>2. out' \in Seq(Bytes)
    BY <1>0, <1>2, <2>1, TakenType DEF copyOut, Inv, TypeOK, L
  <2>3. readMarkIdx' = IF readMarkIdx + reading > L
                       THEN readMarkIdx + reading - L ELSE readMarkIdx + reading
    BY <1>0, <1>2, <2>1 DEF copyOut
  <2>4. reading' = 0 /\ UNCHANGED <<buf, writeIdx, writeMarkIdx, readIdx, writing>>
    BY <1>2 DEF copyOut
  <2> QED
    BY <1>0, <2>1, <2>2, <2>3, <2>4
      DEF Inv, TypeOK, PositionsOrdered, Fill, L, free, Room, available
<1>3. CASE readInteger
  <2>1. PICK n \in 1 .. available :
             out' = Taken(readMarkIdx, n) /\ readMarkIdx' = At(readMarkIdx, n)
    BY <1>3 DEF readInteger
  <2>2. out' \in Seq(Bytes)
    BY <1>0, <2>1, TakenType DEF Inv, TypeOK, L
  <2>3. reading = 0 /\ readMarkIdx < L
        /\ UNCHANGED <<buf, writeIdx, writeMarkIdx, readIdx, writing, reading>>
    BY <1>3 DEF readInteger
  <2> QED
    BY <1>0, <2>1, <2>2, <2>3
      DEF Inv, TypeOK, PositionsOrdered, Fill, At, L, free, Room, available
<1>4. CASE skip
  <2>1. PICK n \in 1 .. available :
             /\ readMarkIdx + n <= L
             /\ readMarkIdx' = IF readMarkIdx + n >= L THEN 0 ELSE readMarkIdx + n
    BY <1>4 DEF skip
  <2>2. reading = 0
        /\ UNCHANGED <<buf, writeIdx, writeMarkIdx, readIdx, writing, reading, out>>
    BY <1>4 DEF skip
  <2> QED
    BY <1>0, <2>1, <2>2
      DEF Inv, TypeOK, PositionsOrdered, Fill, L, free, Room, available
<1>5. CASE commitRead
  BY <1>0, <1>5
    DEF commitRead, Inv, TypeOK, PositionsOrdered, Fill, L, free, Room, available
<1>6. CASE rollbackRead
  BY <1>0, <1>6
    DEF rollbackRead, Inv, TypeOK, PositionsOrdered, Fill, L, free, Room, available
<1>7. CASE clear
  BY <1>0, <1>7
    DEF clear, Inv, TypeOK, PositionsOrdered, Fill, L, free, Room, available
<1> QED
  BY <1>1, <1>2, <1>3, <1>4, <1>5, <1>6, <1>7 DEF Reader

LEMMA InvStep == Cautious /\ Inv /\ [Next]_vars => Inv'
<1>1. ASSUME Inv, UNCHANGED vars
      PROVE  Inv'
  BY <1>1
    DEF vars, Inv, TypeOK, PositionsOrdered, free, Room, available
<1> QED
  BY <1>1, WriterStep, ReaderStep DEF Next

THEOREM Invariance ==
  ASSUME Cautious
  PROVE  Spec => []Inv
<1>1. Inv /\ [Next]_vars => Inv'
  BY InvStep
<1> QED
  BY <1>1, InvInit, PTL DEF Spec

-----------------------------------------------------------------------------
(* The safety theorems. *)

\* The ring holds bytes, and every position stays within the array.
THEOREM TypeCorrect ==
  ASSUME Cautious
  PROVE  Spec => []TypeOK
<1>1. Inv => TypeOK
  BY DEF Inv
<1> QED
  BY <1>1, Invariance, PTL

\* The four positions keep their order around the ring, and what a thread has
\* checked stays true until it copies, whatever the other thread does.
THEOREM PositionsStayOrdered ==
  ASSUME Cautious
  PROVE  Spec => []PositionsOrdered
<1>1. Inv => PositionsOrdered
  BY DEF Inv
<1> QED
  BY <1>1, Invariance, PTL

\* No assertion of the transfers fails.
THEOREM AssertsAlwaysHold ==
  ASSUME Cautious
  PROVE  Spec => []AssertsHold
<1>1. Inv => AssertsHold
  <2> SUFFICES ASSUME Inv
               PROVE  AssertsHold
    OBVIOUS
  <2> DEFINE n == Len(writing)
  <2>1. n \in Nat /\ (writing # <<>> => n > 0)
    BY LenProperties, EmptySeq DEF Inv, TypeOK
  <2>2. Written = At(writeMarkIdx, n) /\ n <= free
    BY DEF Inv, PositionsOrdered, Written
  <2> HIDE DEF n
  <2> QED
    BY <2>1, <2>2, ByteQueueAssumption
      DEF Inv, TypeOK, PositionsOrdered, AssertsHold, Fill, At, L,
          free, freeCommitted, Room, available
<1> QED
  BY <1>1, Invariance, PTL

-----------------------------------------------------------------------------
(* The ring implements CommitQueue. *)

\* Read from the slot p, a behind r, up to b behind r: the bytes a to b of the f
\* that are stored from r on.
IsSegment(r, p, f, a, b) == Taken(p, b - a) = SubSeq(Taken(r, f), a + 1, b)

\* The bytes between two positions of what is stored.
LEMMA Segment ==
  ASSUME NEW r \in 0 .. L, NEW p \in 0 .. L, NEW f \in 0 .. Capacity,
         NEW a \in 0 .. f, NEW b \in a .. f,
         p = r + a \/ p = r + a - L, buf \in [Slots -> Bytes]
  PROVE  IsSegment(r, p, f, a, b)
<1> USE ByteQueueAssumption DEF L
<1> DEFINE whole == Taken(r, f)
           part  == Taken(p, b - a)
           sub   == SubSeq(whole, a + 1, b)
<1>0. b - a \in 0 .. L - 1 /\ f \in 0 .. L - 1
  OBVIOUS
<1>1. whole \in Seq(Bytes) /\ Len(whole) = f
      /\ \A k \in 1 .. f : whole[k] = buf[At(r, k - 1)]
  BY <1>0, TakenType
<1>2. part \in Seq(Bytes) /\ Len(part) = b - a
      /\ \A k \in 1 .. b - a : part[k] = buf[At(p, k - 1)]
  BY <1>0, TakenType
<1>3. \A k \in 1 .. b - a : At(p, k - 1) = At(r, a + k - 1)
  BY DEF At
<1> HIDE DEF whole, part
<1>4. \A i \in a + 1 .. b : whole[i] \in Bytes
  BY <1>1, ElementOfSeq
<1>5. /\ sub \in Seq(Bytes) /\ Len(sub) = b - a
      /\ \A k \in 1 .. b - a : sub[k] = whole[a + k]
  <2>1. /\ sub \in Seq(Bytes)
        /\ Len(sub) = IF a + 1 <= b THEN b - (a + 1) + 1 ELSE 0
        /\ \A k \in 1 .. b - (a + 1) + 1 : sub[k] = whole[a + 1 + k - 1]
    BY <1>4, SubSeqProperties
  <2> HIDE DEF sub
  <2>2. b - (a + 1) + 1 = b - a /\ (a + 1 <= b \/ b - a = 0)
    OBVIOUS
  <2>3. ASSUME NEW k \in 1 .. b - a
        PROVE  sub[k] = whole[a + k]
    <3>1. a + 1 + k - 1 = a + k
      OBVIOUS
    <3> QED
      BY <2>1, <2>2, <3>1
  <2> QED
    BY <2>1, <2>2, <2>3
<1> HIDE DEF sub
<1>6. ASSUME NEW k \in 1 .. b - a
      PROVE  part[k] = sub[k]
  <2>1. a + k \in 1 .. f
    OBVIOUS
  <2>2. whole[a + k] = buf[At(r, a + k - 1)]
    BY <1>1, <2>1
  <2> QED
    BY <1>2, <1>3, <1>5, <2>2
<1>7. part = sub
  BY <1>2, <1>5, <1>6, SeqEqual
<1> QED
  BY <1>7 DEF part, sub, whole, IsSegment

\* What the invariant says about the stored bytes.
StoredFacts ==
  /\ Content \in Seq(Bytes) /\ Len(Content) = Fill(readIdx, writeMarkIdx)
  /\ Len(Content) \in 0 .. Capacity /\ free = Capacity - Len(Content)
  /\ Committed \in 0 .. Len(Content) /\ TakenSize \in 0 .. Committed
  /\ available = Committed - TakenSize
  /\ \A k \in 1 .. Len(Content) : Content[k] = buf[At(readIdx, k - 1)]

LEMMA Stored == Inv => StoredFacts
<1> USE ByteQueueAssumption
<1> SUFFICES ASSUME Inv
             PROVE  StoredFacts
  OBVIOUS
<1>1. /\ Fill(readIdx, writeMarkIdx) \in 0 .. L - 1
      /\ readIdx \in 0 .. L /\ buf \in [Slots -> Bytes]
  BY DEF Inv, TypeOK, PositionsOrdered, Fill, L
<1>2. /\ Content \in Seq(Bytes) /\ Len(Content) = Fill(readIdx, writeMarkIdx)
      /\ \A k \in 1 .. Len(Content) : Content[k] = buf[At(readIdx, k - 1)]
  BY <1>1, TakenType DEF Content
<1>3. /\ Fill(readIdx, writeMarkIdx) \in 0 .. Capacity
      /\ free = Capacity - Fill(readIdx, writeMarkIdx)
      /\ Committed \in 0 .. Fill(readIdx, writeMarkIdx)
      /\ TakenSize \in 0 .. Committed /\ available = Committed - TakenSize
  BY DEF Inv, TypeOK, PositionsOrdered, Fill, L, free, Room, available,
         Committed, TakenSize
<1> QED
  BY <1>2, <1>3 DEF StoredFacts

\* The fill level grows with the position of the writer.
LEMMA FillGrows ==
  ASSUME NEW r \in 0 .. L, NEW w \in 0 .. L - 1, NEW n \in 1 .. Capacity,
         Fill(r, w) + n <= Capacity
  PROVE  Fill(r, At(w, n)) = Fill(r, w) + n
BY ByteQueueAssumption DEF Fill, At, L

\* Bytes put behind the mark of the writer are appended.
LEMMA Appended ==
  ASSUME Inv, Inv', NEW s \in Seq(Bytes), Len(s) \in 1 .. free,
         writeMarkIdx' = At(writeMarkIdx, Len(s)),
         \A i \in Slots : buf'[i] = IF Offset(writeMarkIdx, i) < Len(s)
                                    THEN s[Offset(writeMarkIdx, i) + 1] ELSE buf[i],
         UNCHANGED <<writeIdx, readIdx, readMarkIdx, out>>
  PROVE  Queue!Write
<1> USE ByteQueueAssumption
<1> DEFINE f == Len(Content)
           n == Len(s)
<1>1. f \in 0 .. Capacity /\ n \in 1 .. Capacity - f /\ f = Fill(readIdx, writeMarkIdx)
      /\ Content \in Seq(Bytes)
      /\ \A k \in 1 .. f : Content[k] = buf[At(readIdx, k - 1)]
  BY Stored DEF StoredFacts
<1>0. /\ f \in Int /\ n \in Int /\ 0 <= f /\ 1 <= n /\ f + n <= Capacity
      /\ f = Fill(readIdx, writeMarkIdx) /\ writeMarkIdx' = At(writeMarkIdx, n)
  <2> HIDE DEF f
  <2> QED
    BY <1>1
<1>2. Len(Content') = f + n /\ Content' \in Seq(Bytes)
      /\ \A k \in 1 .. f + n : Content'[k] = buf'[At(readIdx, k - 1)]
  <2>1. Content' \in Seq(Bytes) /\ Len(Content') = Fill(readIdx', writeMarkIdx')
        /\ \A k \in 1 .. Len(Content') : Content'[k] = buf'[At(readIdx', k - 1)]
    <3>1. StoredFacts'
      BY Stored, PTL
    <3> QED
      BY <3>1 DEF StoredFacts
  <2>2. Fill(readIdx, writeMarkIdx') = f + n
    <3>1. /\ readIdx \in 0 .. L /\ writeMarkIdx \in 0 .. L - 1
          /\ n \in 1 .. Capacity /\ Fill(readIdx, writeMarkIdx) + n <= Capacity
      BY <1>0 DEF Inv, TypeOK, L
    <3> HIDE DEF f, n
    <3> QED
      BY <1>0, <3>1, FillGrows
  <2> QED
    BY <2>1, <2>2
<1>3. Content \o s \in Seq(Bytes) /\ Len(Content \o s) = f + n
      /\ \A k \in 1 .. f + n : (Content \o s)[k] = IF k <= f THEN Content[k] ELSE s[k - f]
  BY <1>1, ConcatProperties
<1> HIDE DEF f, n
<1>4. ASSUME NEW k \in 1 .. f + n
      PROVE  Content'[k] = (Content \o s)[k]
  <2> DEFINE i == At(readIdx, k - 1)
             o == Offset(writeMarkIdx, i)
  <2>1. i \in Slots /\ o \in Int /\ (IF k <= f THEN o >= n ELSE o = k - 1 - f)
    BY <1>0 DEF Inv, TypeOK, Fill, At, Offset, Slots, L
  <2>2. Content'[k] = IF o < n THEN s[o + 1] ELSE buf[i]
    BY <1>2, <2>1 DEF n
  <2>3. k <= f => Content[k] = buf[i]
    BY <1>1
  <2> HIDE DEF i, o
  <2>4. CASE k <= f
    <3>1. Content'[k] = buf[i] /\ Content[k] = buf[i]
      BY <1>0, <2>1, <2>2, <2>3, <2>4
    <3> QED
      BY <1>3, <2>4, <3>1
  <2>5. CASE k > f
    <3>1. o = k - 1 - f /\ o < n /\ o + 1 = k - f
      BY <1>0, <2>1, <2>5
    <3>2. (Content \o s)[k] = s[k - f]
      BY <1>0, <1>3, <2>5
    <3> QED
      BY <2>2, <3>1, <3>2
  <2>6. k <= f \/ k > f
    BY <1>0
  <2> QED
    BY <2>4, <2>5, <2>6
<1>5. Content' = Content \o s
  BY <1>1, <1>2, <1>3, <1>4, SeqEqual
<1>6. Committed' = Committed /\ TakenSize' = TakenSize /\ out' = out
  BY DEF Committed, TakenSize, Fill
<1>7. s \in [1 .. n -> Bytes]
  BY LenProperties DEF n
<1> QED
  BY <1>1, <1>5, <1>6, <1>7 DEF Queue!Write, f

\* The position behind n more bytes, at the end of the array or at its begin.
LEMMA MarkMoves ==
  ASSUME NEW r \in 0 .. L, NEW m \in 0 .. L, NEW next \in 0 .. L, NEW n \in Nat,
         Fill(r, m) + n <= Capacity, next = m + n \/ next = m + n - L
  PROVE  Fill(r, next) = Fill(r, m) + n
BY ByteQueueAssumption DEF Fill, L

\* The position of a fill level is that many slots behind the reader.
LEMMA FillIsDistance ==
  ASSUME NEW r \in 0 .. L, NEW w \in 0 .. L
  PROVE  w = r + Fill(r, w) \/ w = r + Fill(r, w) - L
BY ByteQueueAssumption DEF Fill, L

\* Between a position and itself lies nothing.
LEMMA FillOfNothing ==
  ASSUME NEW r \in 0 .. L
  PROVE  Fill(r, r) = 0
BY ByteQueueAssumption DEF Fill, L

\* A new begin of what is stored releases the bytes before it.
LEMMA Released ==
  ASSUME Inv, Inv', NEW n \in 0 .. Committed, Fill(readIdx, readIdx') = n,
         Fill(readIdx, readIdx') + Fill(readIdx', writeIdx) = Committed,
         readMarkIdx' = readIdx',
         UNCHANGED <<buf, writeIdx, writeMarkIdx, out>>
  PROVE  Queue!Release(n)
<1> USE ByteQueueAssumption
<1>1. StoredFacts /\ StoredFacts'
  <2>1. StoredFacts
    BY Stored
  <2>2. StoredFacts'
    BY Stored, PTL
  <2> QED
    BY <2>1, <2>2
<1>2. /\ readIdx \in 0 .. L /\ readIdx' \in 0 .. L /\ buf \in [Slots -> Bytes]
      /\ writeIdx \in 0 .. L /\ writeMarkIdx \in 0 .. L
  BY DEF Inv, TypeOK
<1>3. Fill(readIdx', writeMarkIdx) = Fill(readIdx, writeMarkIdx) - n
  <2>1. /\ Fill(readIdx, writeIdx) + Fill(writeIdx, writeMarkIdx)
             = Fill(readIdx, writeMarkIdx)
        /\ Fill(readIdx', writeIdx) + Fill(writeIdx, writeMarkIdx)
             = Fill(readIdx', writeMarkIdx)
        /\ n + Fill(readIdx', writeIdx) = Fill(readIdx, writeIdx)
    BY DEF Inv, PositionsOrdered, Committed
  <2>2. /\ Fill(readIdx, writeIdx) \in Int /\ Fill(writeIdx, writeMarkIdx) \in Int
        /\ Fill(readIdx', writeIdx) \in Int
    BY <1>2 DEF Fill, L
  <2> QED
    BY <2>1, <2>2
<1>4. Content' = SubSeq(Content, n + 1, Len(Content))
  <2> DEFINE f == Len(Content)
  <2>1. f \in 0 .. Capacity /\ n \in 0 .. f /\ f = Fill(readIdx, writeMarkIdx)
    BY <1>1 DEF StoredFacts
  <2>2. readIdx' = readIdx + n \/ readIdx' = readIdx + n - L
    BY <1>2, FillIsDistance
  <2> HIDE DEF f
  <2>3. f \in n .. f
    BY <2>1
  <2>4. Taken(readIdx', f - n) = SubSeq(Taken(readIdx, f), n + 1, f)
    <3>1. n \in 0 .. f /\ f \in 0 .. Capacity
      BY <2>1
    <3>2. IsSegment(readIdx, readIdx', f, n, f)
      BY <1>2, <2>2, <2>3, <3>1, Segment
    <3> QED
      BY <3>2 DEF IsSegment
  <2>5. Content' = Taken(readIdx', f - n)
    BY <1>3, <2>1 DEF Content, Taken
  <2>6. Content = Taken(readIdx, f)
    BY <2>1 DEF Content
  <2> QED
    BY <2>4, <2>5, <2>6 DEF f
<1>5. Committed' = Committed - n
  <2>1. Committed' = Fill(readIdx', writeIdx)
    BY DEF Committed
  <2>2. Fill(readIdx', writeIdx) \in Int
    BY <1>2 DEF Fill, L
  <2> QED
    BY <2>1, <2>2
<1>6. TakenSize' = 0
  BY <1>2, FillOfNothing DEF TakenSize
<1> QED
  BY <1>4, <1>5, <1>6 DEF Queue!Release

LEMMA RefinedInit == Init => Queue!Init
<1> SUFFICES ASSUME Init
             PROVE  Queue!Init
  OBVIOUS
<1>1. Inv
  BY InvInit
<1>2. Len(Content) = 0 /\ Content \in Seq(Bytes)
  BY <1>1, Stored DEF StoredFacts, Init, Fill
<1>3. Content = <<>>
  BY <1>2, EmptySeq
<1> QED
  BY <1>3 DEF Init, Queue!Init, Committed, TakenSize, Fill

\* A step of the writer is one of the bounded queue, or none.
LEMMA RefinedWriter ==
  ASSUME Cautious, Inv, Inv', Writer
  PROVE  [Queue!Next]_(Queue!queue)
<1> USE ByteQueueAssumption
<1>0. StoredFacts /\ writeMarkIdx \in 0 .. L - 1 /\ buf \in [Slots -> Bytes]
  BY Stored DEF Inv, TypeOK, L
<1>1. CASE checkWrite
  BY <1>1 DEF checkWrite, Queue!queue, Content, Taken, Committed, TakenSize
<1>2. CASE copyIn
  <2>1. writing \in Seq(Bytes) /\ Len(writing) \in 1 .. free
    BY <1>0, <1>2, LenProperties, EmptySeq
      DEF copyIn, Inv, TypeOK, PositionsOrdered, StoredFacts
  <2>2. Queue!Write
    BY <1>2, <2>1, Appended DEF copyIn, Filled
  <2> QED
    BY <2>2 DEF Queue!Next
<1>3. CASE writeInteger
  <2>1. PICK s \in Chunks(free) :
             buf' = Filled(writeMarkIdx, s) /\ writeMarkIdx' = At(writeMarkIdx, Len(s))
    BY <1>3 DEF writeInteger
  <2>2. free \in Int
    BY <1>0 DEF StoredFacts
  <2>3. s \in Seq(Bytes) /\ Len(s) \in 1 .. free
    BY <2>1, <2>2, ChunkType
  <2>4. Queue!Write
    BY <1>3, <2>1, <2>3, Appended DEF writeInteger, Filled
  <2> QED
    BY <2>4 DEF Queue!Next
<1>4. CASE writePadding
  <2>1. PICK b \in Bytes, n \in 1 .. free :
             /\ writeMarkIdx' = writeMarkIdx + n /\ writeMarkIdx + n < L
             /\ buf' = [i \in Slots |->
                          IF writeMarkIdx <= i /\ i < writeMarkIdx + n THEN b ELSE buf[i]]
    BY <1>0, <1>4 DEF writePadding, L, Slots, StoredFacts
  <2> DEFINE s == [k \in 1 .. n |-> b]
  <2>2. free \in Int /\ n \in Nat
    BY <1>0, <2>1 DEF StoredFacts
  <2>3. s \in [1 .. n -> Bytes]
    BY <2>1
  <2>4. s \in Seq(Bytes) /\ Len(s) = n
    BY <2>2, <2>3
  <2>5. writeMarkIdx' = At(writeMarkIdx, n)
    BY <2>1 DEF At
  <2>6. ASSUME NEW i \in Slots
        PROVE  buf'[i] = IF Offset(writeMarkIdx, i) < n
                         THEN s[Offset(writeMarkIdx, i) + 1] ELSE buf[i]
    <3>1. Offset(writeMarkIdx, i) < n <=> writeMarkIdx <= i /\ i < writeMarkIdx + n
      BY <1>0, <2>1, <2>2 DEF Offset, Slots, L
    <3>2. Offset(writeMarkIdx, i) < n => Offset(writeMarkIdx, i) + 1 \in 1 .. n
      BY <1>0, <2>2 DEF Offset, Slots, L
    <3> QED
      BY <2>1, <3>1, <3>2
  <2>7. Len(s) \in 1 .. free
    BY <2>1, <2>4
  <2> HIDE DEF s
  <2>8. Queue!Write
    BY <1>4, <2>4, <2>5, <2>6, <2>7, Appended DEF writePadding
  <2> QED
    BY <2>8 DEF Queue!Next
<1>5. CASE commitWrite
  <2>1. Committed' = Len(Content)
    BY <1>0, <1>5 DEF commitWrite, Committed, StoredFacts, Fill
  <2>2. UNCHANGED <<Content, TakenSize, out>>
    BY <1>5 DEF commitWrite, Content, Taken, TakenSize
  <2> QED
    BY <2>1, <2>2 DEF Queue!CommitWrite, Queue!Next
<1>6. CASE rollbackWrite
  <2> DEFINE f == Len(Content)
             n == Committed
  <2>1. f \in 0 .. Capacity /\ n \in 0 .. f /\ f = Fill(readIdx, writeMarkIdx)
        /\ readIdx \in 0 .. L
    BY <1>0 DEF StoredFacts, Inv, TypeOK
  <2>2. Content' = Taken(readIdx, n) /\ Content = Taken(readIdx, f)
    BY <1>6, <2>1 DEF rollbackWrite, Content, Committed, Taken
  <2> HIDE DEF f, n
  <2>3. readIdx = readIdx + 0 /\ n = n - 0 /\ 0 \in 0 .. f /\ 0 + 1 = 1
    BY <2>1
  <2>4. Taken(readIdx, n - 0) = SubSeq(Taken(readIdx, f), 0 + 1, n)
    <3>1. buf \in [Slots -> Bytes]
      BY <1>0 DEF Inv, TypeOK
    <3>2. n \in 0 .. f /\ IsSegment(readIdx, readIdx, f, 0, n)
      BY <2>1, <2>3, <3>1, Segment
    <3> QED
      BY <3>2 DEF IsSegment
  <2>5. Content' = SubSeq(Content, 1, Committed)
    BY <2>2, <2>3, <2>4 DEF n
  <2>6. UNCHANGED <<Committed, TakenSize, out>>
    BY <1>6 DEF rollbackWrite, Committed, TakenSize
  <2> QED
    BY <2>5, <2>6 DEF Queue!RollbackWrite, Queue!Next
<1> QED
  BY <1>1, <1>2, <1>3, <1>4, <1>5, <1>6 DEF Writer

\* Reading n bytes from the mark on.
LEMMA ReadRefined ==
  ASSUME Inv, Inv', NEW n \in 1 .. available,
         out' = Taken(readMarkIdx, n),
         readMarkIdx' = readMarkIdx + n \/ readMarkIdx' = readMarkIdx + n - L,
         UNCHANGED <<buf, writeIdx, writeMarkIdx, readIdx>>
  PROVE  Queue!Read
<1> DEFINE f == Len(Content)
           a == TakenSize
<1>1. /\ f \in 0 .. Capacity /\ a \in 0 .. f /\ a + n \in a .. f /\ a \in Int
      /\ n \in 1 .. Committed - a /\ n \in Nat /\ a + n - a = n
      /\ a + n <= Capacity /\ f = Fill(readIdx, writeMarkIdx)
  <2>1. StoredFacts
    BY Stored
  <2>2. /\ f \in 0 .. Capacity /\ Committed \in 0 .. f /\ a \in 0 .. Committed
        /\ available = Committed - a /\ f = Fill(readIdx, writeMarkIdx)
    BY <2>1 DEF StoredFacts
  <2> HIDE DEF f, a
  <2> QED
    BY <2>2, ByteQueueAssumption
<1>2. /\ readIdx \in 0 .. L /\ readMarkIdx \in 0 .. L /\ readMarkIdx' \in 0 .. L
      /\ buf \in [Slots -> Bytes]
  BY DEF Inv, TypeOK
<1>3. readMarkIdx = readIdx + a \/ readMarkIdx = readIdx + a - L
  BY <1>2, FillIsDistance DEF TakenSize
<1>4. TakenSize' = a + n
  <2>1. Fill(readIdx, readMarkIdx) + n <= Capacity
    BY <1>1 DEF TakenSize
  <2>2. Fill(readIdx, readMarkIdx') = Fill(readIdx, readMarkIdx) + n
    BY <1>1, <1>2, <2>1, MarkMoves
  <2> QED
    BY <2>2 DEF TakenSize
<1>5. Taken(readIdx, f) = Content
  BY <1>1 DEF Content
<1> HIDE DEF f, a
<1>6. Taken(readMarkIdx, n) = SubSeq(Taken(readIdx, f), a + 1, a + n)
  <2>1. a \in 0 .. f /\ a + n \in a .. f /\ f \in 0 .. Capacity /\ a + n - a = n
    BY <1>1
  <2>2. IsSegment(readIdx, readMarkIdx, f, a, a + n)
    BY <1>2, <1>3, <2>1, Segment
  <2> QED
    BY <2>1, <2>2 DEF IsSegment
<1>7. out' = SubSeq(Content, TakenSize + 1, TakenSize + n)
  BY <1>5, <1>6 DEF a
<1>8. UNCHANGED <<Content, Committed>>
  BY DEF Content, Taken, Committed
<1> QED
  BY <1>1, <1>4, <1>7, <1>8 DEF Queue!Read, a

\* A step of the reader is one of the bounded queue, or none.
LEMMA RefinedReader ==
  ASSUME Cautious, Inv, Inv', Reader
  PROVE  [Queue!Next]_(Queue!queue)
<1>0. /\ readIdx \in 0 .. L /\ readMarkIdx \in 0 .. L /\ readMarkIdx' \in 0 .. L
      /\ writeIdx \in 0 .. L /\ available \in Int /\ L \in Int
      /\ StoredFacts
  <2>1. StoredFacts
    BY Stored
  <2>2. Committed \in Int /\ TakenSize \in Int /\ available = Committed - TakenSize
    BY <2>1 DEF StoredFacts
  <2> QED
    BY <2>1, <2>2, ByteQueueAssumption DEF Inv, TypeOK, L
<1>1. CASE checkRead
  BY <1>1 DEF checkRead, Queue!queue, Content, Taken, Committed, TakenSize
<1>2. CASE copyOut
  <2>1. reading \in 1 .. available
    BY <1>0, <1>2 DEF copyOut, Inv, TypeOK, PositionsOrdered
  <2>2. readMarkIdx' = readMarkIdx + reading \/ readMarkIdx' = readMarkIdx + reading - L
    BY <1>0, <1>2, <2>1 DEF copyOut
  <2>3. Queue!Read
    BY <1>2, <2>1, <2>2, ReadRefined DEF copyOut
  <2> QED
    BY <2>3 DEF Queue!Next
<1>3. CASE readInteger
  <2>1. PICK n \in 1 .. available :
             out' = Taken(readMarkIdx, n) /\ readMarkIdx' = At(readMarkIdx, n)
    BY <1>3 DEF readInteger
  <2>2. readMarkIdx' = readMarkIdx + n \/ readMarkIdx' = readMarkIdx + n - L
    BY <2>1 DEF At
  <2>3. Queue!Read
    BY <1>3, <2>1, <2>2, ReadRefined DEF readInteger
  <2> QED
    BY <2>3 DEF Queue!Next
<1>4. CASE skip
  <2>1. PICK n \in 1 .. available :
             /\ readMarkIdx + n <= L
             /\ readMarkIdx' = IF readMarkIdx + n >= L THEN 0 ELSE readMarkIdx + n
    BY <1>4 DEF skip
  <2>2. readMarkIdx' = readMarkIdx + n \/ readMarkIdx' = readMarkIdx + n - L
    BY <1>0, <2>1
  <2>3. n \in 1 .. Committed - TakenSize /\ n \in Nat
        /\ Fill(readIdx, readMarkIdx) + n <= Capacity
    BY <1>0, <2>1, ByteQueueAssumption DEF StoredFacts, TakenSize
  <2>4. TakenSize' = TakenSize + n
    <3>1. Fill(readIdx, readMarkIdx') = Fill(readIdx, readMarkIdx) + n
      BY <1>0, <2>2, <2>3, MarkMoves
    <3> QED
      BY <1>4, <3>1 DEF skip, TakenSize
  <2>5. UNCHANGED <<Content, Committed, out>>
    BY <1>4 DEF skip, Content, Taken, Committed
  <2> QED
    BY <2>3, <2>4, <2>5 DEF Queue!Skip, Queue!Next
<1>5. CASE commitRead
  <2>1. /\ TakenSize \in 0 .. Committed /\ Fill(readIdx, readIdx') = TakenSize
        /\ Fill(readIdx, readIdx') + Fill(readIdx', writeIdx) = Committed
    BY <1>0, <1>5
      DEF commitRead, StoredFacts, TakenSize, Committed, Inv, PositionsOrdered
  <2>2. Queue!Release(TakenSize)
    BY <1>5, <2>1, Released DEF commitRead
  <2> QED
    BY <2>2 DEF Queue!CommitRead, Queue!Next
<1>6. CASE rollbackRead
  <2>1. TakenSize' = 0
    BY <1>0, <1>6, FillOfNothing DEF rollbackRead, TakenSize
  <2>2. UNCHANGED <<Content, Committed, out>>
    BY <1>6 DEF rollbackRead, Content, Taken, Committed
  <2> QED
    BY <2>1, <2>2 DEF Queue!RollbackRead, Queue!Next
<1>7. CASE clear
  <2>1. /\ Committed \in 0 .. Committed /\ Fill(readIdx, readIdx') = Committed
        /\ Fill(writeIdx, writeIdx) = 0
        /\ Fill(readIdx, readIdx') + Fill(readIdx', writeIdx) = Committed
    BY <1>0, <1>7, FillOfNothing DEF clear, StoredFacts, Committed
  <2>2. Queue!Release(Committed)
    BY <1>7, <2>1, Released DEF clear
  <2> QED
    BY <2>2 DEF Queue!Clear, Queue!Next
<1> QED
  BY <1>1, <1>2, <1>3, <1>4, <1>5, <1>6, <1>7 DEF Reader

\* The ring is the bounded queue with commit and rollback on both sides: every
\* step of a thread takes effect at once, in the order of the copies, though a
\* transfer is checked earlier.
THEOREM KeepsQueue ==
  ASSUME Cautious
  PROVE  Spec => QueueKept
<1>1. Inv /\ Inv' /\ [Next]_vars => [Queue!Next]_(Queue!queue)
  <2>1. ASSUME UNCHANGED vars
        PROVE  UNCHANGED Queue!queue
    BY <2>1 DEF vars, Queue!queue, Content, Taken, Committed, TakenSize
  <2> QED
    BY <2>1, RefinedWriter, RefinedReader DEF Next
<1> QED
  BY <1>1, RefinedInit, Invariance, PTL DEF Spec, QueueKept, Queue!Spec
=============================================================================

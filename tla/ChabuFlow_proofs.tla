-------------------------- MODULE ChabuFlow_proofs --------------------------
(***************************************************************************)
(* Proofs about one stream, for every length of the stream and every       *)
(* number of packets in flight.                                            *)
(***************************************************************************)
EXTENDS ChabuFlow, TLAPS

-----------------------------------------------------------------------------
(* Queues of packets: what Append and Tail do to the indices. *)

\* Sending puts a packet behind the others and leaves them where they are.
LEMMA AppendIndices ==
  ASSUME NEW S, NEW q \in Seq(S), NEW x \in S
  PROVE  /\ Append(q, x) \in Seq(S)
         /\ Len(Append(q, x)) = Len(q) + 1
         /\ \A i \in 1 .. Len(q) : Append(q, x)[i] = q[i]
         /\ Append(q, x)[Len(q) + 1] = x
  OBVIOUS

\* Receiving takes the first packet and moves the others up by one.
LEMMA TailIndices ==
  ASSUME NEW S, NEW q \in Seq(S), q # <<>>
  PROVE  /\ Tail(q) \in Seq(S)
         /\ Len(q) \in Nat \ {0}
         /\ Len(Tail(q)) = Len(q) - 1
         /\ \A i \in 1 .. Len(q) - 1 : Tail(q)[i] = q[i + 1]
         /\ Head(q) = q[1] /\ Head(q) \in S
  OBVIOUS

\* The fields of a SEQ packet in flight are naturals.
LEMMA PacketFields ==
  ASSUME seqs \in Seq(SeqPackets), NEW i \in 1 .. Len(seqs)
  PROVE  seqs[i].seq \in Nat /\ seqs[i].size \in Nat
<1>1. seqs[i] \in SeqPackets
  OBVIOUS
<1> QED
  BY <1>1 DEF SeqPackets

-----------------------------------------------------------------------------
\* Type correctness: positions are naturals, the queues hold packets.
THEOREM TypeCorrect == FlowSpec => []TypeOK
<1>1. Init => TypeOK
  BY DEF Init, TypeOK
<1>2. TypeOK /\ [Next]_flow => TypeOK'
  <2> SUFFICES ASSUME TypeOK, [Next]_flow PROVE TypeOK'
    OBVIOUS
  <2> USE FlowAssumption DEF TypeOK
  <2>1. CASE ExtendLimit
    BY <2>1 DEF ExtendLimit
  <2>2. CASE Grant
    BY <2>2 DEF Grant
  <2>3. CASE SendArm
    BY <2>3, AppendIndices DEF SendArm
  <2>4. CASE ReceiveArm
    BY <2>4, TailIndices DEF ReceiveArm
  <2>5. CASE SendSeq
    <3>1. PICK next \in xmitSeq .. MaxPosition :
            /\ seqs' = Append(seqs, [seq |-> xmitSeq, size |-> next - xmitSeq])
            /\ xmitSeq' = next
      BY <2>5 DEF SendSeq
    <3>2. [seq |-> xmitSeq, size |-> next - xmitSeq] \in SeqPackets
      BY DEF SeqPackets
    <3> QED
      BY <2>5, <3>1, <3>2, AppendIndices DEF SendSeq
  <2>6. CASE ReceiveSeq
    <3>1. Head(seqs) \in SeqPackets /\ Tail(seqs) \in Seq(SeqPackets)
      BY <2>6, TailIndices DEF ReceiveSeq
    <3>2. Head(seqs).size \in Nat
      BY <3>1 DEF SeqPackets
    <3> QED
      BY <2>6, <3>1, <3>2 DEF ReceiveSeq
  <2>7. CASE UNCHANGED flow
    BY <2>7 DEF flow
  <2> QED
    BY <2>1, <2>2, <2>3, <2>4, <2>5, <2>6, <2>7 DEF Next
<1> QED
  BY <1>1, <1>2, PTL DEF FlowSpec

-----------------------------------------------------------------------------
(* The inductive invariant.  Each conjunct is kept by itself, given the    *)
(* types: the ordering of the positions needs the queue of ARM packets     *)
(* (the next credit is the head) and the one of SEQ packets (the next      *)
(* packet ends at or before xmitSeq).                                      *)

\* The positions stay ordered.
LEMMA OrderedKept ==
  ASSUME TypeOK, FlowInv, [Next]_flow
  PROVE  Ordered'
<1> USE FlowAssumption DEF TypeOK, Ordered
<1>0. Ordered /\ ArmsAscend /\ SeqsTile
  BY DEF FlowInv
<1>1. CASE ExtendLimit
  BY <1>0, <1>1 DEF ExtendLimit
<1>2. CASE Grant
  BY <1>0, <1>2 DEF Grant
<1>3. CASE SendArm
  BY <1>0, <1>3 DEF SendArm
<1>4. CASE ReceiveArm
  <2>1. Head(arms) = arms[1] /\ 1 \in 1 .. Len(arms)
    BY <1>4, TailIndices DEF ReceiveArm
  <2>2. xmitArm <= Head(arms) /\ Head(arms) <= recvArm
    BY <1>0, <2>1 DEF ArmsAscend
  <2> QED
    BY <1>0, <1>4, <2>2 DEF ReceiveArm
<1>5. CASE SendSeq
  BY <1>0, <1>5 DEF SendSeq
<1>6. CASE ReceiveSeq
  <2>1. Head(seqs) = seqs[1] /\ 1 \in 1 .. Len(seqs) /\ Head(seqs) \in SeqPackets
    BY <1>6, TailIndices DEF ReceiveSeq
  <2>2. recvSeq + Head(seqs).size <= xmitSeq
    BY <1>0, <1>6, <2>1 DEF SeqsTile, ReceiveSeq
  <2> QED
    BY <1>0, <1>6, <2>2 DEF ReceiveSeq
<1>7. CASE UNCHANGED flow
  BY <1>0, <1>7 DEF flow
<1> QED
  BY <1>1, <1>2, <1>3, <1>4, <1>5, <1>6, <1>7 DEF Next

\* The ARM packets in flight stay between the credit known and the credit
\* granted, in ascending order.
LEMMA ArmsAscendKept ==
  ASSUME TypeOK, FlowInv, [Next]_flow
  PROVE  ArmsAscend'
<1> USE FlowAssumption DEF TypeOK, ArmsAscend
<1>0. Ordered /\ ArmsAscend /\ SeqsTile
  BY DEF FlowInv
<1>1. CASE ExtendLimit
  BY <1>0, <1>1 DEF ExtendLimit
<1>2. CASE Grant
  <2>1. recvArm <= recvArm' /\ recvArm' \in Nat /\ arms' = arms /\ xmitArm' = xmitArm
    BY <1>2 DEF Grant
  <2>2. \A i \in 1 .. Len(arms) : arms[i] \in Nat
    OBVIOUS
  <2> QED
    BY <1>0, <2>1, <2>2
<1>3. CASE SendArm
  <2>1. /\ Len(arms') = Len(arms) + 1 /\ arms'[Len(arms) + 1] = recvArm
        /\ \A i \in 1 .. Len(arms) : arms'[i] = arms[i]
        /\ xmitArm' = xmitArm /\ recvArm' = recvArm
    BY <1>3, AppendIndices DEF SendArm
  <2>2. xmitArm <= recvArm
    BY <1>0 DEF Ordered
  <2>3. \A i \in 1 .. Len(arms') : xmitArm <= arms'[i] /\ arms'[i] <= recvArm
    <3> TAKE i \in 1 .. Len(arms')
    <3>1. CASE i \in 1 .. Len(arms)
      BY <1>0, <2>1, <3>1
    <3>2. CASE i = Len(arms) + 1
      BY <2>1, <2>2, <3>2
    <3> QED
      BY <2>1, <3>1, <3>2
  <2>4. \A i, j \in 1 .. Len(arms') : i < j => arms'[i] <= arms'[j]
    <3> TAKE i, j \in 1 .. Len(arms')
    <3> HAVE i < j
    <3>1. i \in 1 .. Len(arms)
      BY <2>1
    <3>2. CASE j \in 1 .. Len(arms)
      BY <1>0, <2>1, <3>1, <3>2
    <3>3. CASE j = Len(arms) + 1
      BY <1>0, <2>1, <3>1, <3>3
    <3>4. Len(arms) \in Nat /\ j \in 1 .. Len(arms) + 1
      BY <2>1
    <3> QED
      BY <3>2, <3>3, <3>4
  <2> QED
    BY <2>1, <2>3, <2>4
<1>4. CASE ReceiveArm
  <2>1. /\ Len(arms) \in Nat \ {0} /\ Len(arms') = Len(arms) - 1
        /\ \A i \in 1 .. Len(arms) - 1 : arms'[i] = arms[i + 1]
        /\ xmitArm' = arms[1] /\ recvArm' = recvArm
    BY <1>4, TailIndices DEF ReceiveArm
  <2>2. \A i \in 1 .. Len(arms') : arms[1] <= arms'[i] /\ arms'[i] <= recvArm
    <3> TAKE i \in 1 .. Len(arms')
    <3>1. arms'[i] = arms[i + 1] /\ i + 1 \in 1 .. Len(arms) /\ 1 < i + 1
      BY <2>1
    <3> QED
      BY <1>0, <2>1, <3>1
  <2>3. \A i, j \in 1 .. Len(arms') : i < j => arms'[i] <= arms'[j]
    <3> TAKE i, j \in 1 .. Len(arms')
    <3> HAVE i < j
    <3>1. i + 1 \in 1 .. Len(arms) /\ j + 1 \in 1 .. Len(arms) /\ i + 1 < j + 1
      BY <2>1
    <3> QED
      BY <1>0, <2>1, <3>1
  <2> QED
    BY <2>1, <2>2, <2>3
<1>5. CASE SendSeq
  BY <1>0, <1>5 DEF SendSeq
<1>6. CASE ReceiveSeq
  BY <1>0, <1>6 DEF ReceiveSeq
<1>7. CASE UNCHANGED flow
  BY <1>0, <1>7 DEF flow
<1> QED
  BY <1>1, <1>2, <1>3, <1>4, <1>5, <1>6, <1>7 DEF Next

\* The SEQ packets in flight tile the stream from recvSeq to xmitSeq.
LEMMA SeqsTileKept ==
  ASSUME TypeOK, FlowInv, [Next]_flow
  PROVE  SeqsTile'
<1> USE FlowAssumption DEF TypeOK
<1>0. Ordered /\ ArmsAscend /\ SeqsTile
  BY DEF FlowInv
<1>t. \A i \in 1 .. Len(seqs) : seqs[i].seq \in Nat /\ seqs[i].size \in Nat
  BY PacketFields
<1>1. CASE ExtendLimit
  BY <1>0, <1>1 DEF ExtendLimit, SeqsTile, Start
<1>2. CASE Grant
  BY <1>0, <1>2 DEF Grant, SeqsTile, Start
<1>3. CASE SendArm
  BY <1>0, <1>3 DEF SendArm, SeqsTile, Start
<1>4. CASE ReceiveArm
  BY <1>0, <1>4 DEF ReceiveArm, SeqsTile, Start
<1>5. CASE SendSeq
  <2>1. PICK next \in xmitSeq .. MaxPosition :
          /\ seqs' = Append(seqs, [seq |-> xmitSeq, size |-> next - xmitSeq])
          /\ xmitSeq' = next
    BY <1>5 DEF SendSeq
  <2> DEFINE packet == [seq |-> xmitSeq, size |-> next - xmitSeq]
  <2>2. packet \in SeqPackets
    BY DEF SeqPackets
  <2>3. /\ Len(seqs') = Len(seqs) + 1 /\ seqs'[Len(seqs) + 1] = packet
        /\ \A i \in 1 .. Len(seqs) : seqs'[i] = seqs[i]
    BY <2>1, <2>2, AppendIndices
  <2>4. \A i \in 1 .. Len(seqs) + 1 : Start(i)' = Start(i)
    BY <2>3 DEF Start
  <2>5. recvSeq' = recvSeq
    BY <1>5 DEF SendSeq
  <2>6. xmitSeq <= xmitSeq' /\ packet.seq + packet.size = xmitSeq' /\ xmitSeq' \in Nat
    BY <2>1
  <2>7. Start(1)' = recvSeq'
    BY <1>0, <2>4, <2>5 DEF SeqsTile
  <2>s. \A i \in 1 .. Len(seqs') : i \in 1 .. Len(seqs) \/ i = Len(seqs) + 1
    BY <2>3
  <2>t. \A i \in 1 .. Len(seqs) : /\ seqs[i].seq + seqs[i].size = Start(i + 1)
                                   /\ seqs[i].seq + seqs[i].size <= xmitSeq
    BY <1>0 DEF SeqsTile
  <2>8. \A i \in 1 .. Len(seqs') : seqs'[i].seq + seqs'[i].size = Start(i + 1)'
    <3> TAKE i \in 1 .. Len(seqs')
    <3>1. CASE i \in 1 .. Len(seqs)
      <4> HIDE DEF TypeOK
      <4>1. i + 1 \in 1 .. Len(seqs) + 1 /\ seqs'[i] = seqs[i]
        BY <2>3, <3>1
      <4>2. Start(i + 1)' = Start(i + 1)
        BY <2>4, <4>1
      <4> QED
        BY <2>t, <3>1, <4>1, <4>2
    <3>2. CASE i = Len(seqs) + 1
      <4>1. ~ (i + 1 <= Len(seqs'))
        BY <2>3, <3>2
      <4>2. Start(i + 1)' = xmitSeq'
        BY <4>1 DEF Start
      <4> QED
        BY <2>3, <2>6, <3>2, <4>2
    <3> QED
      BY <2>s, <3>1, <3>2
  <2>9. \A i \in 1 .. Len(seqs') : seqs'[i].seq + seqs'[i].size <= xmitSeq'
    <3> TAKE i \in 1 .. Len(seqs')
    <3>1. CASE i \in 1 .. Len(seqs)
      <4>1. seqs'[i] = seqs[i]
        BY <2>3, <3>1
      <4>2. seqs[i].seq + seqs[i].size <= xmitSeq
        BY <2>t, <3>1
      <4>3. seqs[i].seq \in Nat /\ seqs[i].size \in Nat /\ xmitSeq \in Nat
        BY <1>t, <3>1
      <4> HIDE DEF TypeOK
      <4>4. seqs[i].seq + seqs[i].size <= xmitSeq'
        BY <2>6, <4>2, <4>3
      <4> QED
        BY <4>1, <4>4
    <3>2. CASE i = Len(seqs) + 1
      BY <2>3, <2>6, <3>2
    <3> QED
      BY <2>s, <3>1, <3>2
  <2> QED
    BY <2>7, <2>8, <2>9 DEF SeqsTile
<1>6. CASE ReceiveSeq
  <2>1. /\ Len(seqs) \in Nat \ {0} /\ Len(seqs') = Len(seqs) - 1
        /\ \A i \in 1 .. Len(seqs) - 1 : seqs'[i] = seqs[i + 1]
        /\ Head(seqs) = seqs[1]
    BY <1>6, TailIndices DEF ReceiveSeq
  <2>2. xmitSeq' = xmitSeq /\ recvSeq' = recvSeq + seqs[1].size /\ seqs[1].seq = recvSeq
    BY <1>6, <2>1 DEF ReceiveSeq
  <2>3. \A i \in 1 .. Len(seqs) : Start(i)' = Start(i + 1)
    BY <2>1, <2>2 DEF Start
  <2>4. Start(1)' = recvSeq'
    BY <1>0, <2>1, <2>2, <2>3 DEF SeqsTile
  <2>5. \A i \in 1 .. Len(seqs') : seqs'[i].seq + seqs'[i].size = Start(i + 1)'
    <3> TAKE i \in 1 .. Len(seqs')
    <3>1. i + 1 \in 1 .. Len(seqs) /\ seqs'[i] = seqs[i + 1]
      BY <2>1
    <3>2. Start(i + 1)' = Start((i + 1) + 1)
      BY <2>3, <3>1
    <3> QED
      BY <1>0, <3>1, <3>2 DEF SeqsTile
  <2>6. \A i \in 1 .. Len(seqs') : seqs'[i].seq + seqs'[i].size <= xmitSeq'
    <3> TAKE i \in 1 .. Len(seqs')
    <3>1. i + 1 \in 1 .. Len(seqs) /\ seqs'[i] = seqs[i + 1]
      BY <2>1
    <3> QED
      BY <1>0, <2>2, <3>1 DEF SeqsTile
  <2> QED
    BY <2>4, <2>5, <2>6 DEF SeqsTile
<1>7. CASE UNCHANGED flow
  BY <1>0, <1>7 DEF flow, SeqsTile, Start
<1> QED
  BY <1>1, <1>2, <1>3, <1>4, <1>5, <1>6, <1>7 DEF Next

\* The positions are ordered, the ARM packets ascend, the SEQ packets tile.
THEOREM FlowInvariant == FlowSpec => []FlowInv
<1>1. Init => FlowInv
  BY DEF Init, FlowInv, Ordered, ArmsAscend, SeqsTile, Start
<1>2. TypeOK /\ FlowInv /\ [Next]_flow => FlowInv'
  BY OrderedKept, ArmsAscendKept, SeqsTileKept DEF FlowInv
<1> QED
  BY <1>1, <1>2, TypeCorrect, PTL DEF FlowSpec

-----------------------------------------------------------------------------
(* What the users of a stream rely on. *)

\* The receiver meets in every SEQ the position it expects, so that
\* PROTOCOL_SEQ_VALUE is never reported, in every stream.
THEOREM SeqAlwaysExpected == FlowSpec => []SeqExpected
<1>1. TypeOK /\ FlowInv => SeqExpected
  <2> SUFFICES ASSUME TypeOK, FlowInv, seqs # <<>> PROVE Head(seqs).seq = recvSeq
    BY DEF SeqExpected
  <2>1. Head(seqs) = seqs[1] /\ 1 <= Len(seqs)
    BY TailIndices DEF TypeOK
  <2> QED
    BY <2>1 DEF FlowInv, SeqsTile, Start
<1> QED
  BY <1>1, TypeCorrect, FlowInvariant, PTL

\* No payload is ever sent beyond what the receiver granted, in every stream.
THEOREM CreditAlwaysKept == FlowSpec => []CreditKept
<1>1. TypeOK /\ FlowInv => CreditKept
  <2> SUFFICES ASSUME TypeOK, FlowInv PROVE CreditKept
    OBVIOUS
  <2>1. \A i \in 1 .. Len(seqs) : seqs[i].seq \in Nat /\ seqs[i].size \in Nat
    BY PacketFields DEF TypeOK
  <2> QED
    BY <2>1 DEF TypeOK, FlowInv, Ordered, SeqsTile, CreditKept
<1> QED
  BY <1>1, TypeCorrect, FlowInvariant, PTL

\* No step takes credit back, however many ARM packets are in flight.
THEOREM CreditAlwaysGrows == FlowSpec => CreditGrows
<1>1. TypeOK /\ FlowInv /\ [Next]_flow => [xmitArm' >= xmitArm]_flow
  <2> SUFFICES ASSUME TypeOK, FlowInv, Next PROVE xmitArm' >= xmitArm
    OBVIOUS
  <2>1. CASE ReceiveArm
    <3>1. Head(arms) = arms[1] /\ 1 \in 1 .. Len(arms)
      BY <2>1, TailIndices DEF ReceiveArm, TypeOK
    <3>2. xmitArm <= arms[1] /\ arms[1] \in Nat
      BY <3>1 DEF FlowInv, ArmsAscend, TypeOK
    <3> QED
      BY <2>1, <3>1, <3>2 DEF ReceiveArm, TypeOK
  <2>2. CASE ExtendLimit \/ Grant \/ SendArm \/ SendSeq \/ ReceiveSeq
    BY <2>2 DEF ExtendLimit, Grant, SendArm, SendSeq, ReceiveSeq, TypeOK
  <2> QED
    BY <2>1, <2>2 DEF Next
<1> QED
  BY <1>1, TypeCorrect, FlowInvariant, PTL DEF FlowSpec, CreditGrows
=============================================================================

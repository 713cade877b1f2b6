----------------------------- MODULE ChabuFlow -----------------------------
(***************************************************************************)
(* What the protocol promises of one stream: one direction of one channel. *)
(*                                                                         *)
(* The receiver grants credit by sending the position up to which it will  *)
(* take payload (ARM packets); the sender sends payload with its position  *)
(* (SEQ packets), never beyond the credit it knows and never beyond what   *)
(* its application announced.  Both kinds of packets travel in order.      *)
(* Startup, packets of other channels, packet bodies and the calls that    *)
(* move all this are left to ChabuLink.                                    *)
(***************************************************************************)
EXTENDS Integers, Sequences

CONSTANTS
  MaxPosition,  \* bound: the last position of the stream
  MaxInFlight   \* bound: packets of one kind in flight

ASSUME FlowAssumption == MaxPosition \in Nat /\ MaxInFlight \in Nat

VARIABLES
  xmitLimit,  \* sender: up to here the application has data to send
  xmitArm,    \* sender: up to here the receiver granted credit, as far as known
  xmitSeq,    \* sender: the position of the next SEQ
  recvArm,    \* receiver: up to here it granted credit
  recvSeq,    \* receiver: the position the next SEQ must have
  seqs,       \* SEQ packets in flight
  arms        \* ARM packets in flight

flow == <<xmitLimit, xmitArm, xmitSeq, recvArm, recvSeq, seqs, arms>>

SeqPackets == [seq : Nat, size : Nat]

\* A mutant: the sender starts with a mark for "no credit yet".
InitUnarmed ==
  /\ xmitLimit = 0 /\ xmitArm = -1 /\ xmitSeq = 0
  /\ recvArm = 0 /\ recvSeq = 0
  /\ seqs = <<>> /\ arms = <<>>

Init ==
  /\ xmitLimit = 0 /\ xmitArm = 0 /\ xmitSeq = 0
  /\ recvArm = 0 /\ recvSeq = 0
  /\ seqs = <<>> /\ arms = <<>>

\* The sending application announces more data.
ExtendLimit ==
  /\ \E limit \in xmitLimit .. MaxPosition : xmitLimit' = limit
  /\ UNCHANGED <<xmitArm, xmitSeq, recvArm, recvSeq, seqs, arms>>

\* The receiving application makes room.
Grant ==
  /\ \E arm \in recvArm .. MaxPosition : recvArm' = arm
  /\ UNCHANGED <<xmitLimit, xmitArm, xmitSeq, recvSeq, seqs, arms>>

\* A mutant: a new ARM overtakes those in flight.
SendArmFirst ==
  /\ Len(arms) < MaxInFlight
  /\ arms' = <<recvArm>> \o arms
  /\ UNCHANGED <<xmitLimit, xmitArm, xmitSeq, recvArm, recvSeq, seqs>>

SendArm ==
  /\ Len(arms) < MaxInFlight
  /\ arms' = Append(arms, recvArm)
  /\ UNCHANGED <<xmitLimit, xmitArm, xmitSeq, recvArm, recvSeq, seqs>>

\* A mutant: an ARM is taken for an amount, not for a position.
ReceiveArmAmount ==
  /\ arms # <<>>
  /\ xmitArm' = xmitArm + Head(arms)
  /\ arms' = Tail(arms)
  /\ UNCHANGED <<xmitLimit, xmitSeq, recvArm, recvSeq, seqs>>

ReceiveArm ==
  /\ arms # <<>>
  /\ xmitArm' = Head(arms)
  /\ arms' = Tail(arms)
  /\ UNCHANGED <<xmitLimit, xmitSeq, recvArm, recvSeq, seqs>>

\* A mutant: the credit is not looked at.
SendSeqUnpaused ==
  /\ Len(seqs) < MaxInFlight
  /\ \E next \in xmitSeq .. MaxPosition :
       /\ next <= xmitLimit
       /\ seqs' = Append(seqs, [seq |-> xmitSeq, size |-> next - xmitSeq])
       /\ xmitSeq' = next
  /\ UNCHANGED <<xmitLimit, xmitArm, recvArm, recvSeq, arms>>

SendSeq ==
  /\ Len(seqs) < MaxInFlight
  /\ \E next \in xmitSeq .. MaxPosition :
       /\ next <= xmitLimit /\ next <= xmitArm
       /\ seqs' = Append(seqs, [seq |-> xmitSeq, size |-> next - xmitSeq])
       /\ xmitSeq' = next
  /\ UNCHANGED <<xmitLimit, xmitArm, recvArm, recvSeq, arms>>

\* A mutant: counts packets, not payload.
ReceiveSeqCount ==
  /\ seqs # <<>>
  /\ Head(seqs).seq = recvSeq
  /\ recvSeq' = recvSeq + 1
  /\ seqs' = Tail(seqs)
  /\ UNCHANGED <<xmitLimit, xmitArm, xmitSeq, recvArm, arms>>

\* A packet with another position than the expected one is not taken.
ReceiveSeq ==
  /\ seqs # <<>>
  /\ Head(seqs).seq = recvSeq
  /\ recvSeq' = recvSeq + Head(seqs).size
  /\ seqs' = Tail(seqs)
  /\ UNCHANGED <<xmitLimit, xmitArm, xmitSeq, recvArm, arms>>

Next == ExtendLimit \/ Grant \/ SendArm \/ ReceiveArm \/ SendSeq \/ ReceiveSeq

FlowSpec == Init /\ [][Next]_flow

-----------------------------------------------------------------------------
TypeOK ==
  /\ xmitLimit \in Nat /\ xmitArm \in Nat /\ xmitSeq \in Nat
  /\ recvArm \in Nat /\ recvSeq \in Nat
  /\ seqs \in Seq(SeqPackets)
  /\ arms \in Seq(Nat)

\* The receiver meets the position it expects in every SEQ that reaches it,
\* however many packets are in flight: PROTOCOL_SEQ_VALUE is never reported.
SeqExpected == seqs # <<>> => Head(seqs).seq = recvSeq

\* No SEQ carries payload beyond the credit of the receiver, neither when it
\* is sent nor later: the application always has the room it promised, and
\* PROTOCOL_DATA_OVERFLOW is never reported.
CreditKept ==
  /\ recvSeq <= recvArm
  /\ \A i \in 1 .. Len(seqs) : seqs[i].seq + seqs[i].size <= recvArm

\* Credit is never taken back: what the sender knows only grows, although
\* several ARM packets may be in flight.
CreditGrows == [][xmitArm' >= xmitArm]_flow

(***************************************************************************)
(* The inductive invariant: the positions are ordered, the ARM packets in  *)
(* flight ascend from the credit known to the credit granted, and the SEQ  *)
(* packets in flight tile the stream from recvSeq to xmitSeq.              *)
(***************************************************************************)
Ordered == recvSeq <= xmitSeq /\ xmitSeq <= xmitArm /\ xmitArm <= recvArm

ArmsAscend ==
  /\ \A i \in 1 .. Len(arms) : xmitArm <= arms[i] /\ arms[i] <= recvArm
  /\ \A i, j \in 1 .. Len(arms) : i < j => arms[i] <= arms[j]

\* The position at which packet i of the stream in flight begins, and, one
\* behind the last, the one at which the next packet will begin.
Start(i) == IF i <= Len(seqs) THEN seqs[i].seq ELSE xmitSeq

SeqsTile ==
  /\ Start(1) = recvSeq
  /\ \A i \in 1 .. Len(seqs) : seqs[i].seq + seqs[i].size = Start(i + 1)
  /\ \A i \in 1 .. Len(seqs) : seqs[i].seq + seqs[i].size <= xmitSeq

FlowInv == Ordered /\ ArmsAscend /\ SeqsTile
=============================================================================

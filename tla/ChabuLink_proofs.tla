-------------------------- MODULE ChabuLink_proofs --------------------------
(***************************************************************************)
(* Proofs about two endpoints of the C library, for every number of        *)
(* channels, every assignment of levels with at most two channels each,    *)
(* every packet size, transport buffer and width of the positions.         *)
(***************************************************************************)
EXTENDS ChabuLink, RequestList_proofs, SequenceTheorems

-----------------------------------------------------------------------------
(* Helpers. *)

\* There are two endpoints, each is the other one of the other.
LEMMA TwoPeers ==
  ASSUME NEW e \in Peers
  PROVE  /\ Other(e) \in Peers /\ Other(e) # e
         /\ Other(Other(e)) = e
         /\ \A p \in Peers : p = e \/ p = Other(e)
<1>1. PICK a, b \in Peers : a # b /\ Peers = {a, b}
  BY PeersAssumption
<1>2. \A x \in Peers : Other(x) \in Peers /\ Other(x) # x
  <2> TAKE x \in Peers
  <2>1. \E p \in Peers : p # x
    BY <1>1
  <2> QED
    BY <2>1 DEF Other
<1> QED
  BY <1>1, <1>2

\* What the conversions of positions and sizes return.
LEMMA Conversions ==
  ASSUME NEW n \in Int
  PROVE  Int32(n) \in Nat /\ Uint64(n) \in Nat /\ Padding(n) \in Nat
<1>1. Int32(n) \in Nat
  BY SizesAssumption DEF Int32
<1>2. Wrap * Wrap \in Nat \ {0}
  BY SizesAssumption
<1>3. Uint64(n) \in Nat
  BY <1>2 DEF Uint64
<1>4. Align - (n % Align) \in Int
  BY SizesAssumption
<1>5. Padding(n) \in Nat
  BY <1>4, SizesAssumption DEF Padding
<1> QED
  BY <1>1, <1>3, <1>5

\* What is sent, and what is left to send, is one sequence of tokens.
LEMMA TokensAssociate ==
  ASSUME NEW P \in Seq(Tokens), NEW Q \in Seq(Tokens), NEW R \in Seq(Tokens)
  PROVE  (P \o Q) \o R = P \o (Q \o R)
BY ConcatAssociative

\* Tokens of a body, and the packet headers, are tokens.
LEMMA UnitsTyped ==
  ASSUME NEW t \in {"DATA", "PAD"}, NEW n \in Nat
  PROVE  /\ Units(t, n) \in Seq(Tokens) /\ Len(Units(t, n)) = n
         /\ \A i \in 1 .. n : Units(t, n)[i] = Packet(t)
<1>1. Packet(t) \in Tokens
  BY Numbers DEF Packet, Token, Tokens
<1> QED
  BY <1>1 DEF Units

\* A packet header is a token.
LEMMA TokenTyped ==
  ASSUME NEW t \in PacketTypes, NEW c \in Entries, NEW v \in Nat, NEW n \in Nat
  PROVE  Token(t, c, v, n) \in Tokens
BY DEF Token, Tokens

-----------------------------------------------------------------------------
(* Reading and writing the fields of the endpoints' records. *)

\* The fields of a channel.
LEMMA ChanTyped ==
  ASSUME TypeOK, NEW e \in Peers, NEW c \in Channels
  PROVE  /\ chan[e][c].xseq \in Nat /\ chan[e][c].xarm \in Nat
         /\ chan[e][c].xlimit \in Int /\ chan[e][c].rseq \in Nat
         /\ chan[e][c].rarm \in Nat /\ chan[e][c].armFlag \in BOOLEAN
<1>1. chan[e][c] \in ChanRecords
  BY DEF TypeOK
<1> QED
  BY <1>1 DEF ChanRecords

\* What the assignments to a field of a channel leave typed.
LEMMA ChanWritten ==
  ASSUME NEW f \in [Peers -> [Channels -> ChanRecords]],
         NEW e \in Peers, NEW c \in Channels
  PROVE  /\ \A n \in Nat : /\ [f EXCEPT ![e][c].xseq = n] \in [Peers -> [Channels -> ChanRecords]]
                          /\ [f EXCEPT ![e][c].xarm = n] \in [Peers -> [Channels -> ChanRecords]]
                          /\ [f EXCEPT ![e][c].rseq = n] \in [Peers -> [Channels -> ChanRecords]]
                          /\ [f EXCEPT ![e][c].rarm = n] \in [Peers -> [Channels -> ChanRecords]]
         /\ \A n \in Int : [f EXCEPT ![e][c].xlimit = n] \in [Peers -> [Channels -> ChanRecords]]
         /\ \A b \in BOOLEAN : [f EXCEPT ![e][c].armFlag = b] \in [Peers -> [Channels -> ChanRecords]]
<1> DEFINE C == [Peers -> [Channels -> ChanRecords]]
<1>1. ASSUME NEW n \in Nat PROVE [f EXCEPT ![e][c].xseq = n] \in C
  BY DEF ChanRecords
<1>2. ASSUME NEW n \in Nat PROVE [f EXCEPT ![e][c].xarm = n] \in C
  BY DEF ChanRecords
<1>3. ASSUME NEW n \in Nat PROVE [f EXCEPT ![e][c].rseq = n] \in C
  BY DEF ChanRecords
<1>4. ASSUME NEW n \in Nat PROVE [f EXCEPT ![e][c].rarm = n] \in C
  BY DEF ChanRecords
<1>5. ASSUME NEW n \in Int PROVE [f EXCEPT ![e][c].xlimit = n] \in C
  BY DEF ChanRecords
<1>6. ASSUME NEW b \in BOOLEAN PROVE [f EXCEPT ![e][c].armFlag = b] \in C
  BY DEF ChanRecords
<1> QED
  BY <1>1, <1>2, <1>3, <1>4, <1>5, <1>6, Zenon

\* The fields of what is sent and received.
LEMMA EndTyped ==
  ASSUME TypeOK, NEW e \in Peers
  PROVE  /\ xmit[e].state \in XmitStates /\ xmit[e].buffer \in Seq(Tokens)
         /\ xmit[e].payload \in Nat /\ xmit[e].padding \in Nat
         /\ recv[e].state \in RecvStates
         /\ recv[e].payload \in Nat /\ recv[e].padding \in Nat
         /\ recv[e].remote \in BOOLEAN /\ recv[e].stuck \in BOOLEAN
         /\ recv[e].garbled \in BOOLEAN
         /\ wire[e] \in Seq(Tokens)
<1>1. xmit[e] \in XmitRecords /\ recv[e] \in RecvRecords
  BY DEF TypeOK
<1> QED
  BY <1>1 DEF XmitRecords, RecvRecords, TypeOK

\* What the assignments to a field of the transmitter leave typed.
LEMMA XmitWritten ==
  ASSUME NEW f \in [Peers -> XmitRecords], NEW e \in Peers
  PROVE  /\ \A s \in XmitStates : [f EXCEPT ![e].state = s] \in [Peers -> XmitRecords]
         /\ \A s \in Seq(Tokens) : [f EXCEPT ![e].buffer = s] \in [Peers -> XmitRecords]
         /\ \A n \in Nat : /\ [f EXCEPT ![e].payload = n] \in [Peers -> XmitRecords]
                          /\ [f EXCEPT ![e].padding = n] \in [Peers -> XmitRecords]
BY DEF XmitRecords

\* What the assignments to a field of the receiver leave typed.
LEMMA RecvWritten ==
  ASSUME NEW f \in [Peers -> RecvRecords], NEW e \in Peers
  PROVE  /\ \A s \in RecvStates : [f EXCEPT ![e].state = s] \in [Peers -> RecvRecords]
         /\ \A n \in Nat : /\ [f EXCEPT ![e].payload = n] \in [Peers -> RecvRecords]
                          /\ [f EXCEPT ![e].padding = n] \in [Peers -> RecvRecords]
         /\ \A b \in BOOLEAN : /\ [f EXCEPT ![e].remote = b] \in [Peers -> RecvRecords]
                              /\ [f EXCEPT ![e].stuck = b] \in [Peers -> RecvRecords]
BY DEF RecvRecords

\* What the assignments to a field of the pings leave typed.
LEMMA PingWritten ==
  ASSUME NEW f \in [Peers -> PingRecords], NEW e \in Peers
  PROVE  /\ f[e].started \in Nat /\ f[e].completed \in Nat
         /\ \A n \in Nat : /\ [f EXCEPT ![e].started = n] \in [Peers -> PingRecords]
                          /\ [f EXCEPT ![e].completed = n] \in [Peers -> PingRecords]
         /\ \A b \in BOOLEAN : /\ [f EXCEPT ![e].request = b] \in [Peers -> PingRecords]
                              /\ [f EXCEPT ![e].inProgress = b] \in [Peers -> PingRecords]
                              /\ [f EXCEPT ![e].pong = b] \in [Peers -> PingRecords]
BY DEF PingRecords

\* What the assignments to a field of the call, and an error, leave typed.
LEMMA CallWritten ==
  ASSUME NEW f \in [Peers -> CallRecords], NEW e \in Peers
  PROVE  /\ \A p \in {"app", "recv", "send", "prepare", "dead"} :
              [f EXCEPT ![e].pc = p] \in [Peers -> CallRecords]
         /\ \A b \in BOOLEAN : [f EXCEPT ![e].writeRequest = b] \in [Peers -> CallRecords]
         /\ \A x \in Errors : ReportError(f[e], x) \in CallRecords
BY DEF CallRecords, ReportError

-----------------------------------------------------------------------------
(* Type correctness.  The lists of both kinds stay paired, or a search of  *)
(* the scheduler might not end and SetRequest stand for no list at all.    *)

TypeInv ==
  /\ TypeOK
  /\ \A e \in Peers : Paired(ctrl[e]) /\ Paired(data[e])

\* A request keeps the lists of an endpoint well formed.
LEMMA RequestTyped ==
  ASSUME NEW lists \in [Peers -> Lists], \A x \in Peers : Paired(lists[x]),
         NEW e \in Peers, NEW c \in Channels
  PROVE  LET new == [lists EXCEPT ![e] = SetRequest(@, c)]
         IN  new \in [Peers -> Lists] /\ \A x \in Peers : Paired(new[x])
BY SetRequestPaired, PairsAssumption

\* A pop keeps the lists of an endpoint well formed and gives a channel.
LEMMA PopTyped ==
  ASSUME NEW lists \in [Peers -> Lists], \A x \in Peers : Paired(lists[x]),
         NEW e \in Peers, Pending(lists[e]) # {}
  PROVE  LET new == [lists EXCEPT ![e] = PopNextRequest(@)]
         IN  /\ new \in [Peers -> Lists] /\ \A x \in Peers : Paired(new[x])
             /\ Popped(lists[e]) \in Channels
BY PopNextRequestPaired

\* Asking for transmission keeps the lists and the state of the call typed.
LEMMA RequestDataTyped ==
  ASSUME TypeInv, NEW e \in Peers, NEW c \in Channels, NEW cond,
         RequestDataIf(cond, e, c)
  PROVE  /\ data' \in [Peers -> Lists] /\ \A x \in Peers : Paired(data'[x])
         /\ lib' \in [Peers -> CallRecords]
<1>1. CASE cond
  <2>1. data' = [data EXCEPT ![e] = SetRequest(@, c)]
        /\ lib' = [lib EXCEPT ![e].writeRequest = TRUE]
    BY <1>1 DEF RequestDataIf
  <2> QED
    BY <2>1, RequestTyped, CallWritten DEF TypeInv, TypeOK
<1>2. CASE ~ cond
  BY <1>2 DEF RequestDataIf, TypeInv, TypeOK
<1> QED
  BY <1>1, <1>2

\* The calls of the application.
LEMMA AppCallTyped ==
  ASSUME TypeInv, NEW e \in Peers, AppCall(e)
  PROVE  TypeInv'
<1> USE DEF TypeInv
<1>0. chan \in [Peers -> [Channels -> ChanRecords]] /\ lib \in [Peers -> CallRecords]
  BY DEF TypeOK
<1>1. ASSUME NEW c \in Channels, NEW n \in AddSizes, AddXmitLimit(e, c, n)
      PROVE  TypeInv'
  <2>1. chan[e][c].xlimit + n \in Int
    BY ChanTyped, AmountsAssumption
  <2>2. chan' \in [Peers -> [Channels -> ChanRecords]]
    BY <1>0, <1>1, <2>1, ChanWritten DEF AddXmitLimit
  <2> QED
    BY <1>1, <2>2, RequestDataTyped DEF AddXmitLimit, TypeOK
<1>2. ASSUME NEW c \in Channels, NEW n \in AddSizes, AddRecvLimit(e, c, n)
      PROVE  TypeInv'
  <2>1. chan[e][c].rarm + n \in Nat
    BY ChanTyped, AmountsAssumption
  <2>2. [chan EXCEPT ![e][c].rarm = @ + n] \in [Peers -> [Channels -> ChanRecords]]
    BY <1>0, <2>1, ChanWritten
  <2>3. chan' \in [Peers -> [Channels -> ChanRecords]]
    BY <1>2, <2>2, ChanWritten DEF AddRecvLimit
  <2>4. lib' \in [Peers -> CallRecords]
    BY <1>0, <1>2, CallWritten DEF AddRecvLimit
  <2>5. ctrl' \in [Peers -> Lists] /\ \A x \in Peers : Paired(ctrl'[x])
    BY <1>2, RequestTyped DEF AddRecvLimit, TypeOK
  <2> QED
    BY <1>2, <2>3, <2>4, <2>5 DEF AddRecvLimit, TypeOK
<1>3. ASSUME NEW c \in Channels, NEW n \in XmitLimits, SetXmitLimit(e, c, n)
      PROVE  TypeInv'
  <2>1. CASE n < chan[e][c].xlimit
    <3>1. lib' = [lib EXCEPT ![e] = ReportError(@, "PARAMETER")]
          /\ UNCHANGED <<chan, data, ctrl, xmit, recv, ping, wire>>
      BY <1>3, <2>1 DEF SetXmitLimit
    <3>2. lib' \in [Peers -> CallRecords]
      BY <1>0, <3>1, CallWritten DEF Errors
    <3> QED
      BY <3>1, <3>2 DEF TypeOK
  <2>2. CASE ~ (n < chan[e][c].xlimit)
    <3>1. chan' = [chan EXCEPT ![e][c].xlimit = n]
          /\ RequestDataIf(chan[e][c].xarm # chan[e][c].xseq, e, c)
          /\ UNCHANGED <<ctrl, xmit, recv, ping, wire>>
      BY <1>3, <2>2 DEF SetXmitLimit
    <3>2. chan' \in [Peers -> [Channels -> ChanRecords]]
      BY <1>0, <3>1, ChanWritten, AmountsAssumption
    <3> QED
      BY <3>1, <3>2, RequestDataTyped DEF TypeOK
  <2> QED
    BY <2>1, <2>2
<1>4. ASSUME NEW c \in Channels, NEW n \in RecvLimits, SetRecvLimit(e, c, n)
      PROVE  TypeInv'
  <2>1. chan' \in [Peers -> [Channels -> ChanRecords]]
    BY <1>0, <1>4, ChanWritten, AmountsAssumption DEF SetRecvLimit
  <2> QED
    BY <1>4, <2>1 DEF SetRecvLimit, TypeOK
<1>5. CASE StartPing(e)
  <2>1. CASE ping[e].inProgress
    <3>1. lib' = [lib EXCEPT ![e] = ReportError(@, "PING_IN_PROGRESS")]
          /\ UNCHANGED <<chan, ctrl, data, xmit, recv, ping, wire>>
      BY <1>5, <2>1 DEF StartPing
    <3>2. lib' \in [Peers -> CallRecords]
      BY <1>0, <3>1, CallWritten DEF Errors
    <3> QED
      BY <3>1, <3>2 DEF TypeOK
  <2>2. CASE ~ ping[e].inProgress
    <3>1. /\ ping' = [ping EXCEPT ![e].request = TRUE, ![e].inProgress = TRUE,
                                  ![e].started = @ + 1]
          /\ lib' = [lib EXCEPT ![e].writeRequest = TRUE]
          /\ UNCHANGED <<chan, ctrl, data, xmit, recv, wire>>
      BY <1>5, <2>2 DEF StartPing
    <3>2. lib' \in [Peers -> CallRecords]
      BY <1>0, <3>1, CallWritten
    <3>3. ping \in [Peers -> PingRecords]
      BY DEF TypeOK
    <3>4. ping'[e] = [ping[e] EXCEPT !.request = TRUE, !.inProgress = TRUE,
                                     !.started = @ + 1]
      BY <3>1, <3>3
    <3>5. ping'[e] \in PingRecords
      <4>1. ASSUME NEW r \in PingRecords, NEW n \in Nat
            PROVE  [r EXCEPT !.request = TRUE, !.inProgress = TRUE, !.started = n]
                     \in PingRecords
        BY DEF PingRecords
      <4>2. ping[e] \in PingRecords /\ ping[e].started + 1 \in Nat
        BY <3>3, PingWritten
      <4> QED
        BY <3>4, <4>1, <4>2, Zenon
    <3>6. ping' \in [Peers -> PingRecords]
      BY <3>1, <3>3, <3>5
    <3> QED
      BY <3>1, <3>2, <3>6 DEF TypeOK
  <2> QED
    BY <2>1, <2>2
<1> QED
  BY <1>1, <1>2, <1>3, <1>4, <1>5 DEF AppCall

\* Taking tokens from the transport leaves tokens of the same kind.
LEMMA ConsumeKeeps ==
  ASSUME NEW T, wire \in [Peers -> Seq(T)], NEW e \in Peers,
         NEW n \in Nat, n <= Len(Inbound(e)), Consume(e, n)
  PROVE  wire' \in [Peers -> Seq(T)]
<1>1. Other(e) \in Peers
  BY TwoPeers
<1>2. SubSeq(wire[Other(e)], n + 1, Len(wire[Other(e)])) \in Seq(T)
  <2>1. n \in 0 .. Len(wire[Other(e)])
    BY <1>1 DEF Inbound
  <2> QED
    BY <1>1, <2>1, PieceTyped
<1> QED
  BY <1>1, <1>2 DEF Consume

\* Taking tokens from the transport leaves tokens.
LEMMA ConsumeTyped ==
  ASSUME TypeOK, NEW e \in Peers, NEW n \in Nat, n <= Len(Inbound(e)), Consume(e, n)
  PROVE  wire' \in [Peers -> Seq(Tokens)]
BY ConsumeKeeps DEF TypeOK

\* A header that is received is a token, and there is one to take.
LEMMA HeadTyped ==
  ASSUME TypeOK, NEW e \in Peers, NEW t, Receives(e, t)
  PROVE  /\ Len(Inbound(e)) >= 1 /\ Head(Inbound(e)) \in Tokens
         /\ Head(Inbound(e)).type = t /\ Head(Inbound(e)).ch \in Entries
         /\ Head(Inbound(e)).val \in Nat /\ Head(Inbound(e)).size \in Nat
<1>1. Inbound(e) \in Seq(Tokens) /\ Inbound(e) # <<>>
  BY TwoPeers DEF TypeOK, Inbound, Receives
<1>2. Len(Inbound(e)) >= 1 /\ Head(Inbound(e)) \in Tokens
  BY <1>1
<1> QED
  BY <1>2 DEF Tokens, Receives

\* A refused packet leaves the records typed.
LEMMA RefuseTyped ==
  ASSUME TypeInv, NEW e \in Peers, NEW x \in Errors, Refuse(e, x)
  PROVE  TypeInv'
<1>1. recv \in [Peers -> RecvRecords] /\ lib \in [Peers -> CallRecords]
  BY DEF TypeInv, TypeOK
<1>2. recv' \in [Peers -> RecvRecords]
  BY <1>1, RecvWritten DEF Refuse
<1>3. lib' \in [Peers -> CallRecords]
  <2>1. ReportError(lib[e], x) \in CallRecords
    BY <1>1, CallWritten
  <2>2. \A r \in CallRecords : [r EXCEPT !.pc = "send"] \in CallRecords
    BY DEF CallRecords
  <2> QED
    BY <1>1, <2>1, <2>2 DEF Refuse
<1> QED
  BY <1>2, <1>3 DEF Refuse, TypeInv, TypeOK

\* The packets that are received, and the parts of a body.
LEMMA ReadsTyped ==
  ASSUME TypeInv, NEW e \in Peers, Reads(e)
  PROVE  TypeInv'
<1> USE DEF TypeInv
<1>0. /\ chan \in [Peers -> [Channels -> ChanRecords]]
      /\ lib \in [Peers -> CallRecords] /\ recv \in [Peers -> RecvRecords]
      /\ ping \in [Peers -> PingRecords]
      /\ {"Ready", "Accept", "SeqPayload"} \subseteq RecvStates
  BY DEF TypeOK, RecvStates
<1>1. CASE RecvSetup(e)
  <2>1. recv' \in [Peers -> RecvRecords]
    <3>1. [recv EXCEPT ![e].state = "Accept"] \in [Peers -> RecvRecords]
      BY <1>0, RecvWritten
    <3> QED
      BY <1>1, <3>1, RecvWritten DEF RecvSetup
  <2>2. wire' \in [Peers -> Seq(Tokens)]
    BY <1>1, HeadTyped, ConsumeTyped DEF RecvSetup
  <2> QED
    BY <1>1, <2>1, <2>2 DEF RecvSetup, TypeOK
<1>2. CASE RecvAccept(e)
  <2>1. recv' \in [Peers -> RecvRecords]
    BY <1>0, <1>2, RecvWritten DEF RecvAccept
  <2>2. wire' \in [Peers -> Seq(Tokens)]
    BY <1>2, HeadTyped, ConsumeTyped DEF RecvAccept
  <2> QED
    BY <1>2, <2>1, <2>2 DEF RecvAccept, TypeOK
<1>3. CASE RecvUnknown(e)
  BY <1>3, RefuseTyped DEF RecvUnknown, Errors
<1>4. CASE RecvArm(e)
  <2> DEFINE c == Head(Inbound(e)).ch
             arm == Head(Inbound(e)).val
  <2>1. Len(Inbound(e)) >= 1 /\ arm \in Nat
    BY <1>4, HeadTyped DEF RecvArm
  <2>2. CASE c \notin Channels
    BY <1>4, <2>2, RefuseTyped DEF RecvArm, Errors
  <2>3. CASE c \in Channels
    <3>1. /\ chan' = [chan EXCEPT ![e][c].xarm = arm]
          /\ recv' = [recv EXCEPT ![e].state = "Ready"]
          /\ Consume(e, 1)
          /\ UNCHANGED <<ctrl, xmit, ping>>
          /\ RequestDataIf(chan[e][c].xarm # arm /\ chan[e][c].xlimit # chan[e][c].xseq,
                           e, c)
      BY <1>4, <2>3 DEF RecvArm
    <3>2. chan' \in [Peers -> [Channels -> ChanRecords]]
      BY <1>0, <2>1, <2>3, <3>1, ChanWritten
    <3>3. recv' \in [Peers -> RecvRecords]
      BY <1>0, <3>1, RecvWritten
    <3>4. wire' \in [Peers -> Seq(Tokens)]
      BY <2>1, <3>1, ConsumeTyped
    <3>5. /\ data' \in [Peers -> Lists] /\ \A x \in Peers : Paired(data'[x])
          /\ lib' \in [Peers -> CallRecords]
      BY <2>3, <3>1, RequestDataTyped
    <3> QED
      BY <3>1, <3>2, <3>3, <3>4, <3>5 DEF TypeOK
  <2> QED
    BY <2>2, <2>3
<1>5. CASE RecvPing(e)
  <2>1. recv' \in [Peers -> RecvRecords]
    BY <1>0, <1>5, RecvWritten DEF RecvPing
  <2>2. wire' \in [Peers -> Seq(Tokens)]
    BY <1>5, HeadTyped, ConsumeTyped DEF RecvPing
  <2>3. ping' \in [Peers -> PingRecords]
    BY <1>0, <1>5, PingWritten DEF RecvPing
  <2> QED
    BY <1>5, <2>1, <2>2, <2>3 DEF RecvPing, TypeOK
<1>6. CASE RecvPong(e)
  <2>1. recv' \in [Peers -> RecvRecords]
    BY <1>0, <1>6, RecvWritten DEF RecvPong
  <2>2. wire' \in [Peers -> Seq(Tokens)]
    BY <1>6, HeadTyped, ConsumeTyped DEF RecvPong
  <2>3. ping[e].completed + 1 \in Nat
    BY <1>0, PingWritten
  <2>4. ping' \in [Peers -> PingRecords]
    BY <1>0, <1>6, <2>3, PingWritten DEF RecvPong
  <2> QED
    BY <1>6, <2>1, <2>2, <2>4 DEF RecvPong, TypeOK
<1>7. CASE RecvSeq(e)
  <2> DEFINE t == Head(Inbound(e))
  <2>1. Len(Inbound(e)) >= 1 /\ t.size \in Nat /\ Padding(t.size) \in Nat
    BY <1>7, HeadTyped, Conversions DEF RecvSeq
  <2>2. CASE t.ch \notin Channels \/ t.val # Int32(chan[e][t.ch].rseq)
    BY <1>7, <2>2, RefuseTyped DEF RecvSeq, Errors
  <2>3. CASE t.ch \in Channels /\ t.val = Int32(chan[e][t.ch].rseq)
    <3> DEFINE s == IF t.size > 0 THEN "SeqPayload" ELSE "Ready"
    <3>1. /\ chan' = [chan EXCEPT ![e][t.ch].rseq = @ + t.size]
          /\ recv' = [recv EXCEPT ![e].state = s,
                      ![e].payload = t.size, ![e].padding = Padding(t.size)]
          /\ Consume(e, 1)
          /\ UNCHANGED <<ctrl, data, xmit, ping, lib>>
      BY <1>7, <2>3 DEF RecvSeq
    <3>2. chan' \in [Peers -> [Channels -> ChanRecords]]
      <4>1. chan[e][t.ch].rseq + t.size \in Nat
        BY <2>1, <2>3, ChanTyped
      <4> QED
        BY <1>0, <2>3, <3>1, <4>1, ChanWritten
    <3>3. recv' \in [Peers -> RecvRecords]
      <4>1. [recv EXCEPT ![e].state = s] \in [Peers -> RecvRecords]
        BY <1>0, RecvWritten
      <4>2. [recv EXCEPT ![e].state = s, ![e].payload = t.size] \in [Peers -> RecvRecords]
        BY <2>1, <4>1, RecvWritten
      <4> QED
        BY <2>1, <3>1, <4>2, RecvWritten
    <3>4. wire' \in [Peers -> Seq(Tokens)]
      BY <2>1, <3>1, ConsumeTyped
    <3> QED
      BY <3>1, <3>2, <3>3, <3>4 DEF TypeOK
  <2> QED
    BY <2>2, <2>3
<1>8. ASSUME NEW n \in 1 .. WireSize, RecvPayload(e, n) \/ RecvPadding(e, n)
      PROVE  TypeInv'
  <2>1. ASSUME NEW f \in {"payload", "padding"}, NEW y, RecvBody(e, n, f, y)
        PROVE  TypeInv'
    <3> DEFINE s == IF recv[e].payload + recv[e].padding = n THEN "Ready" ELSE recv[e].state
               g == recv[e].garbled \/ \E i \in 1 .. n : Inbound(e)[i].type # y
    <3>1. /\ n <= recv[e][f] /\ n <= Len(Inbound(e)) /\ Consume(e, n)
          /\ recv' = [recv EXCEPT ![e][f] = @ - n, ![e].state = s, ![e].garbled = g]
          /\ UNCHANGED <<chan, ctrl, data, xmit, ping, lib>>
      BY <2>1 DEF RecvBody
    <3>2. n \in Nat /\ recv[e][f] \in Nat /\ recv[e][f] - n \in Nat
      <4>1. recv[e][f] \in Nat
        BY EndTyped
      <4>2. n \in Nat
        BY SizesAssumption
      <4>3. n <= recv[e][f]
        BY <2>1 DEF RecvBody
      <4>4. \A k \in Nat : n <= k => k - n \in Nat
        BY <4>2
      <4> QED
        BY <4>1, <4>2, <4>3, <4>4, Zenon
    <3>3. s \in RecvStates /\ g \in BOOLEAN
      BY <1>0, EndTyped
    <3>4. ASSUME NEW r \in RecvRecords, NEW m \in Nat, NEW z \in RecvStates, NEW b \in BOOLEAN
          PROVE  [r EXCEPT ![f] = m, !.state = z, !.garbled = b] \in RecvRecords
      <4>1. [r EXCEPT ![f] = m] \in RecvRecords
        BY DEF RecvRecords
      <4>2. [[r EXCEPT ![f] = m] EXCEPT !.state = z, !.garbled = b] \in RecvRecords
        BY <4>1 DEF RecvRecords
      <4> QED
        BY <4>2
    <3>5. recv' \in [Peers -> RecvRecords]
      <4>1. recv[e] \in RecvRecords
        BY <1>0
      <4>2. [recv[e] EXCEPT ![f] = @ - n, !.state = s, !.garbled = g] \in RecvRecords
        BY <3>2, <3>3, <3>4, <4>1, Zenon
      <4> QED
        BY <1>0, <3>1, <4>2
    <3>6. wire' \in [Peers -> Seq(Tokens)]
      BY <3>1, <3>2, ConsumeTyped
    <3> QED
      BY <3>1, <3>5, <3>6 DEF TypeOK
  <2> QED
    BY <1>8, <2>1 DEF RecvPayload, RecvPadding
<1> QED
  BY <1>1, <1>2, <1>3, <1>4, <1>5, <1>6, <1>7, <1>8 DEF Reads

\* What the transport may take of n units.
LEMMA TakesBounds ==
  ASSUME TypeOK, NEW e \in Peers, NEW n \in Nat, n > 0, NEW k \in Takes(e, n)
  PROVE  k \in 0 .. n /\ (k = 0 => Room(e) = 0) /\ (k # 0 => Room(e) # 0)
<1>1. Room(e) \in Int
  BY EndTyped, SizesAssumption DEF Room
<1>2. Min({n, Room(e)}) \in Int /\ Min({n, Room(e)}) <= n
  <2>1. \E x \in {n, Room(e)} : \A y \in {n, Room(e)} : x <= y
    BY <1>1
  <2>2. /\ Min({n, Room(e)}) \in {n, Room(e)}
        /\ \A y \in {n, Room(e)} : Min({n, Room(e)}) <= y
    BY <2>1 DEF Min
  <2> QED
    BY <1>1, <2>2
<1> HIDE DEF Room
<1>3. CASE Room(e) = 0
  BY <1>3 DEF Takes
<1>4. CASE Room(e) # 0
  BY <1>1, <1>2, <1>4 DEF Takes
<1> QED
  BY <1>3, <1>4

\* What an endpoint writes to the transport is tokens.
LEMMA SendTyped ==
  ASSUME TypeOK, NEW e \in Peers, NEW s \in Seq(Tokens), Send(e, s)
  PROVE  wire' \in [Peers -> Seq(Tokens)]
<1>1. wire \in [Peers -> Seq(Tokens)] /\ wire[e] \o s \in Seq(Tokens)
  BY DEF TypeOK
<1> QED
  BY <1>1 DEF Send

\* A call that the transport blocks returns, typed.
LEMMA BlockedTyped ==
  ASSUME TypeOK, NEW e \in Peers, Blocked(e) \/ UNCHANGED lib
  PROVE  lib' \in [Peers -> CallRecords]
<1>1. lib \in [Peers -> CallRecords]
  BY DEF TypeOK
<1>2. [lib EXCEPT ![e].pc = "app"] \in [Peers -> CallRecords]
  BY <1>1, CallWritten
<1> QED
  BY <1>1, <1>2, CallWritten DEF Blocked

\* A prepared packet leaves the transmitter and the call typed.
LEMMA PreparePacketTyped ==
  ASSUME TypeOK, NEW e \in Peers, NEW s \in XmitStates, NEW p \in Tokens,
         PreparePacket(e, s, p)
  PROVE  xmit' \in [Peers -> XmitRecords] /\ lib' \in [Peers -> CallRecords]
<1>1. xmit \in [Peers -> XmitRecords] /\ lib \in [Peers -> CallRecords]
  BY DEF TypeOK
<1>2. [xmit EXCEPT ![e].state = s] \in [Peers -> XmitRecords] /\ <<p>> \in Seq(Tokens)
  BY <1>1, XmitWritten
<1>3. xmit' \in [Peers -> XmitRecords]
  BY <1>2, XmitWritten DEF PreparePacket
<1> QED
  BY <1>1, <1>3, CallWritten DEF PreparePacket

\* The size of a packet is a number of units, and within what the peer
\* accepts.
LEMMA SeqSizeTyped ==
  ASSUME TypeOK, NEW e \in Peers, NEW c \in Channels
  PROVE  /\ SeqSize(e, c) \in Nat
         /\ SeqSize(e, c) \in {MaxPayload[e], Uint64(chan[e][c].xlimit - chan[e][c].xseq),
                               Uint64(chan[e][c].xarm - chan[e][c].xseq)}
<1> DEFINE a == Uint64(chan[e][c].xlimit - chan[e][c].xseq)
           b == Uint64(chan[e][c].xarm - chan[e][c].xseq)
<1>1. /\ chan[e][c].xlimit - chan[e][c].xseq \in Int
      /\ chan[e][c].xarm - chan[e][c].xseq \in Int
  BY ChanTyped
<1>2. a \in Nat /\ b \in Nat /\ MaxPayload[e] \in Nat
  BY <1>1, Conversions, SizesAssumption
<1> HIDE DEF a, b
<1>3. Min({MaxPayload[e], a, b}) \in {MaxPayload[e], a, b}
  BY <1>2, MinIsLeast
<1> QED
  BY <1>2, <1>3 DEF SeqSize, a, b

\* What is sent and prepared.
LEMMA WritesTyped ==
  ASSUME TypeInv, NEW e \in Peers, Writes(e)
  PROVE  TypeInv'
<1> USE DEF TypeInv
<1>0. /\ chan \in [Peers -> [Channels -> ChanRecords]]
      /\ lib \in [Peers -> CallRecords] /\ xmit \in [Peers -> XmitRecords]
      /\ ping \in [Peers -> PingRecords]
  BY DEF TypeOK
<1>1. CASE SendBuffer(e)
  <2>1. PICK n \in Takes(e, Len(xmit[e].buffer)) :
          /\ Send(e, SubSeq(xmit[e].buffer, 1, n))
          /\ xmit' = [xmit EXCEPT ![e].buffer = SubSeq(@, n + 1, Len(@))]
          /\ IF n < Len(xmit[e].buffer) THEN Blocked(e) ELSE UNCHANGED lib
    BY <1>1 DEF SendBuffer
  <2>2. xmit[e].buffer \in Seq(Tokens) /\ Len(xmit[e].buffer) > 0
    BY <1>1, EndTyped DEF SendBuffer
  <2>3. n \in 0 .. Len(xmit[e].buffer)
    BY <2>2, TakesBounds
  <2>4. /\ SubSeq(xmit[e].buffer, 1, n) \in Seq(Tokens)
        /\ SubSeq(xmit[e].buffer, n + 1, Len(xmit[e].buffer)) \in Seq(Tokens)
    BY <2>2, <2>3, PieceTyped
  <2>5. wire' \in [Peers -> Seq(Tokens)] /\ xmit' \in [Peers -> XmitRecords]
    BY <1>0, <2>1, <2>4, SendTyped, XmitWritten
  <2>6. lib' \in [Peers -> CallRecords]
    BY <2>1, BlockedTyped
  <2> QED
    BY <1>1, <2>5, <2>6 DEF SendBuffer, TypeOK
<1>2. CASE SendPayload(e)
  <2>1. PICK n \in Takes(e, xmit[e].payload) :
          /\ Send(e, Units("DATA", n))
          /\ xmit' = [xmit EXCEPT ![e].payload = @ - n]
          /\ IF n = 0 THEN Blocked(e) ELSE UNCHANGED lib
    BY <1>2 DEF SendPayload
  <2>2. n \in 0 .. xmit[e].payload /\ xmit[e].payload \in Nat
    BY <1>2, EndTyped, TakesBounds DEF SendPayload
  <2>3. Units("DATA", n) \in Seq(Tokens) /\ xmit[e].payload - n \in Nat
    BY <2>2, UnitsTyped
  <2>4. wire' \in [Peers -> Seq(Tokens)] /\ xmit' \in [Peers -> XmitRecords]
    BY <1>0, <2>1, <2>3, SendTyped, XmitWritten
  <2>5. lib' \in [Peers -> CallRecords]
    BY <2>1, BlockedTyped
  <2> QED
    BY <1>2, <2>4, <2>5 DEF SendPayload, TypeOK
<1>3. CASE SendPadding(e)
  <2>1. PICK n \in Takes(e, xmit[e].padding) :
          /\ Send(e, Units("PAD", n))
          /\ xmit' = [xmit EXCEPT ![e].padding = @ - n,
                                  ![e].buffer = Units("PAD", xmit[e].padding - n)]
    BY <1>3 DEF SendPadding
  <2>2. n \in 0 .. xmit[e].padding /\ xmit[e].padding \in Nat
    BY <1>3, EndTyped, TakesBounds DEF SendPadding
  <2>3. /\ Units("PAD", n) \in Seq(Tokens) /\ xmit[e].padding - n \in Nat
        /\ Units("PAD", xmit[e].padding - n) \in Seq(Tokens)
    BY <2>2, UnitsTyped
  <2>4. wire' \in [Peers -> Seq(Tokens)]
    BY <2>1, <2>3, SendTyped
  <2>5. xmit' \in [Peers -> XmitRecords]
    <3>1. [xmit EXCEPT ![e].padding = @ - n] \in [Peers -> XmitRecords]
      BY <1>0, <2>3, XmitWritten
    <3> QED
      BY <2>1, <2>3, <3>1, XmitWritten
  <2>6. lib' \in [Peers -> CallRecords]
    BY <1>0, <1>3, CallWritten DEF SendPadding
  <2> QED
    BY <1>3, <2>4, <2>5, <2>6 DEF SendPadding, TypeOK
<1>4. CASE PrepareAcceptance(e)
  <2>1. Packet("ACCEPT") \in Tokens /\ Packet("ABORT") \in Tokens
    BY TokenTyped, Numbers DEF Packet, PacketTypes
  <2>2. xmit' \in [Peers -> XmitRecords] /\ lib' \in [Peers -> CallRecords]
    BY <1>4, <2>1, PreparePacketTyped DEF PrepareAcceptance, XmitStates
  <2> QED
    BY <1>4, <2>2 DEF PrepareAcceptance, TypeOK
<1>5. CASE PreparePayload(e)
  <2>1. xmit' \in [Peers -> XmitRecords]
    BY <1>0, <1>5, XmitWritten DEF PreparePayload, XmitStates
  <2> QED
    BY <1>5, <2>1 DEF PreparePayload, TypeOK
<1>6. CASE PreparePong(e)
  <2>1. Packet("PONG") \in Tokens
    BY TokenTyped, Numbers DEF Packet, PacketTypes
  <2>2. xmit' \in [Peers -> XmitRecords] /\ lib' \in [Peers -> CallRecords]
    BY <1>6, <2>1, PreparePacketTyped DEF PreparePong, XmitStates
  <2>3. ping' \in [Peers -> PingRecords]
    BY <1>0, <1>6, PingWritten DEF PreparePong
  <2> QED
    BY <1>6, <2>2, <2>3 DEF PreparePong, TypeOK
<1>7. CASE PreparePing(e)
  <2>1. Packet("PING") \in Tokens
    BY TokenTyped, Numbers DEF Packet, PacketTypes
  <2>2. xmit' \in [Peers -> XmitRecords] /\ lib' \in [Peers -> CallRecords]
    BY <1>7, <2>1, PreparePacketTyped DEF PreparePing, XmitStates
  <2>3. ping' \in [Peers -> PingRecords]
    BY <1>0, <1>7, PingWritten DEF PreparePing
  <2> QED
    BY <1>7, <2>2, <2>3 DEF PreparePing, TypeOK
<1>8. CASE PrepareArm(e)
  <2> DEFINE c == Popped(ctrl[e])
             t == Token("ARM", c, Int32(chan[e][c].rarm), 0)
  <2>1. /\ ctrl' = [ctrl EXCEPT ![e] = PopNextRequest(@)] /\ Pending(ctrl[e]) # {}
        /\ UNCHANGED <<data, recv, ping, wire>>
    BY <1>8 DEF PrepareArm
  <2>2. ctrl' \in [Peers -> Lists] /\ (\A x \in Peers : Paired(ctrl'[x])) /\ c \in Channels
    BY <2>1, PopTyped DEF TypeOK
  <2>3. CASE chan[e][c].armFlag
    <3>1. PreparePacket(e, "Arm", t) /\ chan' = [chan EXCEPT ![e][c].armFlag = FALSE]
      BY <1>8, <2>3 DEF PrepareArm
    <3>2. t \in Tokens
      <4>1. chan[e][c].rarm \in Int
        BY <2>2, ChanTyped
      <4>2. Int32(chan[e][c].rarm) \in Nat /\ c \in Entries
        BY <2>2, <4>1, Conversions, Numbers
      <4> QED
        BY <4>2, TokenTyped DEF PacketTypes
    <3>3. xmit' \in [Peers -> XmitRecords] /\ lib' \in [Peers -> CallRecords]
      BY <3>1, <3>2, PreparePacketTyped DEF XmitStates
    <3>4. chan' \in [Peers -> [Channels -> ChanRecords]]
      BY <1>0, <2>2, <3>1, ChanWritten
    <3> QED
      BY <2>1, <2>2, <3>3, <3>4 DEF TypeOK
  <2>4. CASE ~ chan[e][c].armFlag
    <3>1. lib' = [lib EXCEPT ![e].pc = "dead"] /\ UNCHANGED <<chan, xmit>>
      BY <1>8, <2>4 DEF PrepareArm
    <3>2. lib' \in [Peers -> CallRecords]
      BY <1>0, <3>1, CallWritten
    <3> QED
      BY <2>1, <2>2, <3>1, <3>2 DEF TypeOK
  <2> QED
    BY <2>3, <2>4
<1>9. CASE PrepareSeq(e)
  <2> DEFINE c    == Popped(data[e])
             size == SeqSize(e, c)
             r    == [state   |-> "Seq",
                      buffer  |-> <<Token("SEQ", c, Int32(chan[e][c].xseq), size)>>,
                      payload |-> size, padding |-> Padding(size)]
  <2>1. /\ data' = [data EXCEPT ![e] = PopNextRequest(@)] /\ Pending(data[e]) # {}
        /\ chan' = [chan EXCEPT ![e][c].xseq = @ + size]
        /\ xmit' = [xmit EXCEPT ![e] = r]
        /\ lib' = [lib EXCEPT ![e].pc = "send"]
        /\ UNCHANGED <<ctrl, recv, ping, wire>>
    BY <1>9 DEF PrepareSeq
  <2>2. data' \in [Peers -> Lists] /\ (\A x \in Peers : Paired(data'[x])) /\ c \in Channels
    BY <2>1, PopTyped DEF TypeOK
  <2>3. size \in Nat /\ Padding(size) \in Nat
    BY <2>2, SeqSizeTyped, Conversions
  <2>4. chan[e][c].xseq \in Nat /\ chan[e][c].xseq + size \in Nat
        /\ Int32(chan[e][c].xseq) \in Nat
    BY <2>2, <2>3, ChanTyped, Conversions
  <2>5. chan' \in [Peers -> [Channels -> ChanRecords]]
    BY <1>0, <2>1, <2>2, <2>4, ChanWritten
  <2>6. r \in XmitRecords
    <3>1. <<Token("SEQ", c, Int32(chan[e][c].xseq), size)>> \in Seq(Tokens)
      <4>1. c \in Entries
        BY <2>2, Numbers
      <4>2. Token("SEQ", c, Int32(chan[e][c].xseq), size) \in Tokens
        BY <2>3, <2>4, <4>1, TokenTyped DEF PacketTypes
      <4> QED
        BY <4>2
    <3> QED
      BY <2>3, <3>1 DEF XmitRecords, XmitStates
  <2>7. xmit' \in [Peers -> XmitRecords] /\ lib' \in [Peers -> CallRecords]
    BY <1>0, <2>1, <2>6, CallWritten
  <2> QED
    BY <2>1, <2>2, <2>5, <2>7 DEF TypeOK
<1>10. CASE PrepareNothing(e)
  <2> DEFINE s == IF BecomesIdle(e) THEN "Idle" ELSE xmit[e].state
  <2>1. s \in XmitStates
    BY EndTyped DEF XmitStates
  <2>2. xmit' = [xmit EXCEPT ![e].state = s] /\ lib' = [lib EXCEPT ![e].pc = "app"]
    BY <1>10 DEF PrepareNothing
  <2>3. xmit' \in [Peers -> XmitRecords] /\ lib' \in [Peers -> CallRecords]
    BY <1>0, <2>1, <2>2, XmitWritten, CallWritten
  <2> QED
    BY <1>10, <2>3 DEF PrepareNothing, TypeOK
<1> QED
  BY <1>1, <1>2, <1>3, <1>4, <1>5, <1>6, <1>7, <1>8, <1>9, <1>10 DEF Writes

\* The initial state.
LEMMA InitTyped ==
  ASSUME Init
  PROVE  TypeInv
<1>1. \A e \in Peers : /\ ctrl[e] = EmptyLists /\ data[e] = EmptyLists
  BY DEF Init
<1>2. ctrl \in [Peers -> Lists] /\ data \in [Peers -> Lists]
      /\ \A e \in Peers : Paired(ctrl[e]) /\ Paired(data[e])
  BY <1>1, EmptyListsPaired DEF Init
<1>3. chan \in [Peers -> [Channels -> ChanRecords]]
  BY DEF Init, ChanRecords
<1>4. xmit \in [Peers -> XmitRecords]
  <2>1. Packet("SETUP") \in Tokens
    BY TokenTyped, Numbers DEF Packet, PacketTypes
  <2> QED
    BY <2>1 DEF Init, XmitRecords, XmitStates
<1>5. recv \in [Peers -> RecvRecords] /\ wire \in [Peers -> Seq(Tokens)]
  BY DEF Init, RecvRecords, RecvStates
<1>6. ping \in [Peers -> PingRecords] /\ lib \in [Peers -> CallRecords]
  BY DEF Init, PingRecords, CallRecords, Errors
<1> QED
  BY <1>2, <1>3, <1>4, <1>5, <1>6 DEF TypeInv, TypeOK

\* The invariant that type correctness is a part of.
LEMMA TypeInvKept == Spec => []TypeInv
<1>1. Init => TypeInv
  BY InitTyped
<1>2. TypeInv /\ [Next]_vars => TypeInv'
  <2> SUFFICES ASSUME TypeInv, [Next]_vars PROVE TypeInv'
    OBVIOUS
  <2>1. CASE UNCHANGED vars
    BY <2>1 DEF vars, TypeInv, TypeOK
  <2>2. ASSUME NEW e \in Peers, AppCall(e)
        PROVE  TypeInv'
    BY <2>2, AppCallTyped
  <2>3. ASSUME NEW e \in Peers, Reads(e)
        PROVE  TypeInv'
    BY <2>3, ReadsTyped
  <2>4. ASSUME NEW e \in Peers, Writes(e)
        PROVE  TypeInv'
    BY <2>4, WritesTyped
  <2>5. ASSUME NEW e \in Peers, HandleNetwork(e) \/ RecvNothing(e)
        PROVE  TypeInv'
    <3>1. lib \in [Peers -> CallRecords]
      BY DEF TypeInv, TypeOK
    <3>2. lib' \in [Peers -> CallRecords]
      <4>1. CASE HandleNetwork(e)
        <5>1. [lib EXCEPT ![e].pc = "recv"] \in [Peers -> CallRecords]
          BY <3>1, CallWritten
        <5> QED
          BY <4>1, <5>1, CallWritten DEF HandleNetwork
      <4>2. CASE RecvNothing(e)
        BY <3>1, <4>2, CallWritten DEF RecvNothing
      <4> QED
        BY <2>5, <4>1, <4>2
    <3> QED
      BY <2>5, <3>2 DEF HandleNetwork, RecvNothing, TypeInv, TypeOK
  <2> QED
    BY <2>1, <2>2, <2>3, <2>4, <2>5 DEF Next, Library
<1> QED
  BY <1>1, <1>2, PTL DEF Spec

\* Whatever the applications do and however the transport splits the packets,
\* the state of both endpoints keeps its type: no counter becomes negative,
\* no pop names a channel that does not exist, no link leaves the lists.
THEOREM LinkTyped == Spec => []TypeOK
<1>1. TypeInv => TypeOK
  BY DEF TypeInv
<1> QED
  BY <1>1, TypeInvKept, PTL

-----------------------------------------------------------------------------
(* Applications that work in whole words: the packet sizes, the amounts    *)
(* and the limits are multiples of the alignment (of any kind, if it is 1, *)
(* as in a link without padding), and so is the width of the positions.    *)
(* Then no packet has padding, and Framing below can hold; where packets   *)
(* have padding it does not: see the run LinkPadSplit.                     *)

Whole(n) == \E k \in Int : n = Align * k

WholeWords ==
  /\ Whole(Wrap)
  /\ \A e \in Peers : Whole(MaxPayload[e])
  /\ \A n \in AddSizes \cup XmitLimits \cup RecvLimits : Whole(n)

WholeTokens == {t \in Tokens : Whole(t.val) /\ Whole(t.size)}

WholeChan(k) == Whole(k.xseq) /\ Whole(k.xarm) /\ Whole(k.xlimit) /\ Whole(k.rarm)

WholeInv ==
  /\ \A e \in Peers, c \in Channels : WholeChan(chan[e][c])
  /\ \A e \in Peers :
       /\ xmit[e].padding = 0 /\ recv[e].padding = 0 /\ lib[e].pc # "prepare"
       /\ wire[e] \in Seq(WholeTokens) /\ xmit[e].buffer \in Seq(WholeTokens)

\* Zero, sums and differences of whole words are whole words.
LEMMA WholeSums ==
  /\ Whole(0)
  /\ \A m, n \in Int : Whole(m) /\ Whole(n) => Whole(m + n) /\ Whole(m - n)
<1>1. 0 = Align * 0
  BY SizesAssumption
<1>2. ASSUME NEW m \in Int, NEW n \in Int, Whole(m), Whole(n)
      PROVE  Whole(m + n) /\ Whole(m - n)
  <2>1. PICK j \in Int : m = Align * j
    BY <1>2 DEF Whole
  <2>2. PICK k \in Int : n = Align * k
    BY <1>2 DEF Whole
  <2>3. m + n = Align * (j + k) /\ m - n = Align * (j - k)
    BY <2>1, <2>2, SizesAssumption
  <2> QED
    BY <2>3 DEF Whole
<1> QED
  BY <1>1, <1>2 DEF Whole

\* What is left of whole words by a division by a number of whole words.
LEMMA WholeModulo ==
  ASSUME NEW n \in Int, NEW w \in Nat \ {0}, Whole(n), Whole(w)
  PROVE  Whole(n % w)
<1> DEFINE q == n \div w
<1>1. PICK j \in Int : n = Align * j
  BY DEF Whole
<1>2. PICK k \in Int : w = Align * k
  BY DEF Whole
<1>3. q \in Int /\ n % w \in Int /\ n % w = n - w * q
  OBVIOUS
<1> HIDE DEF q
<1>4. n % w = Align * (j - k * q) /\ j - k * q \in Int
  BY <1>1, <1>2, <1>3, SizesAssumption
<1> QED
  BY <1>4 DEF Whole

\* The conversions keep whole words, and a packet of whole words has no padding.
LEMMA WholeConversions ==
  ASSUME WholeWords, NEW n \in Int, Whole(n)
  PROVE  Whole(Int32(n)) /\ Whole(Uint64(n)) /\ Padding(n) = 0
<1>1. Whole(Int32(n))
  BY WholeModulo, SizesAssumption DEF WholeWords, Int32
<1>2. Whole(Wrap * Wrap) /\ Wrap * Wrap \in Nat \ {0}
  <2>1. PICK k \in Int : Wrap = Align * k
    BY DEF WholeWords, Whole
  <2>2. Wrap * Wrap = Align * (k * Wrap) /\ k * Wrap \in Int
    BY <2>1, SizesAssumption
  <2>3. Wrap * Wrap \in Nat \ {0}
    BY SizesAssumption
  <2> QED
    BY <2>2, <2>3 DEF Whole
<1>3. Whole(Uint64(n))
  BY <1>2, WholeModulo DEF Uint64
<1>4. Padding(n) = 0
  <2>1. PICK k \in Int : n = Align * k
    BY DEF Whole
  <2>2. n % Align = 0 /\ Align % Align = 0
    BY <2>1, SizesAssumption
  <2> QED
    BY <2>2, SizesAssumption DEF Padding
<1> QED
  BY <1>1, <1>3, <1>4

\* The size of a packet is a number of whole words.
LEMMA WholeSize ==
  ASSUME WholeWords, WholeInv, TypeOK, NEW e \in Peers, NEW c \in Channels
  PROVE  Whole(SeqSize(e, c)) /\ Padding(SeqSize(e, c)) = 0
<1>1. /\ chan[e][c].xlimit \in Int /\ chan[e][c].xseq \in Int /\ chan[e][c].xarm \in Int
      /\ Whole(chan[e][c].xlimit) /\ Whole(chan[e][c].xseq) /\ Whole(chan[e][c].xarm)
  BY ChanTyped DEF WholeInv, WholeChan
<1>2. /\ Whole(Uint64(chan[e][c].xlimit - chan[e][c].xseq))
      /\ Whole(Uint64(chan[e][c].xarm - chan[e][c].xseq))
  <2>1. /\ Whole(chan[e][c].xlimit - chan[e][c].xseq)
        /\ Whole(chan[e][c].xarm - chan[e][c].xseq)
    BY <1>1, WholeSums
  <2>2. /\ chan[e][c].xlimit - chan[e][c].xseq \in Int
        /\ chan[e][c].xarm - chan[e][c].xseq \in Int
    BY <1>1
  <2> QED
    BY <2>1, <2>2, WholeConversions
<1>3. Whole(SeqSize(e, c)) /\ SeqSize(e, c) \in Int
  BY <1>2, SeqSizeTyped DEF WholeWords
<1> QED
  BY <1>3, WholeConversions

\* Nothing that holds whole words changes.
LEMMA WholeUnchanged ==
  ASSUME WholeInv, UNCHANGED <<chan, xmit, recv, wire>>,
         \A e \in Peers : lib'[e].pc # "prepare"
  PROVE  WholeInv'
BY DEF WholeInv, WholeChan, Whole

\* A limit or a position of a channel is replaced by whole words.
LEMMA WholeChanWritten ==
  ASSUME TypeOK, WholeInv, NEW e \in Peers, NEW c \in Channels, NEW n, Whole(n),
         \/ chan' = [chan EXCEPT ![e][c].xlimit = n]
         \/ chan' = [chan EXCEPT ![e][c].xarm = n]
         \/ chan' = [chan EXCEPT ![e][c].xseq = n]
         \/ \E b \in BOOLEAN : chan' = [chan EXCEPT ![e][c].rarm = n, ![e][c].armFlag = b]
         \/ chan' = [chan EXCEPT ![e][c].armFlag = FALSE]
         \/ \E m \in Nat : chan' = [chan EXCEPT ![e][c].rseq = m]
  PROVE  \A x \in Peers, d \in Channels : WholeChan(chan[x][d])'
<1> SUFFICES ASSUME NEW x \in Peers, NEW d \in Channels PROVE WholeChan(chan[x][d])'
  OBVIOUS
<1>1. chan \in [Peers -> [Channels -> ChanRecords]] /\ WholeChan(chan[x][d])
  BY DEF TypeOK, WholeInv
<1>2. chan[x][d] \in ChanRecords
  BY <1>1
<1>3. CASE chan' = [chan EXCEPT ![e][c].xlimit = n]
  BY <1>1, <1>2, <1>3 DEF ChanRecords, WholeChan
<1>4. CASE chan' = [chan EXCEPT ![e][c].xarm = n]
  BY <1>1, <1>2, <1>4 DEF ChanRecords, WholeChan
<1>5. CASE chan' = [chan EXCEPT ![e][c].xseq = n]
  BY <1>1, <1>2, <1>5 DEF ChanRecords, WholeChan
<1>6. ASSUME NEW b \in BOOLEAN,
             chan' = [chan EXCEPT ![e][c].rarm = n, ![e][c].armFlag = b]
      PROVE  WholeChan(chan[x][d])'
  BY <1>1, <1>2, <1>6 DEF ChanRecords, WholeChan
<1>7. CASE chan' = [chan EXCEPT ![e][c].armFlag = FALSE]
  BY <1>1, <1>2, <1>7 DEF ChanRecords, WholeChan
<1>8. ASSUME NEW m \in Nat, chan' = [chan EXCEPT ![e][c].rseq = m]
      PROVE  WholeChan(chan[x][d])'
  BY <1>1, <1>2, <1>8 DEF ChanRecords, WholeChan
<1> QED
  BY <1>3, <1>4, <1>5, <1>6, <1>7, <1>8

\* A call of the application leaves what is sent and received alone, and
\* the place in HandleNetwork; what it leaves to send, it announces.
LEMMA AppCallKeepsPlace ==
  ASSUME TypeOK, NEW e \in Peers, AppCall(e)
  PROVE  /\ UNCHANGED <<xmit, recv, wire>> /\ \A x \in Peers : lib'[x].pc = lib[x].pc
         /\ \/ lib'[e].writeRequest
            \/ /\ lib'[e].writeRequest = lib[e].writeRequest
               /\ UNCHANGED <<ctrl, data, ping>>
<1>1. lib \in [Peers -> CallRecords]
  BY DEF TypeOK
<1>2. \/ lib' = lib /\ UNCHANGED <<ctrl, data, ping>>
      \/ lib' = [lib EXCEPT ![e].writeRequest = TRUE]
      \/ \E r \in Errors : /\ lib' = [lib EXCEPT ![e] = ReportError(@, r)]
                           /\ UNCHANGED <<ctrl, data, ping>>
  BY DEF AppCall, AddXmitLimit, AddRecvLimit, SetXmitLimit, SetRecvLimit, StartPing,
         RequestDataIf, Errors
<1>3. ASSUME NEW r \in Errors
      PROVE  /\ ReportError(lib[e], r).pc = lib[e].pc
             /\ ReportError(lib[e], r).writeRequest = lib[e].writeRequest
  BY <1>1 DEF ReportError, CallRecords
<1>4. \A x \in Peers : lib'[x].pc = lib[x].pc
  BY <1>1, <1>2, <1>3 DEF CallRecords
<1>5. UNCHANGED <<xmit, recv, wire>>
  BY DEF AppCall, AddXmitLimit, AddRecvLimit, SetXmitLimit, SetRecvLimit, StartPing
<1>6. \/ lib'[e].writeRequest
      \/ /\ lib'[e].writeRequest = lib[e].writeRequest
         /\ UNCHANGED <<ctrl, data, ping>>
  BY <1>1, <1>2, <1>3 DEF CallRecords
<1> QED
  BY <1>4, <1>5, <1>6

\* The calls of the application.
LEMMA WholeAppCall ==
  ASSUME WholeWords, TypeInv, WholeInv, NEW e \in Peers, AppCall(e)
  PROVE  WholeInv'
<1> USE DEF TypeInv
<1>0. lib \in [Peers -> CallRecords] /\ chan \in [Peers -> [Channels -> ChanRecords]]
  BY DEF TypeOK
<1>1. UNCHANGED <<xmit, recv, wire>> /\ \A x \in Peers : lib'[x].pc = lib[x].pc
  BY AppCallKeepsPlace
<1>2. \A x \in Peers, d \in Channels : WholeChan(chan[x][d])'
  <2>1. ASSUME NEW c \in Channels, NEW n \in AddSizes, AddXmitLimit(e, c, n)
        PROVE  \A x \in Peers, d \in Channels : WholeChan(chan[x][d])'
    <3>1. Whole(chan[e][c].xlimit + n)
      <4>1. Whole(chan[e][c].xlimit) /\ Whole(n)
        BY DEF WholeInv, WholeWords, WholeChan
      <4>2. chan[e][c].xlimit \in Int /\ n \in Int
        BY ChanTyped, AmountsAssumption
      <4> QED
        BY <4>1, <4>2, WholeSums
    <3>2. chan' = [chan EXCEPT ![e][c].xlimit = chan[e][c].xlimit + n]
      BY <1>0, <2>1 DEF AddXmitLimit
    <3> QED
      BY <3>1, <3>2, WholeChanWritten
  <2>2. ASSUME NEW c \in Channels, NEW n \in AddSizes, AddRecvLimit(e, c, n)
        PROVE  \A x \in Peers, d \in Channels : WholeChan(chan[x][d])'
    <3>1. Whole(chan[e][c].rarm + n)
      <4>1. Whole(chan[e][c].rarm) /\ Whole(n)
        BY DEF WholeInv, WholeWords, WholeChan
      <4>2. chan[e][c].rarm \in Int /\ n \in Int
        BY ChanTyped, AmountsAssumption
      <4> QED
        BY <4>1, <4>2, WholeSums
    <3>2. chan' = [chan EXCEPT ![e][c].rarm = chan[e][c].rarm + n, ![e][c].armFlag = TRUE]
      BY <1>0, <2>2 DEF AddRecvLimit
    <3> QED
      BY <3>1, <3>2, WholeChanWritten
  <2>3. ASSUME NEW c \in Channels, NEW n \in XmitLimits, SetXmitLimit(e, c, n)
        PROVE  \A x \in Peers, d \in Channels : WholeChan(chan[x][d])'
    <3>1. Whole(n) /\ (chan' = chan \/ chan' = [chan EXCEPT ![e][c].xlimit = n])
      BY <2>3 DEF SetXmitLimit, WholeWords
    <3>2. CASE chan' = chan
      BY <3>2 DEF WholeInv, WholeChan
    <3> QED
      BY <3>1, <3>2, WholeChanWritten
  <2>4. ASSUME NEW c \in Channels, NEW n \in RecvLimits, SetRecvLimit(e, c, n)
        PROVE  \A x \in Peers, d \in Channels : WholeChan(chan[x][d])'
    <3>1. Whole(n) /\ chan' = [chan EXCEPT ![e][c].xlimit = n]
      BY <2>4 DEF SetRecvLimit, WholeWords
    <3> QED
      BY <3>1, WholeChanWritten
  <2>5. CASE StartPing(e)
    BY <2>5 DEF StartPing, WholeInv
  <2> QED
    BY <2>1, <2>2, <2>3, <2>4, <2>5 DEF AppCall
<1> QED
  BY <1>1, <1>2 DEF WholeInv

\* What a header says is whole words.
LEMMA WholeHead ==
  ASSUME TypeOK, WholeInv, NEW e \in Peers, NEW t, Receives(e, t)
  PROVE  Whole(Head(Inbound(e)).val) /\ Whole(Head(Inbound(e)).size)
<1>1. Inbound(e) \in Seq(WholeTokens) /\ Inbound(e) # <<>>
  BY TwoPeers DEF Inbound, WholeInv, Receives
<1>2. Head(Inbound(e)) \in WholeTokens
  BY <1>1
<1> QED
  BY <1>2 DEF WholeTokens

\* The packets that are received, and the parts of a body.
LEMMA WholeReads ==
  ASSUME WholeWords, TypeInv, WholeInv, NEW e \in Peers, Reads(e)
  PROVE  WholeInv'
<1> USE DEF TypeInv
<1>0. /\ lib \in [Peers -> CallRecords] /\ recv \in [Peers -> RecvRecords]
      /\ chan \in [Peers -> [Channels -> ChanRecords]]
      /\ wire \in [Peers -> Seq(WholeTokens)]
  BY DEF TypeOK, WholeInv
<1>1. ASSUME NEW x \in Errors, Refuse(e, x)
      PROVE  WholeInv'
  <2>1. \A p \in Peers : lib'[p].pc # "prepare"
    <3>1. ReportError(lib[e], x) \in CallRecords
      BY <1>0, CallWritten
    <3>2. \A r \in CallRecords : [r EXCEPT !.pc = "send"].pc = "send"
      BY DEF CallRecords
    <3> QED
      BY <1>0, <1>1, <3>1, <3>2 DEF Refuse, WholeInv
  <2>2. \A p \in Peers : recv'[p].padding = recv[p].padding
    BY <1>0, <1>1 DEF Refuse, RecvRecords
  <2> QED
    BY <1>1, <2>1, <2>2 DEF Refuse, WholeInv, WholeChan
<1>2. ASSUME NEW t, Receives(e, t), Consume(e, 1),
             \A p \in Peers : recv'[p].padding = recv[p].padding,
             \A p \in Peers : lib'[p].pc = lib[p].pc,
             \A p \in Peers, d \in Channels : WholeChan(chan[p][d])',
             UNCHANGED xmit
      PROVE  WholeInv'
  <2>1. wire' \in [Peers -> Seq(WholeTokens)]
    BY <1>0, <1>2, HeadTyped, ConsumeKeeps
  <2> QED
    BY <1>2, <2>1 DEF WholeInv
<1>3. UNCHANGED chan => \A p \in Peers, d \in Channels : WholeChan(chan[p][d])'
  BY DEF WholeInv, WholeChan
<1>4. \A s \in RecvStates, p \in Peers :
        recv' = [recv EXCEPT ![e].state = s] => recv'[p].padding = recv[p].padding
  BY <1>0 DEF RecvRecords
<1>5. CASE RecvSetup(e)
  <2>1. \A p \in Peers : recv'[p].padding = recv[p].padding
    BY <1>0, <1>5 DEF RecvSetup, RecvRecords
  <2> QED
    BY <1>2, <1>3, <1>5, <2>1 DEF RecvSetup
<1>6. CASE RecvAccept(e) \/ RecvPing(e) \/ RecvPong(e)
  BY <1>2, <1>3, <1>4, <1>6 DEF RecvAccept, RecvPing, RecvPong, RecvStates
<1>7. CASE RecvUnknown(e)
  BY <1>1, <1>7 DEF RecvUnknown, Errors
<1>8. CASE RecvArm(e)
  <2> DEFINE c == Head(Inbound(e)).ch
             arm == Head(Inbound(e)).val
  <2>1. CASE c \notin Channels
    BY <1>1, <1>8, <2>1 DEF RecvArm, Errors
  <2>2. CASE c \in Channels
    <3>1. /\ chan' = [chan EXCEPT ![e][c].xarm = arm]
          /\ recv' = [recv EXCEPT ![e].state = "Ready"]
          /\ Consume(e, 1) /\ UNCHANGED xmit /\ Receives(e, "ARM")
          /\ lib' = lib \/ lib' = [lib EXCEPT ![e].writeRequest = TRUE]
      BY <1>8, <2>2 DEF RecvArm, RequestDataIf
    <3>2. \A p \in Peers : lib'[p].pc = lib[p].pc
      <4>1. CASE lib' = lib
        BY <4>1
      <4>2. CASE lib' = [lib EXCEPT ![e].writeRequest = TRUE]
        BY <1>0, <4>2 DEF CallRecords
      <4> QED
        BY <3>1, <4>1, <4>2
    <3>3. \A p \in Peers, d \in Channels : WholeChan(chan[p][d])'
      BY <2>2, <3>1, WholeHead, WholeChanWritten
    <3> QED
      BY <1>2, <1>4, <3>1, <3>2, <3>3 DEF RecvStates
  <2> QED
    BY <2>1, <2>2
<1>9. CASE RecvSeq(e)
  <2> DEFINE t == Head(Inbound(e))
  <2>1. CASE t.ch \notin Channels \/ t.val # Int32(chan[e][t.ch].rseq)
    BY <1>1, <1>9, <2>1 DEF RecvSeq, Errors
  <2>2. CASE t.ch \in Channels /\ t.val = Int32(chan[e][t.ch].rseq)
    <3> DEFINE s == IF t.size > 0 THEN "SeqPayload" ELSE "Ready"
    <3>1. /\ chan' = [chan EXCEPT ![e][t.ch].rseq = @ + t.size]
          /\ recv' = [recv EXCEPT ![e].state = s,
                      ![e].payload = t.size, ![e].padding = Padding(t.size)]
          /\ Consume(e, 1) /\ UNCHANGED <<xmit, lib>> /\ Receives(e, "SEQ")
      BY <1>9, <2>2 DEF RecvSeq
    <3>2. Whole(t.size) /\ t.size \in Nat /\ Padding(t.size) = 0
      BY <3>1, HeadTyped, WholeHead, WholeConversions
    <3>3. \A p \in Peers : recv'[p].padding = recv[p].padding
      <4>1. recv'[e].padding = 0
        BY <1>0, <3>1, <3>2 DEF RecvRecords
      <4>2. \A p \in Peers : p # e => recv'[p] = recv[p]
        BY <1>0, <3>1
      <4> QED
        BY <4>1, <4>2 DEF WholeInv
    <3>4. \A p \in Peers, d \in Channels : WholeChan(chan[p][d])'
      <4>1. chan[e][t.ch].rseq + t.size \in Nat
        BY <2>2, <3>2, ChanTyped
      <4>2. chan' = [chan EXCEPT ![e][t.ch].rseq = chan[e][t.ch].rseq + t.size]
        BY <1>0, <2>2, <3>1
      <4> QED
        BY <2>2, <4>1, <4>2, WholeSums, WholeChanWritten
    <3> QED
      BY <1>2, <3>1, <3>3, <3>4
  <2> QED
    BY <2>1, <2>2
<1>10. ASSUME NEW n \in 1 .. WireSize, RecvPayload(e, n)
       PROVE  WholeInv'
  <2>1. /\ n <= Len(Inbound(e)) /\ Consume(e, n)
        /\ UNCHANGED <<chan, xmit, lib>>
    BY <1>10 DEF RecvPayload, RecvBody
  <2>0. n \in Nat
    BY SizesAssumption
  <2>2. wire' \in [Peers -> Seq(WholeTokens)]
    BY <1>0, <2>0, <2>1, ConsumeKeeps
  <2>3. \A p \in Peers : recv'[p].padding = recv[p].padding
    <3> DEFINE s == IF recv[e].payload + recv[e].padding = n THEN "Ready" ELSE recv[e].state
               g == recv[e].garbled \/ \E i \in 1 .. n : Inbound(e)[i].type # "DATA"
    <3>1. recv' = [recv EXCEPT ![e].payload = @ - n, ![e].state = s, ![e].garbled = g]
      BY <1>10 DEF RecvPayload, RecvBody
    <3> HIDE DEF s, g
    <3> QED
      BY <1>0, <3>1 DEF RecvRecords
  <2> QED
    BY <1>3, <2>1, <2>2, <2>3 DEF WholeInv
<1>11. ASSUME NEW n \in 1 .. WireSize, RecvPadding(e, n)
       PROVE  FALSE
  <2>1. n <= recv[e].padding
    BY <1>11 DEF RecvPadding, RecvBody
  <2>2. recv[e].padding = 0 /\ n > 0
    BY SizesAssumption DEF WholeInv
  <2> QED
    BY <2>1, <2>2
<1> QED
  BY <1>5, <1>6, <1>7, <1>8, <1>9, <1>10, <1>11 DEF Reads

\* What is sent and prepared.
LEMMA WholeWrites ==
  ASSUME WholeWords, TypeInv, WholeInv, NEW e \in Peers, Writes(e)
  PROVE  WholeInv'
<1> USE DEF TypeInv
<1>0. /\ lib \in [Peers -> CallRecords] /\ xmit \in [Peers -> XmitRecords]
      /\ chan \in [Peers -> [Channels -> ChanRecords]]
      /\ wire \in [Peers -> Seq(WholeTokens)]
  BY DEF TypeOK, WholeInv
<1>1. UNCHANGED chan => \A p \in Peers, d \in Channels : WholeChan(chan[p][d])'
  BY DEF WholeInv, WholeChan
<1>2. ASSUME NEW s \in Seq(WholeTokens), Send(e, s)
      PROVE  wire' \in [Peers -> Seq(WholeTokens)]
  <2>1. wire[e] \o s \in Seq(WholeTokens)
    BY <1>0
  <2> QED
    BY <1>0, <1>2, <2>1 DEF Send
<1>3. Blocked(e) \/ UNCHANGED lib => \A p \in Peers : lib'[p].pc # "prepare"
  BY <1>0 DEF Blocked, WholeInv, CallRecords
<1>4. CASE SendBuffer(e)
  <2>1. PICK n \in Takes(e, Len(xmit[e].buffer)) :
          /\ Send(e, SubSeq(xmit[e].buffer, 1, n))
          /\ xmit' = [xmit EXCEPT ![e].buffer = SubSeq(@, n + 1, Len(@))]
          /\ IF n < Len(xmit[e].buffer) THEN Blocked(e) ELSE UNCHANGED lib
    BY <1>4 DEF SendBuffer
  <2>2. xmit[e].buffer \in Seq(WholeTokens) /\ Len(xmit[e].buffer) \in Nat
        /\ Len(xmit[e].buffer) > 0
    BY <1>4, EndTyped DEF SendBuffer, WholeInv
  <2>3. n \in 0 .. Len(xmit[e].buffer)
    BY <2>2, TakesBounds
  <2>4. /\ SubSeq(xmit[e].buffer, 1, n) \in Seq(WholeTokens)
        /\ SubSeq(xmit[e].buffer, n + 1, Len(xmit[e].buffer)) \in Seq(WholeTokens)
    BY <2>2, <2>3, PieceTyped
  <2>5. wire' \in [Peers -> Seq(WholeTokens)]
    BY <1>2, <2>1, <2>4
  <2>6. \A p \in Peers : xmit'[p].padding = 0 /\ xmit'[p].buffer \in Seq(WholeTokens)
    BY <1>0, <2>1, <2>4 DEF WholeInv, XmitRecords
  <2> QED
    BY <1>1, <1>3, <1>4, <2>1, <2>5, <2>6 DEF SendBuffer, WholeInv
<1>5. CASE SendPayload(e)
  <2>1. PICK n \in Takes(e, xmit[e].payload) :
          /\ Send(e, Units("DATA", n))
          /\ xmit' = [xmit EXCEPT ![e].payload = @ - n]
          /\ IF n = 0 THEN Blocked(e) ELSE UNCHANGED lib
    BY <1>5 DEF SendPayload
  <2>2. n \in Nat
    BY <1>5, EndTyped, TakesBounds DEF SendPayload
  <2>3. Units("DATA", n) \in Seq(WholeTokens)
    <3>1. Packet("DATA") \in WholeTokens
      BY WholeSums, Numbers DEF WholeTokens, Tokens, Packet, Token
    <3> QED
      BY <2>2, <3>1 DEF Units
  <2>4. wire' \in [Peers -> Seq(WholeTokens)]
    BY <1>2, <2>1, <2>3
  <2>5. \A p \in Peers : xmit'[p].padding = 0 /\ xmit'[p].buffer \in Seq(WholeTokens)
    BY <1>0, <2>1 DEF WholeInv, XmitRecords
  <2> QED
    BY <1>1, <1>3, <1>5, <2>1, <2>4, <2>5 DEF SendPayload, WholeInv
<1>6. CASE SendPadding(e)
  BY <1>6 DEF SendPadding, WholeInv
<1>7. ASSUME NEW s \in XmitStates, NEW p \in WholeTokens, PreparePacket(e, s, p),
             \A x \in Peers, d \in Channels : WholeChan(chan[x][d])',
             UNCHANGED <<recv, wire>>
      PROVE  WholeInv'
  <2>1. <<p>> \in Seq(WholeTokens)
    OBVIOUS
  <2>2. \A x \in Peers : xmit'[x].padding = 0 /\ xmit'[x].buffer \in Seq(WholeTokens)
    BY <1>0, <1>7, <2>1 DEF PreparePacket, WholeInv, XmitRecords
  <2>3. \A x \in Peers : lib'[x].pc # "prepare"
    BY <1>0, <1>7 DEF PreparePacket, WholeInv, CallRecords
  <2> QED
    BY <1>7, <2>2, <2>3 DEF WholeInv
<1>8. \A t \in PacketTypes : Packet(t) \in WholeTokens
  BY WholeSums, Numbers DEF WholeTokens, Tokens, Packet, Token
<1>9. CASE PrepareAcceptance(e) \/ PreparePong(e) \/ PreparePing(e)
  BY <1>1, <1>7, <1>8, <1>9 DEF PrepareAcceptance, PreparePong, PreparePing, PacketTypes,
     XmitStates
<1>10. CASE PreparePayload(e)
  <2>1. \A p \in Peers : xmit'[p].padding = 0 /\ xmit'[p].buffer \in Seq(WholeTokens)
    BY <1>0, <1>10 DEF PreparePayload, WholeInv, XmitRecords
  <2> QED
    BY <1>1, <1>10, <2>1 DEF PreparePayload, WholeInv
<1>11. CASE PrepareArm(e)
  <2> DEFINE c == Popped(ctrl[e])
             t == Token("ARM", c, Int32(chan[e][c].rarm), 0)
  <2>1. c \in Channels /\ UNCHANGED <<recv, wire>>
    BY <1>11, PopTyped DEF PrepareArm, TypeOK
  <2>2. CASE chan[e][c].armFlag
    <3>1. PreparePacket(e, "Arm", t) /\ chan' = [chan EXCEPT ![e][c].armFlag = FALSE]
      BY <1>11, <2>2 DEF PrepareArm
    <3>2. t \in WholeTokens
      <4>1. chan[e][c].rarm \in Int /\ Whole(chan[e][c].rarm)
        BY <2>1, ChanTyped DEF WholeInv, WholeChan
      <4>2. /\ Int32(chan[e][c].rarm) \in Nat /\ c \in Entries
            /\ Whole(Int32(chan[e][c].rarm))
        BY <2>1, <4>1, Conversions, WholeConversions, Numbers
      <4> QED
        BY <4>2, WholeSums DEF WholeTokens, Tokens, Token, PacketTypes
    <3>3. \A x \in Peers, d \in Channels : WholeChan(chan[x][d])'
      BY <2>1, <3>1, WholeSums, WholeChanWritten
    <3> QED
      BY <1>7, <2>1, <3>1, <3>2, <3>3 DEF XmitStates
  <2>3. CASE ~ chan[e][c].armFlag
    <3>1. lib' = [lib EXCEPT ![e].pc = "dead"] /\ UNCHANGED <<chan, xmit, recv, wire>>
      BY <1>11, <2>3 DEF PrepareArm
    <3>2. \A x \in Peers : lib'[x].pc # "prepare"
      BY <1>0, <3>1 DEF WholeInv, CallRecords
    <3> QED
      BY <3>1, <3>2, WholeUnchanged
  <2> QED
    BY <2>2, <2>3
<1>12. CASE PrepareSeq(e)
  <2> DEFINE c    == Popped(data[e])
             size == SeqSize(e, c)
             t    == Token("SEQ", c, Int32(chan[e][c].xseq), size)
             r    == [state   |-> "Seq", buffer  |-> <<t>>,
                      payload |-> size, padding |-> Padding(size)]
  <2>1. /\ Pending(data[e]) # {}
        /\ chan' = [chan EXCEPT ![e][c].xseq = @ + size]
        /\ xmit' = [xmit EXCEPT ![e] = r]
        /\ lib' = [lib EXCEPT ![e].pc = "send"]
        /\ UNCHANGED <<ctrl, recv, ping, wire>>
    BY <1>12 DEF PrepareSeq
  <2>2. c \in Channels
    BY <2>1, PopTyped DEF TypeOK
  <2>3. Whole(size) /\ size \in Nat /\ Padding(size) = 0
    BY <2>2, WholeSize, SeqSizeTyped
  <2>4. Whole(chan[e][c].xseq) /\ chan[e][c].xseq \in Int
    BY <2>2, ChanTyped DEF WholeInv, WholeChan
  <2> HIDE DEF size
  <2>5. \A x \in Peers, d \in Channels : WholeChan(chan[x][d])'
    <3>1. Whole(chan[e][c].xseq + size)
      <4>1. size \in Int
        BY <2>3
      <4> QED
        BY <2>3, <2>4, <4>1, WholeSums, Zenon
    <3>2. chan' = [chan EXCEPT ![e][c].xseq = chan[e][c].xseq + size]
      BY <1>0, <2>1, <2>2
    <3> QED
      BY <2>2, <3>1, <3>2, WholeChanWritten
  <2>6. t \in WholeTokens
    <3>1. /\ Int32(chan[e][c].xseq) \in Nat /\ c \in Entries
          /\ Whole(Int32(chan[e][c].xseq))
      BY <2>2, <2>4, Conversions, WholeConversions, Numbers
    <3> QED
      BY <2>3, <3>1 DEF WholeTokens, Tokens, Token, PacketTypes
  <2>7. \A x \in Peers : xmit'[x].padding = 0 /\ xmit'[x].buffer \in Seq(WholeTokens)
    <3>1. <<t>> \in Seq(WholeTokens)
      BY <2>6
    <3> QED
      BY <1>0, <2>1, <2>3, <3>1 DEF WholeInv
  <2>8. \A x \in Peers : lib'[x].pc # "prepare"
    BY <1>0, <2>1 DEF WholeInv, CallRecords
  <2> QED
    BY <2>1, <2>5, <2>7, <2>8 DEF WholeInv
<1>13. CASE PrepareNothing(e)
  <2> DEFINE s == IF BecomesIdle(e) THEN "Idle" ELSE xmit[e].state
  <2>1. /\ xmit' = [xmit EXCEPT ![e].state = s] /\ lib' = [lib EXCEPT ![e].pc = "app"]
        /\ UNCHANGED <<chan, recv, wire>>
    BY <1>13 DEF PrepareNothing
  <2>2. \A x \in Peers : xmit'[x].padding = 0 /\ xmit'[x].buffer \in Seq(WholeTokens)
    BY <1>0, <2>1 DEF WholeInv, XmitRecords
  <2>3. \A x \in Peers : lib'[x].pc # "prepare"
    BY <1>0, <2>1 DEF WholeInv, CallRecords
  <2> QED
    BY <1>1, <2>1, <2>2, <2>3 DEF WholeInv
<1> QED
  BY <1>4, <1>5, <1>6, <1>9, <1>10, <1>11, <1>12, <1>13 DEF Writes

\* Whole words stay whole words, and no packet is ever padded.
LEMMA WholeKept ==
  ASSUME WholeWords
  PROVE  Spec => [](TypeInv /\ WholeInv)
<1>1. Init => WholeInv
  <2> SUFFICES ASSUME Init PROVE WholeInv
    OBVIOUS
  <2>1. \A e \in Peers, c \in Channels : WholeChan(chan[e][c])
    BY WholeSums DEF Init, WholeChan
  <2>2. Packet("SETUP") \in WholeTokens
    BY WholeSums, Numbers DEF WholeTokens, Tokens, Packet, Token, PacketTypes
  <2>3. <<Packet("SETUP")>> \in Seq(WholeTokens) /\ <<>> \in Seq(WholeTokens)
    BY <2>2
  <2>4. ASSUME NEW e \in Peers
        PROVE  /\ xmit[e].padding = 0 /\ recv[e].padding = 0 /\ lib[e].pc = "app"
               /\ wire[e] = <<>> /\ xmit[e].buffer = <<Packet("SETUP")>>
    BY DEF Init
  <2> QED
    BY <2>1, <2>3, <2>4 DEF WholeInv
<1>2. TypeInv /\ WholeInv /\ [Next]_vars => WholeInv'
  <2> SUFFICES ASSUME TypeInv, WholeInv, [Next]_vars PROVE WholeInv'
    OBVIOUS
  <2>1. CASE UNCHANGED vars
    BY <2>1, WholeUnchanged DEF vars, WholeInv
  <2>2. ASSUME NEW e \in Peers, AppCall(e)
        PROVE  WholeInv'
    BY <2>2, WholeAppCall
  <2>3. ASSUME NEW e \in Peers, Reads(e)
        PROVE  WholeInv'
    BY <2>3, WholeReads
  <2>4. ASSUME NEW e \in Peers, Writes(e)
        PROVE  WholeInv'
    BY <2>4, WholeWrites
  <2>5. ASSUME NEW e \in Peers, HandleNetwork(e) \/ RecvNothing(e)
        PROVE  WholeInv'
    <3>1. lib \in [Peers -> CallRecords]
      BY DEF TypeInv, TypeOK
    <3>2. \A x \in Peers : lib'[x].pc # "prepare"
      BY <2>5, <3>1 DEF HandleNetwork, RecvNothing, WholeInv, CallRecords
    <3> QED
      BY <2>5, <3>2, WholeUnchanged DEF HandleNetwork, RecvNothing
  <2> QED
    BY <2>1, <2>2, <2>3, <2>4, <2>5 DEF Next, Library
<1> QED
  BY <1>1, <1>2, TypeInvKept, PTL DEF Spec

-----------------------------------------------------------------------------
(* What an endpoint left to send when it returned to its application.      *)

\* A step of an endpoint changes nothing of the other one but the transport.
LEMMA OtherUntouched ==
  ASSUME TypeInv, NEW e \in Peers, AppCall(e) \/ Library(e), NEW p \in Peers, p # e
  PROVE  /\ chan'[p] = chan[p] /\ ctrl'[p] = ctrl[p] /\ data'[p] = data[p]
         /\ xmit'[p] = xmit[p] /\ recv'[p] = recv[p] /\ ping'[p] = ping[p]
         /\ lib'[p] = lib[p]
<1> DEFINE Goal == /\ chan'[p] = chan[p] /\ ctrl'[p] = ctrl[p] /\ data'[p] = data[p]
                   /\ xmit'[p] = xmit[p] /\ recv'[p] = recv[p] /\ ping'[p] = ping[p]
                   /\ lib'[p] = lib[p]
<1>0. /\ chan \in [Peers -> [Channels -> ChanRecords]]
      /\ ctrl \in [Peers -> Lists] /\ data \in [Peers -> Lists]
      /\ xmit \in [Peers -> XmitRecords] /\ recv \in [Peers -> RecvRecords]
      /\ ping \in [Peers -> PingRecords] /\ lib \in [Peers -> CallRecords]
  BY DEF TypeInv, TypeOK
<1>1. ASSUME AppCall(e) PROVE Goal
  <2>1. CASE StartPing(e)
    BY <1>0, <2>1 DEF StartPing
  <2>2. ASSUME NEW c \in Channels, NEW n,
               \/ AddXmitLimit(e, c, n) \/ AddRecvLimit(e, c, n)
               \/ SetXmitLimit(e, c, n) \/ SetRecvLimit(e, c, n)
        PROVE  Goal
    BY <1>0, <2>2 DEF AddXmitLimit, AddRecvLimit, SetXmitLimit, SetRecvLimit, RequestDataIf
  <2> QED
    BY <1>1, <2>1, <2>2 DEF AppCall
<1>2. ASSUME Reads(e) PROVE Goal
  <2>1. \A x \in Errors : Refuse(e, x) => Goal
    BY <1>0 DEF Refuse
  <2>2. CASE RecvSetup(e) \/ RecvAccept(e) \/ RecvPing(e) \/ RecvPong(e)
    BY <1>0, <2>2 DEF RecvSetup, RecvAccept, RecvPing, RecvPong
  <2>3. CASE RecvUnknown(e)
    BY <2>1, <2>3 DEF RecvUnknown, Errors
  <2>4. CASE RecvArm(e)
    BY <1>0, <2>1, <2>4 DEF RecvArm, RequestDataIf, Errors
  <2>5. CASE RecvSeq(e)
    BY <1>0, <2>1, <2>5 DEF RecvSeq, Errors
  <2>6. ASSUME NEW n \in 1 .. WireSize, RecvPayload(e, n) \/ RecvPadding(e, n)
        PROVE  Goal
    BY <1>0, <2>6 DEF RecvPayload, RecvPadding, RecvBody
  <2> QED
    BY <1>2, <2>2, <2>3, <2>4, <2>5, <2>6 DEF Reads
<1>3. ASSUME Writes(e) PROVE Goal
  <2>1. CASE SendBuffer(e) \/ SendPayload(e) \/ SendPadding(e)
    BY <1>0, <2>1 DEF SendBuffer, SendPayload, SendPadding, Blocked
  <2>2. CASE PrepareAcceptance(e) \/ PreparePayload(e) \/ PreparePong(e) \/ PreparePing(e)
    BY <1>0, <2>2 DEF PrepareAcceptance, PreparePayload, PreparePong, PreparePing,
       PreparePacket
  <2>3. CASE PrepareArm(e)
    BY <1>0, <2>3 DEF PrepareArm, PreparePacket
  <2>4. CASE PrepareSeq(e)
    BY <1>0, <2>4 DEF PrepareSeq
  <2>5. CASE PrepareNothing(e)
    BY <1>0, <2>5 DEF PrepareNothing
  <2> QED
    BY <1>3, <2>1, <2>2, <2>3, <2>4, <2>5 DEF Writes
<1>4. ASSUME HandleNetwork(e) \/ RecvNothing(e) PROVE Goal
  BY <1>0, <1>4 DEF HandleNetwork, RecvNothing
<1> QED
  BY <1>1, <1>2, <1>3, <1>4 DEF Library

\* Where padding never leaves a packet half sent, an endpoint that returns to
\* its application with something left to send is called again: the loops of
\* handleWrites return only after a write request or with nothing to do.
THEOREM WriteRequestsKept ==
  ASSUME WholeWords
  PROVE  Spec => []WriteRequestKept
<1> DEFINE Kept(x) == lib[x].pc = "app" /\ Unsent(x) => lib[x].writeRequest
<1>1. Init => WriteRequestKept
  BY DEF Init, WriteRequestKept
<1>2. TypeInv /\ WholeInv /\ WriteRequestKept /\ [Next]_vars => WriteRequestKept'
  <2> SUFFICES ASSUME TypeInv, WholeInv, WriteRequestKept, [Next]_vars,
                      NEW x \in Peers
               PROVE  Kept(x)'
    BY DEF WriteRequestKept
  <2>0. lib \in [Peers -> CallRecords] /\ xmit \in [Peers -> XmitRecords] /\ Kept(x)
        /\ recv \in [Peers -> RecvRecords] /\ ping \in [Peers -> PingRecords]
    BY DEF TypeInv, TypeOK, WriteRequestKept
  <2>1. CASE UNCHANGED vars
    BY <2>0, <2>1 DEF vars, Unsent, Idle, Pinging, Pending
  <2>2. ASSUME NEW e \in Peers, AppCall(e) \/ Library(e), e # x
        PROVE  Kept(x)'
    BY <2>0, <2>2, OtherUntouched DEF Unsent, Idle, Pinging, Pending
  <2>3. CASE AppCall(x)
    <3>1. \/ lib'[x].writeRequest
          \/ lib'[x].writeRequest = lib[x].writeRequest /\ UNCHANGED <<ctrl, data, ping>>
      BY <2>3, AppCallKeepsPlace DEF TypeInv
    <3>2. UNCHANGED <<xmit, recv>> /\ lib'[x].pc = lib[x].pc
      BY <2>3, AppCallKeepsPlace DEF TypeInv
    <3> QED
      BY <2>0, <3>1, <3>2 DEF Unsent, Idle, Pinging, Pending
  <2>4. CASE HandleNetwork(x) \/ RecvNothing(x)
    BY <2>0, <2>4 DEF HandleNetwork, RecvNothing, CallRecords
  <2>5. CASE Reads(x)
    <3>1. \/ lib[x].pc = "recv" /\ (lib' = lib \/ lib' = [lib EXCEPT ![x].writeRequest = TRUE])
          \/ \E r \in Errors :
               lib' = [lib EXCEPT ![x] = [ReportError(@, r) EXCEPT !.pc = "send"]]
      BY <2>5 DEF Reads, RecvSetup, RecvAccept, RecvUnknown, RecvArm, RecvPing, RecvPong,
         RecvSeq, RecvPayload, RecvPadding, RecvBody, Refuse, Receives, RequestDataIf, Errors
    <3>2. ASSUME NEW r \in Errors
          PROVE  [ReportError(lib[x], r) EXCEPT !.pc = "send"].pc = "send"
      BY <2>0 DEF ReportError, CallRecords
    <3> QED
      BY <2>0, <3>1, <3>2 DEF CallRecords
  <2>6. CASE Writes(x) /\ ~ PrepareNothing(x)
    <3>1. \/ Blocked(x)
          \/ lib' = lib /\ lib[x].pc # "app"
          \/ \E p \in {"send", "prepare", "dead"} : lib' = [lib EXCEPT ![x].pc = p]
      BY <2>6 DEF Writes, SendBuffer, SendPayload, SendPadding, PrepareAcceptance,
         PreparePayload, PreparePong, PreparePing, PrepareArm, PrepareSeq, PreparePacket,
         Prepares
    <3> QED
      BY <2>0, <3>1 DEF Blocked, CallRecords
  <2>7. CASE PrepareNothing(x)
    <3>1. /\ xmit[x].buffer = <<>>
          /\ xmit'[x].buffer = <<>> /\ xmit'[x].state # "SeqPayload"
          /\ xmit'[x].state = "Setup" => ~ recv[x].remote
          /\ xmit'[x].state = "Idle" => Idle(x)
      BY <2>0, <2>7 DEF PrepareNothing, Prepares, BecomesIdle, WholeInv, XmitRecords
    <3> QED
      BY <2>7, <3>1 DEF PrepareNothing, Unsent, Idle, Pinging, Pending
  <2> QED
    BY <2>1, <2>2, <2>3, <2>4, <2>5, <2>6, <2>7 DEF Next, Library
<1> QED
  BY <1>1, <1>2, WholeKept, PTL DEF Spec

-----------------------------------------------------------------------------
(* Framing.  A stream of tokens is read from one place of the protocol to  *)
(* another: which packets may come next, how much of a body is due, and    *)
(* the position on every channel.                                          *)

Phases == {"Setup", "Accept", "Ready", "Aborted"}
Places == [phase : Phases, due : Nat, pos : [Channels -> Nat]]
Place(p, n, f) == [phase |-> p, due |-> n, pos |-> f]

\* Token t is what may come at place s, and leads to place u.
Leads(s, t, u) ==
  \/ t.type = "SETUP" /\ s.phase = "Setup" /\ s.due = 0 /\ u = Place("Accept", 0, s.pos)
  \/ t.type = "ACCEPT" /\ s.phase = "Accept" /\ s.due = 0 /\ u = Place("Ready", 0, s.pos)
  \/ t.type = "ABORT" /\ s.phase = "Accept" /\ s.due = 0 /\ u = Place("Aborted", 0, s.pos)
  \/ /\ t.type = "ARM" /\ t.ch \in Channels
     /\ s.phase = "Ready" /\ s.due = 0 /\ u = Place("Ready", 0, s.pos)
  \/ /\ t.type \in {"PING", "PONG"}
     /\ s.phase = "Ready" /\ s.due = 0 /\ u = Place("Ready", 0, s.pos)
  \/ /\ t.type = "SEQ" /\ t.ch \in Channels /\ t.val = Int32(s.pos[t.ch])
     /\ s.phase = "Ready" /\ s.due = 0
     /\ u = Place("Ready", t.size, [s.pos EXCEPT ![t.ch] = @ + t.size])
  \/ /\ t.type = "DATA" /\ s.phase = "Ready" /\ s.due > 0
     /\ u = Place("Ready", s.due - 1, s.pos)

\* The tokens S lead from one place to the other.
Steps == {x \in Places \X Tokens \X Places : Leads(x[1], x[2], x[3])}
Parses(S, from, to) == Walks(Steps, Places, S, from, to)

\* There are places between any two tokens.
LEMMA ParsesMeans ==
  ASSUME NEW S \in Seq(Tokens), NEW a, NEW b
  PROVE  Parses(S, a, b) <=>
           \E d \in [0 .. Len(S) -> Places] :
             /\ d[0] = a /\ d[Len(S)] = b
             /\ \A i \in 1 .. Len(S) : Leads(d[i - 1], S[i], d[i])
<1>0. Len(S) \in Nat /\ \A i \in 1 .. Len(S) : S[i] \in Tokens
  OBVIOUS
<1>1. ASSUME NEW d \in [0 .. Len(S) -> Places], NEW i \in 1 .. Len(S)
      PROVE  <<d[i - 1], S[i], d[i]>> \in Steps <=> Leads(d[i - 1], S[i], d[i])
  <2>1. d[i - 1] \in Places /\ d[i] \in Places /\ S[i] \in Tokens
    BY <1>0
  <2> QED
    BY <2>1 DEF Steps
<1> QED
  BY <1>1 DEF Parses, Walks

\* No token leads nowhere.
LEMMA ParsesNothing ==
  ASSUME NEW a \in Places
  PROVE  Parses(<<>>, a, a)
BY WalksNothing DEF Parses

\* One token.
LEMMA ParsesOne ==
  ASSUME NEW a \in Places, NEW b \in Places, NEW t \in Tokens, Leads(a, t, b)
  PROVE  Parses(<<t>>, a, b)
<1>1. <<a, t, b>> \in Steps
  BY DEF Steps
<1> QED
  BY <1>1, WalksOne DEF Parses

\* One part of a stream after the other.
LEMMA ParsesConcat ==
  ASSUME NEW P \in Seq(Tokens), NEW Q \in Seq(Tokens), NEW a, NEW m, NEW b,
         Parses(P, a, m), Parses(Q, m, b)
  PROVE  Parses(P \o Q, a, b)
BY WalksConcat DEF Parses

\* A stream is read in two parts.
LEMMA ParsesSplit ==
  ASSUME NEW P \in Seq(Tokens), NEW Q \in Seq(Tokens), NEW a, NEW b,
         Parses(P \o Q, a, b)
  PROVE  \E m \in Places : Parses(P, a, m) /\ Parses(Q, m, b)
BY WalksSplit DEF Parses

\* A stream of one token.
LEMMA ParsesHead ==
  ASSUME NEW t \in Tokens, NEW a, NEW b, Parses(<<t>>, a, b)
  PROVE  Leads(a, t, b)
<1>1. <<a, t, b>> \in Steps
  BY WalksHead DEF Parses
<1> QED
  BY <1>1 DEF Steps

\* Payload that is sent is taken off what is due.
LEMMA ParsesUnits ==
  ASSUME NEW a \in Places, a.phase = "Ready", NEW n \in 0 .. a.due
  PROVE  Parses(Units("DATA", n), a, Place("Ready", a.due - n, a.pos))
<1> DEFINE S == Units("DATA", n)
           d == [i \in 0 .. n |-> Place("Ready", a.due - i, a.pos)]
<1>0. a.due \in Nat /\ a.pos \in [Channels -> Nat] /\ n \in Nat
  BY DEF Places
<1>1. Len(S) = n /\ \A i \in 1 .. n : S[i].type = "DATA"
  BY <1>0 DEF Units, Packet, Token
<1>2. \A i \in 0 .. n : d[i] = Place("Ready", a.due - i, a.pos) /\ d[i] \in Places
  BY <1>0 DEF Places, Place, Phases
<1>3. d[0] = a
  <2>1. a = [phase |-> a.phase, due |-> a.due, pos |-> a.pos]
    BY DEF Places
  <2> QED
    BY <1>0, <1>2, <2>1 DEF Place
<1> HIDE DEF S
<1>4. ASSUME NEW i \in 1 .. n
      PROVE  Leads(d[i - 1], S[i], d[i])
  <2>1. d[i - 1] = Place("Ready", a.due - (i - 1), a.pos)
        /\ d[i] = Place("Ready", a.due - i, a.pos)
    BY <1>0, <1>2
  <2>2. a.due - (i - 1) > 0 /\ a.due - i = (a.due - (i - 1)) - 1
    BY <1>0
  <2> QED
    BY <1>1, <2>1, <2>2 DEF Leads, Place
<1>5. d \in [0 .. n -> Places]
  BY <1>2
<1>6. d[Len(S)] = Place("Ready", a.due - n, a.pos)
  BY <1>0, <1>1, <1>2
<1> HIDE DEF d
<1>7. /\ d \in [0 .. Len(S) -> Places]
      /\ \A i \in 1 .. Len(S) : Leads(d[i - 1], S[i], d[i])
  BY <1>1, <1>4, <1>5
<1> QED
  BY <1>3, <1>6, <1>7, ParsesMeans DEF S

\* As long as a body is due, nothing but payload comes.
LEMMA ParsesBody ==
  ASSUME NEW P \in Seq(Tokens), NEW a \in Places, NEW b \in Places,
         Parses(P, a, b), Len(P) <= a.due
  PROVE  /\ \A i \in 1 .. Len(P) : P[i].type = "DATA"
         /\ b.phase = a.phase /\ b.due = a.due - Len(P) /\ b.pos = a.pos
<1>1. PICK d \in [0 .. Len(P) -> Places] :
        /\ d[0] = a /\ d[Len(P)] = b
        /\ \A i \in 1 .. Len(P) : Leads(d[i - 1], P[i], d[i])
  BY ParsesMeans
<1>0. Len(P) \in Nat /\ a.due \in Nat
  BY DEF Places
<1> DEFINE At(i) == d[i].phase = a.phase /\ d[i].due = a.due - i /\ d[i].pos = a.pos
           S == {i \in Nat : i <= Len(P) => At(i)}
<1>2. ASSUME NEW i \in 1 .. Len(P), At(i - 1)
      PROVE  P[i].type = "DATA" /\ At(i)
  <2>1. Leads(d[i - 1], P[i], d[i])
    BY <1>1
  <2>2. d[i - 1].due = a.due - (i - 1) /\ a.due - (i - 1) > 0
    BY <1>0, <1>2
  <2>3. /\ P[i].type = "DATA" /\ d[i - 1].phase = "Ready"
        /\ d[i] = Place("Ready", d[i - 1].due - 1, d[i - 1].pos)
    BY <2>1, <2>2 DEF Leads
  <2>4. d[i].phase = "Ready" /\ d[i].due = d[i - 1].due - 1 /\ d[i].pos = d[i - 1].pos
    BY <2>3 DEF Place
  <2> QED
    BY <1>0, <1>2, <2>2, <2>3, <2>4
<1>3. 0 \in S
  BY <1>0, <1>1
<1>4. \A i \in Nat : i \in S => i + 1 \in S
  <2> SUFFICES ASSUME NEW i \in Nat, i \in S, i + 1 <= Len(P) PROVE At(i + 1)
    OBVIOUS
  <2>1. i + 1 \in 1 .. Len(P) /\ (i + 1) - 1 = i /\ At(i)
    BY <1>0
  <2> QED
    BY <1>2, <2>1
<1>5. Nat \subseteq S
  <2> HIDE DEF S
  <2> QED
    BY <1>3, <1>4, NatSetInduction
<1>6. \A i \in 0 .. Len(P) : At(i)
  BY <1>0, <1>5
<1> HIDE DEF At
<1>7. \A i \in 1 .. Len(P) : P[i].type = "DATA"
  BY <1>0, <1>2, <1>6
<1> QED
  BY <1>0, <1>1, <1>6, <1>7 DEF At

\* Nothing comes after a rejection.
LEMMA ParsesAborted ==
  ASSUME NEW P \in Seq(Tokens), NEW a, NEW b, Parses(P, a, b), a.phase = "Aborted"
  PROVE  b = a
<1>1. PICK d \in [0 .. Len(P) -> Places] :
        /\ d[0] = a /\ d[Len(P)] = b
        /\ \A i \in 1 .. Len(P) : Leads(d[i - 1], P[i], d[i])
  BY ParsesMeans
<1>2. Len(P) \in Nat
  OBVIOUS
<1>3. Len(P) = 0
  <2> SUFFICES ASSUME Len(P) # 0 PROVE FALSE
    OBVIOUS
  <2>1. 1 \in 1 .. Len(P)
    BY <1>2
  <2>2. Leads(d[1 - 1], P[1], d[1])
    BY <1>1, <2>1
  <2>3. Leads(a, P[1], d[1])
    BY <1>1, <2>2
  <2> QED
    BY <2>3 DEF Leads
<1> QED
  BY <1>1, <1>3


-----------------------------------------------------------------------------
(* The tokens between a sender and its receiver, in the transport and in   *)
(* the buffer of the sender, lead from the place the receiver reads at to  *)
(* the place the sender writes at.                                         *)

Sent(e) == wire[e] \o xmit[e].buffer

ReadsAt(e) ==
  Place(IF recv[e].state = "SeqPayload" THEN "Ready" ELSE recv[e].state,
        recv[e].payload, [c \in Channels |-> chan[e][c].rseq])

WritesAt(e) ==
  Place(CASE xmit[e].state = "Setup" -> "Accept"
          [] xmit[e].state = "Abort" -> "Aborted"
          [] OTHER -> "Ready",
        xmit[e].payload, [c \in Channels |-> chan[e][c].xseq])

Framed(e) ==
  LET o == Other(e)
  IN  /\ Parses(Sent(e), ReadsAt(o), WritesAt(e))
      /\ recv[o].state = "SeqPayload" <=> recv[o].payload > 0
      /\ xmit[e].payload > 0 => xmit[e].state \in {"Seq", "SeqPayload"}
      /\ ~ recv[o].garbled
      /\ recv[o].stuck => xmit[e].state = "Abort"

FrameInv == \A e \in Peers : Framed(e)

\* Both ends are at a place.
LEMMA PlacesTyped ==
  ASSUME TypeOK, NEW e \in Peers
  PROVE  ReadsAt(e) \in Places /\ WritesAt(e) \in Places /\ Sent(e) \in Seq(Tokens)
<1>1. /\ [c \in Channels |-> chan[e][c].rseq] \in [Channels -> Nat]
      /\ [c \in Channels |-> chan[e][c].xseq] \in [Channels -> Nat]
  BY ChanTyped
<1>2. /\ recv[e].state \in RecvStates /\ recv[e].payload \in Nat
      /\ xmit[e].state \in XmitStates /\ xmit[e].payload \in Nat
  BY EndTyped
<1>3. ReadsAt(e) \in Places
  BY <1>1, <1>2 DEF ReadsAt, Place, Places, Phases, RecvStates
<1>4. WritesAt(e) \in Places
  BY <1>1, <1>2 DEF WritesAt, Place, Places, Phases
<1>5. Sent(e) \in Seq(Tokens)
  BY EndTyped DEF Sent
<1> QED
  BY <1>3, <1>4, <1>5

\* A direction stays framed when nothing of it changes.
LEMMA FramedUnchanged ==
  ASSUME TypeOK, NEW e \in Peers, Framed(e),
         wire'[e] = wire[e], xmit'[e] = xmit[e], recv'[Other(e)] = recv[Other(e)],
         \A c \in Channels : /\ chan'[e][c].xseq = chan[e][c].xseq
                             /\ chan'[Other(e)][c].rseq = chan[Other(e)][c].rseq
  PROVE  Framed(e)'
<1> DEFINE o == Other(e)
<1>1. Sent(e)' = Sent(e)
  BY DEF Sent
<1>2. ReadsAt(o)' = ReadsAt(o)
  BY DEF ReadsAt
<1>3. WritesAt(e)' = WritesAt(e)
  BY DEF WritesAt
<1>4. Parses(Sent(e), ReadsAt(o), WritesAt(e))'
  BY <1>1, <1>2, <1>3 DEF Framed, Parses
<1> QED
  BY <1>4 DEF Framed

\* The first n tokens in the transport lead from the place the receiver reads
\* at to one from which the rest of the stream is read.
LEMMA TakeFramed ==
  ASSUME TypeOK, NEW e \in Peers, Framed(Other(e)), NEW n \in 1 .. Len(Inbound(e))
  PROVE  \E m \in Places :
           /\ Parses(SubSeq(Inbound(e), 1, n), ReadsAt(e), m)
           /\ Parses(SubSeq(Inbound(e), n + 1, Len(Inbound(e))) \o xmit[Other(e)].buffer,
                     m, WritesAt(Other(e)))
           /\ m.phase = "Aborted" => xmit[Other(e)].state = "Abort"
<1> DEFINE s == Other(e)
           w == Inbound(e)
           b == xmit[s].buffer
           P == SubSeq(w, 1, n)
           Q == SubSeq(w, n + 1, Len(w))
<1>1. /\ s \in Peers /\ Other(s) = e /\ w = wire[s] /\ w \in Seq(Tokens)
      /\ Len(w) \in Nat /\ b \in Seq(Tokens)
  BY TwoPeers, EndTyped DEF Inbound
<1>2. P \in Seq(Tokens) /\ Q \in Seq(Tokens) /\ w = P \o Q
  <2>1. n \in 0 .. Len(w)
    BY <1>1
  <2> QED
    BY <1>1, <2>1, PieceTyped
<1>4. Sent(s) = (P \o Q) \o b
  BY <1>1, <1>2 DEF Sent
<1> HIDE DEF P, Q, b
<1>5. Q \o b \in Seq(Tokens) /\ Sent(s) = P \o (Q \o b)
  <2>0. P \in Seq(Tokens) /\ Q \in Seq(Tokens) /\ b \in Seq(Tokens)
    BY <1>1, <1>2
  <2> HIDE DEF w, s
  <2>1. (P \o Q) \o b = P \o (Q \o b)
    BY <2>0, TokensAssociate
  <2>2. Q \o b \in Seq(Tokens)
    BY <1>1, <1>2, ConcatProperties
  <2> QED
    BY <1>4, <2>1, <2>2
<1>6. Parses(P \o (Q \o b), ReadsAt(e), WritesAt(s))
  BY <1>1, <1>5 DEF Framed
<1>7. PICK m \in Places : Parses(P, ReadsAt(e), m) /\ Parses(Q \o b, m, WritesAt(s))
  BY <1>2, <1>5, <1>6, ParsesSplit
<1>8. m.phase = "Aborted" => xmit[s].state = "Abort"
  <2> SUFFICES ASSUME m.phase = "Aborted" PROVE xmit[s].state = "Abort"
    OBVIOUS
  <2>1. WritesAt(s).phase = "Aborted"
    BY <1>5, <1>7, ParsesAborted
  <2> QED
    BY <2>1 DEF WritesAt, Place
<1> QED
  BY <1>7, <1>8 DEF P, Q, b

\* The header that is received is one that may come where the receiver reads.
LEMMA HeadFramed ==
  ASSUME TypeOK, NEW e \in Peers, Framed(Other(e)), NEW t, Receives(e, t)
  PROVE  \E m \in Places :
           /\ Leads(ReadsAt(e), Head(Inbound(e)), m)
           /\ Parses(SubSeq(Inbound(e), 2, Len(Inbound(e))) \o xmit[Other(e)].buffer,
                     m, WritesAt(Other(e)))
           /\ m.phase = "Aborted" => xmit[Other(e)].state = "Abort"
           /\ ReadsAt(e).due = 0
<1> DEFINE w == Inbound(e)
<1>1. w \in Seq(Tokens) /\ Len(w) \in Nat /\ Len(w) >= 1 /\ Head(w) \in Tokens
  BY TwoPeers, EndTyped, HeadTyped DEF Inbound
<1>2. SubSeq(w, 1, 1) = <<Head(w)>>
  <2>1. 1 \in 0 .. Len(w)
    BY <1>1
  <2>2. SubSeq(w, 1, 1) \in Seq(Tokens) /\ Len(SubSeq(w, 1, 1)) = 1
        /\ SubSeq(w, 1, 1)[1] = w[1]
    BY <1>1, <2>1, PieceTyped
  <2>3. <<Head(w)>> \in Seq(Tokens) /\ Len(<<Head(w)>>) = 1 /\ <<Head(w)>>[1] = w[1]
    BY <1>1
  <2> DEFINE x == SubSeq(w, 1, 1)
             y == <<Head(w)>>
  <2> HIDE DEF x, y
  <2>4. x = y
    <3>1. x \in Seq(Tokens) /\ y \in Seq(Tokens) /\ Len(x) = Len(y) /\ Len(x) = 1
          /\ x[1] = y[1]
      BY <2>2, <2>3 DEF x, y
    <3>2. \A i \in 1 .. Len(x) : x[i] = y[i]
      BY <3>1
    <3> QED
      BY <3>1, <3>2, SeqEqual
  <2> QED
    BY <2>4 DEF x, y
<1>3. PICK m \in Places :
        /\ Parses(SubSeq(w, 1, 1), ReadsAt(e), m)
        /\ Parses(SubSeq(w, 1 + 1, Len(w)) \o xmit[Other(e)].buffer, m, WritesAt(Other(e)))
        /\ m.phase = "Aborted" => xmit[Other(e)].state = "Abort"
  <2>1. 1 \in 1 .. Len(w)
    BY <1>1
  <2> QED
    BY <2>1, TakeFramed
<1>4. Leads(ReadsAt(e), Head(w), m)
  BY <1>1, <1>2, <1>3, ParsesHead
<1>5. ReadsAt(e).due = 0
  <2>1. recv[e].payload \in Nat /\ ~ (recv[e].payload > 0)
    BY TwoPeers, EndTyped DEF Framed, Receives
  <2> QED
    BY <2>1 DEF ReadsAt, Place
<1> QED
  BY <1>3, <1>4, <1>5

\* A reader that took n tokens and is at the place they lead to is still
\* framed with its sender.
LEMMA TakenFramed ==
  ASSUME TypeInv, NEW e \in Peers, Framed(Other(e)), Reads(e),
         NEW n \in Nat, Consume(e, n), NEW m,
         Parses(SubSeq(Inbound(e), n + 1, Len(Inbound(e))) \o xmit[Other(e)].buffer,
                m, WritesAt(Other(e))),
         ReadsAt(e)' = m,
         recv'[e].state = "SeqPayload" <=> recv'[e].payload > 0,
         ~ recv'[e].garbled, recv'[e].stuck = recv[e].stuck
  PROVE  Framed(Other(e))'
<1> DEFINE s == Other(e)
<1>1. s \in Peers /\ s # e /\ Other(s) = e /\ wire \in [Peers -> Seq(Tokens)]
  BY TwoPeers DEF TypeInv, TypeOK
<1>2. xmit'[s] = xmit[s] /\ chan'[s] = chan[s]
  BY <1>1, OtherUntouched DEF Library
<1>3. WritesAt(s)' = WritesAt(s)
  BY <1>2 DEF WritesAt
<1>4. Sent(s)' = SubSeq(Inbound(e), n + 1, Len(Inbound(e))) \o xmit[s].buffer
  BY <1>1, <1>2 DEF Sent, Consume, Inbound
<1>5. Parses(Sent(s), ReadsAt(e), WritesAt(s))'
  BY <1>3, <1>4 DEF Parses
<1> QED
  BY <1>1, <1>2, <1>5 DEF Framed

\* A refusal happens only to a rejection of the connection.
LEMMA RefusedFramed ==
  ASSUME TypeInv, NEW e \in Peers, Framed(Other(e)), Reads(e), NEW x, Refuse(e, x),
         xmit[Other(e)].state = "Abort"
  PROVE  Framed(Other(e))'
<1> DEFINE s == Other(e)
<1>1. s \in Peers /\ s # e /\ Other(s) = e /\ recv \in [Peers -> RecvRecords]
  BY TwoPeers DEF TypeInv, TypeOK
<1>2. UNCHANGED <<xmit, chan, wire>>
  BY DEF Refuse
<1>3. /\ recv'[e].state = recv[e].state /\ recv'[e].payload = recv[e].payload
      /\ recv'[e].garbled = recv[e].garbled
  BY <1>1 DEF Refuse, RecvRecords
<1>4. Sent(s)' = Sent(s) /\ ReadsAt(e)' = ReadsAt(e) /\ WritesAt(s)' = WritesAt(s)
  BY <1>2, <1>3 DEF Sent, ReadsAt, WritesAt
<1>5. Parses(Sent(s), ReadsAt(e), WritesAt(s))'
  BY <1>1, <1>4 DEF Framed, Parses
<1> QED
  BY <1>1, <1>2, <1>3, <1>5 DEF Framed

\* The packets that are received, and the parts of a body.
LEMMA ReadsFramed ==
  ASSUME TypeInv, WholeInv, NEW e \in Peers, Framed(Other(e)), Reads(e)
  PROVE  Framed(Other(e))'
<1> USE DEF TypeInv
<1> DEFINE s == Other(e)
           h == Head(Inbound(e))
           pos == [c \in Channels |-> chan[e][c].rseq]
<1>0. /\ s \in Peers /\ s # e /\ Other(s) = e /\ recv \in [Peers -> RecvRecords]
      /\ chan \in [Peers -> [Channels -> ChanRecords]]
  BY TwoPeers DEF TypeOK
<1>1. /\ ReadsAt(e).pos = pos /\ ReadsAt(e).due = recv[e].payload
      /\ ~ recv[e].garbled /\ recv[e].payload \in Nat
      /\ recv[e].state = "SeqPayload" <=> recv[e].payload > 0
      /\ recv[e].state # "SeqPayload" => ReadsAt(e).phase = recv[e].state
      /\ recv[e].state = "SeqPayload" => ReadsAt(e).phase = "Ready"
  BY <1>0, EndTyped DEF ReadsAt, Place, Framed
<1> HIDE DEF pos
<1>2. CASE RecvSetup(e)
  <2>1. Receives(e, "SETUP") /\ Consume(e, 1) /\ UNCHANGED chan /\ h.type = "SETUP"
    BY <1>2, HeadTyped DEF RecvSetup
  <2>2. PICK m \in Places :
          /\ Leads(ReadsAt(e), h, m)
          /\ Parses(SubSeq(Inbound(e), 2, Len(Inbound(e))) \o xmit[s].buffer, m, WritesAt(s))
    BY <2>1, HeadFramed
  <2>3. m = Place("Accept", 0, pos) /\ ReadsAt(e).due = 0
    BY <1>1, <2>1, <2>2 DEF Leads
  <2>4. /\ recv'[e].state = "Accept" /\ recv'[e].payload = recv[e].payload
        /\ recv'[e].garbled = recv[e].garbled /\ recv'[e].stuck = recv[e].stuck
    BY <1>0, <1>2 DEF RecvSetup, RecvRecords
  <2>5. ReadsAt(e)' = m
    BY <1>1, <2>1, <2>3, <2>4 DEF ReadsAt, Place, pos
  <2> QED
    BY <1>1, <2>1, <2>2, <2>3, <2>4, <2>5, TakenFramed
<1>3. ASSUME NEW t \in {"ACCEPT", "ARM", "PING", "PONG"}, Receives(e, t), Consume(e, 1),
             recv' = [recv EXCEPT ![e].state = "Ready"],
             \A c \in Channels : chan'[e][c].rseq = chan[e][c].rseq
      PROVE  Framed(s)'
  <2>1. h.type = t
    BY <1>3, HeadTyped
  <2>2. PICK m \in Places :
          /\ Leads(ReadsAt(e), h, m)
          /\ Parses(SubSeq(Inbound(e), 2, Len(Inbound(e))) \o xmit[s].buffer, m, WritesAt(s))
    BY <1>3, HeadFramed
  <2>3. m = Place("Ready", 0, pos) /\ ReadsAt(e).due = 0
    BY <1>1, <2>1, <2>2 DEF Leads
  <2>4. /\ recv'[e].state = "Ready" /\ recv'[e].payload = recv[e].payload
        /\ recv'[e].garbled = recv[e].garbled /\ recv'[e].stuck = recv[e].stuck
    BY <1>0, <1>3 DEF RecvRecords
  <2>5. ReadsAt(e)' = m
    BY <1>1, <1>3, <2>3, <2>4 DEF ReadsAt, Place, pos
  <2> QED
    BY <1>1, <1>3, <2>2, <2>3, <2>4, <2>5, TakenFramed
<1>4. CASE RecvAccept(e) \/ RecvPing(e) \/ RecvPong(e)
  BY <1>3, <1>4 DEF RecvAccept, RecvPing, RecvPong
<1>5. CASE RecvUnknown(e)
  <2>1. PICK t \in {"ABORT", "DATA", "PAD"} : Receives(e, t)
    BY <1>5 DEF RecvUnknown
  <2>2. PICK m \in Places :
          /\ Leads(ReadsAt(e), h, m) /\ ReadsAt(e).due = 0
          /\ m.phase = "Aborted" => xmit[s].state = "Abort"
    BY <2>1, HeadFramed
  <2>3. h.type = t
    BY <2>1, HeadTyped
  <2>4. m.phase = "Aborted"
    BY <2>2, <2>3 DEF Leads, Place
  <2> QED
    BY <1>5, <2>2, <2>4, RefusedFramed DEF RecvUnknown
<1>6. CASE RecvArm(e)
  <2>1. Receives(e, "ARM") /\ h.type = "ARM"
    BY <1>6, HeadTyped DEF RecvArm
  <2>2. PICK m \in Places : Leads(ReadsAt(e), h, m)
    BY <2>1, HeadFramed
  <2>3. h.ch \in Channels
    BY <2>1, <2>2 DEF Leads
  <2>4. /\ chan' = [chan EXCEPT ![e][h.ch].xarm = h.val]
        /\ recv' = [recv EXCEPT ![e].state = "Ready"] /\ Consume(e, 1)
    BY <1>6, <2>3 DEF RecvArm
  <2>5. \A c \in Channels : chan'[e][c].rseq = chan[e][c].rseq
    BY <1>0, <2>4 DEF ChanRecords
  <2> QED
    BY <1>3, <2>1, <2>4, <2>5
<1>7. CASE RecvSeq(e)
  <2>1. Receives(e, "SEQ") /\ h.type = "SEQ" /\ h.size \in Nat
    BY <1>7, HeadTyped DEF RecvSeq
  <2>2. PICK m \in Places :
          /\ Leads(ReadsAt(e), h, m) /\ ReadsAt(e).due = 0
          /\ Parses(SubSeq(Inbound(e), 2, Len(Inbound(e))) \o xmit[s].buffer, m, WritesAt(s))
    BY <2>1, HeadFramed
  <2>3. /\ h.ch \in Channels /\ h.val = Int32(pos[h.ch])
        /\ m = Place("Ready", h.size, [pos EXCEPT ![h.ch] = @ + h.size])
    BY <1>1, <2>1, <2>2 DEF Leads
  <2>4. h.val = Int32(chan[e][h.ch].rseq)
    BY <2>3 DEF pos
  <2> DEFINE z == IF h.size > 0 THEN "SeqPayload" ELSE "Ready"
  <2>5. /\ chan' = [chan EXCEPT ![e][h.ch].rseq = @ + h.size]
        /\ recv' = [recv EXCEPT ![e].state = z,
                    ![e].payload = h.size, ![e].padding = Padding(h.size)]
        /\ Consume(e, 1)
    BY <1>7, <2>3, <2>4 DEF RecvSeq
  <2>6. /\ recv'[e].state = z /\ recv'[e].payload = h.size
        /\ recv'[e].garbled = recv[e].garbled /\ recv'[e].stuck = recv[e].stuck
    BY <1>0, <2>5 DEF RecvRecords
  <2>7. [c \in Channels |-> chan'[e][c].rseq] = [pos EXCEPT ![h.ch] = @ + h.size]
    <3>1. \A c \in Channels :
            chan'[e][c].rseq = IF c = h.ch THEN chan[e][c].rseq + h.size ELSE chan[e][c].rseq
      BY <1>0, <2>3, <2>5 DEF ChanRecords
    <3> QED
      BY <2>3, <3>1 DEF pos
  <2>8. ReadsAt(e)' = m
    BY <2>1, <2>3, <2>6, <2>7 DEF ReadsAt, Place
  <2>9. /\ recv'[e].state = "SeqPayload" <=> recv'[e].payload > 0
        /\ ~ recv'[e].garbled /\ recv'[e].stuck = recv[e].stuck
    BY <1>1, <2>1, <2>6
  <2>10. Consume(e, 1)
    BY <2>5
  <2> QED
    BY <2>2, <2>8, <2>9, <2>10, TakenFramed
<1>8. ASSUME NEW n \in 1 .. WireSize, RecvPayload(e, n)
      PROVE  Framed(s)'
  <2>1. /\ recv[e].state = "SeqPayload" /\ n <= recv[e].payload /\ n <= Len(Inbound(e))
        /\ Consume(e, n) /\ UNCHANGED chan
        /\ recv' = [recv EXCEPT ![e].payload = @ - n,
             ![e].state = IF recv[e].payload + recv[e].padding = n THEN "Ready" ELSE @,
             ![e].garbled = @ \/ \E i \in 1 .. n : Inbound(e)[i].type # "DATA"]
    BY <1>8 DEF RecvPayload, RecvBody
  <2>2. n \in Nat /\ n \in 1 .. Len(Inbound(e)) /\ Inbound(e) \in Seq(Tokens)
        /\ n \in 0 .. Len(Inbound(e))
    BY <1>0, <2>1, SizesAssumption, EndTyped DEF Inbound
  <2>3. PICK m \in Places :
          /\ Parses(SubSeq(Inbound(e), 1, n), ReadsAt(e), m)
          /\ Parses(SubSeq(Inbound(e), n + 1, Len(Inbound(e))) \o xmit[s].buffer,
                    m, WritesAt(s))
    BY <2>2, TakeFramed
  <2>4. /\ SubSeq(Inbound(e), 1, n) \in Seq(Tokens) /\ Len(SubSeq(Inbound(e), 1, n)) = n
        /\ \A i \in 1 .. n : SubSeq(Inbound(e), 1, n)[i] = Inbound(e)[i]
    BY <2>2, PieceTyped
  <2>5. ReadsAt(e) \in Places /\ n <= ReadsAt(e).due
    BY <1>1, <2>1, PlacesTyped
  <2>6. /\ \A i \in 1 .. n : Inbound(e)[i].type = "DATA"
        /\ m.phase = "Ready" /\ m.due = recv[e].payload - n /\ m.pos = pos
    <3>1. /\ \A i \in 1 .. n : SubSeq(Inbound(e), 1, n)[i].type = "DATA"
          /\ m.phase = ReadsAt(e).phase /\ m.due = ReadsAt(e).due - n
          /\ m.pos = ReadsAt(e).pos
      <4> DEFINE P == SubSeq(Inbound(e), 1, n)
      <4>1. P \in Seq(Tokens) /\ Len(P) = n /\ Parses(P, ReadsAt(e), m)
        BY <2>3, <2>4
      <4> HIDE DEF P
      <4>2. /\ \A i \in 1 .. n : P[i].type = "DATA"
            /\ m.phase = ReadsAt(e).phase /\ m.due = ReadsAt(e).due - n
            /\ m.pos = ReadsAt(e).pos
        BY <2>5, <4>1, ParsesBody
      <4> QED
        BY <4>2 DEF P
    <3> QED
      BY <1>1, <2>1, <2>4, <3>1
  <2>7. recv[e].padding = 0
    BY DEF WholeInv
  <2>8. /\ recv'[e].payload = recv[e].payload - n
        /\ recv'[e].state = IF recv[e].payload = n THEN "Ready" ELSE "SeqPayload"
        /\ recv'[e].stuck = recv[e].stuck /\ ~ recv'[e].garbled
    BY <1>0, <1>1, <2>1, <2>6, <2>7 DEF RecvRecords
  <2>9. ReadsAt(e)' = m
    <3>1. m = Place(m.phase, m.due, m.pos)
      BY DEF Places, Place
    <3>2. ReadsAt(e)' = Place("Ready", recv[e].payload - n, pos)
      BY <2>1, <2>8 DEF ReadsAt, pos
    <3> QED
      BY <2>6, <3>1, <3>2
  <2>10. recv'[e].state = "SeqPayload" <=> recv'[e].payload > 0
    BY <1>1, <2>1, <2>2, <2>8
  <2> QED
    BY <2>1, <2>2, <2>3, <2>8, <2>9, <2>10, TakenFramed
<1>9. ASSUME NEW n \in 1 .. WireSize, RecvPadding(e, n)
      PROVE  FALSE
  <2>1. n <= recv[e].padding
    BY <1>9 DEF RecvPadding, RecvBody
  <2>2. recv[e].padding = 0 /\ n > 0
    BY SizesAssumption DEF WholeInv
  <2> QED
    BY <2>1, <2>2
<1> QED
  BY <1>2, <1>4, <1>5, <1>6, <1>7, <1>8, <1>9 DEF Reads

\* A writer whose tokens lead to the place it writes at is still framed with
\* its reader.
LEMMA WrittenFramed ==
  ASSUME TypeInv, NEW e \in Peers, Framed(e), Writes(e),
         Parses(Sent(e)', ReadsAt(Other(e)), WritesAt(e)'),
         xmit'[e].payload > 0 => xmit'[e].state \in {"Seq", "SeqPayload"},
         xmit[e].state = "Abort" => xmit'[e].state = "Abort"
  PROVE  Framed(e)'
<1> DEFINE o == Other(e)
<1>1. o \in Peers /\ o # e
  BY TwoPeers
<1>2. recv'[o] = recv[o] /\ chan'[o] = chan[o]
  BY <1>1, OtherUntouched DEF Library
<1>3. ReadsAt(o)' = ReadsAt(o)
  BY <1>2 DEF ReadsAt
<1>4. Parses(Sent(e), ReadsAt(o), WritesAt(e))'
  BY <1>3 DEF Parses
<1> QED
  BY <1>2, <1>4 DEF Framed

\* One more packet in the empty buffer.
LEMMA PreparedFramed ==
  ASSUME TypeInv, NEW e \in Peers, Framed(e), NEW t \in Tokens, NEW u \in Places,
         xmit[e].buffer = <<>>, xmit'[e].buffer = <<t>>, UNCHANGED wire,
         Leads(WritesAt(e), t, u), WritesAt(e)' = u
  PROVE  Parses(Sent(e)', ReadsAt(Other(e)), WritesAt(e)')
<1>1. wire[e] \in Seq(Tokens) /\ WritesAt(e) \in Places
  BY EndTyped, PlacesTyped DEF TypeInv
<1>2. Sent(e) = wire[e] /\ Sent(e)' = wire[e] \o <<t>> /\ <<t>> \in Seq(Tokens)
  <2>1. wire[e] \o <<>> = wire[e]
    BY <1>1, ConcatEmptySeq
  <2> QED
    BY <2>1 DEF Sent
<1>3. Parses(wire[e], ReadsAt(Other(e)), WritesAt(e))
  BY <1>2 DEF Framed
<1>4. Parses(<<t>>, WritesAt(e), u)
  BY <1>1, ParsesOne
<1>5. Parses(wire[e] \o <<t>>, ReadsAt(Other(e)), u)
  BY <1>1, <1>2, <1>3, <1>4, ParsesConcat
<1> QED
  BY <1>2, <1>5

\* What is sent and prepared.
LEMMA WritesFramed ==
  ASSUME TypeInv, WholeInv, NEW e \in Peers, Framed(e), Writes(e)
  PROVE  Framed(e)'
<1> USE DEF TypeInv
<1> DEFINE o == Other(e)
           pos == [c \in Channels |-> chan[e][c].xseq]
<1>0. /\ xmit \in [Peers -> XmitRecords] /\ wire \in [Peers -> Seq(Tokens)]
      /\ chan \in [Peers -> [Channels -> ChanRecords]]
      /\ xmit[e].buffer \in Seq(Tokens) /\ xmit[e].payload \in Nat
      /\ xmit[e].state \in XmitStates
  BY EndTyped DEF TypeOK
<1>1. /\ Parses(Sent(e), ReadsAt(o), WritesAt(e))
      /\ xmit[e].payload > 0 => xmit[e].state \in {"Seq", "SeqPayload"}
  BY DEF Framed
<1>2. /\ WritesAt(e).pos = pos /\ WritesAt(e).due = xmit[e].payload
      /\ xmit[e].state = "Setup" => WritesAt(e).phase = "Accept"
      /\ xmit[e].state \notin {"Setup", "Abort"} => WritesAt(e).phase = "Ready"
      /\ pos \in [Channels -> Nat]
  BY ChanTyped DEF WritesAt, Place
<1> HIDE DEF pos
<1>3. CASE SendBuffer(e)
  <2> DEFINE b == xmit[e].buffer
  <2>1. PICK n \in Takes(e, Len(b)) :
          /\ Send(e, SubSeq(b, 1, n))
          /\ xmit' = [xmit EXCEPT ![e].buffer = SubSeq(@, n + 1, Len(@))]
    BY <1>3 DEF SendBuffer
  <2>2. n \in 0 .. Len(b) /\ Len(b) \in Nat
    <3>1. Len(b) \in Nat /\ Len(b) > 0
      BY <1>0, <1>3 DEF SendBuffer
    <3> QED
      BY <2>1, <3>1, TakesBounds
  <2> DEFINE P == SubSeq(b, 1, n)
             Q == SubSeq(b, n + 1, Len(b))
  <2>3. P \in Seq(Tokens) /\ Q \in Seq(Tokens) /\ b = P \o Q
    <3>1. b \in Seq(Tokens)
      BY <1>0
    <3> HIDE DEF b
    <3> QED
      BY <2>2, <3>1, PieceTyped
  <2>4. /\ xmit'[e].state = xmit[e].state /\ xmit'[e].payload = xmit[e].payload
        /\ xmit'[e].buffer = Q /\ wire'[e] = wire[e] \o P /\ chan' = chan
    <3>1. xmit' = [xmit EXCEPT ![e].buffer = Q]
      BY <2>1
    <3> HIDE DEF Q
    <3>2. /\ xmit'[e].state = xmit[e].state /\ xmit'[e].payload = xmit[e].payload
          /\ xmit'[e].buffer = Q
      BY <1>0, <3>1 DEF XmitRecords
    <3>3. wire'[e] = wire[e] \o P
      BY <1>0, <2>1 DEF Send
    <3> QED
      BY <1>3, <3>2, <3>3 DEF SendBuffer
  <2> HIDE DEF P, Q
  <2>5. Sent(e)' = Sent(e)
    <3>1. (wire[e] \o P) \o Q = wire[e] \o (P \o Q)
      BY <1>0, <2>3, TokensAssociate
    <3> QED
      BY <2>3, <2>4, <3>1 DEF Sent
  <2>6. WritesAt(e)' = WritesAt(e)
    BY <2>4 DEF WritesAt
  <2> QED
    BY <1>1, <2>4, <2>5, <2>6, WrittenFramed
<1>4. CASE SendPayload(e)
  <2>1. PICK n \in Takes(e, xmit[e].payload) :
          /\ Send(e, Units("DATA", n))
          /\ xmit' = [xmit EXCEPT ![e].payload = @ - n]
    BY <1>4 DEF SendPayload
  <2>2. n \in 0 .. xmit[e].payload
    BY <1>0, <1>4, TakesBounds DEF SendPayload
  <2> DEFINE U == Units("DATA", n)
  <2>3. U \in Seq(Tokens)
    <3>1. n \in Nat
      BY <1>0, <2>2
    <3> QED
      BY <3>1, UnitsTyped
  <2>4. /\ xmit'[e].state = "SeqPayload" /\ xmit[e].state = "SeqPayload"
        /\ xmit'[e].payload = xmit[e].payload - n
        /\ xmit[e].buffer = <<>> /\ xmit'[e].buffer = <<>>
        /\ wire'[e] = wire[e] \o U /\ chan' = chan
    <3>1. xmit[e].buffer = <<>> /\ xmit[e].state = "SeqPayload" /\ chan' = chan
      BY <1>4 DEF SendPayload
    <3>2. wire'[e] = wire[e] \o U
      BY <1>0, <2>1 DEF Send
    <3>3. /\ xmit'[e].state = xmit[e].state /\ xmit'[e].buffer = xmit[e].buffer
          /\ xmit'[e].payload = xmit[e].payload - n
      BY <1>0, <2>1 DEF XmitRecords
    <3> QED
      BY <3>1, <3>2, <3>3
  <2>5. Parses(U, WritesAt(e), Place("Ready", xmit[e].payload - n, pos))
    BY <1>2, <2>2, <2>4, ParsesUnits, PlacesTyped
  <2> HIDE DEF U
  <2>6. Sent(e) = wire[e] /\ Sent(e)' = wire[e] \o U
    <3>1. wire[e] \o <<>> = wire[e] /\ (wire[e] \o U) \o <<>> = wire[e] \o U
      BY <1>0, <2>3, ConcatEmptySeq, ConcatProperties
    <3> QED
      BY <2>4, <3>1 DEF Sent
  <2>7. Parses(wire[e] \o U, ReadsAt(o), Place("Ready", xmit[e].payload - n, pos))
    BY <1>0, <1>1, <2>3, <2>5, <2>6, ParsesConcat
  <2>8. WritesAt(e)' = Place("Ready", xmit[e].payload - n, pos)
    BY <2>4 DEF WritesAt, pos
  <2> QED
    BY <2>4, <2>6, <2>7, <2>8, WrittenFramed
<1>5. CASE SendPadding(e)
  BY <1>5 DEF SendPadding, WholeInv
<1>6. ASSUME Prepares(e)
      PROVE  /\ xmit[e].buffer = <<>>
             /\ BecomesIdle(e) => /\ xmit[e].payload = 0 /\ WritesAt(e).phase = "Ready"
                                  /\ xmit[e].state # "Abort"
  BY <1>0, <1>1, <1>2, <1>6 DEF Prepares, BecomesIdle, WholeInv
<1>7. ASSUME NEW t, NEW z \in XmitStates, PreparePacket(e, z, Packet(t)), Prepares(e),
             UNCHANGED <<chan, wire>>, xmit[e].state # "Abort", xmit[e].payload = 0,
             \/ /\ t \in {"PING", "PONG"} /\ z \notin {"Setup", "Abort"} /\ BecomesIdle(e)
             \/ t = "ACCEPT" /\ z = "Accept" /\ xmit[e].state = "Setup"
             \/ t = "ABORT" /\ z = "Abort" /\ xmit[e].state = "Setup"
      PROVE  Framed(e)'
  <2> DEFINE p == Packet(t)
             u == CASE z = "Abort" -> "Aborted" [] OTHER -> "Ready"
  <2>1. p \in Tokens /\ p.type = t
    BY <1>7, Numbers DEF Packet, Token, Tokens, PacketTypes
  <2>2. /\ xmit'[e].state = z /\ xmit'[e].buffer = <<p>>
        /\ xmit'[e].payload = xmit[e].payload /\ xmit[e].buffer = <<>>
    BY <1>0, <1>6, <1>7 DEF PreparePacket, XmitRecords
  <2>3. WritesAt(e)' = Place(u, 0, pos)
    BY <1>7, <2>2 DEF WritesAt, pos
  <2>4. Place(u, 0, pos) \in Places
    BY <1>2 DEF Place, Places, Phases
  <2>5. Leads(WritesAt(e), p, Place(u, 0, pos))
    BY <1>2, <1>6, <1>7, <2>1 DEF Leads
  <2>6. Parses(Sent(e)', ReadsAt(o), WritesAt(e)')
    BY <1>7, <2>1, <2>2, <2>3, <2>4, <2>5, PreparedFramed
  <2> QED
    BY <1>7, <2>2, <2>6, WrittenFramed
<1>8. CASE PrepareAcceptance(e)
  <2>1. xmit[e].state = "Setup" /\ Prepares(e) /\ UNCHANGED <<chan, wire>>
        /\ \/ PreparePacket(e, "Accept", Packet("ACCEPT"))
           \/ PreparePacket(e, "Abort", Packet("ABORT"))
    BY <1>8 DEF PrepareAcceptance
  <2>2. xmit[e].payload = 0
    BY <1>0, <1>1, <2>1
  <2> QED
    BY <1>7, <2>1, <2>2 DEF XmitStates
<1>9. CASE PreparePong(e) \/ PreparePing(e)
  BY <1>6, <1>7, <1>9 DEF PreparePong, PreparePing, XmitStates
<1>10. CASE PreparePayload(e)
  <2>1. /\ xmit[e].state = "Seq" /\ xmit'[e].state = "SeqPayload"
        /\ xmit'[e].payload = xmit[e].payload /\ xmit'[e].buffer = xmit[e].buffer
        /\ UNCHANGED <<chan, wire>>
    BY <1>0, <1>10 DEF PreparePayload, XmitRecords
  <2>2. Sent(e)' = Sent(e) /\ WritesAt(e)' = WritesAt(e)
    BY <2>1 DEF Sent, WritesAt
  <2> QED
    BY <1>1, <2>1, <2>2, WrittenFramed
<1>11. CASE PrepareArm(e)
  <2> DEFINE c == Popped(ctrl[e])
             t == Token("ARM", c, Int32(chan[e][c].rarm), 0)
  <2>1. c \in Channels /\ UNCHANGED <<recv, wire>> /\ Prepares(e) /\ BecomesIdle(e)
    BY <1>11, PopTyped DEF PrepareArm, TypeOK
  <2>2. CASE chan[e][c].armFlag
    <3>1. PreparePacket(e, "Arm", t) /\ chan' = [chan EXCEPT ![e][c].armFlag = FALSE]
      BY <1>11, <2>2 DEF PrepareArm
    <3>2. t \in Tokens /\ t.type = "ARM" /\ t.ch = c
      <4>1. chan[e][c].rarm \in Int
        BY <2>1, ChanTyped
      <4>2. Int32(chan[e][c].rarm) \in Nat /\ c \in Entries
        BY <2>1, <4>1, Conversions, Numbers
      <4> QED
        BY <4>2 DEF Token, Tokens, PacketTypes
    <3>3. /\ xmit'[e].state = "Arm" /\ xmit'[e].buffer = <<t>>
          /\ xmit'[e].payload = 0 /\ xmit[e].buffer = <<>>
      BY <1>0, <1>6, <2>1, <3>1 DEF PreparePacket, XmitRecords
    <3>4. \A d \in Channels : chan'[e][d].xseq = chan[e][d].xseq
      BY <1>0, <3>1 DEF ChanRecords
    <3>5. WritesAt(e)' = Place("Ready", 0, pos)
      BY <3>3, <3>4 DEF WritesAt, pos
    <3>6. Place("Ready", 0, pos) \in Places
      BY <1>2 DEF Place, Places, Phases
    <3>7. Leads(WritesAt(e), t, Place("Ready", 0, pos))
      BY <1>2, <1>6, <2>1, <3>2 DEF Leads
    <3>8. Parses(Sent(e)', ReadsAt(o), WritesAt(e)')
      BY <2>1, <3>2, <3>3, <3>5, <3>6, <3>7, PreparedFramed
    <3> QED
      BY <1>6, <2>1, <3>3, <3>8, WrittenFramed
  <2>3. CASE ~ chan[e][c].armFlag
    <3>1. UNCHANGED <<chan, xmit, wire>>
      BY <1>11, <2>3 DEF PrepareArm
    <3>2. Sent(e)' = Sent(e) /\ WritesAt(e)' = WritesAt(e)
      BY <3>1 DEF Sent, WritesAt
    <3> QED
      BY <1>1, <3>1, <3>2, WrittenFramed
  <2> QED
    BY <2>2, <2>3
<1>12. CASE PrepareSeq(e)
  <2> DEFINE c    == Popped(data[e])
             size == SeqSize(e, c)
             t    == Token("SEQ", c, Int32(chan[e][c].xseq), size)
             r    == [state   |-> "Seq", buffer  |-> <<t>>,
                      payload |-> size, padding |-> Padding(size)]
             next == [pos EXCEPT ![c] = @ + size]
  <2>1. /\ Pending(data[e]) # {} /\ Prepares(e) /\ BecomesIdle(e)
        /\ chan' = [chan EXCEPT ![e][c].xseq = @ + size]
        /\ xmit' = [xmit EXCEPT ![e] = r]
        /\ UNCHANGED <<ctrl, recv, ping, wire>>
    BY <1>12 DEF PrepareSeq
  <2>2. c \in Channels
    BY <2>1, PopTyped DEF TypeOK
  <2>3. size \in Nat
    BY <2>2, SeqSizeTyped
  <2> HIDE DEF size
  <2>4. t \in Tokens /\ t.type = "SEQ" /\ t.ch = c /\ t.size = size
        /\ t.val = Int32(pos[c])
    <3>1. chan[e][c].xseq \in Int
      BY <2>2, ChanTyped
    <3>2. Int32(chan[e][c].xseq) \in Nat /\ c \in Entries
      BY <2>2, <3>1, Conversions, Numbers
    <3> QED
      BY <2>2, <2>3, <3>2 DEF Token, Tokens, PacketTypes, pos
  <2>5. /\ xmit'[e].state = "Seq" /\ xmit'[e].buffer = <<t>>
        /\ xmit'[e].payload = size /\ xmit[e].buffer = <<>>
    BY <1>0, <1>6, <2>1 DEF XmitRecords
  <2>6. [d \in Channels |-> chan'[e][d].xseq] = next
    <3>1. \A d \in Channels :
            chan'[e][d].xseq = IF d = c THEN chan[e][d].xseq + size ELSE chan[e][d].xseq
      BY <1>0, <2>1, <2>2 DEF ChanRecords
    <3> QED
      BY <2>2, <3>1 DEF pos
  <2>7. WritesAt(e)' = Place("Ready", size, next)
    BY <2>5, <2>6 DEF WritesAt
  <2>8. Place("Ready", size, next) \in Places
    BY <1>2, <2>2, <2>3 DEF Place, Places, Phases
  <2>9. Leads(WritesAt(e), t, Place("Ready", size, next))
    BY <1>2, <1>6, <2>1, <2>2, <2>4 DEF Leads
  <2>10. Parses(Sent(e)', ReadsAt(o), WritesAt(e)')
    BY <2>1, <2>4, <2>5, <2>7, <2>8, <2>9, PreparedFramed
  <2> QED
    BY <1>6, <2>1, <2>5, <2>10, WrittenFramed
<1>13. CASE PrepareNothing(e)
  <2> DEFINE z == IF BecomesIdle(e) THEN "Idle" ELSE xmit[e].state
  <2>1. /\ xmit' = [xmit EXCEPT ![e].state = z] /\ Prepares(e)
        /\ UNCHANGED <<chan, wire>>
    BY <1>13 DEF PrepareNothing
  <2>2. /\ xmit'[e].state = z /\ xmit'[e].payload = xmit[e].payload
        /\ xmit'[e].buffer = xmit[e].buffer
    BY <1>0, <2>1 DEF XmitRecords
  <2>3. Sent(e)' = Sent(e)
    BY <2>1, <2>2 DEF Sent
  <2>4. WritesAt(e)' = WritesAt(e)
    BY <1>6, <2>1, <2>2 DEF WritesAt, BecomesIdle
  <2> QED
    BY <1>1, <1>6, <2>1, <2>2, <2>3, <2>4, WrittenFramed
<1> QED
  BY <1>3, <1>4, <1>5, <1>8, <1>9, <1>10, <1>11, <1>12, <1>13 DEF Writes

\* A call of the application moves no position.
LEMMA AppCallLeaves ==
  ASSUME TypeOK, NEW e \in Peers, AppCall(e), NEW p \in Peers, NEW c \in Channels
  PROVE  /\ chan'[p][c].xseq = chan[p][c].xseq /\ chan'[p][c].rseq = chan[p][c].rseq
         /\ chan'[p][c].xarm = chan[p][c].xarm
<1> DEFINE Goal == /\ chan'[p][c].xseq = chan[p][c].xseq
                   /\ chan'[p][c].rseq = chan[p][c].rseq
                   /\ chan'[p][c].xarm = chan[p][c].xarm
<1>0. chan \in [Peers -> [Channels -> ChanRecords]]
  BY DEF TypeOK
<1>1. ASSUME NEW d \in Channels, NEW n, chan' = [chan EXCEPT ![e][d].xlimit = n]
      PROVE  Goal
  BY <1>0, <1>1 DEF ChanRecords
<1>2. ASSUME NEW d \in Channels, NEW n,
             chan' = [chan EXCEPT ![e][d].rarm = n, ![e][d].armFlag = TRUE]
      PROVE  Goal
  BY <1>0, <1>2 DEF ChanRecords
<1>3. ASSUME NEW d \in Channels, NEW n, AddXmitLimit(e, d, n)
      PROVE  Goal
  BY <1>0, <1>1, <1>3 DEF AddXmitLimit
<1>4. ASSUME NEW d \in Channels, NEW n, AddRecvLimit(e, d, n)
      PROVE  Goal
  BY <1>0, <1>2, <1>4 DEF AddRecvLimit
<1>5. ASSUME NEW d \in Channels, NEW n, SetXmitLimit(e, d, n) \/ SetRecvLimit(e, d, n)
      PROVE  Goal
  BY <1>1, <1>5 DEF SetXmitLimit, SetRecvLimit
<1>6. CASE StartPing(e)
  BY <1>6 DEF StartPing
<1> QED
  BY <1>3, <1>4, <1>5, <1>6 DEF AppCall

\* What receiving leaves alone: all of the other direction.
LEMMA ReadsLeave ==
  ASSUME TypeInv, NEW e \in Peers, Reads(e)
  PROVE  /\ wire'[e] = wire[e] /\ xmit'[e] = xmit[e]
         /\ recv'[Other(e)] = recv[Other(e)] /\ chan'[Other(e)] = chan[Other(e)]
         /\ \A c \in Channels : chan'[e][c].xseq = chan[e][c].xseq
<1>0. /\ chan \in [Peers -> [Channels -> ChanRecords]] /\ wire \in [Peers -> Seq(Tokens)]
      /\ Other(e) \in Peers /\ Other(e) # e
  BY TwoPeers DEF TypeInv, TypeOK
<1>1. xmit' = xmit /\ (wire' = wire \/ \E n : Consume(e, n))
  BY DEF Reads, RecvSetup, RecvAccept, RecvUnknown, RecvArm, RecvPing,
     RecvPong, RecvSeq, RecvPayload, RecvPadding, RecvBody, Refuse
<1>2. \/ chan' = chan
      \/ \E c \in Channels, n \in Nat : chan' = [chan EXCEPT ![e][c].xarm = n]
      \/ \E c \in Channels, n \in Nat : chan' = [chan EXCEPT ![e][c].rseq = @ + n]
  <2>1. CASE RecvArm(e)
    <3>1. Head(Inbound(e)).val \in Nat
      BY <2>1, HeadTyped DEF RecvArm, TypeInv
    <3> QED
      BY <2>1, <3>1 DEF RecvArm, Refuse
  <2>2. CASE RecvSeq(e)
    <3>1. Head(Inbound(e)).size \in Nat
      BY <2>2, HeadTyped DEF RecvSeq, TypeInv
    <3> QED
      BY <2>2, <3>1 DEF RecvSeq, Refuse
  <2>3. CASE ~ RecvArm(e) /\ ~ RecvSeq(e)
    BY <2>3 DEF Reads, RecvSetup, RecvAccept, RecvUnknown, RecvPing,
       RecvPong, RecvPayload, RecvPadding, RecvBody, Refuse
  <2> QED
    BY <2>1, <2>2, <2>3
<1>3. ASSUME NEW c \in Channels
      PROVE  chan'[e][c].xseq = chan[e][c].xseq
  <2>1. ASSUME NEW d \in Channels, NEW n \in Nat, chan' = [chan EXCEPT ![e][d].xarm = n]
        PROVE  chan'[e][c].xseq = chan[e][c].xseq
    BY <1>0, <2>1 DEF ChanRecords
  <2>2. ASSUME NEW d \in Channels, NEW n \in Nat,
               chan' = [chan EXCEPT ![e][d].rseq = @ + n]
        PROVE  chan'[e][c].xseq = chan[e][c].xseq
    BY <1>0, <2>2 DEF ChanRecords
  <2> QED
    BY <1>2, <2>1, <2>2
<1>4. wire'[e] = wire[e]
  BY <1>0, <1>1 DEF Consume
<1> QED
  BY <1>0, <1>1, <1>3, <1>4, OtherUntouched DEF Library

\* What sending leaves alone: all of the other direction.
LEMMA WritesLeave ==
  ASSUME TypeInv, NEW e \in Peers, Writes(e)
  PROVE  /\ wire'[Other(e)] = wire[Other(e)] /\ xmit'[Other(e)] = xmit[Other(e)]
         /\ recv'[e] = recv[e] /\ chan'[Other(e)] = chan[Other(e)]
         /\ \A c \in Channels : /\ chan'[e][c].rseq = chan[e][c].rseq
                                /\ chan'[e][c].xarm = chan[e][c].xarm
<1>0. /\ chan \in [Peers -> [Channels -> ChanRecords]] /\ wire \in [Peers -> Seq(Tokens)]
      /\ Other(e) \in Peers /\ Other(e) # e
  BY TwoPeers DEF TypeInv, TypeOK
<1>1. recv' = recv /\ (wire' = wire \/ \E s : Send(e, s))
  BY DEF Writes, SendBuffer, SendPayload, SendPadding, PrepareAcceptance, PreparePayload,
     PreparePong, PreparePing, PrepareArm, PrepareSeq, PrepareNothing
<1>2. \/ chan' = chan
      \/ \E c : chan' = [chan EXCEPT ![e][c].armFlag = FALSE]
      \/ \E c, n : chan' = [chan EXCEPT ![e][c].xseq = n]
  BY DEF Writes, SendBuffer, SendPayload, SendPadding, PrepareAcceptance, PreparePayload,
     PreparePong, PreparePing, PrepareArm, PrepareSeq, PrepareNothing
<1>3. ASSUME NEW c \in Channels
      PROVE  chan'[e][c].rseq = chan[e][c].rseq /\ chan'[e][c].xarm = chan[e][c].xarm
  <2>1. ASSUME NEW d, chan' = [chan EXCEPT ![e][d].armFlag = FALSE]
        PROVE  chan'[e][c].rseq = chan[e][c].rseq /\ chan'[e][c].xarm = chan[e][c].xarm
    BY <1>0, <2>1 DEF ChanRecords
  <2>2. ASSUME NEW d, NEW n, chan' = [chan EXCEPT ![e][d].xseq = n]
        PROVE  chan'[e][c].rseq = chan[e][c].rseq /\ chan'[e][c].xarm = chan[e][c].xarm
    BY <1>0, <2>2 DEF ChanRecords
  <2> QED
    BY <1>2, <2>1, <2>2
<1>4. wire'[Other(e)] = wire[Other(e)]
  BY <1>0, <1>1 DEF Send
<1> QED
  BY <1>0, <1>1, <1>3, <1>4, OtherUntouched DEF Library

\* The inductive invariant of links without padding.
LinkInv == TypeInv /\ WholeInv /\ FrameInv

\* Every step keeps it: the typed and the whole state, and the place at which
\* each receiver reads what the other endpoint wrote.
LEMMA LinkInvKept ==
  ASSUME WholeWords
  PROVE  Spec => []LinkInv
<1>1. Init /\ TypeInv => FrameInv
  <2> SUFFICES ASSUME Init, TypeInv, NEW e \in Peers PROVE Framed(e)
    BY DEF FrameInv
  <2> DEFINE o == Other(e)
             pos == [c \in Channels |-> 0]
             p == Packet("SETUP")
  <2>1. o \in Peers
    BY TwoPeers
  <2>2. /\ recv[o].state = "Setup" /\ recv[o].payload = 0 /\ ~ recv[o].garbled
        /\ ~ recv[o].stuck /\ xmit[e].state = "Setup" /\ xmit[e].payload = 0
        /\ wire[e] = <<>> /\ xmit[e].buffer = <<p>>
        /\ \A c \in Channels : chan[o][c].rseq = 0 /\ chan[e][c].xseq = 0
    BY <2>1 DEF Init
  <2>3. ReadsAt(o) = Place("Setup", 0, pos) /\ WritesAt(e) = Place("Accept", 0, pos)
    BY <2>2 DEF ReadsAt, WritesAt
  <2>4. p \in Tokens /\ Sent(e) = <<p>>
    <3>1. p \in Tokens
      BY Numbers DEF Packet, Token, Tokens, PacketTypes
    <3>2. <<p>> \in Seq(Tokens)
      BY <3>1
    <3>3. <<>> \o <<p>> = <<p>>
      BY <3>2, ConcatEmptySeq
    <3> QED
      BY <2>2, <3>1, <3>3 DEF Sent
  <2>5. Place("Setup", 0, pos) \in Places /\ Place("Accept", 0, pos) \in Places
    BY DEF Place, Places, Phases
  <2>6. Leads(Place("Setup", 0, pos), p, Place("Accept", 0, pos))
    BY DEF Leads, Place, Packet, Token
  <2>7. Parses(Sent(e), ReadsAt(o), WritesAt(e))
    BY <2>3, <2>4, <2>5, <2>6, ParsesOne
  <2> QED
    BY <2>2, <2>7 DEF Framed
<1>2. LinkInv /\ [Next]_vars => FrameInv'
  <2> SUFFICES ASSUME LinkInv, [Next]_vars, NEW x \in Peers PROVE Framed(x)'
    BY DEF FrameInv
  <2>0. TypeInv /\ TypeOK /\ WholeInv /\ Framed(x) /\ (\A e \in Peers : Framed(e))
        /\ Other(x) \in Peers /\ Other(x) # x /\ Other(Other(x)) = x
        /\ \A e \in Peers : e = x \/ e = Other(x)
    BY TwoPeers DEF LinkInv, FrameInv, TypeInv
  <2>1. CASE UNCHANGED <<xmit, recv, wire>> /\ \A e \in Peers, c \in Channels :
               chan'[e][c].xseq = chan[e][c].xseq /\ chan'[e][c].rseq = chan[e][c].rseq
    BY <2>0, <2>1, FramedUnchanged
  <2>2. CASE UNCHANGED vars
    BY <2>1, <2>2 DEF vars
  <2>3. ASSUME NEW e \in Peers, AppCall(e)
        PROVE  Framed(x)'
    <3>1. chan \in [Peers -> [Channels -> ChanRecords]]
      BY <2>0 DEF TypeOK
    <3>2. \A p \in Peers, c \in Channels :
            chan'[p][c].xseq = chan[p][c].xseq /\ chan'[p][c].rseq = chan[p][c].rseq
      BY <2>0, <2>3, AppCallLeaves
    <3> QED
      BY <2>0, <2>1, <2>3, <3>2, AppCallKeepsPlace
  <2>4. ASSUME NEW e \in Peers, HandleNetwork(e) \/ RecvNothing(e)
        PROVE  Framed(x)'
    BY <2>1, <2>4 DEF HandleNetwork, RecvNothing
  <2>5. ASSUME NEW e \in Peers, Reads(e)
        PROVE  Framed(x)'
    <3>1. CASE x = Other(e)
      BY <2>0, <2>5, <3>1, ReadsFramed
    <3>2. CASE x = e
      BY <2>0, <2>5, <3>2, ReadsLeave, FramedUnchanged
    <3> QED
      BY <3>1, <3>2, TwoPeers
  <2>6. ASSUME NEW e \in Peers, Writes(e)
        PROVE  Framed(x)'
    <3>1. CASE x = e
      BY <2>0, <2>6, <3>1, WritesFramed
    <3>2. CASE x = Other(e)
      BY <2>0, <2>6, <3>2, WritesLeave, FramedUnchanged, TwoPeers
    <3> QED
      BY <3>1, <3>2, TwoPeers
  <2> QED
    BY <2>2, <2>3, <2>4, <2>5, <2>6 DEF Next, Library
<1>3. Init => TypeInv
  BY InitTyped
<1> QED
  BY <1>1, <1>2, <1>3, WholeKept, PTL DEF Spec, LinkInv

\* Where no packet is padded, each endpoint finds headers and payload where it
\* looks for them, however the transport splits them, and refuses nothing but
\* the rejection of the connection.
THEOREM FramingAlwaysKept ==
  ASSUME WholeWords
  PROVE  Spec => []FramingKept
<1>1. LinkInv => FramingKept
  <2> SUFFICES ASSUME LinkInv, NEW e \in Peers
               PROVE  ~ recv[e].garbled /\ (recv[e].stuck => xmit[Other(e)].state = "Abort")
    BY DEF FramingKept
  <2> QED
    BY TwoPeers DEF LinkInv, FrameInv, Framed
<1> QED
  BY <1>1, LinkInvKept, PTL

-----------------------------------------------------------------------------
(* No traffic before the acceptance.                                       *)

Accepted(e) == recv[e].state \in {"Ready", "SeqPayload"}

PongInv == \A e \in Peers : ping[e].pong => Accepted(e)

\* Which packets an endpoint receives before the acceptance and which after.
LEMMA ReceivesWhen ==
  ASSUME TypeInv, NEW e \in Peers, Framed(Other(e)), NEW t, Receives(e, t)
  PROVE  /\ t = "SETUP" => recv[e].state = "Setup"
         /\ t \in {"ARM", "SEQ", "PING", "PONG"} => recv[e].state = "Ready"
<1>1. PICK m \in Places : Leads(ReadsAt(e), Head(Inbound(e)), m)
  BY HeadFramed DEF TypeInv
<1>2. Head(Inbound(e)).type = t /\ recv[e].state # "SeqPayload"
  BY HeadTyped DEF TypeInv, Receives
<1>3. ReadsAt(e).phase = recv[e].state
  BY <1>2 DEF ReadsAt, Place
<1> QED
  BY <1>1, <1>2, <1>3 DEF Leads

\* Once accepted, always accepted.
LEMMA AcceptedStays ==
  ASSUME LinkInv, NEW e \in Peers, Accepted(e), [Next]_vars
  PROVE  Accepted(e)'
<1>0. TypeInv /\ Framed(Other(e)) /\ recv \in [Peers -> RecvRecords]
  BY TwoPeers DEF LinkInv, FrameInv, TypeInv, TypeOK
<1>1. CASE UNCHANGED recv
  BY <1>1 DEF Accepted
<1>2. ASSUME NEW p \in Peers, AppCall(p) \/ Library(p), p # e
      PROVE  Accepted(e)'
  BY <1>0, <1>2, OtherUntouched DEF Accepted
<1>3. CASE AppCall(e) \/ HandleNetwork(e) \/ RecvNothing(e) \/ Writes(e)
  <2>1. recv'[e] = recv[e]
    BY <1>0, <1>3, AppCallKeepsPlace, WritesLeave DEF HandleNetwork, RecvNothing, TypeInv
  <2> QED
    BY <2>1 DEF Accepted
<1>4. CASE Reads(e)
  <2>1. CASE RecvSetup(e)
    BY <1>0, <2>1, ReceivesWhen DEF RecvSetup, Accepted
  <2>2. ASSUME NEW x, Refuse(e, x)
        PROVE  Accepted(e)'
    BY <1>0, <2>2 DEF Refuse, Accepted, RecvRecords
  <2>3. CASE RecvAccept(e) \/ RecvPing(e) \/ RecvPong(e)
    BY <1>0, <2>3 DEF RecvAccept, RecvPing, RecvPong, Accepted, RecvRecords
  <2>4. CASE RecvUnknown(e)
    BY <2>2, <2>4 DEF RecvUnknown
  <2>5. CASE RecvArm(e)
    BY <1>0, <2>2, <2>5 DEF RecvArm, Accepted, RecvRecords
  <2>6. CASE RecvSeq(e)
    BY <1>0, <2>2, <2>6 DEF RecvSeq, Accepted, RecvRecords
  <2>7. ASSUME NEW n \in 1 .. WireSize, NEW f \in {"payload", "padding"}, NEW y,
               RecvBody(e, n, f, y)
        PROVE  Accepted(e)'
    BY <1>0, <2>7 DEF RecvBody, Accepted, RecvRecords
  <2> QED
    BY <1>4, <2>1, <2>3, <2>4, <2>5, <2>6, <2>7 DEF Reads, RecvPayload, RecvPadding
<1> QED
  BY <1>1, <1>2, <1>3, <1>4 DEF Next, Library, vars

\* What changes by the traffic of the peer changes after its acceptance.
LEMMA TrafficReads ==
  ASSUME LinkInv, NEW e \in Peers, Reads(e), ~ Accepted(e)
  PROVE  /\ ping' = ping
         /\ \A c \in Channels : /\ chan'[e][c].xarm = chan[e][c].xarm
                                /\ chan'[e][c].rseq = chan[e][c].rseq
<1>0. TypeInv /\ Framed(Other(e))
  BY TwoPeers DEF LinkInv, FrameInv
<1>1. \A t \in {"ARM", "SEQ", "PING", "PONG"} : ~ Receives(e, t)
  BY <1>0, ReceivesWhen DEF Accepted
<1>2. RecvSetup(e) \/ RecvAccept(e) \/ RecvUnknown(e)
      \/ \E n \in 1 .. WireSize : RecvPayload(e, n) \/ RecvPadding(e, n)
  BY <1>1 DEF Reads, RecvArm, RecvSeq, RecvPing, RecvPong
<1> QED
  BY <1>2 DEF RecvSetup, RecvAccept, RecvUnknown, Refuse, RecvPayload, RecvPadding, RecvBody

\* ARM, SEQ, PING and PONG take effect only after the Accept of the peer, and
\* a pong is owed only then: no traffic of a peer that rejects is acted on.
THEOREM TrafficFollowsAccept ==
  ASSUME WholeWords
  PROVE  Spec => TrafficAfterAccept
<1>1. LinkInv /\ PongInv /\ [Next]_vars
      => [\A e \in Peers :
            \/ recv[e].state \in {"Ready", "SeqPayload"}
            \/ /\ ping'[e].completed = ping[e].completed
               /\ ping'[e].pong = ping[e].pong
               /\ \A c \in Channels : /\ chan'[e][c].xarm = chan[e][c].xarm
                                      /\ chan'[e][c].rseq = chan[e][c].rseq]_vars
  <2> DEFINE Quiet(p) == /\ ping'[p].completed = ping[p].completed
                         /\ ping'[p].pong = ping[p].pong
                         /\ \A c \in Channels : /\ chan'[p][c].xarm = chan[p][c].xarm
                                                /\ chan'[p][c].rseq = chan[p][c].rseq
  <2> SUFFICES ASSUME LinkInv, PongInv, [Next]_vars, NEW x \in Peers, ~ Accepted(x)
               PROVE  Quiet(x)
    BY DEF Accepted
  <2>0. TypeInv /\ ping \in [Peers -> PingRecords] /\ ~ ping[x].pong
    BY DEF LinkInv, TypeInv, TypeOK, PongInv
  <2>1. CASE UNCHANGED <<ping, chan>>
    BY <2>1
  <2>2. ASSUME NEW e \in Peers, AppCall(e) \/ Library(e), e # x
        PROVE  Quiet(x)
    BY <2>0, <2>2, OtherUntouched
  <2>3. CASE AppCall(x)
    <3>0. \/ ping' = ping
          \/ ping' = [ping EXCEPT ![x].request = TRUE, ![x].inProgress = TRUE,
                                 ![x].started = @ + 1]
      BY <2>3 DEF AppCall, AddXmitLimit, AddRecvLimit, SetXmitLimit, SetRecvLimit, StartPing
    <3>1. ping'[x].completed = ping[x].completed /\ ping'[x].pong = ping[x].pong
      BY <2>0, <3>0 DEF PingRecords
    <3> QED
      BY <2>0, <2>3, <3>1, AppCallLeaves DEF TypeInv
  <2>4. CASE Reads(x)
    BY <2>4, TrafficReads
  <2>5. CASE Writes(x)
    <3>1. ping' = ping \/ ping' = [ping EXCEPT ![x].request = FALSE]
      BY <2>0, <2>5 DEF Writes, SendBuffer, SendPayload, SendPadding, PrepareAcceptance,
         PreparePayload, PreparePong, PreparePing, PrepareArm, PrepareSeq, PrepareNothing
    <3>2. ping'[x].completed = ping[x].completed /\ ping'[x].pong = ping[x].pong
      BY <2>0, <3>1 DEF PingRecords
    <3> QED
      BY <2>0, <2>5, <3>2, WritesLeave
  <2>6. CASE HandleNetwork(x) \/ RecvNothing(x)
    BY <2>1, <2>6 DEF HandleNetwork, RecvNothing
  <2> QED
    BY <2>1, <2>2, <2>3, <2>4, <2>5, <2>6 DEF Next, Library, vars
<1>2. LinkInv /\ PongInv /\ [Next]_vars => PongInv'
  <2> SUFFICES ASSUME LinkInv, PongInv, [Next]_vars, NEW x \in Peers, ping'[x].pong
               PROVE  Accepted(x)'
    BY DEF PongInv
  <2>1. CASE ping[x].pong
    BY <2>1, AcceptedStays DEF PongInv
  <2>2. CASE ~ ping[x].pong
    <3>1. Accepted(x)
      BY <1>1, <2>2 DEF Accepted, vars
    <3> QED
      BY <3>1, AcceptedStays
  <2> QED
    BY <2>1, <2>2
<1>3. Init => PongInv
  BY DEF Init, PongInv
<1> QED
  BY <1>1, <1>2, <1>3, LinkInvKept, PTL DEF Spec, TrafficAfterAccept
=============================================================================

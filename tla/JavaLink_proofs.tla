-------------------------- MODULE JavaLink_proofs --------------------------
(***************************************************************************)
(* Proofs about two endpoints of the Java library, for every number of     *)
(* channels, every assignment of levels, every packet size, transport      *)
(* buffer and width of the ints, with and without application threads.     *)
(***************************************************************************)
EXTENDS JavaLink, SharedLemmas

-----------------------------------------------------------------------------
(* Helpers. *)

\* There are two endpoints, each is the other one of the other.
LEMMA TwoPeers ==
  ASSUME NEW e \in Peers
  PROVE  /\ Other(e) \in Peers /\ Other(e) # e
         /\ Other(Other(e)) = e
         /\ \A p \in Peers : p = e \/ p = Other(e)
<1>1. PICK a, b \in Peers : a # b /\ Peers = {a, b}
  BY PeersAssumption
<1>2. \A x \in Peers : Other(x) \in Peers /\ Other(x) # x
  <2> TAKE x \in Peers
  <2>1. \E p \in Peers : p # x
    BY <1>1
  <2> QED
    BY <2>1 DEF Other
<1> QED
  BY <1>1, <1>2

\* Channels and levels are naturals, and every channel has a level.
LEMMA Numbers ==
  /\ Channels \subseteq Nat /\ Priorities \subseteq Nat /\ None \notin Channels
  /\ ChannelCount - 1 \in Channels
  /\ \A c \in Channels : PriorityOf[c] \in Priorities
BY CountsAssumption, PriorityAssumption DEF Channels, Priorities, None

\* The lesser one of two numbers.
LEMMA MinOfTwo ==
  ASSUME NEW m \in Int, NEW n \in Int
  PROVE  Min({m, n}) \in Int /\ Min({m, n}) <= m /\ Min({m, n}) <= n
<1>1. \E x \in {m, n} : \A y \in {m, n} : x <= y
  OBVIOUS
<1>2. Min({m, n}) \in {m, n} /\ \A y \in {m, n} : Min({m, n}) <= y
  BY <1>1 DEF Min
<1> QED
  BY <1>2

\* What the conversions of positions and sizes return.
LEMMA Conversions ==
  ASSUME NEW n \in Int
  PROVE  Int32(n) \in 0 .. Wrap - 1 /\ Signed(n) \in Int /\ Padding(n) \in Nat
<1>1. Int32(n) \in 0 .. Wrap - 1
  BY SizesAssumption DEF Int32
<1>2. Align - (n % Align) \in Int
  BY SizesAssumption
<1> QED
  BY <1>1, <1>2, SizesAssumption DEF Signed, Padding

\* A request keeps the type of the priorizer.
LEMMA RequestTyped ==
  ASSUME NEW z \in Priorizers, NEW c \in Channels
  PROVE  Request(z, c) \in Priorizers
BY Numbers DEF Request, Priorizers

\* So does a pop, and it selects a channel.
LEMMA PopTyped ==
  ASSUME NEW z \in Priorizers, Pending(z) # {}
  PROVE  Popped(z) \in Channels /\ PopNextRequest(z) \in Priorizers
<1> DEFINE p == NextLevel(z)
           S == z.requests[p]
           behind == {c \in S : c > z.last}
<1>1. Pending(z) \in SUBSET (0 .. PriorityCount)
  BY CountsAssumption DEF Pending, Priorities
<1>2. p \in Pending(z)
  BY <1>1, MaxIsGreatest, CountsAssumption DEF NextLevel
<1>3. p \in Priorities /\ S \in SUBSET Channels /\ S # {} /\ S \in SUBSET Nat
  BY <1>2, Numbers DEF Pending, Priorizers
<1> HIDE DEF p, S
<1>4. Popped(z) = IF behind # {} THEN Min(behind) ELSE Min(S)
  BY DEF Popped, NextSetBit, p, S
<1>5. Popped(z) \in S
  <2>1. behind \in SUBSET Nat /\ behind \subseteq S
    BY <1>3
  <2> HIDE DEF behind
  <2> QED
    BY <1>3, <1>4, <2>1, MinIsLeast
<1>6. Popped(z) \in Channels
  BY <1>3, <1>5
<1>7. PopNextRequest(z) = [z EXCEPT !.requests[p] = @ \ {Popped(z)}, !.last = Popped(z)]
  BY DEF PopNextRequest, p
<1> QED
  BY <1>3, <1>6, <1>7 DEF Priorizers

\* activate requests channels of the levels.
LEMMA ActivateTyped ==
  ASSUME NEW z \in Priorizers
  PROVE  [z EXCEPT !.requests =
            [p \in Priorities |-> {c \in Channels : PriorityOf[c] = p}]] \in Priorizers
BY DEF Priorizers

-----------------------------------------------------------------------------
(* Tokens.  Those of the packets of a channel name one. *)

Addressed == {t \in Tokens : t.type \in {"ARM", "SEQ"} => t.ch \in Channels}

\* The packets that are sent are such tokens.
LEMMA PacketsAddressed ==
  /\ \A t \in {"SETUP", "ACCEPT", "ABORT", "DATA", "PAD"} : Packet(t) \in Addressed
  /\ \A t \in {"ARM", "SEQ"}, c \in Channels, v \in 0 .. Wrap - 1, n \in Nat :
       Token(t, c, v, n) \in Addressed
BY SizesAssumption, Numbers DEF Packet, Token, Tokens, Addressed

\* The units of a body.
LEMMA UnitsTyped ==
  ASSUME NEW t \in {"DATA", "PAD"}, NEW n \in Nat
  PROVE  /\ Units(t, n) \in Seq(Addressed) /\ Len(Units(t, n)) = n
         /\ \A i \in 1 .. n : Units(t, n)[i].type = t
<1>1. Packet(t) \in Addressed
  BY PacketsAddressed
<1> QED
  BY <1>1 DEF Units, Packet, Token

-----------------------------------------------------------------------------
(* Type correctness, with the control of an endpoint: what its buffers     *)
(* hold at each position of the network thread.                            *)

Control(e) ==
  LET x == xmit[e]
      n == net[e]
  IN  /\ n.pc \in {"next", "data"} => x.buffer = <<>> /\ x.ch = None
      /\ n.pc = "seq" => x.buffer = <<>> /\ x.ch \in Channels
      /\ n.pc = "arm" => /\ x.ch \in Channels /\ x.body = <<>> /\ n.todo # {}
                         /\ "read" \in n.todo => x.buffer = <<>>
      /\ n.pc \in {"arm", "data"} => x.phase = "normal"
      /\ x.ch = None => x.body = <<>>
      /\ x.phase = "normal" => x.accepted # "idle"
      /\ x.accepted # "idle" => recv[e].answer = "accept"
      /\ x.buffer = <<Packet("ACCEPT")>> => x.accepted # "idle"
      /\ app[e].call # "none" \/ app[e].todo # {} => app[e].ch \in Channels

\* The state of one endpoint.
EndOK(e) ==
  /\ chan[e] \in [Channels -> ChanRecords]
  /\ ctrl[e] \in Priorizers /\ data[e] \in Priorizers
  /\ xmit[e] \in XmitRecords /\ recv[e] \in RecvRecords
  /\ net[e] \in NetRecords /\ app[e] \in AppRecords
  /\ xmit[e].buffer \in Seq(Addressed) /\ xmit[e].body \in Seq(Addressed)
  /\ Control(e)

TypeInv ==
  /\ TypeOK
  /\ wire \in [Peers -> Seq(Addressed)]
  /\ \A e \in Peers : EndOK(e)

\* What the threads of one endpoint do.
Acts(e) == ApplicationCall(e) \/ ApplicationStep(e) \/ NetworkThread(e)

\* They write the state of their own endpoint, and the wires.
LEMMA OwnState ==
  ASSUME TypeOK, NEW e \in Peers, Acts(e)
  PROVE  /\ chan' = [chan EXCEPT ![e] = chan'[e]]
         /\ ctrl' = [ctrl EXCEPT ![e] = ctrl'[e]] /\ data' = [data EXCEPT ![e] = data'[e]]
         /\ xmit' = [xmit EXCEPT ![e] = xmit'[e]] /\ recv' = [recv EXCEPT ![e] = recv'[e]]
         /\ net' = [net EXCEPT ![e] = net'[e]] /\ app' = [app EXCEPT ![e] = app'[e]]
<1> DEFINE Goal == /\ chan' = [chan EXCEPT ![e] = chan'[e]]
                   /\ ctrl' = [ctrl EXCEPT ![e] = ctrl'[e]] /\ data' = [data EXCEPT ![e] = data'[e]]
                   /\ xmit' = [xmit EXCEPT ![e] = xmit'[e]] /\ recv' = [recv EXCEPT ![e] = recv'[e]]
                   /\ net' = [net EXCEPT ![e] = net'[e]] /\ app' = [app EXCEPT ![e] = app'[e]]
<1>0. /\ chan \in [Peers -> [Channels -> ChanRecords]]
      /\ ctrl \in [Peers -> Priorizers] /\ data \in [Peers -> Priorizers]
      /\ xmit \in [Peers -> XmitRecords] /\ recv \in [Peers -> RecvRecords]
      /\ net \in [Peers -> NetRecords] /\ app \in [Peers -> AppRecords]
  BY DEF TypeOK
<1>1. ASSUME NEW c \in Channels, NEW n \in AddSizes,
             addXmitLimit(e, c, n) \/ addRecvLimit(e, c, n)
      PROVE  Goal
  BY <1>0, <1>1 DEF addXmitLimit, addRecvLimit, RequestAndWake
<1>2. CASE ApplicationStep(e)
  BY <1>0, <1>2 DEF ApplicationStep, ApplicationWrites, ApplicationRequests, RequestAndWake
<1>3. CASE handleChannel(e) \/ recvThrows(e) \/ recvNothing(e) \/ processRecvSetup(e)
  BY <1>0, <1>3 DEF handleChannel, recvThrows, recvNothing, processRecvSetup, Throw
<1>4. CASE processRecvAccept(e)
  BY <1>0, <1>4 DEF processRecvAccept, Activate
<1>5. CASE processRecvArm(e)
  BY <1>0, <1>5 DEF processRecvArm, RequestAndWake
<1>6. CASE processSeq(e)
  BY <1>0, <1>6 DEF processSeq, Throw
<1>7. ASSUME NEW n, handleRecvSeq(e, n) \/ recvPadding(e, n)
      PROVE  Goal
  BY <1>0, <1>7 DEF handleRecvSeq, recvPadding
<1>8. CASE RemainingXmitBuf(e)
  BY <1>0, <1>8 DEF RemainingXmitBuf, Blocked, Goto
<1>9. CASE RemainingSeq(e)
  BY <1>0, <1>9 DEF RemainingSeq, Blocked, Goto
<1>10. CASE EvalAbort(e) \/ xmitEnd(e)
  BY <1>0, <1>10 DEF EvalAbort, xmitEnd, Prepare, Goto
<1>11. CASE EvalAccept(e)
  BY <1>0, <1>11 DEF EvalAccept, Blocked, Goto, Activate
<1>12. CASE EvalChannelCtrl(e)
  BY <1>0, <1>12 DEF EvalChannelCtrl, Goto
<1>13. CASE ClearArmFlag(e) \/ ReadRecvArm(e)
  BY <1>0, <1>13 DEF ClearArmFlag, ReadRecvArm, ArmDone
<1>14. CASE EvalChannelData(e)
  BY <1>0, <1>14 DEF EvalChannelData, Goto
<1> QED
  BY <1>1, <1>2, <1>3, <1>4, <1>5, <1>6, <1>7, <1>8, <1>9, <1>10, <1>11, <1>12, <1>13, <1>14
  DEF Acts, ApplicationCall, NetworkThread, Reads, Writes

\* So the other endpoint stays as it is.
LEMMA OtherUntouched ==
  ASSUME TypeOK, NEW e \in Peers, Acts(e), NEW p \in Peers, p # e
  PROVE  /\ chan'[p] = chan[p] /\ ctrl'[p] = ctrl[p] /\ data'[p] = data[p]
         /\ xmit'[p] = xmit[p] /\ recv'[p] = recv[p] /\ net'[p] = net[p] /\ app'[p] = app[p]
BY OwnState DEF TypeOK

\* A step keeps the types if it keeps those of its own endpoint and the wires.
LEMMA StepTyped ==
  ASSUME TypeInv, NEW e \in Peers, Acts(e), EndOK(e)', wire' \in [Peers -> Seq(Addressed)]
  PROVE  TypeInv'
<1>1. \A p \in Peers : EndOK(p)'
  <2> SUFFICES ASSUME NEW p \in Peers, p # e PROVE EndOK(p)'
    OBVIOUS
  <2>1. /\ chan'[p] = chan[p] /\ ctrl'[p] = ctrl[p] /\ data'[p] = data[p]
        /\ xmit'[p] = xmit[p] /\ recv'[p] = recv[p] /\ net'[p] = net[p] /\ app'[p] = app[p]
    BY OtherUntouched DEF TypeInv
  <2> QED
    BY <2>1 DEF TypeInv, EndOK, Control
<1>2. wire' \in [Peers -> Seq(Tokens)]
  <2>1. Seq(Addressed) \subseteq Seq(Tokens)
    BY DEF Addressed
  <2> QED
    BY <2>1
<1>3. TypeOK'
  <2>1. /\ chan'[e] \in [Channels -> ChanRecords]
        /\ ctrl'[e] \in Priorizers /\ data'[e] \in Priorizers
        /\ xmit'[e] \in XmitRecords /\ recv'[e] \in RecvRecords
        /\ net'[e] \in NetRecords /\ app'[e] \in AppRecords
    BY DEF EndOK
  <2>2. TypeOK
    BY DEF TypeInv
  <2>3. /\ chan' = [chan EXCEPT ![e] = chan'[e]]
        /\ ctrl' = [ctrl EXCEPT ![e] = ctrl'[e]] /\ data' = [data EXCEPT ![e] = data'[e]]
        /\ xmit' = [xmit EXCEPT ![e] = xmit'[e]] /\ recv' = [recv EXCEPT ![e] = recv'[e]]
        /\ net' = [net EXCEPT ![e] = net'[e]] /\ app' = [app EXCEPT ![e] = app'[e]]
    BY <2>2, OwnState
  <2>4. \A f, g, T : f \in [Peers -> T] /\ g[e] \in T /\ g = [f EXCEPT ![e] = g[e]]
                       => g \in [Peers -> T]
    OBVIOUS
  <2>5. /\ chan' \in [Peers -> [Channels -> ChanRecords]]
        /\ ctrl' \in [Peers -> Priorizers] /\ data' \in [Peers -> Priorizers]
    BY <2>1, <2>2, <2>3, <2>4 DEF TypeOK
  <2>6. /\ xmit' \in [Peers -> XmitRecords] /\ recv' \in [Peers -> RecvRecords]
        /\ net' \in [Peers -> NetRecords] /\ app' \in [Peers -> AppRecords]
    BY <2>1, <2>2, <2>3, <2>4 DEF TypeOK
  <2> QED
    BY <1>2, <2>5, <2>6 DEF TypeOK
<1> QED
  BY <1>1, <1>3 DEF TypeInv

\* The fields of a channel.
LEMMA ChanTyped ==
  ASSUME NEW f \in [Peers -> [Channels -> ChanRecords]], NEW e \in Peers, NEW c \in Channels
  PROVE  /\ f[e][c].xpos \in Nat /\ f[e][c].xarm \in 0 .. Wrap - 1 /\ f[e][c].xlimit \in Nat
         /\ f[e][c].rpos \in Nat /\ f[e][c].rlimit \in Nat /\ f[e][c].armFlag \in BOOLEAN
<1>1. f[e][c] \in ChanRecords
  OBVIOUS
<1> QED
  BY <1>1 DEF ChanRecords

\* What the assignments to a field of a channel leave typed.
LEMMA ChanWritten ==
  ASSUME NEW f \in [Peers -> [Channels -> ChanRecords]],
         NEW e \in Peers, NEW c \in Channels
  PROVE  /\ \A n \in Nat : /\ [f EXCEPT ![e][c].xpos = n] \in [Peers -> [Channels -> ChanRecords]]
                          /\ [f EXCEPT ![e][c].xlimit = n] \in [Peers -> [Channels -> ChanRecords]]
                          /\ [f EXCEPT ![e][c].rpos = n] \in [Peers -> [Channels -> ChanRecords]]
                          /\ [f EXCEPT ![e][c].rlimit = n] \in [Peers -> [Channels -> ChanRecords]]
         /\ \A n \in 0 .. Wrap - 1 :
              [f EXCEPT ![e][c].xarm = n] \in [Peers -> [Channels -> ChanRecords]]
         /\ \A b \in BOOLEAN :
              [f EXCEPT ![e][c].armFlag = b] \in [Peers -> [Channels -> ChanRecords]]
<1> DEFINE C == [Peers -> [Channels -> ChanRecords]]
           r == f[e][c]
<1>0. r \in ChanRecords /\ \A q \in ChanRecords : [f EXCEPT ![e][c] = q] \in C
  <2> HIDE DEF ChanRecords
  <2> QED
    OBVIOUS
<1>1. ASSUME NEW n \in Nat PROVE [f EXCEPT ![e][c].xpos = n] \in C
  <2>1. [r EXCEPT !.xpos = n] \in ChanRecords
    BY <1>0 DEF ChanRecords
  <2> QED
    BY <1>0, <2>1
<1>2. ASSUME NEW n \in Nat PROVE [f EXCEPT ![e][c].xlimit = n] \in C
  <2>1. [r EXCEPT !.xlimit = n] \in ChanRecords
    BY <1>0 DEF ChanRecords
  <2> QED
    BY <1>0, <2>1
<1>3. ASSUME NEW n \in Nat PROVE [f EXCEPT ![e][c].rpos = n] \in C
  <2>1. [r EXCEPT !.rpos = n] \in ChanRecords
    BY <1>0 DEF ChanRecords
  <2> QED
    BY <1>0, <2>1
<1>4. ASSUME NEW n \in Nat PROVE [f EXCEPT ![e][c].rlimit = n] \in C
  <2>1. [r EXCEPT !.rlimit = n] \in ChanRecords
    BY <1>0 DEF ChanRecords
  <2> QED
    BY <1>0, <2>1
<1>5. ASSUME NEW n \in 0 .. Wrap - 1 PROVE [f EXCEPT ![e][c].xarm = n] \in C
  <2>1. [r EXCEPT !.xarm = n] \in ChanRecords
    BY <1>0 DEF ChanRecords
  <2> QED
    BY <1>0, <2>1
<1>6. ASSUME NEW n \in BOOLEAN PROVE [f EXCEPT ![e][c].armFlag = n] \in C
  <2>1. [r EXCEPT !.armFlag = n] \in ChanRecords
    BY <1>0 DEF ChanRecords
  <2> QED
    BY <1>0, <2>1
<1> QED
  BY <1>1, <1>2, <1>3, <1>4, <1>5, <1>6, Zenon

\* What an assignment to a field of a channel changes.
LEMMA ChanMoved ==
  ASSUME NEW f \in [Peers -> [Channels -> ChanRecords]], NEW e \in Peers,
         NEW d \in Channels, NEW n, NEW g, NEW c \in Channels
  PROVE
    /\ g = [f EXCEPT ![e][d].xpos = n] =>
         /\ g[e][c].xpos = (IF c = d THEN n ELSE f[e][c].xpos) /\ g[e][c].xarm = f[e][c].xarm
         /\ g[e][c].rpos = f[e][c].rpos /\ g[e][c].rlimit = f[e][c].rlimit
         /\ g[e][c].xlimit = f[e][c].xlimit
    /\ g = [f EXCEPT ![e][d].xarm = n] =>
         /\ g[e][c].xpos = f[e][c].xpos /\ g[e][c].xarm = (IF c = d THEN n ELSE f[e][c].xarm)
         /\ g[e][c].rpos = f[e][c].rpos /\ g[e][c].rlimit = f[e][c].rlimit
         /\ g[e][c].xlimit = f[e][c].xlimit
    /\ g = [f EXCEPT ![e][d].rpos = n] =>
         /\ g[e][c].xpos = f[e][c].xpos /\ g[e][c].xarm = f[e][c].xarm
         /\ g[e][c].rpos = (IF c = d THEN n ELSE f[e][c].rpos) /\ g[e][c].rlimit = f[e][c].rlimit
         /\ g[e][c].xlimit = f[e][c].xlimit
    /\ g = [f EXCEPT ![e][d].rlimit = n] =>
         /\ g[e][c].xpos = f[e][c].xpos /\ g[e][c].xarm = f[e][c].xarm
         /\ g[e][c].rpos = f[e][c].rpos /\ g[e][c].rlimit = (IF c = d THEN n ELSE f[e][c].rlimit)
         /\ g[e][c].xlimit = f[e][c].xlimit
    /\ g = [f EXCEPT ![e][d].xlimit = n] =>
         /\ g[e][c].xpos = f[e][c].xpos /\ g[e][c].xarm = f[e][c].xarm
         /\ g[e][c].rpos = f[e][c].rpos /\ g[e][c].rlimit = f[e][c].rlimit
         /\ g[e][c].xlimit = (IF c = d THEN n ELSE f[e][c].xlimit)
    /\ g = [f EXCEPT ![e][d].armFlag = n] =>
         /\ g[e][c].xpos = f[e][c].xpos /\ g[e][c].xarm = f[e][c].xarm
         /\ g[e][c].rpos = f[e][c].rpos /\ g[e][c].rlimit = f[e][c].rlimit
         /\ g[e][c].xlimit = f[e][c].xlimit
<1>1. f[e][c] \in ChanRecords /\ f[e] \in [Channels -> ChanRecords]
  OBVIOUS
<1>2. \A q : g = [f EXCEPT ![e][d] = q] => g[e][c] = IF c = d THEN q ELSE f[e][c]
  BY <1>1
<1>3. ASSUME g = [f EXCEPT ![e][d].xpos = n]
      PROVE  /\ g[e][c].xpos = (IF c = d THEN n ELSE f[e][c].xpos) /\ g[e][c].xarm = f[e][c].xarm
             /\ g[e][c].rpos = f[e][c].rpos /\ g[e][c].rlimit = f[e][c].rlimit
             /\ g[e][c].xlimit = f[e][c].xlimit
  <2>1. g[e][c] = IF c = d THEN [f[e][c] EXCEPT !.xpos = n] ELSE f[e][c]
    BY <1>2, <1>3
  <2> QED
    BY <1>1, <2>1 DEF ChanRecords
<1>4. ASSUME g = [f EXCEPT ![e][d].xarm = n]
      PROVE  /\ g[e][c].xpos = f[e][c].xpos /\ g[e][c].xarm = (IF c = d THEN n ELSE f[e][c].xarm)
             /\ g[e][c].rpos = f[e][c].rpos /\ g[e][c].rlimit = f[e][c].rlimit
             /\ g[e][c].xlimit = f[e][c].xlimit
  <2>1. g[e][c] = IF c = d THEN [f[e][c] EXCEPT !.xarm = n] ELSE f[e][c]
    BY <1>2, <1>4
  <2> QED
    BY <1>1, <2>1 DEF ChanRecords
<1>5. ASSUME g = [f EXCEPT ![e][d].rpos = n]
      PROVE  /\ g[e][c].xpos = f[e][c].xpos /\ g[e][c].xarm = f[e][c].xarm
             /\ g[e][c].rpos = (IF c = d THEN n ELSE f[e][c].rpos) /\ g[e][c].rlimit = f[e][c].rlimit
             /\ g[e][c].xlimit = f[e][c].xlimit
  <2>1. g[e][c] = IF c = d THEN [f[e][c] EXCEPT !.rpos = n] ELSE f[e][c]
    BY <1>2, <1>5
  <2> QED
    BY <1>1, <2>1 DEF ChanRecords
<1>6. ASSUME g = [f EXCEPT ![e][d].rlimit = n]
      PROVE  /\ g[e][c].xpos = f[e][c].xpos /\ g[e][c].xarm = f[e][c].xarm
             /\ g[e][c].rpos = f[e][c].rpos /\ g[e][c].rlimit = (IF c = d THEN n ELSE f[e][c].rlimit)
             /\ g[e][c].xlimit = f[e][c].xlimit
  <2>1. g[e][c] = IF c = d THEN [f[e][c] EXCEPT !.rlimit = n] ELSE f[e][c]
    BY <1>2, <1>6
  <2> QED
    BY <1>1, <2>1 DEF ChanRecords
<1>7. ASSUME g = [f EXCEPT ![e][d].xlimit = n]
      PROVE  /\ g[e][c].xpos = f[e][c].xpos /\ g[e][c].xarm = f[e][c].xarm
             /\ g[e][c].rpos = f[e][c].rpos /\ g[e][c].rlimit = f[e][c].rlimit
             /\ g[e][c].xlimit = (IF c = d THEN n ELSE f[e][c].xlimit)
  <2>1. g[e][c] = IF c = d THEN [f[e][c] EXCEPT !.xlimit = n] ELSE f[e][c]
    BY <1>2, <1>7
  <2> QED
    BY <1>1, <2>1 DEF ChanRecords
<1>8. ASSUME g = [f EXCEPT ![e][d].armFlag = n]
      PROVE  /\ g[e][c].xpos = f[e][c].xpos /\ g[e][c].xarm = f[e][c].xarm
             /\ g[e][c].rpos = f[e][c].rpos /\ g[e][c].rlimit = f[e][c].rlimit
             /\ g[e][c].xlimit = f[e][c].xlimit
  <2>1. g[e][c] = IF c = d THEN [f[e][c] EXCEPT !.armFlag = n] ELSE f[e][c]
    BY <1>2, <1>8
  <2> QED
    BY <1>1, <2>1 DEF ChanRecords
<1> QED
  BY <1>3, <1>4, <1>5, <1>6, <1>7, <1>8

\* The calls of the application keep the types.
LEMMA ApplicationTyped ==
  ASSUME TypeInv, NEW e \in Peers, ApplicationCall(e) \/ ApplicationStep(e)
  PROVE  TypeInv'
<1>0. /\ chan \in [Peers -> [Channels -> ChanRecords]]
      /\ ctrl \in [Peers -> Priorizers] /\ data \in [Peers -> Priorizers]
      /\ net \in [Peers -> NetRecords] /\ app \in [Peers -> AppRecords]
      /\ wire \in [Peers -> Seq(Addressed)] /\ EndOK(e) /\ Acts(e)
  BY DEF TypeInv, TypeOK, Acts
<1>1. ASSUME UNCHANGED <<xmit, recv, wire>>,
             chan'[e] \in [Channels -> ChanRecords],
             ctrl'[e] \in Priorizers, data'[e] \in Priorizers,
             net'[e] = net[e] \/ net'[e] = [net[e] EXCEPT !.wakeup = TRUE],
             app'[e] \in AppRecords,
             app'[e].call # "none" \/ app'[e].todo # {} => app'[e].ch \in Channels
      PROVE  TypeInv'
  <2>1. net'[e] \in NetRecords /\ net'[e].pc = net[e].pc /\ net'[e].todo = net[e].todo
    BY <1>0, <1>1 DEF NetRecords
  <2>2. EndOK(e)'
    BY <1>0, <1>1, <2>1 DEF EndOK, Control
  <2> QED
    BY <1>0, <1>1, <2>2, StepTyped
<1>2. Resting \in AppRecords
  BY DEF Resting, AppRecords
<1>4. ASSUME NEW c \in Channels, NEW n \in AddSizes, addXmitLimit(e, c, n)
      PROVE  TypeInv'
  <2>1. chan' = [chan EXCEPT ![e][c].xlimit = @ + n] /\ n \in Nat
    BY <1>4, AmountsAssumption DEF addXmitLimit
  <2>2. chan'[e] \in [Channels -> ChanRecords]
    <3>0. chan[e][c].xlimit \in Nat
      BY <1>0, ChanTyped
    <3>1. chan[e][c].xlimit + n \in Nat
      BY <2>1, <3>0
    <3>2. chan' \in [Peers -> [Channels -> ChanRecords]]
      BY <1>0, <2>1, <3>1, ChanWritten
    <3> QED
      BY <3>2
  <2>3. CASE Threaded[e]
    <3>1. app'[e] = [Resting EXCEPT !.call = "xmit", !.ch = c] /\ UNCHANGED <<data, net>>
      BY <1>0, <1>4, <2>3 DEF addXmitLimit
    <3>2. app'[e] \in AppRecords /\ app'[e].ch = c
      BY <1>2, <3>1 DEF AppRecords
    <3> QED
      BY <1>0, <1>1, <1>4, <2>2, <3>1, <3>2 DEF addXmitLimit, EndOK
  <2>4. CASE ~ Threaded[e]
    <3>1. /\ data'[e] = Request(data[e], c) /\ net'[e] = [net[e] EXCEPT !.wakeup = TRUE]
          /\ UNCHANGED <<ctrl, app, xmit, recv, wire>>
      BY <1>0, <1>4, <2>4 DEF addXmitLimit, RequestAndWake
    <3>2. data'[e] \in Priorizers
      BY <1>0, <3>1, RequestTyped
    <3> QED
      BY <1>0, <1>1, <2>2, <3>1, <3>2 DEF EndOK, Control
  <2> QED
    BY <2>3, <2>4
<1>5. ASSUME NEW c \in Channels, NEW n \in AddSizes, addRecvLimit(e, c, n)
      PROVE  TypeInv'
  <2>0. n \in Nat
    BY AmountsAssumption
  <2>3. CASE Threaded[e]
    <3>1. /\ app'[e] = [call |-> "recv", ch |-> c, added |-> n, todo |-> {"arm", "flag"}]
          /\ UNCHANGED <<chan, ctrl, data, net, xmit, recv, wire>>
      BY <1>0, <1>5, <2>3 DEF addRecvLimit
    <3>2. app'[e] \in AppRecords /\ app'[e].ch = c
      BY <2>0, <3>1 DEF AppRecords
    <3> QED
      BY <1>0, <1>1, <3>1, <3>2 DEF EndOK
  <2>4. CASE ~ Threaded[e]
    <3>1. /\ chan' = [chan EXCEPT ![e][c].rlimit = @ + n, ![e][c].armFlag = TRUE]
          /\ ctrl'[e] = Request(ctrl[e], c) /\ net'[e] = [net[e] EXCEPT !.wakeup = TRUE]
          /\ UNCHANGED <<data, app, xmit, recv, wire>>
      BY <1>0, <1>5, <2>4 DEF addRecvLimit, RequestAndWake
    <3>2. chan'[e] \in [Channels -> ChanRecords]
      <4>0. chan[e][c].rlimit \in Nat
        BY <1>0, ChanTyped
      <4>1. chan[e][c].rlimit + n \in Nat
        BY <2>0, <4>0
      <4>2. [chan EXCEPT ![e][c].rlimit = @ + n] \in [Peers -> [Channels -> ChanRecords]]
        BY <1>0, <4>1, ChanWritten
      <4>3. chan' \in [Peers -> [Channels -> ChanRecords]]
        <5> DEFINE f == [chan EXCEPT ![e][c].rlimit = @ + n]
        <5>1. chan' = [f EXCEPT ![e][c].armFlag = TRUE]
          BY <3>1
        <5> QED
          BY <4>2, <5>1, ChanWritten
      <4> QED
        BY <4>3
    <3>3. ctrl'[e] \in Priorizers
      BY <1>0, <3>1, RequestTyped
    <3> QED
      BY <1>0, <1>1, <3>1, <3>2, <3>3 DEF EndOK, Control
  <2> QED
    BY <2>3, <2>4
<1>6. CASE ApplicationWrites(e)
  <2>0. /\ app[e].todo # {} /\ app[e].ch \in Channels /\ app[e].added \in Nat
        /\ UNCHANGED <<ctrl, data, xmit, recv, net, wire>>
    BY <1>0, <1>6 DEF ApplicationWrites, EndOK, Control, AppRecords
  <2>1. chan'[e] \in [Channels -> ChanRecords]
    <3>1. \/ chan' = [chan EXCEPT ![e][app[e].ch].rlimit = @ + app[e].added]
          \/ chan' = [chan EXCEPT ![e][app[e].ch].armFlag = TRUE]
      BY <1>6 DEF ApplicationWrites
    <3>2. chan[e][app[e].ch].rlimit \in Nat
      BY <1>0, <2>0, ChanTyped
    <3>3. chan[e][app[e].ch].rlimit + app[e].added \in Nat
      BY <2>0, <3>2
    <3>4. chan' \in [Peers -> [Channels -> ChanRecords]]
      <4> DEFINE n == chan[e][app[e].ch].rlimit + app[e].added
                 c == app[e].ch
      <4>1. CASE chan' = [chan EXCEPT ![e][c].rlimit = @ + app[e].added]
        <5>1. chan' = [chan EXCEPT ![e][c].rlimit = n]
          BY <4>1
        <5>2. n \in Nat /\ c \in Channels
          BY <2>0, <3>3
        <5> HIDE DEF n, c
        <5>3. [chan EXCEPT ![e][c].rlimit = n] \in [Peers -> [Channels -> ChanRecords]]
          BY <1>0, <5>2, ChanWritten
        <5> QED
          BY <5>1, <5>3
      <4>2. CASE chan' = [chan EXCEPT ![e][c].armFlag = TRUE]
        <5> HIDE DEF c
        <5> QED
          BY <1>0, <2>0, <4>2, ChanWritten DEF c
      <4> QED
        BY <3>1, <4>1, <4>2
    <3> QED
      BY <3>4
  <2>2. app'[e].ch = app[e].ch /\ app'[e] \in AppRecords
    <3>1. PICK x \in {"arm", "flag"} : app' = [app EXCEPT ![e].todo = @ \ {x}]
      BY <1>6 DEF ApplicationWrites
    <3> QED
      BY <1>0, <3>1 DEF AppRecords
  <2> QED
    BY <1>0, <1>1, <2>0, <2>1, <2>2 DEF EndOK
<1>7. CASE ApplicationRequests(e)
  <2>0. /\ app[e].ch \in Channels /\ app'[e] = Resting /\ UNCHANGED <<chan, xmit, recv, wire>>
    BY <1>0, <1>7 DEF ApplicationRequests, EndOK, Control
  <2>1. /\ net'[e] = [net[e] EXCEPT !.wakeup = TRUE]
        /\ ctrl'[e] \in Priorizers /\ data'[e] \in Priorizers
    <3>1. CASE RequestAndWake(data, e, app[e].ch) /\ UNCHANGED ctrl
      <4>1. data'[e] = Request(data[e], app[e].ch) /\ net'[e] = [net[e] EXCEPT !.wakeup = TRUE]
        BY <1>0, <3>1 DEF RequestAndWake
      <4> QED
        BY <1>0, <2>0, <3>1, <4>1, RequestTyped
    <3>2. CASE RequestAndWake(ctrl, e, app[e].ch) /\ UNCHANGED data
      <4>1. ctrl'[e] = Request(ctrl[e], app[e].ch) /\ net'[e] = [net[e] EXCEPT !.wakeup = TRUE]
        BY <1>0, <3>2 DEF RequestAndWake
      <4> QED
        BY <1>0, <2>0, <3>2, <4>1, RequestTyped
    <3> QED
      BY <1>7, <3>1, <3>2 DEF ApplicationRequests
  <2>2. Resting.call = "none" /\ Resting.todo = {}
    BY DEF Resting
  <2> QED
    BY <1>0, <1>1, <1>2, <2>0, <2>1, <2>2 DEF EndOK
<1> QED
  BY <1>4, <1>5, <1>6, <1>7 DEF ApplicationCall, ApplicationStep

\* What a receiver takes away leaves tokens in the wires.
LEMMA ConsumeTyped ==
  ASSUME wire \in [Peers -> Seq(Addressed)], NEW e \in Peers,
         NEW n \in 0 .. Len(Inbound(e)), Consume(e, n)
  PROVE  wire' \in [Peers -> Seq(Addressed)]
<1>1. Inbound(e) \in Seq(Addressed) /\ Other(e) \in Peers
  BY TwoPeers DEF Inbound
<1>2. SubSeq(Inbound(e), n + 1, Len(Inbound(e))) \in Seq(Addressed)
  BY <1>1, PieceTyped
<1> QED
  BY <1>1, <1>2 DEF Consume, Inbound

\* The position of the network thread when it begins to transmit.
LEMMA FirstActionTyped ==
  ASSUME NEW e \in Peers, EndOK(e), net'[e] \in NetRecords,
         net'[e].pc = FirstAction(e), UNCHANGED xmit
  PROVE  /\ net'[e].pc \in {"next", "data"} => xmit'[e].buffer = <<>> /\ xmit'[e].ch = None
         /\ net'[e].pc = "seq" => xmit'[e].buffer = <<>> /\ xmit'[e].ch \in Channels
         /\ net'[e].pc \notin {"arm", "data"}
BY DEF EndOK, FirstAction, XmitRecords

\* The receiver keeps the types.
LEMMA ReadsTyped ==
  ASSUME TypeInv, NEW e \in Peers, handleChannel(e) \/ Reads(e) \/ recvNothing(e)
  PROVE  TypeInv'
<1>0. /\ chan \in [Peers -> [Channels -> ChanRecords]]
      /\ ctrl \in [Peers -> Priorizers] /\ data \in [Peers -> Priorizers]
      /\ recv \in [Peers -> RecvRecords] /\ net \in [Peers -> NetRecords]
      /\ wire \in [Peers -> Seq(Addressed)] /\ EndOK(e) /\ Acts(e)
      /\ xmit[e] \in XmitRecords /\ recv[e] \in RecvRecords /\ net[e] \in NetRecords
  BY DEF TypeInv, TypeOK, EndOK, Acts, NetworkThread
<1>1. Inbound(e) \in Seq(Addressed) /\ Addressed \subseteq Tokens
  BY <1>0, TwoPeers DEF Inbound, Addressed
<1>2. ASSUME Inbound(e) # <<>>, Consume(e, 1)
      PROVE  wire' \in [Peers -> Seq(Addressed)]
  BY <1>0, <1>1, <1>2, ConsumeTyped
<1>3. CASE handleChannel(e) \/ recvThrows(e)
  <2>1. /\ UNCHANGED <<chan, ctrl, data, xmit, recv, app, wire>>
        /\ net'[e] \in NetRecords /\ net'[e].pc \in {"recv", "dead"}
    <3>1. /\ UNCHANGED <<chan, ctrl, data, xmit, recv, app, wire>>
          /\ \/ net'[e] = [net[e] EXCEPT !.pc = "recv", !.wakeup = FALSE]
             \/ \E f \in {"abort", "protocol"} :
                  net'[e] = [net[e] EXCEPT !.pc = "dead", !.fault = f]
      <4>1. CASE handleChannel(e)
        BY <1>0, <4>1 DEF handleChannel
      <4>2. CASE recvThrows(e)
        BY <1>0, <4>2 DEF recvThrows, Throw
      <4> QED
        BY <1>3, <4>1, <4>2
    <3> QED
      BY <1>0, <3>1 DEF NetRecords
  <2>2. EndOK(e)'
    BY <1>0, <2>1 DEF EndOK, Control
  <2> QED
    BY <1>0, <2>1, <2>2, StepTyped
<1>4. CASE recvNothing(e)
  <2>1. /\ UNCHANGED <<chan, ctrl, data, xmit, recv, app, wire>>
        /\ net'[e] \in NetRecords /\ net'[e].pc = FirstAction(e)
    BY <1>0, <1>4 DEF recvNothing, NetRecords, FirstAction
  <2>2. EndOK(e)'
    BY <1>0, <2>1, FirstActionTyped DEF EndOK, Control
  <2> QED
    BY <1>0, <2>1, <2>2, StepTyped
<1>5. CASE processRecvSetup(e)
  <2>1. /\ net[e].pc = "recv" /\ recv[e].answer = "none" /\ Inbound(e) # <<>>
        /\ UNCHANGED <<chan, ctrl, data, xmit, app>> /\ Consume(e, 1)
    BY <1>5 DEF processRecvSetup, Receives, HeaderReceived, Expected
  <2>2. /\ recv'[e] \in RecvRecords
        /\ net'[e] \in NetRecords /\ net'[e].pc = "recv"
    <3>1. /\ \E a \in {"accept", "reject"} : recv'[e] = [recv[e] EXCEPT !.answer = a]
          /\ net'[e] = net[e] \/ net'[e] = [net[e] EXCEPT !.wakeup = TRUE]
      BY <1>0, <1>5 DEF processRecvSetup
    <3>2. recv'[e] \in RecvRecords
      BY <1>0, <3>1 DEF RecvRecords
    <3> QED
      BY <1>0, <2>1, <3>1, <3>2 DEF NetRecords
  <2>3. xmit[e].accepted = "idle" /\ xmit[e].phase # "normal"
    BY <1>0, <2>1 DEF EndOK, Control
  <2>4. EndOK(e)'
    BY <1>0, <2>1, <2>2, <2>3 DEF EndOK, Control
  <2> QED
    BY <1>0, <1>2, <2>1, <2>4, StepTyped
<1>6. CASE processRecvAccept(e)
  <2>1. /\ Inbound(e) # <<>> /\ UNCHANGED <<chan, data, xmit, app>> /\ Consume(e, 1)
        /\ recv'[e] = [recv[e] EXCEPT !.phase = "normal"]
    BY <1>0, <1>6 DEF processRecvAccept, Receives, HeaderReceived
  <2>2. recv'[e] \in RecvRecords /\ recv'[e].answer = recv[e].answer
    BY <1>0, <2>1 DEF RecvRecords
  <2>3. net'[e] \in NetRecords /\ net'[e].pc = FirstAction(e)
    <3>1. \/ net'[e] = [net[e] EXCEPT !.pc = FirstAction(e)]
          \/ net'[e] = [net[e] EXCEPT !.pc = FirstAction(e), !.wakeup = TRUE]
      BY <1>0, <1>6 DEF processRecvAccept
    <3>2. FirstAction(e) \in {"send", "seq", "next"}
      BY DEF FirstAction
    <3> QED
      BY <1>0, <3>1, <3>2 DEF NetRecords
  <2>4. ctrl'[e] \in Priorizers
    <3>1. CASE Activate(e)
      <4>1. ctrl'[e] = [ctrl[e] EXCEPT !.requests =
                          [p \in Priorities |-> {c \in Channels : PriorityOf[c] = p}]]
        BY <1>0, <3>1 DEF Activate
      <4> QED
        BY <1>0, <4>1, ActivateTyped
    <3>2. CASE UNCHANGED ctrl
      BY <1>0, <3>2
    <3> QED
      BY <1>6, <3>1, <3>2 DEF processRecvAccept
  <2>5. EndOK(e)'
    BY <1>0, <2>1, <2>2, <2>3, <2>4, FirstActionTyped DEF EndOK, Control
  <2> QED
    BY <1>0, <1>2, <2>1, <2>5, StepTyped
<1>7. CASE processRecvArm(e)
  <2> DEFINE c == Header(e).ch
             v == Header(e).val
  <2>1. /\ Inbound(e) # <<>> /\ Header(e).type = "ARM" /\ net[e].pc = "recv"
        /\ chan' = [chan EXCEPT ![e][c].xarm = v]
        /\ UNCHANGED <<ctrl, xmit, recv, app>> /\ Consume(e, 1)
    BY <1>7 DEF processRecvArm, Receives, HeaderReceived
  <2>2. c \in Channels /\ v \in 0 .. Wrap - 1
    <3>1. Header(e) \in Addressed
      BY <1>1, <2>1 DEF Header
    <3> QED
      BY <2>1, <3>1 DEF Addressed, Tokens
  <2> HIDE DEF c, v
  <2>3. chan' \in [Peers -> [Channels -> ChanRecords]]
    BY <1>0, <2>1, <2>2, ChanWritten
  <2>4. /\ data'[e] \in Priorizers
        /\ net'[e] = net[e] \/ net'[e] = [net[e] EXCEPT !.wakeup = TRUE]
    <3>1. CASE RequestAndWake(data, e, c)
      <4>1. data'[e] = Request(data[e], c) /\ net'[e] = [net[e] EXCEPT !.wakeup = TRUE]
        BY <1>0, <3>1 DEF RequestAndWake
      <4> QED
        BY <1>0, <2>2, <4>1, RequestTyped
    <3>2. CASE UNCHANGED <<data, net>>
      BY <1>0, <3>2
    <3> QED
      BY <1>7, <3>1, <3>2 DEF processRecvArm, c
  <2>5. net'[e] \in NetRecords /\ net'[e].pc = "recv"
    BY <1>0, <2>1, <2>4 DEF NetRecords
  <2>6. EndOK(e)'
    BY <1>0, <2>1, <2>3, <2>4, <2>5 DEF EndOK, Control
  <2> QED
    BY <1>0, <1>2, <2>1, <2>6, StepTyped
<1>8. CASE processSeq(e)
  <2>1. /\ Inbound(e) # <<>> /\ Header(e).type = "SEQ" /\ net[e].pc = "recv"
    BY <1>8 DEF processSeq, Receives, HeaderReceived
  <2>2. Header(e).ch \in Channels /\ Header(e).size \in Nat
    <3>1. Header(e) \in Addressed
      BY <1>1, <2>1 DEF Header
    <3> QED
      BY <2>1, <3>1 DEF Addressed, Tokens
  <2>3. CASE Throw(e, "protocol")
    <3>1. /\ UNCHANGED <<chan, ctrl, data, xmit, recv, app, wire>>
          /\ net'[e] \in NetRecords /\ net'[e].pc = "dead"
      BY <1>0, <2>3 DEF Throw, NetRecords
    <3>2. EndOK(e)'
      BY <1>0, <3>1 DEF EndOK, Control
    <3> QED
      BY <1>0, <3>1, <3>2, StepTyped
  <2>4. CASE /\ recv' = [recv EXCEPT ![e].ch = Header(e).ch, ![e].payload = Header(e).size,
                                     ![e].padding = Padding(Header(e).size)]
             /\ Consume(e, 1)
             /\ UNCHANGED <<chan, ctrl, data, xmit, net, app>>
    <3>1. Padding(Header(e).size) \in Nat
      BY <2>2, Conversions
    <3>2. recv'[e] \in RecvRecords /\ recv'[e].answer = recv[e].answer
      BY <1>0, <2>2, <2>4, <3>1 DEF RecvRecords
    <3>3. EndOK(e)'
      BY <1>0, <2>1, <2>4, <3>2 DEF EndOK, Control
    <3> QED
      BY <1>0, <1>2, <2>1, <2>4, <3>3, StepTyped
  <2> QED
    BY <1>8, <2>3, <2>4 DEF processSeq
<1>9. ASSUME NEW n \in 1 .. WireSize, handleRecvSeq(e, n)
      PROVE  TypeInv'
  <2> DEFINE c == recv[e].ch
  <2>1. /\ n \in Nat /\ net[e].pc = "recv" /\ c # None /\ n <= recv[e].payload
        /\ n \in 0 .. Len(Inbound(e))
        /\ chan' = [chan EXCEPT ![e][c].rpos = @ + n]
        /\ recv'[e] = [recv[e] EXCEPT !.payload = @ - n,
                         !.ch = IF n = recv[e].payload + recv[e].padding THEN None ELSE @]
        /\ Consume(e, n) /\ UNCHANGED <<ctrl, data, xmit, net, app>>
    BY <1>0, <1>1, <1>9, SizesAssumption DEF handleRecvSeq
  <2>2. c \in Channels /\ recv[e].payload - n \in Nat
    BY <1>0, <2>1 DEF RecvRecords
  <2>3. recv'[e] \in RecvRecords /\ recv'[e].answer = recv[e].answer
    BY <1>0, <2>1, <2>2 DEF RecvRecords
  <2> HIDE DEF c
  <2>4. chan[e][c].rpos \in Nat
    BY <1>0, <2>2, ChanTyped
  <2>5. chan[e][c].rpos + n \in Nat
    BY <2>1, <2>4
  <2>6. chan' \in [Peers -> [Channels -> ChanRecords]]
    BY <1>0, <2>1, <2>2, <2>5, ChanWritten
  <2>7. EndOK(e)'
    BY <1>0, <2>1, <2>3, <2>6 DEF EndOK, Control
  <2>8. wire' \in [Peers -> Seq(Addressed)]
    BY <1>0, <2>1, ConsumeTyped
  <2> QED
    BY <1>0, <2>7, <2>8, StepTyped
<1>10. ASSUME NEW n \in 1 .. WireSize, recvPadding(e, n)
       PROVE  TypeInv'
  <2>1. /\ n \in Nat /\ net[e].pc = "recv" /\ n <= recv[e].padding
        /\ n \in 0 .. Len(Inbound(e))
        /\ recv'[e] = [recv[e] EXCEPT !.padding = @ - n,
                         !.ch = IF n = recv[e].padding THEN None ELSE @]
        /\ Consume(e, n) /\ UNCHANGED <<chan, ctrl, data, xmit, net, app>>
    BY <1>0, <1>1, <1>10, SizesAssumption DEF recvPadding
  <2>2. recv[e].padding - n \in Nat
    BY <1>0, <2>1 DEF RecvRecords
  <2>3. recv'[e] \in RecvRecords /\ recv'[e].answer = recv[e].answer
    BY <1>0, <2>1, <2>2 DEF RecvRecords
  <2>4. EndOK(e)'
    BY <1>0, <2>1, <2>3 DEF EndOK, Control
  <2>5. wire' \in [Peers -> Seq(Addressed)]
    BY <1>0, <2>1, ConsumeTyped
  <2> QED
    BY <1>0, <2>4, <2>5, StepTyped
<1> QED
  BY <1>3, <1>4, <1>5, <1>6, <1>7, <1>8, <1>9, <1>10 DEF Reads

\* How many tokens the transport takes: not more than offered.
LEMMA TakesSome ==
  ASSUME TypeInv, NEW e \in Peers, NEW m \in Nat, NEW n \in Takes(e, m)
  PROVE  n \in 0 .. m
<1>1. Room(e) \in Int
  BY SizesAssumption DEF Room, TypeInv
<1>2. Min({m, Room(e)}) \in Int /\ Min({m, Room(e)}) <= m
  <2>1. m \in Int
    OBVIOUS
  <2> QED
    BY <1>1, <2>1, MinOfTwo, Zenon
<1> QED
  BY <1>2 DEF Takes

\* The xmitter keeps the types.
LEMMA WritesTyped ==
  ASSUME TypeInv, NEW e \in Peers, Writes(e)
  PROVE  TypeInv'
<1>0. /\ chan \in [Peers -> [Channels -> ChanRecords]]
      /\ ctrl \in [Peers -> Priorizers] /\ data \in [Peers -> Priorizers]
      /\ xmit \in [Peers -> XmitRecords] /\ net \in [Peers -> NetRecords]
      /\ wire \in [Peers -> Seq(Addressed)] /\ EndOK(e) /\ Acts(e)
      /\ xmit[e] \in XmitRecords /\ recv[e] \in RecvRecords /\ net[e] \in NetRecords
      /\ xmit[e].buffer \in Seq(Addressed) /\ xmit[e].body \in Seq(Addressed)
  BY DEF TypeInv, TypeOK, EndOK, Acts, NetworkThread
<1>1. Seq(Addressed) \subseteq Seq(Tokens)
  BY DEF Addressed
<1>2. ASSUME NEW s \in Seq(Addressed), Send(e, s)
      PROVE  wire' \in [Peers -> Seq(Addressed)]
  BY <1>0, <1>2 DEF Send
<1>3. \A t \in Addressed : <<t>> \in Seq(Addressed)
  OBVIOUS
<1>4. CASE RemainingXmitBuf(e)
  <2>0. net[e].pc = "send" /\ UNCHANGED <<chan, ctrl, data, recv, app>>
    BY <1>4 DEF RemainingXmitBuf
  <2>1. CASE Blocked(e) /\ UNCHANGED <<xmit, wire>>
    <3>1. net'[e] \in NetRecords /\ net'[e].pc = "idle"
      BY <1>0, <2>1 DEF Blocked, NetRecords
    <3>2. EndOK(e)'
      BY <1>0, <2>0, <2>1, <3>1 DEF EndOK, Control
    <3> QED
      BY <1>0, <2>1, <3>2, StepTyped
  <2>2. CASE Room(e) # 0
    <3>1. /\ Send(e, xmit[e].buffer)
          /\ xmit'[e] = [xmit[e] EXCEPT !.buffer = <<>>,
               !.accepted = IF xmit[e].buffer = <<Packet("ACCEPT")>> THEN "xmitted" ELSE @]
      BY <1>0, <1>4, <2>2 DEF RemainingXmitBuf
    <3>2. <<>> \in Seq(Addressed) /\ <<>> # <<Packet("ACCEPT")>>
      OBVIOUS
    <3>3. /\ xmit'[e] \in XmitRecords /\ xmit'[e].buffer = <<>>
          /\ xmit'[e].body = xmit[e].body /\ xmit'[e].ch = xmit[e].ch
          /\ xmit'[e].phase = xmit[e].phase
          /\ xmit'[e].accepted # "idle" => \/ xmit[e].accepted # "idle"
                                           \/ xmit[e].buffer = <<Packet("ACCEPT")>>
          /\ xmit[e].accepted # "idle" => xmit'[e].accepted # "idle"
      BY <1>0, <1>1, <3>1, <3>2 DEF XmitRecords
    <3>4. \/ net'[e] = [net[e] EXCEPT !.pc = "dead", !.fault = "abort"]
          \/ xmit[e].ch = None /\ net'[e] = [net[e] EXCEPT !.pc = "next"]
          \/ xmit[e].ch # None /\ net'[e] = [net[e] EXCEPT !.pc = "seq"]
      BY <1>0, <1>4, <2>2 DEF RemainingXmitBuf, Goto
    <3>5. /\ net'[e] \in NetRecords
          /\ \/ net'[e].pc = "dead"
             \/ xmit[e].ch = None /\ net'[e].pc = "next"
             \/ xmit[e].ch \in Channels /\ net'[e].pc = "seq"
      BY <1>0, <3>4 DEF NetRecords, XmitRecords
    <3>6. EndOK(e)'
      BY <1>0, <2>0, <3>2, <3>3, <3>5 DEF EndOK, Control
    <3>7. wire' \in [Peers -> Seq(Addressed)]
      BY <1>0, <1>2, <3>1
    <3> QED
      BY <1>0, <3>6, <3>7, StepTyped
  <2> QED
    BY <1>4, <2>1, <2>2 DEF RemainingXmitBuf
<1>5. CASE RemainingSeq(e)
  <2> DEFINE body == xmit[e].body
             c == xmit[e].ch
  <2>0. net[e].pc = "seq" /\ UNCHANGED <<chan, ctrl, recv, app>>
    BY <1>5 DEF RemainingSeq
  <2>1. PICK n \in Takes(e, Len(body)) :
          /\ Send(e, SubSeq(body, 1, n))
          /\ xmit' = [xmit EXCEPT ![e].body = SubSeq(@, n + 1, Len(@)),
                                  ![e].ch = IF n < Len(body) THEN @ ELSE None]
          /\ \/ n < Len(body) /\ Blocked(e) /\ UNCHANGED data
             \/ /\ ~ n < Len(body) /\ data' = [data EXCEPT ![e] = Request(@, c)]
                /\ net' = [net EXCEPT ![e].pc = "next", ![e].wakeup = TRUE]
             \/ ~ n < Len(body) /\ Goto(e, "next") /\ UNCHANGED data
    BY <1>5 DEF RemainingSeq
  <2>2. Len(body) \in Nat /\ n \in 0 .. Len(body)
    <3>1. Len(body) \in Nat
      BY <1>0
    <3> QED
      BY <3>1, TakesSome
  <2>3. /\ SubSeq(body, 1, n) \in Seq(Addressed)
        /\ SubSeq(body, n + 1, Len(body)) \in Seq(Addressed)
        /\ Len(SubSeq(body, n + 1, Len(body))) = Len(body) - n
    BY <1>0, <2>2, PieceTyped
  <2>4. c \in Channels /\ xmit[e].buffer = <<>>
    BY <1>0, <2>0 DEF EndOK, Control
  <2>5. xmit'[e] = [xmit[e] EXCEPT !.body = SubSeq(body, n + 1, Len(body)),
                                   !.ch = IF n < Len(body) THEN @ ELSE None]
    BY <1>0, <2>1
  <2>6. /\ xmit'[e] \in XmitRecords /\ xmit'[e].buffer = <<>>
        /\ xmit'[e].body = SubSeq(body, n + 1, Len(body))
        /\ xmit'[e].ch = IF n < Len(body) THEN c ELSE None
        /\ xmit'[e].phase = xmit[e].phase /\ xmit'[e].accepted = xmit[e].accepted
    BY <1>0, <1>1, <2>3, <2>4, <2>5 DEF XmitRecords
  <2>7. \/ n < Len(body) /\ net'[e] = [net[e] EXCEPT !.pc = "idle", !.wakeup = TRUE]
        \/ ~ n < Len(body) /\ net'[e] = [net[e] EXCEPT !.pc = "next", !.wakeup = TRUE]
        \/ ~ n < Len(body) /\ net'[e] = [net[e] EXCEPT !.pc = "next"]
    BY <1>0, <2>1 DEF Blocked, Goto
  <2>8. /\ net'[e] \in NetRecords
        /\ \/ n < Len(body) /\ net'[e].pc = "idle"
           \/ ~ n < Len(body) /\ net'[e].pc = "next"
    BY <1>0, <2>7 DEF NetRecords
  <2>9. data'[e] \in Priorizers
    <3>1. Request(data[e], c) \in Priorizers
      BY <1>0, <2>4, RequestTyped
    <3> QED
      BY <1>0, <2>1, <3>1
  <2>10. xmit'[e].ch = None => xmit'[e].body = <<>>
    <3> SUFFICES ASSUME xmit'[e].ch = None PROVE xmit'[e].body = <<>>
      OBVIOUS
    <3>1. n = Len(body)
      BY <2>2, <2>4, <2>6, Numbers
    <3>2. Len(xmit'[e].body) = 0
      BY <2>2, <2>3, <2>6, <3>1
    <3> QED
      BY <2>3, <2>6, <3>2
  <2>11. EndOK(e)'
    BY <1>0, <2>0, <2>3, <2>4, <2>6, <2>8, <2>9, <2>10 DEF EndOK, Control
  <2>12. wire' \in [Peers -> Seq(Addressed)]
    BY <1>0, <1>2, <2>1, <2>3
  <2> QED
    BY <1>0, <2>11, <2>12, StepTyped
<1>6. CASE EvalAbort(e)
  <2>1. /\ net[e].pc = "next" /\ UNCHANGED <<chan, ctrl, data, recv, app, wire>>
        /\ xmit'[e] = [xmit[e] EXCEPT !.buffer = <<Packet("ABORT")>>]
        /\ net'[e] = [net[e] EXCEPT !.pc = "send"]
    BY <1>0, <1>6 DEF EvalAbort, Prepare, Goto
  <2>2. <<Packet("ABORT")>> \in Seq(Addressed) /\ <<Packet("ABORT")>> # <<Packet("ACCEPT")>>
    BY <1>3, PacketsAddressed DEF Packet, Token
  <2>3. /\ xmit'[e] \in XmitRecords /\ xmit'[e].buffer = <<Packet("ABORT")>>
        /\ xmit'[e].body = xmit[e].body /\ xmit'[e].ch = xmit[e].ch
        /\ xmit'[e].phase = xmit[e].phase /\ xmit'[e].accepted = xmit[e].accepted
    BY <1>0, <1>1, <2>1, <2>2 DEF XmitRecords
  <2>4. net'[e] \in NetRecords /\ net'[e].pc = "send"
    BY <1>0, <2>1 DEF NetRecords
  <2>5. EndOK(e)'
    BY <1>0, <2>1, <2>2, <2>3, <2>4 DEF EndOK, Control
  <2> QED
    BY <1>0, <2>1, <2>5, StepTyped
<1>7. CASE EvalAccept(e)
  <2>0. /\ net[e].pc = "next" /\ xmit[e].phase = "startup" /\ recv[e].answer # "reject"
        /\ UNCHANGED <<chan, data, recv, app, wire>>
    BY <1>7 DEF EvalAccept
  <2>1. CASE /\ xmit[e].accepted = "idle" /\ recv[e].answer = "accept"
             /\ xmit' = [xmit EXCEPT ![e].accepted = "prepared",
                                     ![e].buffer = <<Packet("ACCEPT")>>]
             /\ Goto(e, "send") /\ UNCHANGED ctrl
    <3>1. <<Packet("ACCEPT")>> \in Seq(Addressed)
      BY <1>3, PacketsAddressed
    <3>2. xmit'[e] = [xmit[e] EXCEPT !.accepted = "prepared", !.buffer = <<Packet("ACCEPT")>>]
      BY <1>0, <2>1
    <3>3. /\ xmit'[e] \in XmitRecords /\ xmit'[e].buffer = <<Packet("ACCEPT")>>
          /\ xmit'[e].body = xmit[e].body /\ xmit'[e].ch = xmit[e].ch
          /\ xmit'[e].phase = xmit[e].phase /\ xmit'[e].accepted = "prepared"
      BY <1>0, <1>1, <3>1, <3>2 DEF XmitRecords
    <3>4. net'[e] \in NetRecords /\ net'[e].pc = "send"
      BY <1>0, <2>1 DEF Goto, NetRecords
    <3>5. EndOK(e)'
      BY <1>0, <2>0, <2>1, <3>1, <3>3, <3>4 DEF EndOK, Control
    <3> QED
      BY <1>0, <2>0, <3>5, StepTyped
  <2>2. CASE Goto(e, "idle") /\ UNCHANGED <<xmit, ctrl>>
    <3>1. net'[e] \in NetRecords /\ net'[e].pc = "idle"
      BY <1>0, <2>2 DEF Goto, NetRecords
    <3>2. EndOK(e)'
      BY <1>0, <2>0, <2>2, <3>1 DEF EndOK, Control
    <3> QED
      BY <1>0, <2>0, <3>2, StepTyped
  <2>3. CASE /\ xmit[e].accepted = "xmitted"
             /\ xmit' = [xmit EXCEPT ![e].phase = "normal"]
             /\ IF recv[e].phase = "normal"
                  THEN Activate(e) /\ Blocked(e)
                  ELSE Goto(e, "idle") /\ UNCHANGED ctrl
    <3>1. xmit'[e] = [xmit[e] EXCEPT !.phase = "normal"]
      BY <1>0, <2>3
    <3>2. /\ xmit'[e] \in XmitRecords /\ xmit'[e].buffer = xmit[e].buffer
          /\ xmit'[e].body = xmit[e].body /\ xmit'[e].ch = xmit[e].ch
          /\ xmit'[e].accepted = "xmitted"
      BY <1>0, <2>3, <3>1 DEF XmitRecords
    <3>3. \/ net'[e] = [net[e] EXCEPT !.pc = "idle", !.wakeup = TRUE]
          \/ net'[e] = [net[e] EXCEPT !.pc = "idle"]
      BY <1>0, <2>3 DEF Blocked, Goto
    <3>4. net'[e] \in NetRecords /\ net'[e].pc = "idle"
      BY <1>0, <3>3 DEF NetRecords
    <3>5. ctrl'[e] \in Priorizers
      <4>1. CASE Activate(e)
        <5>1. ctrl'[e] = [ctrl[e] EXCEPT !.requests =
                            [p \in Priorities |-> {c \in Channels : PriorityOf[c] = p}]]
          BY <1>0, <4>1 DEF Activate
        <5> QED
          BY <1>0, <5>1, ActivateTyped
      <4> QED
        BY <1>0, <2>3, <4>1
    <3>6. recv[e].answer = "accept"
      BY <1>0, <2>3 DEF EndOK, Control
    <3>7. EndOK(e)'
      BY <1>0, <2>0, <3>2, <3>4, <3>5, <3>6 DEF EndOK, Control
    <3> QED
      BY <1>0, <2>0, <3>7, StepTyped
  <2> QED
    BY <1>7, <2>1, <2>2, <2>3 DEF EvalAccept
<1>8. CASE EvalChannelCtrl(e)
  <2> DEFINE c == Popped(ctrl[e])
  <2>0. /\ net[e].pc = "next" /\ xmit[e].phase = "normal" /\ Pending(ctrl[e]) # {}
        /\ ctrl' = [ctrl EXCEPT ![e] = PopNextRequest(@)]
        /\ UNCHANGED <<chan, data, recv, app, wire>>
    BY <1>8 DEF EvalChannelCtrl
  <2>1. c \in Channels /\ ctrl'[e] \in Priorizers
    BY <1>0, <2>0, PopTyped
  <2>2. xmit[e].buffer = <<>> /\ xmit[e].ch = None /\ xmit[e].body = <<>>
    BY <1>0, <2>0 DEF EndOK, Control
  <2>3. CASE /\ net' = [net EXCEPT ![e].pc = "arm", ![e].todo = {"clear", "read"}]
             /\ xmit' = [xmit EXCEPT ![e].ch = c]
    <3> HIDE DEF c
    <3>1. net'[e] \in NetRecords /\ net'[e].pc = "arm" /\ net'[e].todo = {"clear", "read"}
      BY <1>0, <2>3 DEF NetRecords
    <3>2. xmit'[e] = [xmit[e] EXCEPT !.ch = c]
      BY <1>0, <2>3
    <3>3. /\ xmit'[e] \in XmitRecords /\ xmit'[e].ch = c
          /\ xmit'[e].buffer = <<>> /\ xmit'[e].body = <<>>
          /\ xmit'[e].phase = xmit[e].phase /\ xmit'[e].accepted = xmit[e].accepted
      BY <1>0, <2>1, <2>2, <3>2 DEF XmitRecords
    <3>4. EndOK(e)'
      BY <1>0, <2>0, <2>1, <2>2, <3>1, <3>3, Numbers DEF EndOK, Control
    <3> QED
      BY <1>0, <2>0, <3>4, StepTyped
  <2>4. CASE Goto(e, "data") /\ UNCHANGED xmit
    <3>1. net'[e] \in NetRecords /\ net'[e].pc = "data"
      BY <1>0, <2>4 DEF Goto, NetRecords
    <3>2. EndOK(e)'
      BY <1>0, <2>0, <2>1, <2>2, <2>4, <3>1 DEF EndOK, Control
    <3> QED
      BY <1>0, <2>0, <3>2, StepTyped
  <2> QED
    BY <1>8, <2>3, <2>4 DEF EvalChannelCtrl
<1>9. CASE ClearArmFlag(e)
  <2> DEFINE c == xmit[e].ch
  <2>0. /\ net[e].pc = "arm" /\ "clear" \in net[e].todo
        /\ UNCHANGED <<ctrl, data, recv, app, wire>>
        /\ chan' = [chan EXCEPT ![e][c].armFlag = FALSE]
        /\ xmit'[e] = [xmit[e] EXCEPT !.ch = IF "read" \in net[e].todo THEN @ ELSE None]
        /\ ArmDone(e, "clear")
    BY <1>0, <1>9 DEF ClearArmFlag
  <2>1. c \in Channels /\ xmit[e].body = <<>> /\ xmit[e].phase = "normal"
    BY <1>0, <2>0 DEF EndOK, Control
  <2>2. /\ xmit'[e] \in XmitRecords /\ xmit'[e].buffer = xmit[e].buffer
        /\ xmit'[e].body = <<>> /\ xmit'[e].phase = "normal"
        /\ xmit'[e].accepted = xmit[e].accepted
        /\ xmit'[e].ch = IF "read" \in net[e].todo THEN c ELSE None
    BY <1>0, <2>0, <2>1 DEF XmitRecords
  <2> HIDE DEF c
  <2>3. chan' \in [Peers -> [Channels -> ChanRecords]]
    BY <1>0, <2>0, <2>1, ChanWritten
  <2>4. /\ net'[e] \in NetRecords /\ net'[e].todo = net[e].todo \ {"clear"}
        /\ net'[e].pc = IF net'[e].todo = {} THEN "send" ELSE "arm"
    <3> DEFINE left == net[e].todo \ {"clear"}
    <3>1. \E pc \in {"send", "arm"} : /\ pc = (IF left = {} THEN "send" ELSE "arm")
                                       /\ net'[e] = [net[e] EXCEPT !.todo = left, !.pc = pc]
      BY <1>0, <2>0 DEF ArmDone
    <3>2. left \in SUBSET {"clear", "read"}
      BY <1>0 DEF NetRecords
    <3> HIDE DEF left
    <3>3. PICK pc \in {"send", "arm"} : /\ pc = (IF left = {} THEN "send" ELSE "arm")
                                        /\ net'[e] = [net[e] EXCEPT !.todo = left, !.pc = pc]
      BY <3>1
    <3>4. net'[e] \in NetRecords /\ net'[e].todo = left /\ net'[e].pc = pc
      BY <1>0, <3>2, <3>3 DEF NetRecords
    <3> QED
      BY <3>3, <3>4 DEF left
  <2>5. net[e].todo \subseteq {"clear", "read"}
    BY <1>0 DEF NetRecords
  <2>6. /\ net'[e].pc = "arm" => xmit'[e].ch = c /\ net'[e].todo # {}
        /\ net'[e].pc # "arm" => net'[e].pc = "send"
        /\ "read" \in net'[e].todo => xmit'[e].buffer = <<>>
    <3>1. "read" \in net'[e].todo <=> "read" \in net[e].todo
      BY <2>4
    <3>2. net'[e].todo # {} => "read" \in net[e].todo
      BY <2>4, <2>5
    <3>3. "read" \in net[e].todo => xmit[e].buffer = <<>>
      BY <1>0, <2>0 DEF EndOK, Control
    <3> QED
      BY <2>2, <2>4, <3>1, <3>2, <3>3
  <2>7. EndOK(e)'
    BY <1>0, <2>0, <2>1, <2>2, <2>3, <2>4, <2>6 DEF EndOK, Control
  <2> QED
    BY <1>0, <2>0, <2>7, StepTyped
<1>10. CASE ReadRecvArm(e)
  <2> DEFINE c == xmit[e].ch
             s == <<Token("ARM", c, Int32(chan[e][c].rlimit), 0)>>
  <2>0. /\ net[e].pc = "arm" /\ "read" \in net[e].todo
        /\ UNCHANGED <<chan, ctrl, data, recv, app, wire>>
        /\ xmit'[e] = [xmit[e] EXCEPT !.buffer = s,
                         !.ch = IF "clear" \in net[e].todo THEN @ ELSE None]
        /\ ArmDone(e, "read")
    BY <1>0, <1>10 DEF ReadRecvArm
  <2>1. c \in Channels /\ xmit[e].body = <<>> /\ xmit[e].phase = "normal"
    BY <1>0, <2>0 DEF EndOK, Control
  <2>2. s \in Seq(Addressed) /\ s # <<Packet("ACCEPT")>>
    <3>1. chan[e][c].rlimit \in Nat
      BY <1>0, <2>1, ChanTyped
    <3>2. Int32(chan[e][c].rlimit) \in 0 .. Wrap - 1
      BY <3>1, Conversions
    <3>3. Token("ARM", c, Int32(chan[e][c].rlimit), 0) \in Addressed
      BY <2>1, <3>2, PacketsAddressed
    <3>4. s[1].type = "ARM" /\ <<Packet("ACCEPT")>>[1].type = "ACCEPT"
      BY DEF Token, Packet
    <3> QED
      BY <1>3, <3>3, <3>4
  <2> HIDE DEF s
  <2>3. /\ xmit'[e] \in XmitRecords /\ xmit'[e].buffer = s
        /\ xmit'[e].body = <<>> /\ xmit'[e].phase = "normal"
        /\ xmit'[e].accepted = xmit[e].accepted
        /\ xmit'[e].ch = IF "clear" \in net[e].todo THEN c ELSE None
    BY <1>0, <1>1, <2>0, <2>1, <2>2 DEF XmitRecords
  <2>4. /\ net'[e] \in NetRecords /\ net'[e].todo = net[e].todo \ {"read"}
        /\ net'[e].pc = IF net'[e].todo = {} THEN "send" ELSE "arm"
    <3> DEFINE left == net[e].todo \ {"read"}
    <3>1. \E pc \in {"send", "arm"} : /\ pc = (IF left = {} THEN "send" ELSE "arm")
                                       /\ net'[e] = [net[e] EXCEPT !.todo = left, !.pc = pc]
      BY <1>0, <2>0 DEF ArmDone
    <3>2. left \in SUBSET {"clear", "read"}
      BY <1>0 DEF NetRecords
    <3> HIDE DEF left
    <3>3. PICK pc \in {"send", "arm"} : /\ pc = (IF left = {} THEN "send" ELSE "arm")
                                        /\ net'[e] = [net[e] EXCEPT !.todo = left, !.pc = pc]
      BY <3>1
    <3>4. net'[e] \in NetRecords /\ net'[e].todo = left /\ net'[e].pc = pc
      BY <1>0, <3>2, <3>3 DEF NetRecords
    <3> QED
      BY <3>3, <3>4 DEF left
  <2>5. net[e].todo \subseteq {"clear", "read"}
    BY <1>0 DEF NetRecords
  <2>6. EndOK(e)'
    BY <1>0, <2>0, <2>1, <2>2, <2>3, <2>4, <2>5 DEF EndOK, Control
  <2> QED
    BY <1>0, <2>0, <2>6, StepTyped
<1>11. CASE EvalChannelData(e)
  <2> DEFINE c == Popped(data[e])
             k == chan[e][c]
             davail == Min({Signed(k.xarm - k.xpos), k.xlimit - k.xpos})
  <2>0. /\ EvaluatesData(e) /\ Pending(data[e]) # {}
        /\ data' = [data EXCEPT ![e] = PopNextRequest(@)]
        /\ UNCHANGED <<ctrl, recv, app, wire>>
    BY <1>11 DEF EvalChannelData
  <2>1. c \in Channels /\ data'[e] \in Priorizers
    BY <1>0, <2>0, PopTyped
  <2>2. /\ xmit[e].buffer = <<>> /\ xmit[e].ch = None /\ xmit[e].body = <<>>
        /\ xmit[e].phase = "normal"
    BY <1>0, <2>0 DEF EndOK, Control, EvaluatesData
  <2>3. CASE Goto(e, "idle") /\ UNCHANGED <<chan, xmit>>
    <3>1. net'[e] \in NetRecords /\ net'[e].pc = "idle"
      BY <1>0, <2>3 DEF Goto, NetRecords
    <3>2. EndOK(e)'
      BY <1>0, <2>0, <2>1, <2>3, <3>1 DEF EndOK, Control
    <3> QED
      BY <1>0, <2>0, <3>2, StepTyped
  <2>4. ASSUME NEW n \in 1 .. Min({davail, MaxPayload[Other(e)]}),
               chan' = [chan EXCEPT ![e][c].xpos = @ + n],
               xmit' = [xmit EXCEPT ![e].ch = c,
                          ![e].buffer = <<Token("SEQ", c, Int32(k.xpos), n)>>,
                          ![e].body = Units("DATA", n) \o Units("PAD", Padding(n))],
               Goto(e, "send")
        PROVE  TypeInv'
    <3> DEFINE s == <<Token("SEQ", c, Int32(k.xpos), n)>>
               b == Units("DATA", n) \o Units("PAD", Padding(n))
    <3> HIDE DEF c
    <3>1. k.xpos \in Nat
      BY <1>0, <2>1, ChanTyped
    <3>2. n \in Nat
      <4>0. k.xarm \in 0 .. Wrap - 1 /\ k.xlimit \in Nat
        BY <1>0, <2>1, ChanTyped
      <4>1. k.xarm \in Int /\ k.xlimit \in Int
        BY <4>0, SizesAssumption
      <4>2. Signed(k.xarm - k.xpos) \in Int /\ k.xlimit - k.xpos \in Int
        BY <3>1, <4>1, Conversions
      <4>3. davail \in Int
        BY <4>2, MinOfTwo
      <4>4. MaxPayload[Other(e)] \in Int
        BY TwoPeers, SizesAssumption
      <4>5. Min({davail, MaxPayload[Other(e)]}) \in Int
        BY <4>3, <4>4, MinOfTwo
      <4> HIDE DEF davail
      <4> QED
        BY <4>5
    <3>3. s \in Seq(Addressed) /\ s # <<Packet("ACCEPT")>>
      <4>1. Int32(k.xpos) \in 0 .. Wrap - 1
        BY <3>1, Conversions
      <4>2. Token("SEQ", c, Int32(k.xpos), n) \in Addressed
        BY <2>1, <3>2, <4>1, PacketsAddressed
      <4>3. s[1].type = "SEQ" /\ <<Packet("ACCEPT")>>[1].type = "ACCEPT"
        BY DEF Token, Packet
      <4> QED
        BY <1>3, <4>2, <4>3
    <3>4. b \in Seq(Addressed)
      <4>1. Padding(n) \in Nat
        BY <3>2, Conversions
      <4>2. Units("DATA", n) \in Seq(Addressed) /\ Units("PAD", Padding(n)) \in Seq(Addressed)
        BY <3>2, <4>1, UnitsTyped
      <4> QED
        BY <4>2
    <3>5. xmit'[e] = [xmit[e] EXCEPT !.ch = c, !.buffer = s, !.body = b]
      BY <1>0, <2>4
    <3>6. k.xpos + n \in Nat
      BY <3>1, <3>2
    <3>7. chan' \in [Peers -> [Channels -> ChanRecords]]
      <4>1. chan' = [chan EXCEPT ![e][c].xpos = k.xpos + n]
        BY <2>4
      <4> DEFINE m == k.xpos + n
      <4> HIDE DEF m
      <4> QED
        BY <1>0, <2>1, <3>6, <4>1, ChanWritten DEF m
    <3> HIDE DEF s, b
    <3>8. /\ xmit'[e] \in XmitRecords /\ xmit'[e].ch = c
          /\ xmit'[e].buffer = s /\ xmit'[e].body = b
          /\ xmit'[e].phase = "normal" /\ xmit'[e].accepted = xmit[e].accepted
      BY <1>0, <1>1, <2>1, <2>2, <3>3, <3>4, <3>5 DEF XmitRecords
    <3>9. net'[e] \in NetRecords /\ net'[e].pc = "send"
      BY <1>0, <2>4 DEF Goto, NetRecords
    <3>10. EndOK(e)'
      BY <1>0, <2>0, <2>1, <2>2, <3>3, <3>4, <3>7, <3>8, <3>9, Numbers DEF EndOK, Control
    <3> QED
      BY <1>0, <2>0, <3>10, StepTyped
  <2> QED
    BY <1>11, <2>3, <2>4 DEF EvalChannelData
<1>12. CASE xmitEnd(e)
  <2>1. /\ UNCHANGED <<chan, ctrl, data, xmit, recv, app, wire>>
        /\ net'[e] \in NetRecords /\ net'[e].pc = "idle"
    BY <1>0, <1>12 DEF xmitEnd, Goto, NetRecords
  <2>2. EndOK(e)'
    BY <1>0, <2>1 DEF EndOK, Control
  <2> QED
    BY <1>0, <2>1, <2>2, StepTyped
<1> QED
  BY <1>4, <1>5, <1>6, <1>7, <1>8, <1>9, <1>10, <1>11, <1>12 DEF Writes

\* The types and the control of both endpoints hold in the beginning.
LEMMA InitTyped == Init => TypeInv
<1> SUFFICES ASSUME Init PROVE TypeInv
  OBVIOUS
<1>1. Addressed \subseteq Tokens /\ <<>> \in Seq(Addressed)
  BY DEF Addressed
<1>2. <<Packet("SETUP")>> \in Seq(Addressed) /\ <<Packet("SETUP")>> # <<Packet("ACCEPT")>>
  BY PacketsAddressed DEF Packet, Token
<1>3. Seq(Addressed) \subseteq Seq(Tokens)
  BY <1>1
<1>4. NoRequests \in Priorizers
  BY Numbers DEF NoRequests, Priorizers
<1>5. Resting \in AppRecords /\ Resting.call = "none" /\ Resting.todo = {}
  BY DEF Resting, AppRecords
<1>6. 0 \in 0 .. Wrap - 1
  BY SizesAssumption
<1>7. chan \in [Peers -> [Channels -> ChanRecords]]
  BY <1>6 DEF Init, ChanRecords
<1>8. xmit \in [Peers -> XmitRecords] /\ recv \in [Peers -> RecvRecords]
  BY <1>1, <1>2, <1>3 DEF Init, XmitRecords, RecvRecords
<1>9. net \in [Peers -> NetRecords]
  BY DEF Init, NetRecords
<1>10. /\ ctrl \in [Peers -> Priorizers] /\ data \in [Peers -> Priorizers]
       /\ app \in [Peers -> AppRecords] /\ wire \in [Peers -> Seq(Addressed)]
  BY <1>1, <1>4, <1>5 DEF Init
<1>11. wire \in [Peers -> Seq(Tokens)]
  BY <1>3, <1>10
<1>12. ASSUME NEW e \in Peers PROVE EndOK(e)
  <2>1. /\ xmit[e].buffer = <<Packet("SETUP")>> /\ xmit[e].body = <<>> /\ xmit[e].ch = None
        /\ xmit[e].phase = "startup" /\ xmit[e].accepted = "idle"
        /\ net[e].pc = "idle" /\ app[e] = Resting
    BY DEF Init
  <2>2. Control(e)
    BY <1>2, <1>5, <2>1 DEF Control
  <2> QED
    BY <1>1, <1>2, <1>7, <1>8, <1>9, <1>10, <2>1, <2>2 DEF EndOK
<1> QED
  BY <1>7, <1>8, <1>9, <1>10, <1>11, <1>12 DEF TypeInv, TypeOK

\* A step keeps them.
LEMMA NextTyped == TypeInv /\ [Next]_vars => TypeInv'
<1> SUFFICES ASSUME TypeInv, [Next]_vars PROVE TypeInv'
  OBVIOUS
<1>1. CASE UNCHANGED vars
  BY <1>1 DEF vars, TypeInv, TypeOK, EndOK, Control
<1>2. CASE Next
  BY <1>2, ApplicationTyped, ReadsTyped, WritesTyped DEF Next, NetworkThread
<1> QED
  BY <1>1, <1>2

\* Two programs that use the Java library never leave the types of their
\* state, whatever the threads, the transport and the applications do.
THEOREM LinkTyped == Spec => []TypeOK
<1>1. Spec => []TypeInv
  BY InitTyped, NextTyped, PTL DEF Spec
<1>2. TypeInv => TypeOK
  BY DEF TypeInv
<1> QED
  BY <1>1, <1>2, PTL

-----------------------------------------------------------------------------
(* Ints.  Positions that differ by less than half the range of an int are  *)
(* compared correctly, whatever of them the ints keep.                     *)

\* The remainder of a division is unique.
LEMMA Remainder ==
  ASSUME NEW r \in Int, 0 <= r, r < Wrap, NEW k \in Int
  PROVE  (r + Wrap * k) % Wrap = r
<1> DEFINE n == r + Wrap * k
           q == n \div Wrap
           s == n % Wrap
<1>1. Wrap \in Int /\ Wrap > 0
  BY SizesAssumption
<1>2. n \in Int /\ q \in Int /\ s \in Int /\ n = Wrap * q + s /\ 0 <= s /\ s < Wrap
  BY <1>1
<1> HIDE DEF q, s
<1>3. Wrap * (k - q) = s - r
  BY <1>1, <1>2
<1>4. k - q = 0
  <2>1. CASE k - q >= 1
    <3>1. Wrap * (k - q) >= Wrap
      BY <1>1, <1>2, <2>1
    <3> QED
      BY <1>1, <1>2, <1>3, <3>1
  <2>2. CASE k - q <= -1
    <3>1. Wrap * (k - q) <= -Wrap
      BY <1>1, <1>2, <2>2
    <3> QED
      BY <1>1, <1>2, <1>3, <3>1
  <2> QED
    BY <1>2, <2>1, <2>2
<1>5. s = r
  BY <1>1, <1>2, <1>3, <1>4
<1> QED
  BY <1>5 DEF s

\* The difference of two positions, of which the first may be cut to an int.
LEMMA Difference ==
  ASSUME NEW a \in Nat, NEW p \in Nat, p <= a, 2 * (a - p) < Wrap
  PROVE  Signed(a - p) = a - p /\ Signed(Int32(a) - p) = a - p
<1> DEFINE d == a - p
           q == a \div Wrap
<1>1. Wrap \in Int /\ Wrap > 0
  BY SizesAssumption
<1>2. d \in Int /\ 0 <= d /\ d < Wrap /\ 2 * d < Wrap
  BY <1>1
<1>3. q \in Int /\ a = Wrap * q + Int32(a) /\ Int32(a) \in Int
  BY <1>1 DEF Int32
<1>4. Int32(d) = d
  <2>1. d + Wrap * 0 = d
    BY <1>1, <1>2
  <2> QED
    BY <1>2, <2>1, Remainder DEF Int32
<1>5. Int32(Int32(a) - p) = d
  <2>1. Int32(a) - p = d + Wrap * (-q)
    BY <1>1, <1>3
  <2>2. -q \in Int
    BY <1>3
  <2> HIDE DEF d, q
  <2>3. (d + Wrap * (-q)) % Wrap = d
    BY <1>2, <2>2, Remainder
  <2> QED
    BY <2>1, <2>3 DEF Int32
<1> HIDE DEF d
<1>6. Signed(d) = d
  BY <1>2, <1>4 DEF Signed
<1>7. Signed(Int32(a) - p) = d
  BY <1>2, <1>5 DEF Signed
<1> QED
  BY <1>6, <1>7 DEF d

-----------------------------------------------------------------------------
(* Framing.  A stream of tokens is read from one place of the protocol to  *)
(* another: which packets may come next, how much of a body is due, and    *)
(* the full positions and credits that the ints stand for.                 *)

Phases == {"Setup", "Accept", "Ready", "Aborted"}
Places == [phase : Phases, due : Nat, pos : [Channels -> Nat], credit : [Channels -> Nat]]
Place(p, n, f, g) == [phase |-> p, due |-> n, pos |-> f, credit |-> g]

\* Token t is what may come at place s, and leads to place u.
Leads(s, t, u) ==
  \/ /\ t.type = "SETUP" /\ s.phase = "Setup" /\ s.due = 0
     /\ u = Place("Accept", 0, s.pos, s.credit)
  \/ /\ t.type = "ACCEPT" /\ s.phase = "Accept" /\ s.due = 0
     /\ u = Place("Ready", 0, s.pos, s.credit)
  \/ /\ t.type = "ABORT" /\ s.phase = "Accept" /\ s.due = 0
     /\ u = Place("Aborted", 0, s.pos, s.credit)
  \/ /\ t.type = "ARM" /\ t.ch \in Channels /\ s.phase = "Ready" /\ s.due = 0
     /\ \E a \in Nat : /\ a >= s.credit[t.ch] /\ t.val = Int32(a)
                       /\ u = Place("Ready", 0, s.pos, [s.credit EXCEPT ![t.ch] = a])
  \/ /\ t.type = "SEQ" /\ t.ch \in Channels /\ s.phase = "Ready" /\ s.due = 0
     /\ t.val = Int32(s.pos[t.ch])
     /\ u = Place("Ready", t.size + Padding(t.size),
                  [s.pos EXCEPT ![t.ch] = @ + t.size], s.credit)
  \/ /\ t.type \in {"DATA", "PAD"} /\ s.due > 0
     /\ u = Place(s.phase, s.due - 1, s.pos, s.credit)

\* The tokens S lead from one place to the other.
Steps == {x \in Places \X Tokens \X Places : Leads(x[1], x[2], x[3])}
Parses(S, from, to) == Walks(Steps, Places, S, from, to)

\* There are places between any two tokens.
LEMMA ParsesMeans ==
  ASSUME NEW S \in Seq(Tokens), NEW a, NEW b
  PROVE  Parses(S, a, b) <=>
           \E d \in [0 .. Len(S) -> Places] :
             /\ d[0] = a /\ d[Len(S)] = b
             /\ \A i \in 1 .. Len(S) : Leads(d[i - 1], S[i], d[i])
<1>0. Len(S) \in Nat /\ \A i \in 1 .. Len(S) : S[i] \in Tokens
  OBVIOUS
<1>1. ASSUME NEW d \in [0 .. Len(S) -> Places], NEW i \in 1 .. Len(S)
      PROVE  <<d[i - 1], S[i], d[i]>> \in Steps <=> Leads(d[i - 1], S[i], d[i])
  <2>1. d[i - 1] \in Places /\ d[i] \in Places /\ S[i] \in Tokens
    BY <1>0
  <2> QED
    BY <2>1 DEF Steps
<1> QED
  BY <1>1 DEF Parses, Walks

\* No tokens lead nowhere.
LEMMA ParsesNothing ==
  ASSUME NEW a \in Places
  PROVE  Parses(<<>>, a, a)
BY WalksNothing DEF Parses

\* One token.
LEMMA ParsesOne ==
  ASSUME NEW a \in Places, NEW b \in Places, NEW t \in Tokens, Leads(a, t, b)
  PROVE  Parses(<<t>>, a, b)
<1>1. <<a, t, b>> \in Steps
  BY DEF Steps
<1> QED
  BY <1>1, WalksOne DEF Parses

\* A stream of one token.
LEMMA ParsesHead ==
  ASSUME NEW t \in Tokens, NEW a, NEW b, Parses(<<t>>, a, b)
  PROVE  Leads(a, t, b)
<1>1. <<a, t, b>> \in Steps
  BY WalksHead DEF Parses
<1> QED
  BY <1>1 DEF Steps

\* One part of a stream after the other.
LEMMA ParsesConcat ==
  ASSUME NEW P \in Seq(Tokens), NEW Q \in Seq(Tokens), NEW a, NEW m, NEW b,
         Parses(P, a, m), Parses(Q, m, b)
  PROVE  Parses(P \o Q, a, b)
BY WalksConcat DEF Parses

\* A stream is read in two parts.
LEMMA ParsesSplit ==
  ASSUME NEW P \in Seq(Tokens), NEW Q \in Seq(Tokens), NEW a, NEW b,
         Parses(P \o Q, a, b)
  PROVE  \E m \in Places : Parses(P, a, m) /\ Parses(Q, m, b)
BY WalksSplit DEF Parses

\* A body is taken off what is due.
LEMMA ParsesDue ==
  ASSUME NEW a \in Places, NEW S \in Seq(Tokens), Len(S) <= a.due,
         \A i \in 1 .. Len(S) : S[i].type \in {"DATA", "PAD"}
  PROVE  Parses(S, a, Place(a.phase, a.due - Len(S), a.pos, a.credit))
<1> DEFINE n == Len(S)
           At(i) == Place(a.phase, a.due - i, a.pos, a.credit)
           d == [i \in 0 .. n |-> At(i)]
<1>0. a.due \in Nat /\ n \in Nat /\ a.phase \in Phases
      /\ a.pos \in [Channels -> Nat] /\ a.credit \in [Channels -> Nat]
  BY DEF Places
<1>1. \A i \in 0 .. n : d[i] = At(i) /\ d[i] \in Places
  BY <1>0 DEF Places, Place
<1>2. d[0] = a
  <2>1. a = [phase |-> a.phase, due |-> a.due, pos |-> a.pos, credit |-> a.credit]
    BY DEF Places
  <2> QED
    BY <1>0, <1>1, <2>1 DEF Place
<1>3. ASSUME NEW i \in 1 .. n
      PROVE  Leads(d[i - 1], S[i], d[i])
  <2>1. d[i - 1] = At(i - 1) /\ d[i] = At(i)
    BY <1>0, <1>1
  <2>2. a.due - (i - 1) > 0 /\ a.due - i = (a.due - (i - 1)) - 1
    BY <1>0
  <2> QED
    BY <2>1, <2>2 DEF Leads, Place
<1>4. d \in [0 .. n -> Places] /\ d[n] = At(n)
  BY <1>0, <1>1
<1> HIDE DEF d
<1> QED
  BY <1>2, <1>3, <1>4, ParsesMeans

\* As long as a body is due, nothing else comes.
LEMMA ParsesBody ==
  ASSUME NEW S \in Seq(Tokens), NEW a \in Places, NEW b \in Places,
         Parses(S, a, b), Len(S) <= a.due
  PROVE  b = Place(a.phase, a.due - Len(S), a.pos, a.credit)
<1>0. Len(S) \in Nat /\ a.due \in Nat
  BY DEF Places
<1>1. PICK d \in [0 .. Len(S) -> Places] :
        /\ d[0] = a /\ d[Len(S)] = b
        /\ \A i \in 1 .. Len(S) : Leads(d[i - 1], S[i], d[i])
  BY ParsesMeans
<1> DEFINE At(i) == d[i] = Place(a.phase, a.due - i, a.pos, a.credit)
           X == {i \in Nat : i <= Len(S) => At(i)}
<1>2. 0 \in X
  <2>1. a = [phase |-> a.phase, due |-> a.due, pos |-> a.pos, credit |-> a.credit]
    BY DEF Places
  <2> QED
    BY <1>0, <1>1, <2>1 DEF Place
<1>3. \A i \in Nat : i \in X => i + 1 \in X
  <2> SUFFICES ASSUME NEW i \in Nat, i \in X, i + 1 <= Len(S) PROVE At(i + 1)
    OBVIOUS
  <2>1. i + 1 \in 1 .. Len(S) /\ (i + 1) - 1 = i /\ At(i)
    BY <1>0
  <2>2. Leads(d[i], S[i + 1], d[i + 1])
    BY <1>1, <2>1
  <2>3. /\ d[i].phase = a.phase /\ d[i].due = a.due - i
        /\ d[i].pos = a.pos /\ d[i].credit = a.credit /\ a.due - i > 0
    BY <1>0, <2>1 DEF Place
  <2>4. d[i + 1] = Place(d[i].phase, d[i].due - 1, d[i].pos, d[i].credit)
    BY <2>2, <2>3 DEF Leads
  <2>5. d[i].due - 1 = a.due - (i + 1)
    BY <1>0, <2>3
  <2> QED
    BY <2>3, <2>4, <2>5
<1>4. Nat \subseteq X
  <2> HIDE DEF X
  <2> QED
    BY <1>2, <1>3, NatSetInduction
<1>5. At(Len(S))
  BY <1>0, <1>4
<1> QED
  BY <1>1, <1>5

\* Along a stream no position and no credit goes back.
LEMMA ParsesRises ==
  ASSUME NEW S \in Seq(Tokens), NEW a \in Places, NEW b, Parses(S, a, b), NEW c \in Channels
  PROVE  b \in Places /\ a.pos[c] <= b.pos[c] /\ a.credit[c] <= b.credit[c]
<1> DEFINE X == {u \in Places : a.pos[c] <= u.pos[c] /\ a.credit[c] <= u.credit[c]}
<1>1. a \in X
  BY DEF Places
<1>2. ASSUME NEW s, NEW t, NEW u, s \in X, <<s, t, u>> \in Steps
      PROVE  u \in X
  <2>1. /\ s \in Places /\ t \in Tokens /\ u \in Places /\ Leads(s, t, u)
    BY <1>2 DEF Steps
  <2>2. /\ s.pos \in [Channels -> Nat] /\ s.credit \in [Channels -> Nat] /\ t.size \in Nat
        /\ a.pos[c] \in Nat /\ a.credit[c] \in Nat
        /\ a.pos[c] <= s.pos[c] /\ a.credit[c] <= s.credit[c]
    BY <1>2, <2>1 DEF Places, Tokens
  <2>3. u.pos[c] >= s.pos[c] /\ u.credit[c] >= s.credit[c]
    <3>1. CASE u.pos = s.pos /\ u.credit = s.credit
      BY <2>2, <3>1
    <3>2. ASSUME NEW d \in Channels, NEW n \in Nat, n >= s.credit[d],
                 u.pos = s.pos, u.credit = [s.credit EXCEPT ![d] = n]
          PROVE  u.pos[c] >= s.pos[c] /\ u.credit[c] >= s.credit[c]
      BY <2>2, <3>2
    <3>3. ASSUME NEW d \in Channels, u.credit = s.credit,
                 u.pos = [s.pos EXCEPT ![d] = @ + t.size]
          PROVE  u.pos[c] >= s.pos[c] /\ u.credit[c] >= s.credit[c]
      BY <2>2, <3>3
    <3> QED
      BY <2>1, <3>1, <3>2, <3>3 DEF Leads, Place
  <2>4. u.pos[c] \in Nat /\ u.credit[c] \in Nat /\ s.pos[c] \in Nat /\ s.credit[c] \in Nat
    BY <2>1 DEF Places
  <2> QED
    BY <2>1, <2>2, <2>3, <2>4
<1> HIDE DEF X
<1>3. b \in X
  BY <1>1, <1>2, WalksInvariant DEF Parses
<1> QED
  BY <1>3 DEF X

-----------------------------------------------------------------------------
(* The tokens between a sender and its receiver, in the transport and in   *)
(* the buffers of the sender, lead from the place the receiver reads at to *)
(* a place the sender writes at.                                           *)

Sent(e) == (wire[e] \o xmit[e].buffer) \o xmit[e].body

\* The receiver of e reads at u: it is u that its ints stand for.
ReadsAt(e, u) ==
  /\ u.phase = IF recv[e].phase = "normal" THEN "Ready"
               ELSE IF recv[e].answer = "none" THEN "Setup" ELSE "Accept"
  /\ u.due = IF recv[e].ch = None THEN 0 ELSE recv[e].payload + recv[e].padding
  /\ \A c \in Channels : /\ u.pos[c] = chan[e][c].rpos + Due(e, c)
                         /\ chan[e][c].xarm = Int32(u.credit[c])
                         /\ chan[e][c].xpos <= u.credit[c]

\* The xmitter of e writes at v, when it has sent what it prepared.
WritesAt(e, v) ==
  /\ v.due = 0
  /\ \A c \in Channels : v.pos[c] = chan[e][c].xpos /\ v.credit[c] <= chan[e][c].rlimit
  /\ xmit[e].accepted # "idle" => v.phase = "Ready"
  /\ xmit[e].accepted = "idle" /\ net[e].pc # "dead" /\ xmit[e].buffer # <<Packet("ABORT")>>
       => v.phase = "Accept"

Framed(e) ==
  \E u, v \in Places : ReadsAt(Other(e), u) /\ WritesAt(e, v) /\ Parses(Sent(e), u, v)

\* The room that an application grants, with what its thread is about to add,
\* is less than half the range of an int.
Promised(e, c) == IF app[e].ch = c /\ "arm" \in app[e].todo THEN app[e].added ELSE 0

Roomy(e) ==
  \A c \in Channels : 2 * (chan[e][c].rlimit + Promised(e, c) - chan[e][c].rpos) < Wrap

FrameInv == \A e \in Peers : Framed(e) /\ Roomy(e)

\* The parts of what was sent.
LEMMA SentTyped ==
  ASSUME TypeInv, NEW e \in Peers
  PROVE  /\ wire[e] \in Seq(Tokens) /\ xmit[e].buffer \in Seq(Tokens)
         /\ xmit[e].body \in Seq(Tokens) /\ Sent(e) \in Seq(Tokens)
<1>1. /\ wire[e] \in Seq(Tokens) /\ xmit[e] \in XmitRecords
  BY DEF TypeInv, TypeOK
<1>2. xmit[e].buffer \in Seq(Tokens) /\ xmit[e].body \in Seq(Tokens)
  BY <1>1 DEF XmitRecords
<1> QED
  BY <1>1, <1>2 DEF Sent

\* Concatenation is associative.
LEMMA TokensAssociate ==
  ASSUME NEW P \in Seq(Tokens), NEW Q \in Seq(Tokens), NEW R \in Seq(Tokens)
  PROVE  (P \o Q) \o R = P \o (Q \o R)
BY ConcatAssociative

\* The first n tokens in the transport lead from the place the receiver reads
\* at to one from which the rest of the stream is read.
LEMMA TakeParses ==
  ASSUME TypeInv, NEW e \in Peers, NEW n \in 0 .. Len(Inbound(e)), NEW u, NEW v,
         Parses(Sent(Other(e)), u, v)
  PROVE  \E m \in Places :
           /\ Parses(SubSeq(Inbound(e), 1, n), u, m)
           /\ Parses((SubSeq(Inbound(e), n + 1, Len(Inbound(e))) \o xmit[Other(e)].buffer)
                       \o xmit[Other(e)].body, m, v)
<1> DEFINE s == Other(e)
           w == Inbound(e)
           b == xmit[s].buffer
           d == xmit[s].body
           P == SubSeq(w, 1, n)
           Q == SubSeq(w, n + 1, Len(w))
<1>1. /\ w = wire[s] /\ w \in Seq(Tokens) /\ b \in Seq(Tokens) /\ d \in Seq(Tokens)
  BY TwoPeers, SentTyped DEF Inbound
<1>2. P \in Seq(Tokens) /\ Q \in Seq(Tokens) /\ w = P \o Q
  BY <1>1, PieceTyped
<1>3. Sent(s) = ((P \o Q) \o b) \o d
  BY <1>1, <1>2 DEF Sent
<1> HIDE DEF P, Q, b, d, w
<1>4. Q \o b \in Seq(Tokens) /\ (Q \o b) \o d \in Seq(Tokens)
  BY <1>1, <1>2, ConcatProperties
<1>5. Sent(s) = P \o ((Q \o b) \o d)
  <2>1. (P \o Q) \o b = P \o (Q \o b)
    BY <1>1, <1>2, TokensAssociate
  <2>2. (P \o (Q \o b)) \o d = P \o ((Q \o b) \o d)
    <3> DEFINE z == Q \o b
    <3>1. P \in Seq(Tokens) /\ z \in Seq(Tokens) /\ d \in Seq(Tokens)
      BY <1>1, <1>2, <1>4
    <3> HIDE DEF z
    <3>2. (P \o z) \o d = P \o (z \o d)
      BY <3>1, TokensAssociate
    <3> QED
      BY <3>2 DEF z
  <2> QED
    BY <1>3, <2>1, <2>2
<1>6. PICK m \in Places : Parses(P, u, m) /\ Parses((Q \o b) \o d, m, v)
  BY <1>2, <1>4, <1>5, ParsesSplit
<1> QED
  BY <1>6 DEF P, Q, b, d, w

\* The header that is received is one that may come where the receiver reads.
LEMMA HeadParses ==
  ASSUME TypeInv, NEW e \in Peers, Inbound(e) # <<>>, NEW u, NEW v,
         Parses(Sent(Other(e)), u, v)
  PROVE  \E m \in Places :
           /\ Leads(u, Header(e), m)
           /\ Parses((SubSeq(Inbound(e), 2, Len(Inbound(e))) \o xmit[Other(e)].buffer)
                       \o xmit[Other(e)].body, m, v)
<1> DEFINE w == Inbound(e)
<1>1. w \in Seq(Tokens) /\ w # <<>> /\ Header(e) = w[1]
  BY TwoPeers, SentTyped DEF Inbound, Header
<1>2. Len(w) \in Nat /\ Len(w) >= 1 /\ w[1] \in Tokens
  BY <1>1
<1>3. 1 \in 0 .. Len(w)
  BY <1>2
<1>4. SubSeq(w, 1, 1) = <<w[1]>>
  <2>1. SubSeq(w, 1, 1) \in Seq(Tokens) /\ Len(SubSeq(w, 1, 1)) = 1
        /\ SubSeq(w, 1, 1)[1] = w[1]
    BY <1>1, <1>3, PieceTyped
  <2> DEFINE x == SubSeq(w, 1, 1)
             y == <<w[1]>>
  <2>2. y \in Seq(Tokens) /\ Len(y) = 1 /\ y[1] = w[1]
    BY <1>2
  <2>3. x \in Seq(Tokens) /\ Len(x) = 1 /\ x[1] = w[1]
    BY <2>1
  <2> HIDE DEF x, y
  <2>4. \A i \in 1 .. Len(x) : x[i] = y[i]
    BY <2>2, <2>3
  <2>5. x = y
    BY <2>2, <2>3, <2>4, SeqEqual
  <2> QED
    BY <2>5 DEF x, y
<1>5. PICK m \in Places :
        /\ Parses(SubSeq(w, 1, 1), u, m)
        /\ Parses((SubSeq(w, 1 + 1, Len(w)) \o xmit[Other(e)].buffer) \o xmit[Other(e)].body,
                  m, v)
  BY <1>3, TakeParses
<1>6. Leads(u, w[1], m)
  BY <1>2, <1>4, <1>5, ParsesHead
<1> QED
  BY <1>1, <1>5, <1>6

\* What the reading side of an endpoint knows of the other one.
LEMMA CreditKnown ==
  ASSUME TypeInv, FrameInv, NEW e \in Peers, NEW c \in Channels,
         NEW u \in Places, NEW v, ReadsAt(e, u), WritesAt(Other(e), v),
         Parses(Sent(Other(e)), u, v)
  PROVE  /\ u.credit[c] \in Nat /\ chan[e][c].xpos \in Nat
         /\ chan[e][c].xpos <= u.credit[c] /\ chan[e][c].xarm = Int32(u.credit[c])
         /\ 2 * (u.credit[c] - chan[e][c].xpos) < Wrap
<1> DEFINE s == Other(e)
<1>1. s \in Peers /\ Other(s) = e /\ chan \in [Peers -> [Channels -> ChanRecords]]
      /\ app[s] \in AppRecords
  BY TwoPeers DEF TypeInv, TypeOK
<1>2. u.credit[c] \in Nat /\ u.credit[c] <= v.credit[c] /\ v.credit[c] \in Nat
  <2>1. v \in Places /\ u.credit[c] <= v.credit[c]
    BY <1>1, SentTyped, ParsesRises
  <2> QED
    BY <2>1 DEF Places
<1>3. v.credit[c] <= chan[s][c].rlimit
  BY DEF WritesAt
<1>4. chan[s][c].rpos <= chan[e][c].xpos
  <2>1. PICK x, y \in Places : ReadsAt(s, x) /\ WritesAt(e, y) /\ Parses(Sent(e), x, y)
    BY <1>1 DEF FrameInv, Framed
  <2>2. x.pos[c] <= y.pos[c]
    BY <2>1, SentTyped, ParsesRises
  <2>3. y.pos[c] = chan[e][c].xpos /\ x.pos[c] = chan[s][c].rpos + Due(s, c)
    BY <2>1 DEF ReadsAt, WritesAt
  <2>4. Due(s, c) \in Nat
    BY <1>1 DEF Due, TypeInv, TypeOK, RecvRecords
  <2>5. chan[s][c].rpos \in Nat /\ chan[e][c].xpos \in Nat
    BY <1>1, ChanTyped
  <2> QED
    BY <2>2, <2>3, <2>4, <2>5
<1>5. 2 * (chan[s][c].rlimit + Promised(s, c) - chan[s][c].rpos) < Wrap
  BY <1>1 DEF FrameInv, Roomy
<1>6. Promised(s, c) \in Nat
  BY <1>1 DEF Promised, AppRecords
<1>7. /\ chan[s][c].rlimit \in Nat /\ chan[s][c].rpos \in Nat /\ chan[e][c].xpos \in Nat
  BY <1>1, ChanTyped
<1>8. u.credit[c] - chan[e][c].xpos
        <= chan[s][c].rlimit + Promised(s, c) - chan[s][c].rpos
  BY <1>2, <1>3, <1>4, <1>6, <1>7
<1>9. 2 * (u.credit[c] - chan[e][c].xpos) < Wrap
  BY <1>2, <1>5, <1>6, <1>7, <1>8, SizesAssumption
<1> QED
  BY <1>2, <1>7, <1>9 DEF ReadsAt

\* A reader that took tokens and reads at the place they lead to is still
\* framed with its sender.
LEMMA ReaderMoves ==
  ASSUME TypeInv, NEW e \in Peers, Acts(e), NEW m \in Places, NEW v \in Places,
         WritesAt(Other(e), v), ReadsAt(e, m)', NEW w, wire'[Other(e)] = w,
         Parses((w \o xmit[Other(e)].buffer) \o xmit[Other(e)].body, m, v)
  PROVE  Framed(Other(e))'
<1> DEFINE s == Other(e)
<1>1. s \in Peers /\ s # e /\ Other(s) = e
  BY TwoPeers
<1>2. chan'[s] = chan[s] /\ xmit'[s] = xmit[s] /\ net'[s] = net[s]
  BY <1>1, OtherUntouched DEF TypeInv
<1>3. WritesAt(s, v)'
  BY <1>2 DEF WritesAt
<1>4. Parses(Sent(s), m, v)'
  BY <1>2 DEF Sent, Parses
<1> HIDE DEF s
<1> QED
  BY <1>1, <1>3, <1>4 DEF Framed, s

\* Reading takes tokens off the transport only as they may come: the receiver
\* stays framed with the sender, and it does not throw but for a rejection.
LEMMA ReadsFramed ==
  ASSUME TypeInv, FrameInv, NEW e \in Peers,
         handleChannel(e) \/ Reads(e) \/ recvNothing(e)
  PROVE  Framed(Other(e))' /\ (net'[e].fault = "protocol" => net[e].fault = "protocol")
<1> DEFINE s == Other(e)
           rest(n) == (SubSeq(Inbound(e), n + 1, Len(Inbound(e))) \o xmit[s].buffer)
                        \o xmit[s].body
           Goal == Framed(s)' /\ (net'[e].fault = "protocol" => net[e].fault = "protocol")
<1>0. /\ s \in Peers /\ s # e /\ Other(s) = e /\ Acts(e)
      /\ chan \in [Peers -> [Channels -> ChanRecords]] /\ recv \in [Peers -> RecvRecords]
      /\ net \in [Peers -> NetRecords] /\ wire \in [Peers -> Seq(Addressed)]
      /\ Inbound(e) \in Seq(Tokens) /\ Inbound(e) = wire[s] /\ wire[s] \in Seq(Tokens)
      /\ recv[e] \in RecvRecords /\ Framed(s)
  BY TwoPeers, SentTyped DEF TypeInv, TypeOK, FrameInv, Acts, NetworkThread, Inbound
<1>1. PICK u, v \in Places : ReadsAt(e, u) /\ WritesAt(s, v) /\ Parses(Sent(s), u, v)
  BY <1>0 DEF Framed
<1>2. /\ u.phase \in Phases /\ u.due \in Nat /\ u.pos \in [Channels -> Nat]
      /\ u.credit \in [Channels -> Nat]
  BY DEF Places
<1>3. \A c \in Channels : /\ u.credit[c] \in Nat /\ chan[e][c].xpos \in Nat
                          /\ chan[e][c].xpos <= u.credit[c]
                          /\ chan[e][c].xarm = Int32(u.credit[c])
                          /\ chan[e][c].rpos \in Nat /\ chan[e][c].rlimit \in Nat
  BY <1>0, <1>1, CreditKnown, ChanTyped
<1>4. ASSUME UNCHANGED <<chan, recv, wire>>
      PROVE  Framed(s)'
  <2>1. ReadsAt(e, u)'
    BY <1>1, <1>4 DEF ReadsAt, Due
  <2>2. Parses((wire[s] \o xmit[s].buffer) \o xmit[s].body, u, v)
    BY <1>1 DEF Sent
  <2> QED
    BY <1>0, <1>1, <1>4, <2>1, <2>2, ReaderMoves
<1>5. ASSUME HeaderReceived(e)
      PROVE  /\ Inbound(e) # <<>> /\ recv[e].ch = None /\ u.due = 0
             /\ \E m \in Places : Leads(u, Header(e), m) /\ Parses(rest(1), m, v)
             /\ \A c \in Channels : u.pos[c] = chan[e][c].rpos
  <2>1. Inbound(e) # <<>> /\ recv[e].ch = None
    BY <1>5 DEF HeaderReceived
  <2>2. u.due = 0
    BY <1>1, <2>1 DEF ReadsAt
  <2>3. \A c \in Channels : u.pos[c] = chan[e][c].rpos
    BY <1>1, <1>3, <2>1, Numbers DEF ReadsAt, Due
  <2>4. \E m \in Places : Leads(u, Header(e), m) /\ Parses(rest(1), m, v)
    BY <1>1, <2>1, HeadParses
  <2> QED
    BY <2>1, <2>2, <2>3, <2>4
<1>6. ASSUME Consume(e, 1), NEW m \in Places, Parses(rest(1), m, v), ReadsAt(e, m)'
      PROVE  Framed(s)'
  <2>1. wire'[s] = SubSeq(Inbound(e), 1 + 1, Len(Inbound(e)))
    BY <1>0, <1>6 DEF Consume
  <2> QED
    BY <1>0, <1>1, <1>6, <2>1, ReaderMoves
<1>7. CASE handleChannel(e) \/ recvNothing(e)
  <2>1. UNCHANGED <<chan, recv, wire>> /\ net'[e].fault = net[e].fault
    BY <1>0, <1>7 DEF handleChannel, recvNothing, NetRecords
  <2> QED
    BY <1>4, <2>1
<1>8. CASE recvThrows(e)
  <2>1. /\ HeaderReceived(e) /\ Header(e).type \notin Expected(e)
        /\ UNCHANGED <<chan, recv, wire>>
        /\ net'[e].fault = IF Header(e).type = "ABORT" THEN "abort" ELSE "protocol"
    BY <1>0, <1>8 DEF recvThrows, Throw, NetRecords
  <2>2. PICK m \in Places : Leads(u, Header(e), m)
    BY <1>5, <2>1
  <2>3. Header(e).type = "ABORT"
    BY <1>1, <1>5, <2>1, <2>2 DEF Leads, Expected, ReadsAt
  <2> QED
    BY <1>4, <2>1, <2>3
<1>9. CASE processRecvSetup(e)
  <2>1. /\ HeaderReceived(e) /\ Header(e).type = "SETUP" /\ Consume(e, 1) /\ UNCHANGED chan
        /\ recv[e].phase # "normal" /\ recv[e].answer = "none"
    BY <1>9 DEF processRecvSetup, Receives, Expected
  <2>2. PICK m \in Places : Leads(u, Header(e), m) /\ Parses(rest(1), m, v)
    BY <1>5, <2>1
  <2>3. m = Place("Accept", 0, u.pos, u.credit)
    BY <1>5, <2>1, <2>2 DEF Leads
  <2>4. \E a \in {"accept", "reject"} : recv'[e] = [recv[e] EXCEPT !.answer = a]
    BY <1>0, <1>9 DEF processRecvSetup
  <2>5. recv'[e].ch = None /\ recv'[e].phase # "normal" /\ recv'[e].answer # "none"
    BY <1>0, <1>5, <2>1, <2>4 DEF RecvRecords
  <2>6. ReadsAt(e, m)'
    <3>1. \A c \in Channels : Due(e, c)' = 0 /\ chan'[e][c] = chan[e][c]
      BY <2>1, <2>5, Numbers DEF Due
    <3>2. m.phase = "Accept" /\ m.due = 0 /\ m.pos = u.pos /\ m.credit = u.credit
      BY <2>3 DEF Place
    <3> QED
      BY <1>3, <1>5, <2>1, <2>5, <3>1, <3>2 DEF ReadsAt
  <2>7. net'[e].fault = net[e].fault
    <3>1. net'[e] = net[e] \/ net'[e] = [net[e] EXCEPT !.wakeup = TRUE]
      BY <1>0, <1>9 DEF processRecvSetup
    <3> QED
      BY <1>0, <3>1 DEF NetRecords
  <2> QED
    BY <1>6, <2>1, <2>2, <2>6, <2>7
<1>10. CASE processRecvAccept(e)
  <2>1. /\ HeaderReceived(e) /\ Header(e).type = "ACCEPT" /\ Consume(e, 1) /\ UNCHANGED chan
        /\ recv'[e] = [recv[e] EXCEPT !.phase = "normal"]
    BY <1>0, <1>10 DEF processRecvAccept, Receives
  <2>2. PICK m \in Places : Leads(u, Header(e), m) /\ Parses(rest(1), m, v)
    BY <1>5, <2>1
  <2>3. m = Place("Ready", 0, u.pos, u.credit)
    BY <1>5, <2>1, <2>2 DEF Leads
  <2>4. recv'[e].ch = None /\ recv'[e].phase = "normal"
    BY <1>0, <1>5, <2>1 DEF RecvRecords
  <2>5. ReadsAt(e, m)'
    <3>1. \A c \in Channels : Due(e, c)' = 0 /\ chan'[e][c] = chan[e][c]
      BY <2>1, <2>4, Numbers DEF Due
    <3>2. m.phase = "Ready" /\ m.due = 0 /\ m.pos = u.pos /\ m.credit = u.credit
      BY <2>3 DEF Place
    <3> QED
      BY <1>3, <1>5, <2>1, <2>4, <3>1, <3>2 DEF ReadsAt
  <2>6. net'[e].fault = net[e].fault
    <3>1. \/ net'[e] = [net[e] EXCEPT !.pc = FirstAction(e), !.wakeup = TRUE]
          \/ net'[e] = [net[e] EXCEPT !.pc = FirstAction(e)]
      BY <1>0, <1>10 DEF processRecvAccept
    <3> QED
      BY <1>0, <3>1 DEF NetRecords
  <2> QED
    BY <1>6, <2>1, <2>2, <2>5, <2>6
<1>11. CASE processRecvArm(e)
  <2> DEFINE d == Header(e).ch
  <2>1. /\ HeaderReceived(e) /\ Header(e).type = "ARM" /\ Consume(e, 1) /\ UNCHANGED recv
        /\ chan' = [chan EXCEPT ![e][d].xarm = Header(e).val]
    BY <1>11 DEF processRecvArm, Receives
  <2>2. PICK m \in Places : Leads(u, Header(e), m) /\ Parses(rest(1), m, v)
    BY <1>5, <2>1
  <2>3. d \in Channels /\ u.phase = "Ready"
    BY <1>5, <2>1, <2>2 DEF Leads
  <2>4. PICK a \in Nat : /\ a >= u.credit[d] /\ Header(e).val = Int32(a)
                         /\ m = Place("Ready", 0, u.pos, [u.credit EXCEPT ![d] = a])
    BY <1>5, <2>1, <2>2 DEF Leads
  <2>5. ReadsAt(e, m)'
    <3>1. \A c \in Channels : Due(e, c)' = 0
      BY <1>5, <2>1, Numbers DEF Due
    <3>2. m.phase = "Ready" /\ m.due = 0 /\ m.pos = u.pos
          /\ m.credit = [u.credit EXCEPT ![d] = a]
      BY <2>4 DEF Place
    <3>3. \A c \in Channels :
            /\ chan'[e][c].rpos = chan[e][c].rpos /\ chan'[e][c].xpos = chan[e][c].xpos
            /\ chan'[e][c].xarm = IF c = d THEN Int32(a) ELSE chan[e][c].xarm
      <4>1. chan' = [chan EXCEPT ![e][d].xarm = Int32(a)]
        BY <2>1, <2>4
      <4> HIDE DEF d
      <4> QED
        BY <1>0, <2>3, <4>1, ChanMoved
    <3>4. \A c \in Channels : /\ m.pos[c] = chan'[e][c].rpos
                              /\ chan'[e][c].xarm = Int32(m.credit[c])
                              /\ chan'[e][c].xpos <= m.credit[c]
      BY <1>2, <1>3, <1>5, <2>1, <2>3, <2>4, <3>2, <3>3
    <3>5. u.phase = IF recv[e].phase = "normal" THEN "Ready"
                    ELSE IF recv[e].answer = "none" THEN "Setup" ELSE "Accept"
      BY <1>1 DEF ReadsAt
    <3>6. \A c \in Channels : chan'[e][c].rpos + 0 = chan'[e][c].rpos
      BY <1>3, <3>3
    <3> QED
      BY <1>5, <2>1, <2>3, <3>1, <3>2, <3>4, <3>5, <3>6 DEF ReadsAt
  <2>6. net'[e].fault = net[e].fault
    BY <1>0, <1>11 DEF processRecvArm, RequestAndWake, NetRecords
  <2> QED
    BY <1>6, <2>1, <2>2, <2>5, <2>6
<1>12. CASE processSeq(e)
  <2> DEFINE h == Header(e)
             d == Header(e).ch
             k == chan[e][d]
  <2>1. HeaderReceived(e) /\ h.type = "SEQ"
    BY <1>12 DEF processSeq, Receives
  <2>2. PICK m \in Places : Leads(u, h, m) /\ Parses(rest(1), m, v)
    BY <1>5, <2>1
  <2>3. /\ d \in Channels /\ u.phase = "Ready" /\ h.val = Int32(u.pos[d])
        /\ m = Place("Ready", h.size + Padding(h.size), [u.pos EXCEPT ![d] = @ + h.size],
                     u.credit)
    BY <1>5, <2>1, <2>2 DEF Leads
  <2>4. h.size \in Nat /\ Padding(h.size) \in Nat
    <3>1. h \in Tokens
      BY <1>0, <2>1 DEF HeaderReceived, Header
    <3>2. h.size \in Nat
      BY <3>1 DEF Tokens
    <3> QED
      BY <3>2, Conversions
  <2>5. h.val = Int32(k.rpos)
    BY <1>5, <2>1, <2>3
  <2>6. h.size <= Signed(k.rlimit - k.rpos)
    <3>1. k.rpos + h.size <= chan[s][d].xpos
      <4>1. rest(1) \in Seq(Tokens)
        <5>1. SubSeq(Inbound(e), 1 + 1, Len(Inbound(e))) \in Seq(Tokens)
          <6>1. 1 \in 0 .. Len(Inbound(e))
            BY <1>0, <1>5, <2>1
          <6> QED
            BY <1>0, <6>1, PieceTyped
        <5> QED
          BY <1>0, <5>1, SentTyped
      <4>2. m.pos[d] <= v.pos[d]
        <5> HIDE DEF rest
        <5> QED
          BY <2>2, <2>3, <4>1, ParsesRises
      <4>3. m.pos[d] = k.rpos + h.size
        BY <1>2, <1>5, <2>1, <2>3 DEF Place
      <4>4. v.pos[d] = chan[s][d].xpos
        BY <1>1, <2>3 DEF WritesAt
      <4> QED
        BY <4>2, <4>3, <4>4
    <3>2. PICK x, y \in Places : ReadsAt(s, x) /\ WritesAt(e, y) /\ Parses(Sent(e), x, y)
      BY <1>0 DEF FrameInv, Framed
    <3>3. chan[s][d].xpos <= x.credit[d] /\ y.credit[d] <= k.rlimit
      BY <2>3, <3>2 DEF ReadsAt, WritesAt
    <3>4. x.credit[d] <= y.credit[d]
      BY <2>3, <3>2, SentTyped, ParsesRises
    <3>5. /\ x.credit[d] \in Nat /\ y.credit[d] \in Nat /\ chan[s][d].xpos \in Nat
          /\ k.rpos \in Nat /\ k.rlimit \in Nat
      BY <1>0, <1>3, <2>3, <3>2, ChanTyped DEF Places
    <3>6. k.rpos + h.size <= k.rlimit
      BY <2>4, <3>1, <3>3, <3>4, <3>5
    <3>7. 2 * (k.rlimit - k.rpos) < Wrap
      <4>1. 2 * (k.rlimit + Promised(e, d) - k.rpos) < Wrap
        BY <2>3 DEF FrameInv, Roomy
      <4>2. Promised(e, d) \in Nat
        <5>1. app[e] \in AppRecords
          BY DEF TypeInv, TypeOK
        <5> QED
          BY <5>1 DEF Promised, AppRecords
      <4> QED
        BY <3>5, <4>1, <4>2, SizesAssumption
    <3>8. k.rpos <= k.rlimit
      BY <2>4, <3>5, <3>6
    <3>9. Signed(k.rlimit - k.rpos) = k.rlimit - k.rpos
      BY <3>5, <3>7, <3>8, Difference
    <3> QED
      BY <2>4, <3>5, <3>6, <3>9
  <2>7. Signed(k.rlimit - k.rpos) \in Int
    BY <1>3, <2>3, Conversions
  <2>8. /\ recv'[e] = [recv[e] EXCEPT !.ch = d, !.payload = h.size,
                                      !.padding = Padding(h.size)]
        /\ Consume(e, 1) /\ UNCHANGED <<chan, net>>
    <3>1. ~ (h.val # Int32(k.rpos) \/ h.size > Signed(k.rlimit - k.rpos))
      BY <2>4, <2>5, <2>6, <2>7
    <3> QED
      BY <1>0, <1>12, <3>1 DEF processSeq
  <2>9. /\ recv'[e].ch = d /\ recv'[e].payload = h.size /\ recv'[e].padding = Padding(h.size)
        /\ recv'[e].phase = recv[e].phase /\ recv'[e].answer = recv[e].answer
    BY <1>0, <2>8 DEF RecvRecords
  <2>10. ReadsAt(e, m)'
    <3>1. /\ m.phase = "Ready" /\ m.due = h.size + Padding(h.size)
          /\ m.pos = [u.pos EXCEPT ![d] = @ + h.size] /\ m.credit = u.credit
      BY <2>3 DEF Place
    <3>2. \A c \in Channels : Due(e, c)' = IF c = d THEN h.size ELSE 0
      BY <2>9 DEF Due
    <3>3. \A c \in Channels : m.pos[c] = chan[e][c].rpos + Due(e, c)'
      BY <1>2, <1>3, <1>5, <2>1, <2>3, <3>1, <3>2
    <3>4. u.phase = IF recv[e].phase = "normal" THEN "Ready"
                    ELSE IF recv[e].answer = "none" THEN "Setup" ELSE "Accept"
      BY <1>1 DEF ReadsAt
    <3>5. d # None
      BY <2>3, Numbers
    <3> QED
      BY <1>3, <2>3, <2>8, <2>9, <3>1, <3>3, <3>4, <3>5 DEF ReadsAt
  <2> QED
    BY <1>6, <2>2, <2>8, <2>10
<1>13. ASSUME NEW n \in 1 .. WireSize, n \in 0 .. Len(Inbound(e)), n <= u.due, Consume(e, n),
              \A m : m = Place(u.phase, u.due - n, u.pos, u.credit) => ReadsAt(e, m)'
       PROVE  Framed(s)'
  <2> DEFINE q == SubSeq(Inbound(e), 1, n)
  <2>1. q \in Seq(Tokens) /\ Len(q) = n
    BY <1>0, <1>13, PieceTyped
  <2>2. PICK m \in Places : Parses(q, u, m) /\ Parses(rest(n), m, v)
    BY <1>1, <1>13, TakeParses
  <2> HIDE DEF q
  <2>3. m = Place(u.phase, u.due - n, u.pos, u.credit)
    BY <1>13, <2>1, <2>2, ParsesBody
  <2>4. wire'[s] = SubSeq(Inbound(e), n + 1, Len(Inbound(e)))
    BY <1>0, <1>13 DEF Consume
  <2>5. ReadsAt(e, m)'
    BY <1>13, <2>3
  <2> QED
    BY <1>0, <1>1, <2>2, <2>4, <2>5, ReaderMoves
<1>14. ASSUME NEW n \in 1 .. WireSize, handleRecvSeq(e, n)
       PROVE  Goal
  <2> DEFINE d == recv[e].ch
  <2>1. /\ d \in Channels /\ d # None /\ n <= recv[e].payload /\ n <= Len(Inbound(e)) /\ n \in Nat
        /\ chan' = [chan EXCEPT ![e][d].rpos = @ + n]
        /\ recv'[e] = [recv[e] EXCEPT !.payload = @ - n,
                         !.ch = IF n = recv[e].payload + recv[e].padding THEN None ELSE @]
        /\ Consume(e, n) /\ UNCHANGED net
    BY <1>0, <1>14, SizesAssumption DEF handleRecvSeq, RecvRecords
  <2>2. recv[e].payload \in Nat /\ recv[e].padding \in Nat
    BY <1>0 DEF RecvRecords
  <2>3. /\ u.due = recv[e].payload + recv[e].padding
        /\ u.phase = IF recv[e].phase = "normal" THEN "Ready"
                     ELSE IF recv[e].answer = "none" THEN "Setup" ELSE "Accept"
        /\ \A c \in Channels : u.pos[c] = chan[e][c].rpos + Due(e, c)
    BY <1>1, <2>1 DEF ReadsAt
  <2>4. /\ recv'[e].phase = recv[e].phase /\ recv'[e].answer = recv[e].answer
        /\ recv'[e].payload = recv[e].payload - n /\ recv'[e].padding = recv[e].padding
        /\ recv'[e].ch = IF n = recv[e].payload + recv[e].padding THEN None ELSE d
    BY <1>0, <2>1 DEF RecvRecords
  <2>5. \A c \in Channels :
          /\ chan'[e][c].xarm = chan[e][c].xarm /\ chan'[e][c].xpos = chan[e][c].xpos
          /\ chan'[e][c].rpos = IF c = d THEN chan[e][c].rpos + n ELSE chan[e][c].rpos
    <3>1. d \in Channels /\ chan' = [chan EXCEPT ![e][d].rpos = chan[e][d].rpos + n]
      BY <2>1
    <3> HIDE DEF d
    <3> QED
      BY <1>0, <3>1, ChanMoved
  <2>6. \A c \in Channels : u.pos[c] = chan'[e][c].rpos + Due(e, c)'
    <3> SUFFICES ASSUME NEW c \in Channels PROVE u.pos[c] = chan'[e][c].rpos + Due(e, c)'
      OBVIOUS
    <3>0. c # None
      BY Numbers
    <3>1. CASE c # d
      <4>1. Due(e, c) = 0 /\ Due(e, c)' = 0
        BY <2>4, <3>0, <3>1 DEF Due
      <4> QED
        BY <2>3, <2>5, <3>1, <4>1
    <3>2. CASE c = d
      <4>1. Due(e, c) = recv[e].payload /\ Due(e, c)' = recv[e].payload - n
        BY <2>1, <2>2, <2>4, <3>0, <3>2 DEF Due
      <4>2. u.pos[c] = chan[e][c].rpos + recv[e].payload
        BY <2>3, <4>1
      <4>3. chan'[e][c].rpos = chan[e][c].rpos + n /\ chan[e][c].rpos \in Nat /\ n \in Nat
        BY <1>3, <2>1, <2>5, <3>2
      <4> QED
        BY <2>2, <4>1, <4>2, <4>3
    <3> QED
      BY <3>1, <3>2
  <2>7. u.due - n = IF recv'[e].ch = None THEN 0 ELSE recv'[e].payload + recv'[e].padding
    BY <2>1, <2>2, <2>3, <2>4
  <2>8. ASSUME NEW m, m = Place(u.phase, u.due - n, u.pos, u.credit)
        PROVE  ReadsAt(e, m)'
    <3>1. m.phase = u.phase /\ m.due = u.due - n /\ m.pos = u.pos /\ m.credit = u.credit
      BY <2>8 DEF Place
    <3> QED
      BY <1>3, <2>3, <2>4, <2>5, <2>6, <2>7, <3>1 DEF ReadsAt
  <2>9. n \in 0 .. Len(Inbound(e)) /\ n <= u.due
    BY <1>0, <2>1, <2>2, <2>3
  <2> QED
    BY <1>13, <2>1, <2>8, <2>9
<1>15. ASSUME NEW n \in 1 .. WireSize, recvPadding(e, n)
       PROVE  Goal
  <2> DEFINE d == recv[e].ch
  <2>1. /\ d \in Channels /\ d # None /\ recv[e].payload = 0 /\ n <= recv[e].padding
        /\ n <= Len(Inbound(e)) /\ n \in Nat
        /\ recv'[e] = [recv[e] EXCEPT !.padding = @ - n,
                         !.ch = IF n = recv[e].padding THEN None ELSE @]
        /\ Consume(e, n) /\ UNCHANGED <<chan, net>>
    BY <1>0, <1>15, SizesAssumption DEF recvPadding, RecvRecords
  <2>2. recv[e].padding \in Nat
    BY <1>0 DEF RecvRecords
  <2>3. /\ u.due = recv[e].payload + recv[e].padding
        /\ u.phase = IF recv[e].phase = "normal" THEN "Ready"
                     ELSE IF recv[e].answer = "none" THEN "Setup" ELSE "Accept"
        /\ \A c \in Channels : u.pos[c] = chan[e][c].rpos + Due(e, c)
    BY <1>1, <2>1 DEF ReadsAt
  <2>4. /\ recv'[e].phase = recv[e].phase /\ recv'[e].answer = recv[e].answer
        /\ recv'[e].payload = 0 /\ recv'[e].padding = recv[e].padding - n
        /\ recv'[e].ch = IF n = recv[e].padding THEN None ELSE d
    BY <1>0, <2>1 DEF RecvRecords
  <2>5. \A c \in Channels : Due(e, c) = 0 /\ Due(e, c)' = 0
    BY <2>1, <2>4 DEF Due
  <2>6. u.due - n = IF recv'[e].ch = None THEN 0 ELSE recv'[e].payload + recv'[e].padding
    BY <2>1, <2>2, <2>3, <2>4
  <2>7. ASSUME NEW m, m = Place(u.phase, u.due - n, u.pos, u.credit)
        PROVE  ReadsAt(e, m)'
    <3>1. m.phase = u.phase /\ m.due = u.due - n /\ m.pos = u.pos /\ m.credit = u.credit
      BY <2>7 DEF Place
    <3> QED
      BY <1>3, <2>1, <2>3, <2>4, <2>5, <2>6, <3>1 DEF ReadsAt
  <2>8. n \in 0 .. Len(Inbound(e)) /\ n <= u.due
    BY <1>0, <2>1, <2>2, <2>3
  <2> QED
    BY <1>13, <2>1, <2>7, <2>8
<1> QED
  BY <1>7, <1>8, <1>9, <1>10, <1>11, <1>12, <1>14, <1>15 DEF Reads

\* A writer whose tokens lead to a place it writes at is still framed with its
\* reader, and it keeps the credit it reads from the other direction.
LEMMA WriterMoves ==
  ASSUME TypeInv, NEW e \in Peers, Acts(e), NEW u \in Places, NEW v \in Places,
         ReadsAt(Other(e), u), WritesAt(e, v)', Parses(Sent(e)', u, v)
  PROVE  Framed(e)'
<1> DEFINE o == Other(e)
<1>1. o \in Peers /\ o # e
  BY TwoPeers
<1>2. recv'[o] = recv[o] /\ chan'[o] = chan[o]
  BY <1>1, OtherUntouched DEF TypeInv
<1>3. ReadsAt(o, u)'
  BY <1>2 DEF ReadsAt, Due
<1>4. Parses(Sent(e), u, v)'
  BY DEF Parses
<1> HIDE DEF o
<1> QED
  BY <1>3, <1>4 DEF Framed, o

\* One more packet, with its body, behind what was sent.
LEMMA PreparedParses ==
  ASSUME TypeInv, NEW e \in Peers, NEW t \in Tokens, NEW d \in Seq(Tokens),
         NEW u, NEW v \in Places, NEW x \in Places, NEW y \in Places,
         xmit[e].buffer = <<>>, xmit[e].body = <<>>,
         xmit'[e].buffer = <<t>>, xmit'[e].body = d, wire'[e] = wire[e],
         Parses(Sent(e), u, v), Leads(v, t, x), Parses(d, x, y)
  PROVE  Parses(Sent(e)', u, y)
<1> DEFINE w == wire[e]
           s == <<t>>
<1>1. w \in Seq(Tokens) /\ s \in Seq(Tokens)
  BY SentTyped
<1>2. Sent(e) = w
  <2>1. (w \o <<>>) \o <<>> = w
    BY <1>1, ConcatEmptySeq
  <2> QED
    BY <2>1 DEF Sent
<1>3. Parses(s, v, x)
  BY ParsesOne
<1>4. Sent(e)' = (w \o s) \o d
  BY DEF Sent
<1>5. Parses(w, u, v)
  BY <1>2
<1> HIDE DEF w, s
<1>6. Parses(w \o s, u, x)
  BY <1>1, <1>3, <1>5, ParsesConcat
<1>7. w \o s \in Seq(Tokens)
  BY <1>1, ConcatProperties
<1>8. Parses((w \o s) \o d, u, y)
  <2> DEFINE z == w \o s
  <2> HIDE DEF z
  <2> QED
    BY <1>6, <1>7, ParsesConcat DEF z
<1> QED
  BY <1>4, <1>8

\* Sending and preparing keeps a sender framed with its receiver.
LEMMA WritesFramed ==
  ASSUME TypeInv, TypeInv', FrameInv, NEW e \in Peers, Writes(e)
  PROVE  Framed(e)' /\ (net'[e].fault = "protocol" => net[e].fault = "protocol")
<1> DEFINE o == Other(e)
           Goal == Framed(e)' /\ (net'[e].fault = "protocol" => net[e].fault = "protocol")
<1>0. /\ o \in Peers /\ o # e /\ Other(o) = e /\ Acts(e) /\ Framed(e) /\ Framed(o) /\ EndOK(e)
      /\ chan \in [Peers -> [Channels -> ChanRecords]] /\ data \in [Peers -> Priorizers]
      /\ ctrl \in [Peers -> Priorizers]
      /\ net \in [Peers -> NetRecords] /\ wire \in [Peers -> Seq(Tokens)]
      /\ xmit \in [Peers -> XmitRecords] /\ xmit[e] \in XmitRecords /\ net[e] \in NetRecords
  BY TwoPeers DEF TypeInv, TypeOK, FrameInv, Acts, NetworkThread
<1>1. PICK u, v \in Places : ReadsAt(o, u) /\ WritesAt(e, v) /\ Parses(Sent(e), u, v)
  BY <1>0 DEF Framed
<1>2. /\ v.phase \in Phases /\ v.due = 0 /\ v.pos \in [Channels -> Nat]
      /\ v.credit \in [Channels -> Nat]
      /\ \A c \in Channels : v.pos[c] = chan[e][c].xpos /\ v.credit[c] <= chan[e][c].rlimit
      /\ xmit[e].accepted # "idle" => v.phase = "Ready"
      /\ xmit[e].accepted = "idle" /\ net[e].pc # "dead"
           /\ xmit[e].buffer # <<Packet("ABORT")>> => v.phase = "Accept"
  BY <1>1 DEF Places, WritesAt
<1>3. <<Packet("ACCEPT")>> # <<Packet("ABORT")>> /\ <<>> # <<Packet("ABORT")>>
      /\ Packet("ACCEPT") \in Tokens /\ Packet("ACCEPT").type = "ACCEPT"
      /\ Packet("ABORT") \in Tokens /\ Packet("ABORT").type = "ABORT"
  BY PacketsAddressed DEF Packet, Token, Addressed
\* The tokens stay the same, and the place.
<1>4. ASSUME Sent(e)' = Sent(e),
             \A c \in Channels : /\ chan'[e][c].xpos = chan[e][c].xpos
                                 /\ chan'[e][c].rlimit = chan[e][c].rlimit,
             (xmit'[e].accepted = "idle") <=> (xmit[e].accepted = "idle"),
             net'[e].pc # "dead" /\ xmit'[e].buffer # <<Packet("ABORT")>>
               => net[e].pc # "dead" /\ xmit[e].buffer # <<Packet("ABORT")>>
      PROVE  Framed(e)'
  <2>1. WritesAt(e, v)'
    BY <1>2, <1>4 DEF WritesAt
  <2> QED
    BY <1>0, <1>1, <1>4, <2>1, WriterMoves
<1>5. CASE RemainingXmitBuf(e)
  <2> DEFINE b == xmit[e].buffer
  <2>0. net[e].pc = "send" /\ UNCHANGED chan
    BY <1>5 DEF RemainingXmitBuf
  <2>1. CASE Room(e) = 0
    <3>1. UNCHANGED <<xmit, wire>> /\ net'[e].pc = "idle" /\ net'[e].fault = net[e].fault
      BY <1>0, <1>5, <2>1 DEF RemainingXmitBuf, Blocked, NetRecords
    <3>2. Sent(e)' = Sent(e)
      BY <3>1 DEF Sent
    <3> QED
      BY <1>4, <2>0, <3>1, <3>2
  <2>2. CASE Room(e) # 0
    <3>1. /\ Send(e, b)
          /\ xmit'[e] = [xmit[e] EXCEPT !.buffer = <<>>,
               !.accepted = IF b = <<Packet("ACCEPT")>> THEN "xmitted" ELSE @]
      BY <1>0, <1>5, <2>2 DEF RemainingXmitBuf
    <3>2. /\ xmit'[e].buffer = <<>> /\ xmit'[e].body = xmit[e].body
          /\ xmit'[e].accepted = IF b = <<Packet("ACCEPT")>> THEN "xmitted"
                                 ELSE xmit[e].accepted
      BY <1>0, <3>1 DEF XmitRecords
    <3>3. b = <<Packet("ACCEPT")>> => xmit[e].accepted # "idle"
      BY <1>0 DEF EndOK, Control
    <3>4. (xmit'[e].accepted = "idle") <=> (xmit[e].accepted = "idle")
      BY <3>2, <3>3
    <3>5. \/ b = <<Packet("ABORT")>> /\ net'[e] = [net[e] EXCEPT !.pc = "dead", !.fault = "abort"]
          \/ b # <<Packet("ABORT")>> /\ \E pc : net'[e] = [net[e] EXCEPT !.pc = pc]
      BY <1>0, <1>5, <2>2 DEF RemainingXmitBuf, Goto
    <3>6. /\ net'[e].fault = "protocol" => net[e].fault = "protocol"
          /\ net'[e].pc # "dead" => b # <<Packet("ABORT")>>
      BY <1>0, <3>5 DEF NetRecords
    <3>7. Sent(e)' = Sent(e)
      <4>1. b \in Seq(Tokens) /\ wire[e] \in Seq(Tokens) /\ xmit[e].body \in Seq(Tokens)
        BY SentTyped
      <4>2. wire'[e] = wire[e] \o b
        BY <1>0, <3>1 DEF Send
      <4>3. (wire[e] \o b) \o <<>> = wire[e] \o b
        BY <4>1, ConcatProperties, ConcatEmptySeq
      <4> QED
        BY <3>2, <4>2, <4>3 DEF Sent
    <3> QED
      BY <1>4, <2>0, <3>4, <3>6, <3>7
  <2> QED
    BY <2>1, <2>2
<1>6. CASE RemainingSeq(e)
  <2> DEFINE d == xmit[e].body
  <2>0. net[e].pc = "seq" /\ UNCHANGED chan /\ xmit[e].buffer = <<>>
    BY <1>0, <1>6 DEF RemainingSeq, EndOK, Control
  <2>1. PICK n \in Takes(e, Len(d)) :
          /\ Send(e, SubSeq(d, 1, n))
          /\ xmit' = [xmit EXCEPT ![e].body = SubSeq(@, n + 1, Len(@)),
                                  ![e].ch = IF n < Len(d) THEN @ ELSE None]
          /\ \E pc : \/ net'[e] = [net[e] EXCEPT !.pc = pc]
                     \/ net'[e] = [net[e] EXCEPT !.pc = pc, !.wakeup = TRUE]
    <3>1. net \in [Peers -> NetRecords]
      BY <1>0
    <3> QED
      BY <1>6, <3>1 DEF RemainingSeq, Blocked, Goto
  <2>2. d \in Seq(Tokens) /\ wire[e] \in Seq(Tokens)
    BY SentTyped
  <2>3. Len(d) \in Nat /\ n \in 0 .. Len(d)
    <3>1. Len(d) \in Nat
      BY <2>2
    <3> QED
      BY <3>1, TakesSome
  <2> DEFINE P == SubSeq(d, 1, n)
             Q == SubSeq(d, n + 1, Len(d))
  <2>4. P \in Seq(Tokens) /\ Q \in Seq(Tokens) /\ d = P \o Q
    BY <2>2, <2>3, PieceTyped
  <2>5. wire'[e] = wire[e] \o P
    BY <1>0, <2>1 DEF Send
  <2>6. /\ xmit'[e].buffer = <<>> /\ xmit'[e].body = Q
        /\ xmit'[e].accepted = xmit[e].accepted
    <3>1. xmit'[e] = [xmit[e] EXCEPT !.body = Q, !.ch = IF n < Len(d) THEN @ ELSE None]
      BY <1>0, <2>1
    <3> HIDE DEF Q
    <3> QED
      BY <1>0, <2>0, <3>1 DEF XmitRecords
  <2> HIDE DEF P, Q
  <2>7. Sent(e)' = Sent(e)
    <3>1. wire[e] \o <<>> = wire[e]
      BY <2>2, ConcatEmptySeq
    <3>2. (wire[e] \o P) \o <<>> = wire[e] \o P
      BY <2>2, <2>4, ConcatProperties, ConcatEmptySeq
    <3>3. (wire[e] \o P) \o Q = wire[e] \o (P \o Q)
      BY <2>2, <2>4, TokensAssociate
    <3> QED
      BY <2>0, <2>4, <2>5, <2>6, <3>1, <3>2, <3>3 DEF Sent
  <2>8. net'[e].fault = net[e].fault
    BY <1>0, <2>1 DEF NetRecords
  <2> QED
    BY <1>3, <1>4, <2>0, <2>6, <2>7, <2>8
<1>7. CASE EvalAbort(e)
  <2>1. /\ net[e].pc = "next" /\ recv[e].answer = "reject" /\ UNCHANGED <<chan, wire>>
        /\ xmit'[e] = [xmit[e] EXCEPT !.buffer = <<Packet("ABORT")>>]
        /\ net'[e] = [net[e] EXCEPT !.pc = "send"]
    BY <1>0, <1>7 DEF EvalAbort, Prepare, Goto
  <2>2. xmit[e].buffer = <<>> /\ xmit[e].body = <<>> /\ xmit[e].accepted = "idle"
    BY <1>0, <2>1 DEF EndOK, Control
  <2>3. v.phase = "Accept"
    BY <1>2, <1>3, <2>1, <2>2
  <2> DEFINE x == Place("Aborted", 0, v.pos, v.credit)
  <2>4. x \in Places /\ Leads(v, Packet("ABORT"), x)
    BY <1>2, <1>3, <2>3 DEF Leads, Place, Places, Phases
  <2>5. /\ xmit'[e].buffer = <<Packet("ABORT")>> /\ xmit'[e].body = <<>>
        /\ xmit'[e].accepted = "idle"
    BY <1>0, <2>1, <2>2 DEF XmitRecords
  <2>6. Parses(Sent(e)', u, x)
    <3>1. <<>> \in Seq(Tokens) /\ Parses(<<>>, x, x)
      BY <2>4, ParsesNothing
    <3> HIDE DEF x
    <3> QED
      BY <1>1, <1>3, <2>1, <2>2, <2>4, <2>5, <3>1, PreparedParses
  <2>7. WritesAt(e, x)'
    BY <1>2, <2>1, <2>5 DEF WritesAt, Place
  <2>8. net'[e].fault = net[e].fault
    BY <1>0, <2>1 DEF NetRecords
  <2> QED
    BY <1>0, <1>1, <2>4, <2>6, <2>7, <2>8, WriterMoves
<1>8. CASE EvalAccept(e)
  <2>0. net[e].pc = "next" /\ UNCHANGED <<chan, wire>>
    BY <1>8 DEF EvalAccept
  <2>1. xmit[e].buffer = <<>> /\ xmit[e].body = <<>>
    BY <1>0, <2>0 DEF EndOK, Control
  <2>2. CASE /\ xmit[e].accepted = "idle"
             /\ xmit' = [xmit EXCEPT ![e].accepted = "prepared",
                                     ![e].buffer = <<Packet("ACCEPT")>>]
             /\ Goto(e, "send")
    <3>1. v.phase = "Accept"
      BY <1>2, <1>3, <2>0, <2>1, <2>2
    <3> DEFINE x == Place("Ready", 0, v.pos, v.credit)
    <3>2. x \in Places /\ Leads(v, Packet("ACCEPT"), x)
      BY <1>2, <1>3, <3>1 DEF Leads, Place, Places, Phases
    <3>3. xmit'[e] = [xmit[e] EXCEPT !.accepted = "prepared", !.buffer = <<Packet("ACCEPT")>>]
      BY <1>0, <2>2
    <3>4. /\ xmit'[e].buffer = <<Packet("ACCEPT")>> /\ xmit'[e].body = <<>>
          /\ xmit'[e].accepted = "prepared"
      BY <1>0, <2>1, <3>3 DEF XmitRecords
    <3>5. Parses(Sent(e)', u, x)
      <4>1. <<>> \in Seq(Tokens) /\ Parses(<<>>, x, x)
        BY <3>2, ParsesNothing
      <4> HIDE DEF x
      <4> QED
        BY <1>1, <1>3, <2>0, <2>1, <3>2, <3>4, <4>1, PreparedParses
    <3>6. WritesAt(e, x)'
      BY <1>2, <2>0, <3>4 DEF WritesAt, Place
    <3>7. net'[e].fault = net[e].fault
      BY <1>0, <2>2 DEF Goto, NetRecords
    <3> QED
      BY <1>0, <1>1, <3>2, <3>5, <3>6, <3>7, WriterMoves
  <2>3. CASE Goto(e, "idle") /\ UNCHANGED xmit
    <3>1. Sent(e)' = Sent(e)
      BY <2>0, <2>3 DEF Sent
    <3>2. net'[e].fault = net[e].fault
      BY <1>0, <2>3 DEF Goto, NetRecords
    <3> QED
      BY <1>3, <1>4, <2>0, <2>1, <2>3, <3>1, <3>2
  <2>4. CASE /\ xmit[e].accepted = "xmitted"
             /\ xmit' = [xmit EXCEPT ![e].phase = "normal"]
             /\ Blocked(e) \/ Goto(e, "idle")
    <3>1. xmit'[e] = [xmit[e] EXCEPT !.phase = "normal"]
      BY <1>0, <2>4
    <3>2. /\ xmit'[e].buffer = xmit[e].buffer /\ xmit'[e].body = xmit[e].body
          /\ xmit'[e].accepted = xmit[e].accepted
      BY <1>0, <3>1 DEF XmitRecords
    <3>3. Sent(e)' = Sent(e)
      BY <2>0, <3>2 DEF Sent
    <3>4. \/ net'[e] = [net[e] EXCEPT !.pc = "idle", !.wakeup = TRUE]
          \/ net'[e] = [net[e] EXCEPT !.pc = "idle"]
      BY <1>0, <2>4 DEF Blocked, Goto
    <3>5. net'[e].fault = net[e].fault
      BY <1>0, <3>4 DEF NetRecords
    <3> QED
      BY <1>3, <1>4, <2>0, <2>1, <3>2, <3>3, <3>5
  <2> QED
    BY <1>8, <2>2, <2>3, <2>4 DEF EvalAccept
<1>9. CASE EvalChannelCtrl(e) \/ xmitEnd(e)
  <2>1. /\ net[e].pc # "dead" /\ xmit[e].buffer = <<>> /\ UNCHANGED <<chan, wire>>
    BY <1>0, <1>9 DEF EvalChannelCtrl, xmitEnd, EvaluatesData, EndOK, Control
  <2>2. \/ xmit' = xmit
        \/ xmit'[e] = [xmit[e] EXCEPT !.ch = Popped(ctrl[e])]
    BY <1>0, <1>9 DEF EvalChannelCtrl, xmitEnd
  <2>3. /\ xmit'[e].buffer = xmit[e].buffer /\ xmit'[e].body = xmit[e].body
        /\ xmit'[e].accepted = xmit[e].accepted
    BY <1>0, <2>2 DEF XmitRecords
  <2>4. Sent(e)' = Sent(e)
    BY <2>1, <2>3 DEF Sent
  <2>5. \/ \E pc : net'[e] = [net[e] EXCEPT !.pc = pc]
        \/ net'[e] = [net[e] EXCEPT !.pc = "arm", !.todo = {"clear", "read"}]
    <3>1. CASE xmitEnd(e)
      BY <1>0, <3>1 DEF xmitEnd, Goto
    <3>2. CASE EvalChannelCtrl(e)
      BY <1>0, <3>2 DEF EvalChannelCtrl, Goto
    <3> QED
      BY <1>9, <3>1, <3>2
  <2>6. net'[e].fault = net[e].fault
    BY <1>0, <2>5 DEF NetRecords
  <2> QED
    BY <1>3, <1>4, <2>1, <2>3, <2>4, <2>6
<1>10. CASE ClearArmFlag(e)
  <2>1. /\ net[e].pc = "arm" /\ UNCHANGED wire /\ xmit[e].ch \in Channels
        /\ chan' = [chan EXCEPT ![e][xmit[e].ch].armFlag = FALSE]
        /\ xmit'[e] = [xmit[e] EXCEPT !.ch = IF "read" \in net[e].todo THEN @ ELSE None]
        /\ ArmDone(e, "clear")
    BY <1>0, <1>10 DEF ClearArmFlag, EndOK, Control
  <2>2. /\ xmit'[e].buffer = xmit[e].buffer /\ xmit'[e].body = xmit[e].body
        /\ xmit'[e].accepted = xmit[e].accepted
    BY <1>0, <2>1 DEF XmitRecords
  <2>3. Sent(e)' = Sent(e)
    BY <2>1, <2>2 DEF Sent
  <2>4. \A c \in Channels : /\ chan'[e][c].xpos = chan[e][c].xpos
                            /\ chan'[e][c].rlimit = chan[e][c].rlimit
    BY <1>0, <2>1, ChanMoved
  <2>5. \E x, pc : net'[e] = [net[e] EXCEPT !.todo = x, !.pc = pc]
    BY <1>0, <2>1 DEF ArmDone
  <2>6. net'[e].fault = net[e].fault
    BY <1>0, <2>5 DEF NetRecords
  <2> QED
    BY <1>4, <2>1, <2>2, <2>3, <2>4, <2>6
<1>11. CASE ReadRecvArm(e)
  <2> DEFINE c == xmit[e].ch
             a == chan[e][c].rlimit
             t == Token("ARM", c, Int32(a), 0)
             x == Place("Ready", 0, v.pos, [v.credit EXCEPT ![c] = a])
  <2>1. /\ net[e].pc = "arm" /\ "read" \in net[e].todo /\ UNCHANGED <<chan, wire>>
        /\ xmit'[e] = [xmit[e] EXCEPT !.buffer = <<t>>,
                         !.ch = IF "clear" \in net[e].todo THEN @ ELSE None]
        /\ ArmDone(e, "read")
    BY <1>0, <1>11 DEF ReadRecvArm
  <2>2. /\ c \in Channels /\ xmit[e].buffer = <<>> /\ xmit[e].body = <<>>
        /\ xmit[e].accepted # "idle"
    BY <1>0, <2>1 DEF EndOK, Control
  <2>3. a \in Nat /\ Int32(a) \in 0 .. Wrap - 1
    <3>1. a \in Nat
      BY <1>0, <2>2, ChanTyped
    <3> HIDE DEF a
    <3> QED
      BY <3>1, Conversions
  <2>4. t \in Tokens /\ t.type = "ARM" /\ t.ch = c /\ t.val = Int32(a)
    <3>1. t \in Addressed
      BY <2>2, <2>3, PacketsAddressed
    <3> QED
      BY <3>1 DEF Addressed, Token
  <2>5. v.phase = "Ready" /\ a >= v.credit[c]
    BY <1>2, <2>2
  <2> HIDE DEF a
  <2>6. x \in Places
    BY <1>2, <2>2, <2>3 DEF Place, Places, Phases
  <2>7. Leads(v, t, x)
    <3> HIDE DEF t
    <3> QED
      BY <1>2, <2>2, <2>3, <2>4, <2>5 DEF Leads
  <2>8. /\ xmit'[e].buffer = <<t>> /\ xmit'[e].body = <<>>
        /\ xmit'[e].accepted = xmit[e].accepted
    <3> HIDE DEF t
    <3> QED
      BY <1>0, <2>1, <2>2 DEF XmitRecords
  <2>9. Parses(Sent(e)', u, x)
    <3>1. <<>> \in Seq(Tokens) /\ Parses(<<>>, x, x)
      BY <2>6, ParsesNothing
    <3> HIDE DEF x, t
    <3> QED
      BY <1>1, <2>1, <2>2, <2>4, <2>6, <2>7, <2>8, <3>1, PreparedParses
  <2>10. ASSUME NEW y \in Places, y = x
         PROVE  WritesAt(e, y)'
    <3>1. /\ y.phase = "Ready" /\ y.due = 0 /\ y.pos = v.pos
          /\ y.credit = [v.credit EXCEPT ![c] = a]
      BY <2>10 DEF Place
    <3>2. \A d \in Channels : y.credit[d] <= chan[e][d].rlimit
      BY <1>2, <2>2, <2>3, <3>1 DEF a
    <3> QED
      BY <1>2, <2>1, <2>2, <2>8, <3>1, <3>2 DEF WritesAt
  <2>11. \E z, pc : net'[e] = [net[e] EXCEPT !.todo = z, !.pc = pc]
    BY <1>0, <2>1 DEF ArmDone
  <2>12. net'[e].fault = net[e].fault
    BY <1>0, <2>11 DEF NetRecords
  <2>13. PICK y \in Places : y = x
    BY <2>6
  <2>14. WritesAt(e, y)' /\ Parses(Sent(e)', u, y)
    BY <2>9, <2>10, <2>13
  <2> QED
    BY <1>0, <1>1, <2>12, <2>14, WriterMoves
<1>12. CASE EvalChannelData(e)
  <2> DEFINE c == Popped(data[e])
             k == chan[e][c]
             davail == Min({Signed(k.xarm - k.xpos), k.xlimit - k.xpos})
  <2>0. EvaluatesData(e) /\ Pending(data[e]) # {} /\ UNCHANGED wire
    BY <1>12 DEF EvalChannelData
  <2>1. c \in Channels
    BY <1>0, <2>0, PopTyped
  <2>2. /\ xmit[e].buffer = <<>> /\ xmit[e].body = <<>> /\ net[e].pc # "dead"
        /\ xmit[e].accepted # "idle"
    BY <1>0, <2>0 DEF EndOK, Control, EvaluatesData
  <2>3. CASE Goto(e, "idle") /\ UNCHANGED <<chan, xmit>>
    <3>1. Sent(e)' = Sent(e)
      BY <2>0, <2>3 DEF Sent
    <3>2. net'[e].fault = net[e].fault
      BY <1>0, <2>3 DEF Goto, NetRecords
    <3> QED
      BY <1>3, <1>4, <2>2, <2>3, <3>1, <3>2
  <2>4. ASSUME NEW n \in 1 .. Min({davail, MaxPayload[Other(e)]}),
               chan' = [chan EXCEPT ![e][c].xpos = @ + n],
               xmit' = [xmit EXCEPT ![e].ch = c,
                          ![e].buffer = <<Token("SEQ", c, Int32(k.xpos), n)>>,
                          ![e].body = Units("DATA", n) \o Units("PAD", Padding(n))],
               Goto(e, "send")
        PROVE  Goal
    <3> DEFINE t == Token("SEQ", c, Int32(k.xpos), n)
               b == Units("DATA", n) \o Units("PAD", Padding(n))
               pos == [v.pos EXCEPT ![c] = @ + n]
               x == Place("Ready", n + Padding(n), pos, v.credit)
               y == Place("Ready", 0, pos, v.credit)
    <3> HIDE DEF c, davail
    <3>1. k.xpos \in Nat /\ n \in Nat /\ n >= 1
      <4>1. k.xpos \in Nat /\ k.xarm \in 0 .. Wrap - 1 /\ k.xlimit \in Nat
        BY <1>0, <2>1, ChanTyped
      <4>2. davail \in Int
        <5>1. k.xarm - k.xpos \in Int /\ k.xlimit - k.xpos \in Int
          BY <4>1, SizesAssumption
        <5>2. Signed(k.xarm - k.xpos) \in Int
          BY <5>1, Conversions
        <5> QED
          BY <5>1, <5>2, MinOfTwo DEF davail
      <4>3. Min({davail, MaxPayload[Other(e)]}) \in Int
        <5>1. MaxPayload[Other(e)] \in Int
          BY TwoPeers, SizesAssumption
        <5> QED
          BY <4>2, <5>1, MinOfTwo
      <4> QED
        BY <4>1, <4>3
    <3>2. Padding(n) \in Nat /\ Int32(k.xpos) \in 0 .. Wrap - 1
      BY <3>1, Conversions
    <3>3. t \in Tokens /\ t.type = "SEQ" /\ t.ch = c /\ t.val = Int32(k.xpos) /\ t.size = n
      <4>1. t \in Addressed
        BY <2>1, <3>1, <3>2, PacketsAddressed
      <4> QED
        BY <4>1 DEF Addressed, Token
    <3>4. /\ b \in Seq(Tokens) /\ Len(b) = n + Padding(n)
          /\ \A i \in 1 .. Len(b) : b[i].type \in {"DATA", "PAD"}
      <4> DEFINE A == Units("DATA", n)
                 B == Units("PAD", Padding(n))
      <4>1. /\ A \in Seq(Addressed) /\ Len(A) = n /\ \A i \in 1 .. n : A[i].type = "DATA"
            /\ B \in Seq(Addressed) /\ Len(B) = Padding(n)
            /\ \A i \in 1 .. Padding(n) : B[i].type = "PAD"
        BY <3>1, <3>2, UnitsTyped
      <4>2. A \in Seq(Tokens) /\ B \in Seq(Tokens)
        BY <4>1 DEF Addressed
      <4> HIDE DEF A, B
      <4>3. /\ Len(A \o B) = Len(A) + Len(B) /\ A \o B \in Seq(Tokens)
            /\ \A i \in 1 .. Len(A) : (A \o B)[i] = A[i]
            /\ \A i \in Len(A) + 1 .. Len(A) + Len(B) : (A \o B)[i] = B[i - Len(A)]
        BY <4>2, ConcatProperties
      <4>4. ASSUME NEW i \in 1 .. n + Padding(n)
            PROVE  (A \o B)[i].type \in {"DATA", "PAD"}
        <5>1. CASE i <= n
          <6>1. i \in 1 .. n /\ (A \o B)[i] = A[i]
            BY <3>1, <3>2, <4>1, <4>3, <5>1
          <6> QED
            BY <4>1, <6>1
        <5>2. CASE i > n
          <6>1. i - n \in 1 .. Padding(n) /\ (A \o B)[i] = B[i - n]
            BY <3>1, <3>2, <4>1, <4>3, <5>2
          <6> QED
            BY <4>1, <6>1
        <5>3. i <= n \/ i > n
          BY <3>1, <3>2
        <5> QED
          BY <5>1, <5>2, <5>3, Zenon
      <4> QED
        BY <4>1, <4>3, <4>4 DEF A, B
    <3>5. v.phase = "Ready" /\ v.pos[c] = k.xpos
      BY <1>2, <2>1, <2>2
    <3>6. pos \in [Channels -> Nat]
      BY <1>2, <2>1, <3>1
    <3>7. x \in Places /\ y \in Places
      BY <1>2, <3>1, <3>2, <3>6 DEF Place, Places, Phases
    <3>8. Leads(v, t, x)
      <4> HIDE DEF t, pos
      <4>1. x = Place("Ready", t.size + Padding(t.size), pos, v.credit)
        BY <3>3
      <4> QED
        BY <1>2, <2>1, <3>3, <3>5, <4>1 DEF Leads, pos
    <3>9. Parses(b, x, y)
      <4>1. x.phase = "Ready" /\ x.due = n + Padding(n) /\ x.pos = pos /\ x.credit = v.credit
        BY DEF Place
      <4>2. Len(b) <= x.due /\ x.due - Len(b) = 0
        BY <3>1, <3>2, <3>4, <4>1
      <4> HIDE DEF b, x
      <4>3. Parses(b, x, Place(x.phase, x.due - Len(b), x.pos, x.credit))
        BY <3>4, <3>7, <4>2, ParsesDue
      <4> QED
        BY <4>1, <4>2, <4>3
    <3>10. /\ xmit'[e].buffer = <<t>> /\ xmit'[e].body = b
           /\ xmit'[e].accepted = xmit[e].accepted
      <4>1. xmit'[e] = [xmit[e] EXCEPT !.ch = c, !.buffer = <<t>>, !.body = b]
        BY <1>0, <2>4
      <4> HIDE DEF t, b
      <4> QED
        BY <1>0, <4>1 DEF XmitRecords
    <3>11. Parses(Sent(e)', u, y)
      <4> HIDE DEF x, y, t, b
      <4> QED
        BY <1>1, <2>0, <2>2, <3>3, <3>4, <3>7, <3>8, <3>9, <3>10, PreparedParses
    <3>12. ASSUME NEW z \in Places, z = y
           PROVE  WritesAt(e, z)'
      <4>1. z.phase = "Ready" /\ z.due = 0 /\ z.pos = pos /\ z.credit = v.credit
        BY <3>12 DEF Place
      <4>2. chan' = [chan EXCEPT ![e][c].xpos = k.xpos + n]
        BY <2>4
      <4>3. \A d \in Channels :
              /\ chan'[e][d].xpos = IF d = c THEN k.xpos + n ELSE chan[e][d].xpos
              /\ chan'[e][d].rlimit = chan[e][d].rlimit
        <5> DEFINE m == k.xpos + n
        <5>1. chan' = [chan EXCEPT ![e][c].xpos = m]
          BY <4>2
        <5> HIDE DEF m
        <5>2. \A d \in Channels :
                /\ chan'[e][d].xpos = IF d = c THEN m ELSE chan[e][d].xpos
                /\ chan'[e][d].rlimit = chan[e][d].rlimit
          BY <1>0, <2>1, <5>1, ChanMoved
        <5> QED
          BY <5>2 DEF m
      <4>4. \A d \in Channels : z.pos[d] = chan'[e][d].xpos
        BY <1>2, <2>1, <4>1, <4>3
      <4> HIDE DEF pos, y
      <4> QED
        BY <1>2, <2>2, <3>10, <4>1, <4>3, <4>4 DEF WritesAt
    <3>13. net'[e].fault = net[e].fault
      BY <1>0, <2>4 DEF Goto, NetRecords
    <3> HIDE DEF y
    <3>14. PICK z \in Places : z = y
      BY <3>7
    <3>15. WritesAt(e, z)' /\ Parses(Sent(e)', u, z)
      BY <3>11, <3>12, <3>14
    <3> QED
      BY <1>0, <1>1, <3>13, <3>15, WriterMoves
  <2> QED
    BY <1>12, <2>3, <2>4 DEF EvalChannelData
<1> QED
  BY <1>5, <1>6, <1>7, <1>8, <1>9, <1>10, <1>11, <1>12 DEF Writes

\* What the xmitter leaves alone: the other direction.  It sends no more than
\* the credit that the reading side knows.
LEMMA WritesKeepCredit ==
  ASSUME TypeInv, FrameInv, NEW e \in Peers, Writes(e)
  PROVE  Framed(Other(e))'
<1> DEFINE o == Other(e)
<1>0. /\ o \in Peers /\ o # e /\ Other(o) = e /\ Acts(e) /\ Framed(o)
      /\ chan \in [Peers -> [Channels -> ChanRecords]] /\ data \in [Peers -> Priorizers]
      /\ wire \in [Peers -> Seq(Tokens)]
  BY TwoPeers DEF TypeInv, TypeOK, FrameInv, Acts, NetworkThread
<1>1. PICK u, v \in Places : ReadsAt(e, u) /\ WritesAt(o, v) /\ Parses(Sent(o), u, v)
  BY <1>0 DEF Framed
<1>2. UNCHANGED recv /\ (wire' = wire \/ \E s : Send(e, s))
  BY DEF Writes, RemainingXmitBuf, RemainingSeq, EvalAbort, EvalAccept, EvalChannelCtrl,
     ClearArmFlag, ReadRecvArm, EvalChannelData, xmitEnd
<1>3. wire'[o] = wire[o]
  BY <1>0, <1>2 DEF Send
<1>4. ASSUME \A c \in Channels : /\ chan'[e][c].rpos = chan[e][c].rpos
                                 /\ chan'[e][c].xarm = chan[e][c].xarm
                                 /\ chan'[e][c].xpos <= u.credit[c]
      PROVE  Framed(o)'
  <2>1. ReadsAt(e, u)'
    BY <1>1, <1>2, <1>4 DEF ReadsAt, Due
  <2>2. Parses((wire[o] \o xmit[o].buffer) \o xmit[o].body, u, v)
    BY <1>1 DEF Sent
  <2> QED
    BY <1>0, <1>1, <1>3, <2>1, <2>2, ReaderMoves
<1>5. \A c \in Channels : chan[e][c].xpos <= u.credit[c]
  BY <1>1 DEF ReadsAt
<1>6. CASE UNCHANGED chan
  BY <1>4, <1>5, <1>6
<1>7. CASE ClearArmFlag(e)
  <2>1. chan' = [chan EXCEPT ![e][xmit[e].ch].armFlag = FALSE] /\ xmit[e].ch \in Channels
    BY <1>7 DEF ClearArmFlag, TypeInv, EndOK, Control
  <2>2. \A c \in Channels : /\ chan'[e][c].rpos = chan[e][c].rpos
                            /\ chan'[e][c].xarm = chan[e][c].xarm
                            /\ chan'[e][c].xpos = chan[e][c].xpos
    BY <1>0, <2>1, ChanMoved
  <2> QED
    BY <1>4, <1>5, <2>2
<1>8. CASE EvalChannelData(e)
  <2> DEFINE c == Popped(data[e])
             k == chan[e][c]
             room == Signed(k.xarm - k.xpos)
             davail == Min({room, k.xlimit - k.xpos})
             most == MaxPayload[o]
  <2>1. c \in Channels
    BY <1>0, <1>8, PopTyped DEF EvalChannelData
  <2>2. CASE ~ UNCHANGED chan
    <3>1. PICK n \in 1 .. Min({davail, most}) : chan' = [chan EXCEPT ![e][c].xpos = @ + n]
      BY <1>8, <2>2 DEF EvalChannelData
    <3> HIDE DEF c
    <3>2. /\ u.credit[c] \in Nat /\ k.xpos \in Nat /\ k.xpos <= u.credit[c]
          /\ k.xarm = Int32(u.credit[c]) /\ 2 * (u.credit[c] - k.xpos) < Wrap
      BY <1>0, <1>1, <2>1, CreditKnown
    <3>3. room = u.credit[c] - k.xpos
      BY <3>2, Difference
    <3>4. k.xlimit - k.xpos \in Int /\ room \in Int /\ most \in Int
      <4>1. k.xlimit \in Nat
        BY <1>0, <2>1, ChanTyped
      <4>2. most \in Int
        BY <1>0, SizesAssumption
      <4> QED
        BY <3>2, <3>3, <4>1, <4>2
    <3> HIDE DEF room, most
    <3>5. davail \in Int /\ davail <= room
      <4> DEFINE z == k.xlimit - k.xpos
      <4>1. z \in Int
        BY <3>4
      <4> HIDE DEF z
      <4>2. Min({room, z}) \in Int /\ Min({room, z}) <= room
        BY <3>4, <4>1, MinOfTwo
      <4> QED
        BY <4>2 DEF z
    <3> HIDE DEF davail
    <3>6. Min({davail, most}) \in Int /\ Min({davail, most}) <= davail
      BY <3>4, <3>5, MinOfTwo
    <3>7. n \in Int /\ k.xpos + n <= u.credit[c]
      BY <3>2, <3>3, <3>4, <3>5, <3>6
    <3>8. \A d \in Channels : /\ chan'[e][d].rpos = chan[e][d].rpos
                              /\ chan'[e][d].xarm = chan[e][d].xarm
                              /\ chan'[e][d].xpos = IF d = c THEN k.xpos + n
                                                    ELSE chan[e][d].xpos
      <4> DEFINE m == k.xpos + n
      <4>1. chan' = [chan EXCEPT ![e][c].xpos = m]
        BY <3>1
      <4> HIDE DEF m
      <4>2. \A d \in Channels : /\ chan'[e][d].rpos = chan[e][d].rpos
                                /\ chan'[e][d].xarm = chan[e][d].xarm
                                /\ chan'[e][d].xpos = IF d = c THEN m ELSE chan[e][d].xpos
        BY <1>0, <2>1, <4>1, ChanMoved
      <4> QED
        BY <4>2 DEF m
    <3>9. \A d \in Channels : chan'[e][d].xpos <= u.credit[d]
      BY <1>5, <3>7, <3>8
    <3> QED
      BY <1>4, <3>8, <3>9
  <2> QED
    BY <1>6, <2>2
<1> QED
  BY <1>6, <1>7, <1>8 DEF Writes, RemainingXmitBuf, RemainingSeq, EvalAbort, EvalAccept,
     EvalChannelCtrl, ReadRecvArm, xmitEnd

\* What the receiver leaves alone: the other direction.
LEMMA ReadsKeepFrame ==
  ASSUME TypeInv, FrameInv, NEW e \in Peers,
         handleChannel(e) \/ Reads(e) \/ recvNothing(e)
  PROVE  Framed(e)'
<1> DEFINE o == Other(e)
<1>0. /\ o \in Peers /\ o # e /\ Other(o) = e /\ Acts(e) /\ Framed(e)
      /\ chan \in [Peers -> [Channels -> ChanRecords]] /\ net \in [Peers -> NetRecords]
      /\ wire \in [Peers -> Seq(Tokens)] /\ recv[e] \in RecvRecords
  BY TwoPeers DEF TypeInv, TypeOK, FrameInv, Acts, NetworkThread
<1>1. PICK u, v \in Places : ReadsAt(o, u) /\ WritesAt(e, v) /\ Parses(Sent(e), u, v)
  BY <1>0 DEF Framed
<1>2. UNCHANGED xmit /\ (wire' = wire \/ \E n : Consume(e, n))
  BY DEF handleChannel, recvNothing, Reads, recvThrows, Throw, processRecvSetup,
     processRecvAccept, processRecvArm, processSeq, handleRecvSeq, recvPadding
<1>3. wire'[e] = wire[e]
  BY <1>0, <1>2 DEF Consume
<1>4. net[e].pc # "dead"
  BY <1>0 DEF handleChannel, recvNothing, Reads, recvThrows, processRecvSetup,
     processRecvAccept, processRecvArm, processSeq, handleRecvSeq, recvPadding,
     Receives, HeaderReceived
<1>5. \A c \in Channels : /\ chan'[e][c].xpos = chan[e][c].xpos
                          /\ chan'[e][c].rlimit = chan[e][c].rlimit
  <2>1. CASE UNCHANGED chan
    BY <2>1
  <2>2. CASE processRecvArm(e)
    <3>1. /\ chan' = [chan EXCEPT ![e][Header(e).ch].xarm = Header(e).val]
          /\ Inbound(e) # <<>> /\ Header(e).type = "ARM"
      BY <2>2 DEF processRecvArm, Receives, HeaderReceived
    <3>2. Header(e).ch \in Channels
      <4>1. Inbound(e) \in Seq(Addressed)
        BY <1>0 DEF Inbound, TypeInv
      <4>2. Header(e) \in Addressed
        BY <3>1, <4>1 DEF Header
      <4> QED
        BY <3>1, <4>2 DEF Addressed
    <3> DEFINE d == Header(e).ch
               n == Header(e).val
    <3>3. d \in Channels /\ chan' = [chan EXCEPT ![e][d].xarm = n]
      BY <3>1, <3>2
    <3> HIDE DEF d, n
    <3> QED
      BY <1>0, <3>3, ChanMoved
  <2>3. ASSUME NEW n, handleRecvSeq(e, n)
        PROVE  \A c \in Channels : /\ chan'[e][c].xpos = chan[e][c].xpos
                                   /\ chan'[e][c].rlimit = chan[e][c].rlimit
    <3> DEFINE d == recv[e].ch
               m == chan[e][d].rpos + n
    <3>1. d \in Channels /\ chan' = [chan EXCEPT ![e][d].rpos = m]
      BY <1>0, <2>3 DEF handleRecvSeq, RecvRecords
    <3> HIDE DEF d, m
    <3> QED
      BY <1>0, <3>1, ChanMoved
  <2> QED
    BY <2>1, <2>2, <2>3 DEF handleChannel, recvNothing, Reads, recvThrows, Throw,
       processRecvSetup, processRecvAccept, processSeq, recvPadding
<1>6. WritesAt(e, v)'
  BY <1>1, <1>2, <1>4, <1>5 DEF WritesAt
<1>7. Parses(Sent(e)', u, v)
  BY <1>1, <1>2, <1>3 DEF Sent
<1> QED
  BY <1>0, <1>1, <1>6, <1>7, WriterMoves

\* The room that an application has granted or is about to is a number.
LEMMA PromisedTyped ==
  ASSUME TypeInv, NEW e \in Peers, NEW c \in Channels
  PROVE  /\ Promised(e, c) \in Nat /\ chan[e][c].rlimit \in Nat /\ chan[e][c].rpos \in Nat
         /\ chan[e][c].xpos \in Nat
<1>1. app[e] \in AppRecords /\ chan \in [Peers -> [Channels -> ChanRecords]]
  BY DEF TypeInv, TypeOK
<1>2. Promised(e, c) \in Nat
  BY <1>1 DEF Promised, AppRecords
<1> QED
  BY <1>1, <1>2, ChanTyped

\* What an application does to its limits: it announces data, within the
\* bound, or grants room.
Extends(e, c) ==
  \/ chan'[e][c].xlimit = chan[e][c].xlimit
  \/ /\ chan'[e][c].rlimit = chan[e][c].rlimit
     /\ chan'[e][c].xlimit >= chan[e][c].xlimit /\ chan'[e][c].xlimit <= XmitTotal[e][c]

KeepsTotal(e, c) ==
  chan[e][c].rlimit + Promised(e, c) <= RecvTotal[e][c]
    => chan'[e][c].rlimit + Promised(e, c)' <= RecvTotal[e][c]

\* An application moves no position but its limits, and it grants no more room
\* than the ints can tell.
LEMMA ApplicationGrants ==
  ASSUME TypeInv, FrameInv, NEW e \in Peers, ApplicationCall(e) \/ ApplicationStep(e)
  PROVE  /\ UNCHANGED <<xmit, recv, wire>>
         /\ net'[e].pc = net[e].pc /\ net'[e].fault = net[e].fault
         /\ Roomy(e)'
         /\ \A c \in Channels : /\ chan'[e][c].xpos = chan[e][c].xpos
                                /\ chan'[e][c].xarm = chan[e][c].xarm
                                /\ chan'[e][c].rpos = chan[e][c].rpos
                                /\ chan'[e][c].rlimit >= chan[e][c].rlimit
                                /\ Extends(e, c) /\ KeepsTotal(e, c)
<1> DEFINE Keeps(d) == /\ chan'[e][d].xpos = chan[e][d].xpos
                       /\ chan'[e][d].xarm = chan[e][d].xarm
                       /\ chan'[e][d].rpos = chan[e][d].rpos
           Fits(d)  == /\ chan'[e][d].rlimit >= chan[e][d].rlimit
                       /\ Extends(e, d) /\ KeepsTotal(e, d)
                       /\ 2 * (chan'[e][d].rlimit + Promised(e, d)' - chan'[e][d].rpos) < Wrap
<1>0. /\ chan \in [Peers -> [Channels -> ChanRecords]] /\ net \in [Peers -> NetRecords]
      /\ app \in [Peers -> AppRecords] /\ app[e] \in AppRecords /\ EndOK(e)
      /\ Wrap \in Nat
  BY SizesAssumption DEF TypeInv, TypeOK
<1>1. \A d \in Channels : /\ Promised(e, d) \in Nat /\ chan[e][d].rlimit \in Nat
                          /\ chan[e][d].rpos \in Nat /\ chan[e][d].xlimit \in Nat
                          /\ XmitTotal[e][d] \in Nat /\ RecvTotal[e][d] \in Nat
                          /\ 2 * (chan[e][d].rlimit + Promised(e, d) - chan[e][d].rpos) < Wrap
  <2> TAKE d \in Channels
  <2>1. Promised(e, d) \in Nat /\ chan[e][d].rlimit \in Nat /\ chan[e][d].rpos \in Nat
    BY PromisedTyped
  <2>2. chan[e][d].xlimit \in Nat
    BY <1>0, ChanTyped
  <2>3. XmitTotal[e][d] \in Nat /\ RecvTotal[e][d] \in Nat
    BY AmountsAssumption
  <2> QED
    BY <2>1, <2>2, <2>3 DEF FrameInv, Roomy
<1>2. /\ UNCHANGED <<xmit, recv, wire>>
      /\ net'[e].pc = net[e].pc /\ net'[e].fault = net[e].fault
  <2>1. net' = net \/ net' = [net EXCEPT ![e].wakeup = TRUE]
    BY DEF ApplicationCall, addXmitLimit, addRecvLimit, ApplicationStep, ApplicationWrites,
       ApplicationRequests, RequestAndWake
  <2>2. net'[e] = net[e] \/ net'[e] = [net[e] EXCEPT !.wakeup = TRUE]
    BY <1>0, <2>1
  <2>3. net'[e].pc = net[e].pc /\ net'[e].fault = net[e].fault
    BY <1>0, <2>2 DEF NetRecords
  <2>4. UNCHANGED <<xmit, recv, wire>>
    BY DEF ApplicationCall, addXmitLimit, addRecvLimit, ApplicationStep, ApplicationWrites,
       ApplicationRequests
  <2> QED
    BY <2>3, <2>4
<1>3. ASSUME NEW c \in Channels, NEW n \in AddSizes, addXmitLimit(e, c, n), NEW d \in Channels
      PROVE  Keeps(d) /\ Fits(d)
  <2>1. /\ chan' = [chan EXCEPT ![e][c].xlimit = @ + n] /\ app[e] = Resting
        /\ n \in Nat /\ chan[e][c].xlimit + n <= XmitTotal[e][c]
    BY <1>3, AmountsAssumption DEF addXmitLimit, Calls
  <2>2. app'[e].todo = {}
    <3>1. app'[e] = app[e] \/ app'[e] = [Resting EXCEPT !.call = "xmit", !.ch = c]
      BY <1>0, <1>3 DEF addXmitLimit
    <3>2. Resting.todo = {} /\ [Resting EXCEPT !.call = "xmit", !.ch = c].todo = {}
      BY DEF Resting
    <3> QED
      BY <2>1, <3>1, <3>2
  <2>3. /\ Keeps(d) /\ chan'[e][d].rlimit = chan[e][d].rlimit
        /\ chan'[e][d].xlimit = IF d = c THEN chan[e][c].xlimit + n ELSE chan[e][d].xlimit
    <3> DEFINE m == chan[e][c].xlimit + n
    <3>1. chan' = [chan EXCEPT ![e][c].xlimit = m]
      BY <2>1
    <3> HIDE DEF m
    <3>2. /\ Keeps(d) /\ chan'[e][d].rlimit = chan[e][d].rlimit
          /\ chan'[e][d].xlimit = IF d = c THEN m ELSE chan[e][d].xlimit
      BY <1>0, <1>3, <3>1, ChanMoved
    <3> QED
      BY <3>2 DEF m
  <2>4. Promised(e, d)' = 0
    BY <2>2 DEF Promised
  <2> QED
    BY <1>0, <1>1, <2>1, <2>3, <2>4 DEF Extends, KeepsTotal
<1>4. ASSUME NEW c \in Channels, NEW n \in AddSizes, addRecvLimit(e, c, n), NEW d \in Channels
      PROVE  Keeps(d) /\ Fits(d)
  <2>1. /\ app[e] = Resting /\ n \in Nat
        /\ 2 * (chan[e][c].rlimit + n - chan[e][c].rpos) < Wrap
        /\ chan[e][c].rlimit + n <= RecvTotal[e][c]
    BY <1>4, AmountsAssumption DEF addRecvLimit, Calls
  <2>2. CASE Threaded[e]
    <3>1. /\ app'[e] = [call |-> "recv", ch |-> c, added |-> n, todo |-> {"arm", "flag"}]
          /\ UNCHANGED chan
      BY <1>0, <1>4, <2>2 DEF addRecvLimit
    <3>2. Promised(e, d)' = IF c = d THEN n ELSE 0
      BY <3>1 DEF Promised
    <3> QED
      BY <1>0, <1>1, <2>1, <3>1, <3>2 DEF Extends, KeepsTotal
  <2>3. CASE ~ Threaded[e]
    <3> DEFINE m == chan[e][c].rlimit + n
               f == [chan EXCEPT ![e][c].rlimit = m]
    <3>1. chan' = [chan EXCEPT ![e][c].rlimit = @ + n, ![e][c].armFlag = TRUE]
          /\ UNCHANGED app
      BY <1>4, <2>3 DEF addRecvLimit
    <3>2. Promised(e, d)' = 0
      BY <2>1, <3>1 DEF Promised, Resting
    <3>3. chan' = [f EXCEPT ![e][c].armFlag = TRUE]
      BY <3>1
    <3>4. m \in Nat
      BY <1>1, <2>1
    <3>5. f = [chan EXCEPT ![e][c].rlimit = m]
      OBVIOUS
    <3>6. /\ chan'[e][d].rlimit = (IF d = c THEN m ELSE chan[e][d].rlimit) /\ Keeps(d)
          /\ chan'[e][d].xlimit = chan[e][d].xlimit
      <4> HIDE DEF m, f
      <4>1. f \in [Peers -> [Channels -> ChanRecords]]
        BY <1>0, <3>4, <3>5, ChanWritten
      <4>2. /\ f[e][d].rlimit = (IF d = c THEN m ELSE chan[e][d].rlimit)
            /\ f[e][d].xpos = chan[e][d].xpos /\ f[e][d].xarm = chan[e][d].xarm
            /\ f[e][d].rpos = chan[e][d].rpos /\ f[e][d].xlimit = chan[e][d].xlimit
        BY <1>0, <1>4, <3>5, ChanMoved
      <4>3. /\ chan'[e][d].rlimit = f[e][d].rlimit
            /\ chan'[e][d].xpos = f[e][d].xpos /\ chan'[e][d].xarm = f[e][d].xarm
            /\ chan'[e][d].rpos = f[e][d].rpos /\ chan'[e][d].xlimit = f[e][d].xlimit
        BY <3>3, <4>1, <1>4, ChanMoved
      <4> QED
        BY <4>2, <4>3
    <3> QED
      BY <1>0, <1>1, <2>1, <3>2, <3>6 DEF Extends, KeepsTotal
  <2> QED
    BY <2>2, <2>3
<1>5. ASSUME ApplicationWrites(e), NEW d \in Channels
      PROVE  Keeps(d) /\ Fits(d)
  <2> DEFINE c == app[e].ch
             m == chan[e][c].rlimit + app[e].added
  <2>0. app[e].todo # {} /\ c \in Channels /\ app[e].added \in Nat
    BY <1>0, <1>5 DEF ApplicationWrites, EndOK, Control, AppRecords
  <2>1. ASSUME "arm" \in app[e].todo, chan' = [chan EXCEPT ![e][c].rlimit = m],
               app' = [app EXCEPT ![e].todo = @ \ {"arm"}]
        PROVE  Keeps(d) /\ Fits(d)
    <3>1. app'[e].todo = app[e].todo \ {"arm"}
      BY <1>0, <2>1 DEF AppRecords
    <3>2. Promised(e, d)' = 0
      BY <3>1 DEF Promised
    <3>3. Promised(e, d) = IF c = d THEN app[e].added ELSE 0
      BY <2>1 DEF Promised
    <3>4. /\ Keeps(d) /\ chan'[e][d].rlimit = (IF d = c THEN m ELSE chan[e][d].rlimit)
          /\ chan'[e][d].xlimit = chan[e][d].xlimit
      <4> HIDE DEF m, c
      <4> QED
        BY <1>0, <2>0, <2>1, ChanMoved
    <3> QED
      BY <1>0, <1>1, <2>0, <3>2, <3>3, <3>4 DEF Extends, KeepsTotal
  <2>2. ASSUME chan' = [chan EXCEPT ![e][c].armFlag = TRUE],
               app' = [app EXCEPT ![e].todo = @ \ {"flag"}]
        PROVE  Keeps(d) /\ Fits(d)
    <3>1. app'[e] = [app[e] EXCEPT !.todo = @ \ {"flag"}]
      BY <1>0, <2>2
    <3>2. /\ app'[e].ch = app[e].ch /\ app'[e].added = app[e].added
          /\ "arm" \in app'[e].todo <=> "arm" \in app[e].todo
      BY <1>0, <3>1 DEF AppRecords
    <3>3. Promised(e, d)' = Promised(e, d)
      BY <3>2 DEF Promised
    <3>4. /\ Keeps(d) /\ chan'[e][d].rlimit = chan[e][d].rlimit
          /\ chan'[e][d].xlimit = chan[e][d].xlimit
      <4> HIDE DEF c
      <4> QED
        BY <1>0, <2>0, <2>2, ChanMoved
    <3> QED
      BY <1>0, <1>1, <3>3, <3>4 DEF Extends, KeepsTotal
  <2> QED
    BY <1>5, <2>1, <2>2 DEF ApplicationWrites
<1>6. ASSUME ApplicationRequests(e), NEW d \in Channels
      PROVE  Keeps(d) /\ Fits(d)
  <2>1. app'[e] = Resting /\ UNCHANGED chan
    BY <1>0, <1>6 DEF ApplicationRequests
  <2>2. Promised(e, d)' = 0
    BY <2>1 DEF Promised, Resting
  <2> QED
    BY <1>0, <1>1, <2>1, <2>2 DEF Extends, KeepsTotal
<1>7. \A d \in Channels : Keeps(d) /\ Fits(d)
  <2> HIDE DEF Keeps, Fits
  <2> QED
    BY <1>3, <1>4, <1>5, <1>6 DEF ApplicationCall, ApplicationStep
<1>8. Roomy(e)'
  BY <1>7 DEF Roomy
<1> QED
  BY <1>2, <1>7, <1>8

\* So it keeps both directions framed.
LEMMA ApplicationKeepsFrame ==
  ASSUME TypeInv, FrameInv, NEW e \in Peers, ApplicationCall(e) \/ ApplicationStep(e)
  PROVE  /\ Framed(e)' /\ Framed(Other(e))' /\ Roomy(e)'
         /\ net'[e].fault = net[e].fault
<1> DEFINE o == Other(e)
<1>0. /\ o \in Peers /\ o # e /\ Other(o) = e /\ Acts(e) /\ Framed(e) /\ Framed(o)
  BY TwoPeers DEF FrameInv, Acts
<1>1. /\ UNCHANGED <<xmit, recv, wire>>
      /\ net'[e].pc = net[e].pc /\ net'[e].fault = net[e].fault /\ Roomy(e)'
      /\ \A c \in Channels : /\ chan'[e][c].xpos = chan[e][c].xpos
                             /\ chan'[e][c].xarm = chan[e][c].xarm
                             /\ chan'[e][c].rpos = chan[e][c].rpos
                             /\ chan'[e][c].rlimit >= chan[e][c].rlimit
                             /\ chan'[e][c].rlimit \in Nat /\ chan[e][c].rlimit \in Nat
  <2>1. TypeInv'
    BY ApplicationTyped
  <2>2. \A c \in Channels : chan'[e][c].rlimit \in Nat
    <3>1. chan' \in [Peers -> [Channels -> ChanRecords]]
      BY <2>1 DEF TypeInv, TypeOK
    <3> QED
      BY <3>1, ChanTyped
  <2> QED
    BY <2>2, ApplicationGrants, PromisedTyped
<1>2. Framed(e)'
  <2>1. PICK u, v \in Places : ReadsAt(o, u) /\ WritesAt(e, v) /\ Parses(Sent(e), u, v)
    BY <1>0 DEF Framed
  <2>2. \A c \in Channels : v.credit[c] \in Nat
    BY DEF Places
  <2>3. WritesAt(e, v)'
    BY <1>1, <2>1, <2>2 DEF WritesAt
  <2>4. Parses(Sent(e)', u, v)
    BY <1>1, <2>1 DEF Sent
  <2> QED
    BY <1>0, <2>1, <2>3, <2>4, WriterMoves
<1>3. Framed(o)'
  <2>1. PICK u, v \in Places : ReadsAt(e, u) /\ WritesAt(o, v) /\ Parses(Sent(o), u, v)
    BY <1>0 DEF Framed
  <2>2. ReadsAt(e, u)'
    BY <1>1, <2>1 DEF ReadsAt, Due
  <2>3. Parses((wire[o] \o xmit[o].buffer) \o xmit[o].body, u, v)
    BY <2>1 DEF Sent
  <2> QED
    BY <1>0, <1>1, <2>1, <2>2, <2>3, ReaderMoves
<1> QED
  BY <1>1, <1>2, <1>3

\* The network thread moves no limit, and a position of the receiver forward.
LEMMA NetworkKeepsLimits ==
  ASSUME TypeInv, NEW e \in Peers, NetworkThread(e)
  PROVE  /\ UNCHANGED app
         /\ \A c \in Channels : /\ chan'[e][c].rlimit = chan[e][c].rlimit
                                /\ chan'[e][c].xlimit = chan[e][c].xlimit
                                /\ chan'[e][c].rpos = chan[e][c].rpos
                                     \/ \E n \in Nat : chan'[e][c].rpos = chan[e][c].rpos + n
<1> DEFINE Keeps(c) == /\ chan'[e][c].rlimit = chan[e][c].rlimit
                       /\ chan'[e][c].xlimit = chan[e][c].xlimit
                       /\ chan'[e][c].rpos = chan[e][c].rpos
                            \/ \E n \in Nat : chan'[e][c].rpos = chan[e][c].rpos + n
<1>0. /\ chan \in [Peers -> [Channels -> ChanRecords]] /\ data \in [Peers -> Priorizers]
      /\ recv[e] \in RecvRecords /\ EndOK(e) /\ Wrap \in Nat
  BY SizesAssumption DEF TypeInv, TypeOK
<1>1. UNCHANGED app
  BY DEF NetworkThread, handleChannel, recvNothing, Reads, recvThrows, Throw, processRecvSetup,
     processRecvAccept, processRecvArm, processSeq, handleRecvSeq, recvPadding, Writes,
     RemainingXmitBuf, RemainingSeq, EvalAbort, EvalAccept, EvalChannelCtrl, ClearArmFlag,
     ReadRecvArm, EvalChannelData, xmitEnd
<1>2. SUFFICES \A c \in Channels : Keeps(c)
  BY <1>1
<1>3. CASE UNCHANGED chan
  BY <1>3
<1>4. ASSUME NEW d \in Channels, NEW n,
             \/ chan' = [chan EXCEPT ![e][d].xpos = n]
             \/ chan' = [chan EXCEPT ![e][d].xarm = n]
             \/ chan' = [chan EXCEPT ![e][d].armFlag = n]
      PROVE  \A c \in Channels : Keeps(c)
  <2>1. ASSUME NEW c \in Channels
        PROVE  Keeps(c)
    <3>1. CASE chan' = [chan EXCEPT ![e][d].xpos = n]
      BY <1>0, <3>1, ChanMoved
    <3>2. CASE chan' = [chan EXCEPT ![e][d].xarm = n]
      BY <1>0, <3>2, ChanMoved
    <3>3. CASE chan' = [chan EXCEPT ![e][d].armFlag = n]
      BY <1>0, <3>3, ChanMoved
    <3> QED
      BY <1>4, <3>1, <3>2, <3>3
  <2> QED
    BY <2>1
<1>5. CASE processRecvArm(e)
  <2>1. /\ chan' = [chan EXCEPT ![e][Header(e).ch].xarm = Header(e).val]
        /\ Inbound(e) # <<>> /\ Header(e).type = "ARM"
    BY <1>5 DEF processRecvArm, Receives, HeaderReceived
  <2>2. Header(e).ch \in Channels
    <3>1. Inbound(e) \in Seq(Addressed)
      BY TwoPeers DEF Inbound, TypeInv
    <3>2. Header(e) \in Addressed
      BY <2>1, <3>1 DEF Header
    <3> QED
      BY <2>1, <3>2 DEF Addressed
  <2> DEFINE d == Header(e).ch
             n == Header(e).val
  <2>3. d \in Channels /\ chan' = [chan EXCEPT ![e][d].xarm = n]
    BY <2>1, <2>2
  <2> HIDE DEF d, n
  <2> QED
    BY <1>4, <2>3
<1>6. ASSUME NEW n \in 1 .. WireSize, handleRecvSeq(e, n)
      PROVE  \A c \in Channels : Keeps(c)
  <2> DEFINE d == recv[e].ch
             m == chan[e][d].rpos + n
  <2>1. d \in Channels /\ chan' = [chan EXCEPT ![e][d].rpos = m]
    BY <1>0, <1>6 DEF handleRecvSeq, RecvRecords
  <2>2. \A c \in Channels : /\ chan'[e][c].rlimit = chan[e][c].rlimit
                            /\ chan'[e][c].xlimit = chan[e][c].xlimit
                            /\ chan'[e][c].rpos = IF c = d THEN m ELSE chan[e][c].rpos
    <3> HIDE DEF d, m
    <3> QED
      BY <1>0, <2>1, ChanMoved
  <2>3. n \in Nat
    BY SizesAssumption
  <2> QED
    BY <2>2, <2>3
<1>7. CASE ClearArmFlag(e)
  <2> DEFINE d == xmit[e].ch
  <2>1. d \in Channels /\ chan' = [chan EXCEPT ![e][d].armFlag = FALSE]
    BY <1>0, <1>7 DEF ClearArmFlag, EndOK, Control
  <2> HIDE DEF d
  <2> QED
    BY <1>4, <2>1
<1>8. CASE EvalChannelData(e)
  <2> DEFINE c == Popped(data[e])
  <2>1. c \in Channels
    BY <1>0, <1>8, PopTyped DEF EvalChannelData
  <2>2. UNCHANGED chan \/ \E n : chan' = [chan EXCEPT ![e][c].xpos = @ + n]
    BY <1>8 DEF EvalChannelData
  <2>3. UNCHANGED chan \/ \E n : chan' = [chan EXCEPT ![e][c].xpos = n]
    BY <2>2
  <2> HIDE DEF c
  <2> QED
    BY <1>3, <1>4, <2>1, <2>3
<1> HIDE DEF Keeps
<1> QED
  BY <1>3, <1>5, <1>6, <1>7, <1>8 DEF NetworkThread, handleChannel, recvNothing, Reads,
     recvThrows, Throw, processRecvSetup, processRecvAccept, processSeq, recvPadding, Writes,
     RemainingXmitBuf, RemainingSeq, EvalAbort, EvalAccept, EvalChannelCtrl, ReadRecvArm, xmitEnd

\* So its reading only makes room.
LEMMA NetworkKeepsRoom ==
  ASSUME TypeInv, FrameInv, NEW e \in Peers, NetworkThread(e)
  PROVE  Roomy(e)'
<1> SUFFICES ASSUME NEW c \in Channels
             PROVE  2 * (chan'[e][c].rlimit + Promised(e, c)' - chan'[e][c].rpos) < Wrap
  BY DEF Roomy
<1>1. Promised(e, c)' = Promised(e, c)
  BY NetworkKeepsLimits DEF Promised
<1>2. /\ Promised(e, c) \in Nat /\ chan[e][c].rlimit \in Nat /\ chan[e][c].rpos \in Nat
      /\ 2 * (chan[e][c].rlimit + Promised(e, c) - chan[e][c].rpos) < Wrap
  BY PromisedTyped DEF FrameInv, Roomy
<1> QED
  BY <1>1, <1>2, NetworkKeepsLimits, SizesAssumption

\* Both directions begin with the SETUP that is prepared, without credit.
LEMMA InitFramed ==
  ASSUME Init, TypeInv
  PROVE  FrameInv /\ NoProtocolError
<1> DEFINE z == [c \in Channels |-> 0]
           a == Place("Setup", 0, z, z)
           b == Place("Accept", 0, z, z)
           t == Packet("SETUP")
<1>1. /\ a \in Places /\ b \in Places
      /\ a.phase = "Setup" /\ a.due = 0 /\ a.pos = z /\ a.credit = z
      /\ b.phase = "Accept" /\ b.due = 0 /\ b.pos = z /\ b.credit = z
  BY DEF Places, Place, Phases
<1>2. t \in Tokens /\ t.type = "SETUP"
  BY PacketsAddressed DEF Addressed, Packet, Token
<1>3. Leads(a, t, b)
  BY <1>1, <1>2 DEF Leads
<1>4. 0 = Int32(0)
  <2>1. 0 + Wrap * 0 = 0 /\ Wrap > 0
    BY SizesAssumption
  <2>2. (0 + Wrap * 0) % Wrap = 0
    BY <2>1, Remainder
  <2> QED
    BY <2>1, <2>2 DEF Int32
<1>5. <<t>> # <<Packet("ABORT")>>
  BY DEF Packet, Token
<1>6. ASSUME NEW e \in Peers PROVE Framed(e)
  <2>1. Sent(e) = <<t>>
    <3>1. <<t>> \in Seq(Tokens)
      BY <1>2
    <3>2. (<<>> \o <<t>>) \o <<>> = <<t>>
      BY <3>1, ConcatEmptySeq
    <3> QED
      BY <3>2 DEF Sent, Init
  <2>2. Parses(Sent(e), a, b)
    <3> HIDE DEF a, b, t
    <3> QED
      BY <1>1, <1>2, <1>3, <2>1, ParsesOne
  <2>3. ReadsAt(Other(e), a)
    <3> DEFINE o == Other(e)
    <3>1. o \in Peers
      BY TwoPeers
    <3> HIDE DEF o
    <3>2. /\ recv[o].phase = "startup" /\ recv[o].answer = "none" /\ recv[o].ch = None
          /\ \A c \in Channels : /\ chan[o][c].rpos = 0 /\ chan[o][c].xarm = 0
                                 /\ chan[o][c].xpos = 0
      BY <3>1 DEF Init
    <3>3. \A c \in Channels : Due(o, c) = 0
      BY <3>2, Numbers DEF Due
    <3>4. \A c \in Channels : a.pos[c] = 0 /\ a.credit[c] = 0
      BY <1>1
    <3> HIDE DEF a
    <3>5. ReadsAt(o, a)
      BY <1>1, <1>4, <3>2, <3>3, <3>4 DEF ReadsAt
    <3> QED
      BY <3>5 DEF o
  <2>4. WritesAt(e, b)
    <3>1. /\ xmit[e].accepted = "idle"
          /\ \A c \in Channels : chan[e][c].xpos = 0 /\ chan[e][c].rlimit = 0
      BY DEF Init
    <3>2. \A c \in Channels : b.pos[c] = 0 /\ b.credit[c] = 0
      BY <1>1
    <3> HIDE DEF b
    <3> QED
      BY <1>1, <3>1, <3>2 DEF WritesAt
  <2> QED
    BY <1>1, <2>2, <2>3, <2>4 DEF Framed
<1>7. ASSUME NEW e \in Peers PROVE Roomy(e)
  BY SizesAssumption DEF Roomy, Promised, Resting, Init
<1>8. NoProtocolError
  BY DEF NoProtocolError, Init
<1> QED
  BY <1>6, <1>7, <1>8 DEF FrameInv

LinkInv == TypeInv /\ FrameInv /\ NoProtocolError

\* A step keeps both directions framed, and no receiver finds a violation.
LEMMA NextFramed == LinkInv /\ [Next]_vars => LinkInv'
<1> SUFFICES ASSUME TypeInv, FrameInv, NoProtocolError, [Next]_vars PROVE LinkInv'
  BY DEF LinkInv
<1>1. TypeInv'
  BY NextTyped
<1>2. CASE UNCHANGED vars
  BY <1>1, <1>2 DEF LinkInv, vars, FrameInv, Framed, Roomy, ReadsAt, WritesAt, Due, Sent, Promised,
     Parses, NoProtocolError
<1>3. ASSUME NEW e \in Peers, Acts(e) PROVE LinkInv'
  <2> DEFINE o == Other(e)
  <2>1. o \in Peers /\ o # e /\ \A p \in Peers : p = e \/ p = o
    BY TwoPeers
  <2>2. Roomy(o)' /\ net'[o] = net[o]
    <3>1. chan'[o] = chan[o] /\ app'[o] = app[o] /\ net'[o] = net[o]
      BY <1>3, <2>1, OtherUntouched DEF TypeInv
    <3>2. Roomy(o)
      BY <2>1 DEF FrameInv
    <3> HIDE DEF o
    <3> QED
      BY <3>1, <3>2 DEF Roomy, Promised
  <2>3. /\ Framed(e)' /\ Framed(o)' /\ Roomy(e)'
        /\ net'[e].fault = "protocol" => net[e].fault = "protocol"
    <3>1. CASE ApplicationCall(e) \/ ApplicationStep(e)
      BY <3>1, ApplicationKeepsFrame
    <3>2. CASE handleChannel(e) \/ Reads(e) \/ recvNothing(e)
      BY <3>2, ReadsFramed, ReadsKeepFrame, NetworkKeepsRoom DEF NetworkThread
    <3>3. CASE Writes(e)
      BY <1>1, <3>3, WritesFramed, WritesKeepCredit, NetworkKeepsRoom DEF NetworkThread
    <3> QED
      BY <1>3, <3>1, <3>2, <3>3 DEF Acts, NetworkThread
  <2> HIDE DEF o
  <2>4. FrameInv'
    BY <2>1, <2>2, <2>3 DEF FrameInv
  <2>5. NoProtocolError'
    BY <2>1, <2>2, <2>3 DEF NoProtocolError
  <2> QED
    BY <1>1, <2>4, <2>5 DEF LinkInv
<1> QED
  BY <1>2, <1>3 DEF Next, Acts

\* No program that runs the Java library ever finds that its peer, which runs
\* it too, violates the protocol: a packet out of turn, a SEQ at another
\* position than the expected one or with more payload than was granted.  It
\* holds behind the wrap of the ints, for all interleavings of the threads and
\* all ways the transport splits what is sent.
THEOREM PeersNeverAtFault == Spec => []NoProtocolError
<1>1. Init => LinkInv
  BY InitTyped, InitFramed DEF LinkInv
<1>2. LinkInv => NoProtocolError
  BY DEF LinkInv
<1> QED
  BY <1>1, <1>2, NextFramed, PTL DEF Spec

-----------------------------------------------------------------------------
(* The streams.  Every direction of every channel implements ChabuFlow.    *)

\* Where a token of a stream is read: between two places that it leads from
\* and to.
LEMMA ParsesAt ==
  ASSUME NEW S \in Seq(Tokens), NEW a, NEW b, Parses(S, a, b), NEW i \in 1 .. Len(S)
  PROVE  \E m, k \in Places : /\ Parses(SubSeq(S, 1, i - 1), a, m)
                              /\ Leads(m, S[i], k)
                              /\ Parses(SubSeq(S, i + 1, Len(S)), k, b)
<1>1. PICK d \in [0 .. Len(S) -> Places] :
        /\ d[0] = a /\ d[Len(S)] = b
        /\ \A j \in 1 .. Len(S) : Leads(d[j - 1], S[j], d[j])
  BY ParsesMeans
<1> DEFINE n == Len(S)
           P == SubSeq(S, 1, i - 1)
           Q == SubSeq(S, i + 1, n)
           f == [j \in 0 .. i - 1 |-> d[j]]
           g == [j \in 0 .. n - i |-> d[i + j]]
<1>2. n \in Nat /\ i - 1 \in 0 .. n /\ i \in 0 .. n
  OBVIOUS
<1>3. /\ P \in Seq(Tokens) /\ Len(P) = i - 1 /\ \A j \in 1 .. i - 1 : P[j] = S[j]
      /\ Q \in Seq(Tokens) /\ Len(Q) = n - i /\ \A j \in 1 .. n - i : Q[j] = S[i + j]
  BY <1>2, PieceTyped
<1> HIDE DEF P, Q
<1>4. Parses(P, a, d[i - 1])
  <2>1. f \in [0 .. i - 1 -> Places] /\ f[0] = a /\ f[i - 1] = d[i - 1]
    BY <1>1, <1>2
  <2>2. ASSUME NEW j \in 1 .. i - 1 PROVE Leads(f[j - 1], P[j], f[j])
    <3>1. j \in 1 .. n /\ P[j] = S[j] /\ f[j - 1] = d[j - 1] /\ f[j] = d[j]
      BY <1>2, <1>3
    <3> QED
      BY <1>1, <3>1
  <2> HIDE DEF f
  <2> QED
    BY <1>3, <2>1, <2>2, ParsesMeans
<1>5. Parses(Q, d[i], b)
  <2>1. g \in [0 .. Len(Q) -> Places] /\ g[0] = d[i] /\ g[Len(Q)] = b
    BY <1>1, <1>2, <1>3
  <2>2. ASSUME NEW j \in 1 .. Len(Q) PROVE Leads(g[j - 1], Q[j], g[j])
    <3>1. i + j \in 1 .. n /\ (i + j) - 1 = i + (j - 1) /\ Q[j] = S[i + j]
      BY <1>2, <1>3
    <3>2. g[j - 1] = d[(i + j) - 1] /\ g[j] = d[i + j]
      BY <1>2, <1>3, <3>1
    <3> QED
      BY <1>1, <3>1, <3>2
  <2> HIDE DEF g
  <2> QED
    BY <1>3, <2>1, <2>2, ParsesMeans
<1>6. Leads(d[i - 1], S[i], d[i]) /\ d[i - 1] \in Places /\ d[i] \in Places
  BY <1>1, <1>2
<1> QED
  BY <1>4, <1>5, <1>6 DEF P, Q

\* The ints of the packets stand for positions and credits on the way.
LEMMA IntsBetween ==
  ASSUME NEW S \in Seq(Tokens), NEW a \in Places, NEW b, Parses(S, a, b),
         NEW i \in 1 .. Len(S), NEW c \in Channels, S[i].ch = c
  PROVE  /\ S[i].type = "SEQ" =>
              \E q \in Nat : a.pos[c] <= q /\ q <= b.pos[c] /\ S[i].val = Int32(q)
         /\ S[i].type = "ARM" =>
              \E q \in Nat : a.credit[c] <= q /\ q <= b.credit[c] /\ S[i].val = Int32(q)
<1>0. /\ i - 1 \in 0 .. Len(S) /\ i \in 0 .. Len(S)
      /\ SubSeq(S, 1, i - 1) \in Seq(Tokens) /\ SubSeq(S, i + 1, Len(S)) \in Seq(Tokens)
  <2>1. i - 1 \in 0 .. Len(S) /\ i \in 0 .. Len(S)
    OBVIOUS
  <2> QED
    BY <2>1, PieceTyped
<1>1. PICK m, k \in Places : /\ Parses(SubSeq(S, 1, i - 1), a, m)
                             /\ Leads(m, S[i], k)
                             /\ Parses(SubSeq(S, i + 1, Len(S)), k, b)
  BY ParsesAt
<1>2. a.pos[c] <= m.pos[c] /\ a.credit[c] <= m.credit[c]
  BY <1>0, <1>1, ParsesRises
<1>3. b \in Places /\ k.pos[c] <= b.pos[c] /\ k.credit[c] <= b.credit[c]
  BY <1>0, <1>1, ParsesRises
<1>4. /\ a.pos[c] \in Nat /\ b.pos[c] \in Nat /\ m.pos[c] \in Nat /\ k.pos[c] \in Nat
      /\ a.credit[c] \in Nat /\ b.credit[c] \in Nat /\ m.credit[c] \in Nat
      /\ m.pos \in [Channels -> Nat] /\ m.credit \in [Channels -> Nat] /\ S[i] \in Tokens
  BY <1>3 DEF Places
<1>5. ASSUME S[i].type = "SEQ"
      PROVE  \E q \in Nat : a.pos[c] <= q /\ q <= b.pos[c] /\ S[i].val = Int32(q)
  <2>1. S[i].val = Int32(m.pos[c]) /\ k.pos = [m.pos EXCEPT ![c] = @ + S[i].size]
    BY <1>1, <1>5 DEF Leads, Place
  <2>2. S[i].size \in Nat
    BY <1>4 DEF Tokens
  <2>3. m.pos[c] <= k.pos[c]
    BY <1>4, <2>1, <2>2
  <2> QED
    BY <1>2, <1>3, <1>4, <2>1, <2>3
<1>6. ASSUME S[i].type = "ARM"
      PROVE  \E q \in Nat : a.credit[c] <= q /\ q <= b.credit[c] /\ S[i].val = Int32(q)
  <2>1. PICK q \in Nat : /\ q >= m.credit[c] /\ S[i].val = Int32(q)
                         /\ k.credit = [m.credit EXCEPT ![c] = q]
    BY <1>1, <1>6 DEF Leads, Place
  <2>2. k.credit[c] = q
    BY <1>4, <2>1
  <2> QED
    BY <1>2, <1>3, <1>4, <2>1, <2>2
<1> QED
  BY <1>5, <1>6

\* The position an int stands for, seen from one that is not far ahead.
LEMMA PositionBehind ==
  ASSUME NEW p \in Nat, NEW q \in Nat, q <= p, p - q < Wrap
  PROVE  Behind(p, Int32(q)) = q
<1> DEFINE k == q \div Wrap
           d == p - q
<1>1. Wrap \in Int /\ Wrap > 0
  BY SizesAssumption
<1>2. k \in Int /\ q = Wrap * k + Int32(q) /\ Int32(q) \in Int /\ d \in Int /\ 0 <= d /\ d < Wrap
  BY <1>1 DEF Int32
<1> HIDE DEF k
<1>3. p - Int32(q) = d + Wrap * k
  BY <1>1, <1>2
<1> HIDE DEF d
<1>4. (d + Wrap * k) % Wrap = d
  BY <1>2, Remainder
<1>5. Int32(p - Int32(q)) = d
  BY <1>3, <1>4 DEF Int32
<1> QED
  BY <1>5 DEF Behind, d

\* The packets in flight are tokens that were sent.
LEMMA InFlightSent ==
  ASSUME TypeInv, NEW e \in Peers, NEW c, NEW t
  PROVE  /\ InFlight(e, c, t) \in Seq(Tokens)
         /\ Len(InFlight(e, c, t)) <= Len(wire[e]) + Len(xmit[e].buffer)
         /\ Among(InFlight(e, c, t), Sent(e), t, c)
<1> DEFINE S == wire[e] \o xmit[e].buffer
           B == xmit[e].body
           p == InFlight(e, c, t)
<1>1. /\ wire[e] \in Seq(Tokens) /\ xmit[e].buffer \in Seq(Tokens) /\ B \in Seq(Tokens)
      /\ Sent(e) = S \o B
  BY SentTyped DEF Sent
<1>2. S \in Seq(Tokens) /\ Len(S) = Len(wire[e]) + Len(xmit[e].buffer)
  BY <1>1, ConcatProperties
<1> HIDE DEF S, B
<1>3. Len(S) <= Len(Sent(e)) /\ \A j \in 1 .. Len(S) : Sent(e)[j] = S[j]
  <2>1. S \in Seq(Tokens) /\ B \in Seq(Tokens)
    BY <1>1, <1>2
  <2>2. Len(S \o B) = Len(S) + Len(B) /\ \A j \in 1 .. Len(S) : (S \o B)[j] = S[j]
    BY <2>1, ConcatProperties
  <2>3. Len(S) \in Nat /\ Len(B) \in Nat
    BY <2>1
  <2> QED
    BY <1>1, <2>2, <2>3
<1>4. p = PacketsOf(S, t, c)
  BY DEF InFlight, S
<1> HIDE DEF p
<1>5. p \in Seq(Tokens) /\ Len(p) <= Len(S) /\ Among(p, S, t, c)
  <2>1. S \in Seq(Tokens)
    BY <1>2
  <2> QED
    BY <1>4, <2>1, PacketsTyped
<1>6. ASSUME NEW i \in 1 .. Len(p)
      PROVE  \E j \in 1 .. Len(Sent(e)) : /\ p[i] = Sent(e)[j]
                                          /\ Sent(e)[j].type = t /\ Sent(e)[j].ch = c
  <2>1. PICK j \in 1 .. Len(S) : p[i] = S[j] /\ S[j].type = t /\ S[j].ch = c
    BY <1>5 DEF Among
  <2>2. j \in 1 .. Len(Sent(e)) /\ Sent(e)[j] = S[j]
    <3>1. Len(S) \in Nat /\ Len(Sent(e)) \in Nat
      <4>1. S \in Seq(Tokens) /\ Sent(e) \in Seq(Tokens)
        BY <1>2, SentTyped
      <4> QED
        BY <4>1
    <3> QED
      BY <1>3, <3>1
  <2> QED
    BY <2>1, <2>2
<1> QED
  BY <1>2, <1>5, <1>6 DEF p, Among

\* What the mapping to ChabuFlow makes of the state: the position the receiver
\* expects and the credit the sender knows.
Expects(e, c)   == chan[Other(e)][c].rpos + Due(Other(e), c)
MayXmit(e, c) == chan[e][c].xpos + Signed(chan[e][c].xarm - chan[e][c].xpos)

\* The positions of a stream are ordered and near to each other, and the ints
\* stand for positions between them.
InCorridor(e, c) ==
  LET R == Expects(e, c)
      P == chan[e][c].xpos
      K == MayXmit(e, c)
      L == chan[Other(e)][c].rlimit
      s == InFlight(e, c, "SEQ")
      a == InFlight(Other(e), c, "ARM")
  IN  /\ R \in Nat /\ P \in Nat /\ K \in Nat /\ L \in Nat
      /\ R <= P /\ P <= K /\ K <= L /\ 2 * (L - R) < Wrap
      /\ chan[e][c].xarm = Int32(K)
      /\ \A i \in 1 .. Len(s) : \E q \in Nat : R <= q /\ q <= P /\ s[i].val = Int32(q)
      /\ \A i \in 1 .. Len(a) : \E q \in Nat : K <= q /\ q <= L /\ a[i].val = Int32(q)

LEMMA Corridor ==
  ASSUME TypeInv, FrameInv, NEW e \in Peers, NEW c \in Channels
  PROVE  InCorridor(e, c)
<1> DEFINE o == Other(e)
           R == Expects(e, c)
           P == chan[e][c].xpos
           K == MayXmit(e, c)
           L == chan[o][c].rlimit
<1>1. o \in Peers /\ Other(o) = e /\ Framed(e) /\ Framed(o)
  BY TwoPeers DEF FrameInv
<1>2. PICK u, v \in Places : ReadsAt(o, u) /\ WritesAt(e, v) /\ Parses(Sent(e), u, v)
  BY <1>1 DEF Framed
<1>3. PICK x, y \in Places : ReadsAt(e, x) /\ WritesAt(o, y) /\ Parses(Sent(o), x, y)
  BY <1>1 DEF Framed
<1>4. /\ u.pos[c] = R /\ v.pos[c] = P /\ y.credit[c] <= L
      /\ u.pos[c] \in Nat /\ v.pos[c] \in Nat /\ x.credit[c] \in Nat /\ y.credit[c] \in Nat
      /\ L \in Nat
  <2>1. chan \in [Peers -> [Channels -> ChanRecords]]
    BY DEF TypeInv, TypeOK
  <2>2. L \in Nat
    BY <1>1, <2>1, ChanTyped
  <2>3. u.pos[c] = R /\ v.pos[c] = P /\ y.credit[c] <= L
    BY <1>1, <1>2, <1>3 DEF ReadsAt, WritesAt, Expects
  <2> QED
    BY <2>2, <2>3 DEF Places
<1>5. u.pos[c] <= v.pos[c] /\ x.credit[c] <= y.credit[c]
  BY <1>1, <1>2, <1>3, SentTyped, ParsesRises
<1>6. x.credit[c] = K /\ P <= K /\ chan[e][c].xarm = Int32(K)
  <2> DEFINE a == x.credit[c]
  <2>1. /\ a \in Nat /\ P \in Nat /\ P <= a /\ 2 * (a - P) < Wrap
        /\ chan[e][c].xarm = Int32(a)
    BY <1>3, CreditKnown
  <2>2. Signed(Int32(a) - P) = a - P
    BY <2>1, Difference
  <2>3. K = P + Signed(Int32(a) - P)
    BY <2>1 DEF MayXmit
  <2> QED
    BY <2>1, <2>2, <2>3
<1>8. 2 * (L - R) < Wrap
  <2>1. 2 * (L + Promised(o, c) - chan[o][c].rpos) < Wrap
    BY <1>1 DEF FrameInv, Roomy
  <2>2. Promised(o, c) \in Nat /\ Due(o, c) \in Nat /\ chan[o][c].rpos \in Nat
    <3>1. recv[o] \in RecvRecords /\ app[o] \in AppRecords
          /\ chan \in [Peers -> [Channels -> ChanRecords]]
      BY <1>1 DEF TypeInv, TypeOK
    <3> QED
      BY <1>1, <3>1, ChanTyped DEF Promised, Due, AppRecords, RecvRecords
  <2> QED
    BY <1>4, <2>1, <2>2, SizesAssumption DEF Expects
<1>9. ASSUME NEW i \in 1 .. Len(InFlight(e, c, "SEQ"))
      PROVE  \E q \in Nat : R <= q /\ q <= P /\ InFlight(e, c, "SEQ")[i].val = Int32(q)
  <2>1. PICK j \in 1 .. Len(Sent(e)) :
          /\ InFlight(e, c, "SEQ")[i] = Sent(e)[j]
          /\ Sent(e)[j].type = "SEQ" /\ Sent(e)[j].ch = c
    <3>1. Among(InFlight(e, c, "SEQ"), Sent(e), "SEQ", c)
      BY InFlightSent
    <3> QED
      BY <3>1 DEF Among
  <2>2. \E q \in Nat : u.pos[c] <= q /\ q <= v.pos[c] /\ Sent(e)[j].val = Int32(q)
    BY <1>2, <2>1, SentTyped, IntsBetween
  <2> QED
    BY <1>4, <2>1, <2>2
<1>10. ASSUME NEW i \in 1 .. Len(InFlight(o, c, "ARM"))
       PROVE  \E q \in Nat : K <= q /\ q <= L /\ InFlight(o, c, "ARM")[i].val = Int32(q)
  <2>1. PICK j \in 1 .. Len(Sent(o)) :
          /\ InFlight(o, c, "ARM")[i] = Sent(o)[j]
          /\ Sent(o)[j].type = "ARM" /\ Sent(o)[j].ch = c
    <3>1. Among(InFlight(o, c, "ARM"), Sent(o), "ARM", c)
      BY <1>1, InFlightSent
    <3> QED
      BY <3>1 DEF Among
  <2>2. PICK q \in Nat : x.credit[c] <= q /\ q <= y.credit[c] /\ Sent(o)[j].val = Int32(q)
    BY <1>1, <1>3, <2>1, SentTyped, IntsBetween
  <2>3. q <= L
    BY <1>4, <2>2
  <2> QED
    BY <1>6, <2>1, <2>2, <2>3
<1>11. R \in Nat /\ P \in Nat /\ K \in Nat /\ R <= P /\ K <= L
  BY <1>4, <1>5, <1>6
<1> HIDE DEF R, P, K, L
<1> QED
  BY <1>4, <1>6, <1>8, <1>9, <1>10, <1>11 DEF R, P, K, L, InCorridor

\* The packets as ChabuFlow has them, seen from position p.
SeqsSeen(s, p) ==
  [i \in 1 .. Len(s) |-> [seq |-> Behind(p, s[i].val), size |-> s[i].size]]
ArmsSeen(s, p) == [i \in 1 .. Len(s) |-> Behind(p, s[i].val)]

\* It does not matter from which of two near positions.
LEMMA SeenFromNear ==
  ASSUME NEW s \in Seq(Tokens), NEW p \in Nat, NEW n \in Nat, NEW r \in Nat,
         p - r < Wrap, n - r < Wrap,
         \A i \in 1 .. Len(s) : \E q \in Nat : r <= q /\ q <= p /\ q <= n /\ s[i].val = Int32(q)
  PROVE  SeqsSeen(s, p) = SeqsSeen(s, n) /\ ArmsSeen(s, p) = ArmsSeen(s, n)
<1>1. ASSUME NEW i \in 1 .. Len(s) PROVE Behind(p, s[i].val) = Behind(n, s[i].val)
  <2>1. PICK q \in Nat : r <= q /\ q <= p /\ q <= n /\ s[i].val = Int32(q)
    OBVIOUS
  <2>2. p - q < Wrap /\ n - q < Wrap
    BY <2>1, SizesAssumption
  <2> QED
    BY <2>1, <2>2, PositionBehind
<1> QED
  BY <1>1 DEF SeqsSeen, ArmsSeen

-----------------------------------------------------------------------------
(* What a step may do to the two directions of a channel, and that this is *)
(* a step of ChabuFlow in the stream that the endpoint sends and in the one *)
(* that it receives.                                                       *)

\* What ChabuFlow sees of an endpoint, in both directions of a channel.
View(e, c) ==
  [xlimit |-> chan[e][c].xlimit, xarm |-> chan[e][c].xarm, xpos |-> chan[e][c].xpos,
   granted |-> chan[e][c].rlimit, expected |-> chan[e][c].rpos + Due(e, c),
   seqsOut |-> InFlight(e, c, "SEQ"), armsOut |-> InFlight(e, c, "ARM"),
   seqsIn |-> InFlight(Other(e), c, "SEQ"), armsIn |-> InFlight(Other(e), c, "ARM")]

\* What a step of an endpoint may do to that.
Moves(e, c) ==
  LET w == View(e, c)
      v == View(e, c)'
  IN  \/ v = w
      \/ \E n \in Nat : /\ w.xlimit + n <= XmitTotal[e][c]
                        /\ v = [w EXCEPT !.xlimit = w.xlimit + n]
      \/ \E n \in Nat : /\ w.granted + n <= RecvTotal[e][c]
                        /\ 2 * (w.granted + n - w.expected) < Wrap
                        /\ v = [w EXCEPT !.granted = w.granted + n]
      \/ /\ Len(w.armsOut) <= WireSize
         /\ \E x \in Tokens : /\ x.val = Int32(w.granted)
                              /\ v = [w EXCEPT !.armsOut = w.armsOut \o <<x>>]
      \/ \E x \in Tokens : /\ w.armsIn = <<x>> \o v.armsIn
                           /\ v = [w EXCEPT !.xarm = x.val, !.armsIn = v.armsIn]
      \/ /\ Len(w.seqsOut) <= WireSize
         /\ \E n \in Nat, x \in Tokens :
              /\ n <= Signed(w.xarm - w.xpos) /\ w.xpos + n <= w.xlimit
              /\ w.xlimit <= XmitTotal[e][c]
              /\ x.val = Int32(w.xpos) /\ x.size = n
              /\ v = [w EXCEPT !.xpos = w.xpos + n, !.seqsOut = w.seqsOut \o <<x>>]
      \/ \E x \in Tokens : /\ w.seqsIn = <<x>> \o v.seqsIn
                           /\ x.val = Int32(w.expected)
                           /\ v = [w EXCEPT !.expected = w.expected + x.size,
                                            !.seqsIn = v.seqsIn]

\* The greater one of two bounds.
LEMMA MaxOfTwo ==
  ASSUME NEW m \in Nat, NEW n \in Nat
  PROVE  Max({m, n}) \in Nat /\ m <= Max({m, n}) /\ n <= Max({m, n})
<1>1. \E x \in {m, n} : \A y \in {m, n} : x >= y
  OBVIOUS
<1>2. Max({m, n}) \in {m, n} /\ \A y \in {m, n} : Max({m, n}) >= y
  BY <1>1 DEF Max
<1> QED
  BY <1>2

\* What is seen of a sequence of packets when one is put behind it.
LEMMA SeenAppended ==
  ASSUME NEW s \in Seq(Tokens), NEW x \in Tokens, NEW p
  PROVE  /\ SeqsSeen(s \o <<x>>, p)
              = Append(SeqsSeen(s, p), [seq |-> Behind(p, x.val), size |-> x.size])
         /\ ArmsSeen(s \o <<x>>, p) = Append(ArmsSeen(s, p), Behind(p, x.val))
<1> DEFINE r == s \o <<x>>
<1>1. /\ r \in Seq(Tokens) /\ Len(r) = Len(s) + 1 /\ r[Len(s) + 1] = x
      /\ \A i \in 1 .. Len(s) : r[i] = s[i]
  OBVIOUS
<1> HIDE DEF r
<1> DEFINE f(y) == [seq |-> Behind(p, y.val), size |-> y.size]
           g(y) == Behind(p, y.val)
<1>2. [i \in 1 .. Len(r) |-> f(r[i])] = Append([i \in 1 .. Len(s) |-> f(s[i])], f(x))
  <2> HIDE DEF f
  <2> QED
    BY <1>1
<1>3. [i \in 1 .. Len(r) |-> g(r[i])] = Append([i \in 1 .. Len(s) |-> g(s[i])], g(x))
  <2> HIDE DEF g
  <2> QED
    BY <1>1
<1> QED
  BY <1>2, <1>3 DEF SeqsSeen, ArmsSeen, r

\* What is seen of a sequence of packets when the first one is taken off.
LEMMA SeenTaken ==
  ASSUME NEW s \in Seq(Tokens), NEW x \in Tokens, NEW p
  PROVE  /\ SeqsSeen(<<x>> \o s, p) # <<>> /\ ArmsSeen(<<x>> \o s, p) # <<>>
         /\ Head(SeqsSeen(<<x>> \o s, p)) = [seq |-> Behind(p, x.val), size |-> x.size]
         /\ Tail(SeqsSeen(<<x>> \o s, p)) = SeqsSeen(s, p)
         /\ Head(ArmsSeen(<<x>> \o s, p)) = Behind(p, x.val)
         /\ Tail(ArmsSeen(<<x>> \o s, p)) = ArmsSeen(s, p)
<1> DEFINE r == <<x>> \o s
<1>1. /\ r \in Seq(Tokens) /\ Len(r) = Len(s) + 1 /\ r[1] = x /\ Len(s) \in Nat
      /\ \A i \in 1 .. Len(s) : r[i + 1] = s[i]
  OBVIOUS
<1> HIDE DEF r
<1> DEFINE f(y) == [seq |-> Behind(p, y.val), size |-> y.size]
           g(y) == Behind(p, y.val)
           F == [i \in 1 .. Len(r) |-> f(r[i])]
           G == [i \in 1 .. Len(r) |-> g(r[i])]
<1>2. F # <<>> /\ Head(F) = f(x) /\ Tail(F) = [i \in 1 .. Len(s) |-> f(s[i])]
  <2> HIDE DEF f
  <2> QED
    BY <1>1
<1>3. G # <<>> /\ Head(G) = g(x) /\ Tail(G) = [i \in 1 .. Len(s) |-> g(s[i])]
  <2> HIDE DEF g
  <2> QED
    BY <1>1
<1> QED
  BY <1>2, <1>3 DEF SeqsSeen, ArmsSeen, r

\* What is seen are the packets of the mapping.
LEMMA SeenMapped ==
  ASSUME NEW e \in Peers, NEW c \in Channels
  PROVE  /\ SeqsOf(e, c) = SeqsSeen(InFlight(e, c, "SEQ"), chan[e][c].xpos)
         /\ ArmsOf(e, c) = ArmsSeen(InFlight(e, c, "ARM"), chan[e][c].rlimit)
         /\ SeqsOf(e, c)' = SeqsSeen(InFlight(e, c, "SEQ")', chan'[e][c].xpos)
         /\ ArmsOf(e, c)' = ArmsSeen(InFlight(e, c, "ARM")', chan'[e][c].rlimit)
BY DEF SeqsOf, ArmsOf, SeqsSeen, ArmsSeen, Behind, Int32

\* The packets in flight after a step.
LEMMA NextInFlight ==
  ASSUME TypeInv', NEW e \in Peers, NEW c, NEW t
  PROVE  InFlight(e, c, t)' \in Seq(Tokens)
<1>1. wire'[e] \in Seq(Tokens) /\ xmit'[e] \in XmitRecords
  BY DEF TypeInv, TypeOK
<1>2. xmit'[e].buffer \in Seq(Tokens)
  BY <1>1 DEF XmitRecords
<1> DEFINE S == wire'[e] \o xmit'[e].buffer
<1>3. S \in Seq(Tokens)
  BY <1>1, <1>2
<1> HIDE DEF S
<1>4. PacketsOf(S, t, c) \in Seq(Tokens)
  BY <1>3, PacketsTyped
<1> QED
  BY <1>4 DEF InFlight, S, PacketsOf

\* The packets of a stream are no more than the sequences of ChabuFlow hold.
LEMMA SeenLength ==
  ASSUME NEW s \in Seq(Tokens), NEW p
  PROVE  Len(SeqsSeen(s, p)) = Len(s) /\ Len(ArmsSeen(s, p)) = Len(s) /\ Len(s) \in Nat
<1>1. Len(s) \in Nat
  OBVIOUS
<1> QED
  BY <1>1 DEF SeqsSeen, ArmsSeen

\* A step of the sender of a stream is one of ChabuFlow.
LEMMA SenderSimulates ==
  ASSUME TypeInv, TypeInv', FrameInv, NEW e \in Peers, Acts(e), NEW c \in Channels, Moves(e, c)
  PROVE  [Stream(e, c)!Next]_(Stream(e, c)!flow)
<1> DEFINE o == Other(e)
           w == View(e, c)
           v == View(e, c)'
           R == Expects(e, c)
           P == w.xpos
           K == MayXmit(e, c)
           L == chan[o][c].rlimit
           M == Max({XmitTotal[e][c], RecvTotal[o][c]})
<1>0. o \in Peers /\ o # e /\ Other(o) = e
  BY TwoPeers
<1>1. /\ w.xlimit = chan[e][c].xlimit /\ w.xpos = chan[e][c].xpos /\ w.xarm = chan[e][c].xarm
      /\ w.seqsOut = InFlight(e, c, "SEQ") /\ w.armsIn = InFlight(o, c, "ARM")
      /\ v.xlimit = chan'[e][c].xlimit /\ v.xpos = chan'[e][c].xpos
      /\ v.xarm = chan'[e][c].xarm
      /\ v.seqsOut = InFlight(e, c, "SEQ")' /\ v.armsIn = InFlight(o, c, "ARM")'
  BY DEF View
<1>w. w = [xlimit |-> w.xlimit, xarm |-> w.xarm, xpos |-> w.xpos, granted |-> w.granted,
           expected |-> w.expected, seqsOut |-> w.seqsOut, armsOut |-> w.armsOut,
           seqsIn |-> w.seqsIn, armsIn |-> w.armsIn]
  BY DEF View
<1> HIDE DEF w, v
<1>2. chan'[o] = chan[o] /\ Expects(e, c)' = R
  <2>1. chan'[o] = chan[o] /\ recv'[o] = recv[o]
    BY <1>0, OtherUntouched DEF TypeInv
  <2> QED
    BY <2>1 DEF Expects, Due
<1>3. /\ SeqsOf(e, c) = SeqsSeen(w.seqsOut, w.xpos)
      /\ ArmsOf(o, c) = ArmsSeen(w.armsIn, L)
      /\ SeqsOf(e, c)' = SeqsSeen(v.seqsOut, v.xpos)
      /\ ArmsOf(o, c)' = ArmsSeen(v.armsIn, L)
  BY <1>0, <1>1, <1>2, SeenMapped
<1>4. /\ R \in Nat /\ P \in Nat /\ K \in Nat /\ L \in Nat
      /\ R <= P /\ P <= K /\ K <= L /\ 2 * (L - R) < Wrap
      /\ w.xarm = Int32(K) /\ K = P + Signed(w.xarm - P)
      /\ \A i \in 1 .. Len(w.seqsOut) :
           \E q \in Nat : R <= q /\ q <= P /\ w.seqsOut[i].val = Int32(q)
      /\ \A i \in 1 .. Len(w.armsIn) :
           \E q \in Nat : K <= q /\ q <= L /\ w.armsIn[i].val = Int32(q)
  <2>1. InCorridor(e, c)
    BY Corridor
  <2>2. K = P + Signed(w.xarm - P)
    BY <1>1 DEF MayXmit
  <2>3. /\ R \in Nat /\ P \in Nat /\ K \in Nat /\ L \in Nat
        /\ R <= P /\ P <= K /\ K <= L /\ 2 * (L - R) < Wrap /\ w.xarm = Int32(K)
    BY <1>1, <2>1 DEF InCorridor
  <2>4. \A i \in 1 .. Len(w.seqsOut) :
          \E q \in Nat : R <= q /\ q <= P /\ w.seqsOut[i].val = Int32(q)
    BY <1>1, <2>1, Zenon DEF InCorridor
  <2>5. \A i \in 1 .. Len(w.armsIn) :
          \E q \in Nat : K <= q /\ q <= L /\ w.armsIn[i].val = Int32(q)
    BY <1>1, <2>1, Zenon DEF InCorridor
  <2> QED
    BY <2>2, <2>3, <2>4, <2>5
<1>5. w.seqsOut \in Seq(Tokens) /\ w.armsIn \in Seq(Tokens) /\ w.xlimit \in Nat /\ Wrap \in Nat
  <2>1. chan \in [Peers -> [Channels -> ChanRecords]]
    BY DEF TypeInv, TypeOK
  <2>2. w.xlimit \in Nat
    BY <1>1, <2>1, ChanTyped
  <2>3. w.seqsOut \in Seq(Tokens) /\ w.armsIn \in Seq(Tokens)
    BY <1>0, <1>1, InFlightSent
  <2> QED
    BY <2>2, <2>3, SizesAssumption
<1>6. M \in Nat /\ XmitTotal[e][c] \in Nat /\ XmitTotal[e][c] <= M
  BY <1>0, AmountsAssumption, MaxOfTwo
<1>7. K' = v.xpos + Signed(v.xarm - v.xpos)
  BY <1>1 DEF MayXmit
<1>8. K = chan[e][c].xpos + Signed(chan[e][c].xarm - chan[e][c].xpos)
      /\ K' = chan'[e][c].xpos + Signed(chan'[e][c].xarm - chan'[e][c].xpos)
      /\ R = chan[o][c].rpos + Due(o, c)
      /\ R' = chan'[o][c].rpos + Due(o, c)'
  BY DEF MayXmit, Expects
\* The flow, as far as the sender moves it.
<1> DEFINE Goal == [Stream(e, c)!Next]_(Stream(e, c)!flow)
<1>9. ASSUME v.xlimit = w.xlimit, v.xpos = w.xpos, v.xarm = w.xarm, v.seqsOut = w.seqsOut,
             v.armsIn = w.armsIn
      PROVE  Goal
  <2>1. /\ chan'[e][c].xlimit = chan[e][c].xlimit /\ chan'[e][c].xpos = chan[e][c].xpos
        /\ K' = K /\ chan'[o][c].rlimit = chan[o][c].rlimit /\ R' = R
        /\ SeqsOf(e, c)' = SeqsOf(e, c) /\ ArmsOf(o, c)' = ArmsOf(o, c)
    BY <1>1, <1>2, <1>3, <1>4, <1>7, <1>9
  <2> HIDE DEF R, K
  <2> QED
    BY <1>8, <2>1 DEF Stream!flow
<1>10. ASSUME NEW n \in Nat, w.xlimit + n <= XmitTotal[e][c],
              v = [w EXCEPT !.xlimit = w.xlimit + n]
       PROVE  Goal
  <2>1. /\ v.xlimit = w.xlimit + n /\ v.xpos = w.xpos /\ v.xarm = w.xarm
        /\ v.seqsOut = w.seqsOut /\ v.armsIn = w.armsIn
    BY <1>w, <1>10
  <2>2. /\ chan'[e][c].xlimit \in chan[e][c].xlimit .. M
        /\ chan'[e][c].xpos = chan[e][c].xpos
        /\ K' = K /\ chan'[o][c].rlimit = chan[o][c].rlimit /\ R' = R
        /\ SeqsOf(e, c)' = SeqsOf(e, c) /\ ArmsOf(o, c)' = ArmsOf(o, c)
    <3>1. chan'[e][c].xlimit \in chan[e][c].xlimit .. M
      BY <1>1, <1>5, <1>6, <1>10, <2>1
    <3> QED
      BY <1>1, <1>2, <1>3, <1>4, <1>7, <2>1, <3>1
  <2> HIDE DEF R, K
  <2>3. Stream(e, c)!ExtendLimit
    BY <1>8, <2>2 DEF Stream!ExtendLimit
  <2> QED
    BY <2>3 DEF Stream!Next
<1>11. ASSUME NEW x \in Tokens, w.armsIn = <<x>> \o v.armsIn,
              v = [w EXCEPT !.xarm = x.val, !.armsIn = v.armsIn]
       PROVE  Goal
  <2>1. v.xlimit = w.xlimit /\ v.xpos = w.xpos /\ v.xarm = x.val /\ v.seqsOut = w.seqsOut
    BY <1>w, <1>11
  <2>2. v.armsIn \in Seq(Tokens)
    BY <1>0, <1>1, NextInFlight
  <2>3. 1 \in 1 .. Len(w.armsIn) /\ w.armsIn[1] = x
    BY <1>5, <1>11, <2>2
  <2>4. PICK q \in Nat : K <= q /\ q <= L /\ x.val = Int32(q)
    BY <1>4, <2>3
  <2>5. K' = q
    <3>1. P <= q /\ 2 * (q - P) < Wrap
      BY <1>4, <1>5, <2>4
    <3>2. Signed(Int32(q) - P) = q - P
      BY <1>4, <3>1, Difference
    <3> HIDE DEF K
    <3> QED
      BY <1>4, <1>7, <2>1, <2>4, <3>2
  <2>6. Behind(L, x.val) = q
    <3>1. L - q < Wrap
      BY <1>4, <1>5, <2>4
    <3> QED
      BY <1>4, <2>4, <3>1, PositionBehind
  <2>7. /\ ArmsOf(o, c) # <<>> /\ Head(ArmsOf(o, c)) = Behind(L, x.val)
        /\ Tail(ArmsOf(o, c)) = ArmsSeen(v.armsIn, L)
    <3> DEFINE s == v.armsIn
    <3>1. ArmsOf(o, c) = ArmsSeen(<<x>> \o s, L)
      BY <1>3, <1>11
    <3>2. s \in Seq(Tokens)
      BY <2>2
    <3> HIDE DEF s, L
    <3>3. /\ ArmsSeen(<<x>> \o s, L) # <<>> /\ Head(ArmsSeen(<<x>> \o s, L)) = Behind(L, x.val)
          /\ Tail(ArmsSeen(<<x>> \o s, L)) = ArmsSeen(s, L)
      BY <3>2, SeenTaken
    <3> QED
      BY <3>1, <3>3 DEF s
  <2>8. /\ chan'[e][c].xlimit = chan[e][c].xlimit /\ chan'[e][c].xpos = chan[e][c].xpos
        /\ chan'[o][c].rlimit = chan[o][c].rlimit /\ R' = R
        /\ SeqsOf(e, c)' = SeqsOf(e, c)
        /\ ArmsOf(o, c) # <<>> /\ K' = Head(ArmsOf(o, c))
        /\ ArmsOf(o, c)' = Tail(ArmsOf(o, c))
    BY <1>1, <1>2, <1>3, <2>1, <2>5, <2>6, <2>7
  <2> HIDE DEF R, K
  <2>9. Stream(e, c)!ReceiveArm
    BY <1>8, <2>8 DEF Stream!ReceiveArm
  <2> QED
    BY <2>9 DEF Stream!Next
<1>12. ASSUME Len(w.seqsOut) <= WireSize, NEW n \in Nat, NEW x \in Tokens,
              n <= Signed(w.xarm - w.xpos), w.xpos + n <= w.xlimit,
              w.xlimit <= XmitTotal[e][c], x.val = Int32(w.xpos), x.size = n,
              v = [w EXCEPT !.xpos = w.xpos + n, !.seqsOut = w.seqsOut \o <<x>>]
       PROVE  Goal
  <2> DEFINE s == w.seqsOut
             p == w.xpos + n
  <2>1. /\ v.xlimit = w.xlimit /\ v.xpos = p /\ v.xarm = w.xarm /\ v.seqsOut = s \o <<x>>
        /\ v.armsIn = w.armsIn
    BY <1>w, <1>12
  <2>2. p \in Nat /\ p <= K /\ p <= M /\ p - R < Wrap /\ P - R < Wrap /\ p - P < Wrap
    <3>1. p \in Nat /\ p <= M
      BY <1>4, <1>5, <1>6, <1>12
    <3>2. n <= K - P
      <4>1. Signed(w.xarm - P) \in Int
        <5>1. w.xarm \in Int
          BY <1>4, SizesAssumption DEF Int32
        <5>2. w.xarm - P \in Int
          BY <1>4, <5>1
        <5> QED
          BY <5>2, Conversions
      <4> HIDE DEF K
      <4> QED
        BY <1>4, <1>12, <4>1
    <3>3. R \in Nat /\ P \in Nat /\ K \in Nat /\ L \in Nat /\ Wrap \in Nat
          /\ R <= P /\ P <= K /\ K <= L /\ 2 * (L - R) < Wrap /\ p = P + n
      BY <1>4, <1>5
    <3> HIDE DEF K, R, P, L, M, p
    <3> QED
      BY <3>1, <3>2, <3>3
  <2>3. K' = K
    <3>1. K \in Nat /\ p <= K /\ 2 * (K - p) < Wrap
      <4>1. R \in Nat /\ P \in Nat /\ K \in Nat /\ L \in Nat /\ Wrap \in Nat
            /\ R <= P /\ K <= L /\ 2 * (L - R) < Wrap /\ p = P + n
        BY <1>4, <1>5
      <4> HIDE DEF K, R, P, L, p
      <4> QED
        BY <2>2, <4>1
    <3> HIDE DEF p, K
    <3>2. Signed(Int32(K) - p) = K - p
      BY <2>2, <3>1, Difference
    <3>3. K' = p + Signed(Int32(K) - p)
      BY <1>4, <1>7, <2>1
    <3> QED
      BY <2>2, <3>1, <3>2, <3>3
  <2>4. SeqsSeen(s, p) = SeqsSeen(s, P)
    <3>1. \A i \in 1 .. Len(s) :
            \E q \in Nat : R <= q /\ q <= P /\ q <= p /\ s[i].val = Int32(q)
      BY <1>4, <1>12
    <3>2. s \in Seq(Tokens) /\ R \in Nat /\ P \in Nat
      BY <1>4, <1>5
    <3> HIDE DEF s, p, R, P
    <3> QED
      BY <2>2, <3>1, <3>2, SeenFromNear
  <2>5. Behind(p, x.val) = P
    BY <1>4, <1>12, <2>2, PositionBehind
  <2>6. SeqsOf(e, c)' = Append(SeqsOf(e, c), [seq |-> P, size |-> p - P])
    <3>1. SeqsSeen(s \o <<x>>, p)
            = Append(SeqsSeen(s, p), [seq |-> Behind(p, x.val), size |-> x.size])
      BY <1>5, SeenAppended
    <3>2. x.size = p - P
      BY <1>4, <1>12
    <3> QED
      BY <1>3, <2>1, <2>4, <2>5, <3>1, <3>2
  <2>7. Len(SeqsOf(e, c)) < WireSize + 1
    <3>1. Len(SeqsOf(e, c)) = Len(s) /\ Len(s) \in Nat
      BY <1>3, <1>5, SeenLength
    <3> QED
      BY <1>12, <3>1, SizesAssumption
  <2>8. /\ chan'[e][c].xlimit = chan[e][c].xlimit /\ chan[e][c].xpos = P
        /\ chan'[e][c].xpos = p /\ p \in P .. M /\ p <= chan[e][c].xlimit
        /\ chan'[o][c].rlimit = chan[o][c].rlimit /\ ArmsOf(o, c)' = ArmsOf(o, c)
    <3>1. p \in P .. M
      BY <1>4, <1>6, <2>2
    <3>2. p <= chan[e][c].xlimit
      BY <1>1, <1>12
    <3> HIDE DEF p
    <3> QED
      BY <1>1, <1>2, <1>3, <2>1, <3>1, <3>2
  <2>n. R' = R
    BY <1>2
  <2> HIDE DEF R, K, P, p
  <2>9. /\ Len(SeqsOf(e, c)) < WireSize + 1 /\ p \in chan[e][c].xpos .. M
        /\ p <= chan[e][c].xlimit /\ p <= K
        /\ SeqsOf(e, c)' = Append(SeqsOf(e, c), [seq |-> chan[e][c].xpos,
                                               size |-> p - chan[e][c].xpos])
        /\ chan'[e][c].xpos = p /\ K' = K /\ R' = R
    <3>1. SeqsOf(e, c)' = Append(SeqsOf(e, c), [seq |-> chan[e][c].xpos,
                                                size |-> p - chan[e][c].xpos])
      <4>1. chan[e][c].xpos = P
        BY <2>8
      <4> QED
        BY <2>6, <4>1, Zenon
    <3> QED
      BY <2>2, <2>3, <2>7, <2>8, <2>n, <3>1
  <2>10. Stream(e, c)!SendSeq
    BY <1>8, <2>8, <2>9 DEF Stream!SendSeq
  <2> QED
    BY <2>10 DEF Stream!Next
<1> HIDE DEF Goal
<1>13. ASSUME \/ v = w
              \/ \E n : v = [w EXCEPT !.granted = n]
              \/ \E s : v = [w EXCEPT !.armsOut = s]
              \/ \E n, s : v = [w EXCEPT !.expected = n, !.seqsIn = s]
       PROVE  Goal
  BY <1>w, <1>9, <1>13
<1> QED
  BY <1>10, <1>11, <1>12, <1>13 DEF Moves, Goal, v, w

\* A step of the receiver of a stream is one of ChabuFlow.
LEMMA ReceiverSimulates ==
  ASSUME TypeInv, TypeInv', FrameInv, NEW e \in Peers, Acts(e), NEW c \in Channels, Moves(e, c)
  PROVE  [Stream(Other(e), c)!Next]_(Stream(Other(e), c)!flow)
<1> DEFINE o == Other(e)
           w == View(e, c)
           v == View(e, c)'
           P == chan[o][c].xpos
           K == MayXmit(o, c)
           L == w.granted
           R == w.expected
           M == Max({XmitTotal[o][c], RecvTotal[e][c]})
<1>0. o \in Peers /\ o # e /\ Other(o) = e
  BY TwoPeers
<1>1. /\ w.granted = chan[e][c].rlimit /\ v.granted = chan'[e][c].rlimit
      /\ w.expected = chan[e][c].rpos + Due(e, c)
      /\ v.expected = chan'[e][c].rpos + Due(e, c)'
      /\ w.seqsIn = InFlight(o, c, "SEQ") /\ w.armsOut = InFlight(e, c, "ARM")
      /\ v.seqsIn = InFlight(o, c, "SEQ")' /\ v.armsOut = InFlight(e, c, "ARM")'
  BY DEF View
<1>w. w = [xlimit |-> w.xlimit, xarm |-> w.xarm, xpos |-> w.xpos, granted |-> w.granted,
           expected |-> w.expected, seqsOut |-> w.seqsOut, armsOut |-> w.armsOut,
           seqsIn |-> w.seqsIn, armsIn |-> w.armsIn]
  BY DEF View
<1> HIDE DEF w, v
<1>2. chan'[o] = chan[o] /\ K' = K
  <2>1. chan'[o] = chan[o]
    BY <1>0, OtherUntouched DEF TypeInv
  <2> QED
    BY <2>1 DEF MayXmit
<1>3. /\ SeqsOf(o, c) = SeqsSeen(w.seqsIn, P)
      /\ ArmsOf(e, c) = ArmsSeen(w.armsOut, w.granted)
      /\ SeqsOf(o, c)' = SeqsSeen(v.seqsIn, P)
      /\ ArmsOf(e, c)' = ArmsSeen(v.armsOut, v.granted)
  BY <1>0, <1>1, <1>2, SeenMapped
<1>4. /\ R \in Nat /\ P \in Nat /\ K \in Nat /\ L \in Nat
      /\ R <= P /\ P <= K /\ K <= L /\ 2 * (L - R) < Wrap
      /\ \A i \in 1 .. Len(w.armsOut) :
           \E q \in Nat : K <= q /\ q <= L /\ w.armsOut[i].val = Int32(q)
  <2>1. InCorridor(o, c) /\ Expects(o, c) = R
    BY <1>0, <1>1, Corridor DEF Expects
  <2>2. /\ R \in Nat /\ P \in Nat /\ K \in Nat /\ L \in Nat
        /\ R <= P /\ P <= K /\ K <= L /\ 2 * (L - R) < Wrap
    BY <1>0, <1>1, <2>1 DEF InCorridor
  <2>3. \A i \in 1 .. Len(w.armsOut) :
          \E q \in Nat : K <= q /\ q <= L /\ w.armsOut[i].val = Int32(q)
    BY <1>0, <1>1, <2>1, Zenon DEF InCorridor
  <2> QED
    BY <2>2, <2>3
<1>5. w.armsOut \in Seq(Tokens) /\ w.seqsIn \in Seq(Tokens) /\ Wrap \in Nat
  BY <1>0, <1>1, InFlightSent, SizesAssumption
<1>6. M \in Nat /\ RecvTotal[e][c] \in Nat /\ RecvTotal[e][c] <= M
  BY <1>0, AmountsAssumption, MaxOfTwo
<1>8. /\ K = chan[o][c].xpos + Signed(chan[o][c].xarm - chan[o][c].xpos)
      /\ K' = chan'[o][c].xpos + Signed(chan'[o][c].xarm - chan'[o][c].xpos)
      /\ Other(o) = e
  BY <1>0 DEF MayXmit
\* The flow, as far as the receiver moves it.
<1> DEFINE Goal == [Stream(o, c)!Next]_(Stream(o, c)!flow)
<1>k. /\ chan'[o][c].xlimit = chan[o][c].xlimit /\ chan'[o][c].xpos = chan[o][c].xpos
      /\ K' = K
  BY <1>2
<1>9. ASSUME v.granted = w.granted, v.expected = w.expected, v.seqsIn = w.seqsIn,
             v.armsOut = w.armsOut
      PROVE  Goal
  <2>1. /\ chan'[e][c].rlimit = chan[e][c].rlimit
        /\ chan'[e][c].rpos + Due(e, c)' = chan[e][c].rpos + Due(e, c)
        /\ SeqsOf(o, c)' = SeqsOf(o, c) /\ ArmsOf(e, c)' = ArmsOf(e, c)
    BY <1>1, <1>3, <1>9
  <2> HIDE DEF K, o
  <2> QED
    BY <1>8, <1>k, <2>1 DEF Stream!flow
<1>10. ASSUME NEW n \in Nat, w.granted + n <= RecvTotal[e][c],
              2 * (w.granted + n - w.expected) < Wrap,
              v = [w EXCEPT !.granted = w.granted + n]
       PROVE  Goal
  <2> DEFINE s == w.armsOut
             p == w.granted + n
  <2>1. v.granted = p /\ v.expected = w.expected /\ v.seqsIn = w.seqsIn /\ v.armsOut = s
    BY <1>w, <1>10
  <2>2. p \in Nat /\ p - K < Wrap /\ L - K < Wrap /\ p \in L .. M /\ L <= p
    <3>1. p \in L .. M /\ L <= p
      <4> DEFINE N == RecvTotal[e][c]
      <4>1. p = L + n /\ p <= N
        BY <1>10
      <4>2. L \in Nat /\ M \in Nat /\ N \in Nat /\ N <= M
        BY <1>4, <1>6
      <4> HIDE DEF p, L, M, N
      <4> QED
        BY <4>1, <4>2
    <3>2. R \in Nat /\ P \in Nat /\ K \in Nat /\ L \in Nat /\ Wrap \in Nat
          /\ R <= P /\ P <= K /\ K <= L /\ 2 * (p - R) < Wrap /\ p = L + n
      BY <1>4, <1>5, <1>10
    <3> HIDE DEF K, R, P, L, M, p
    <3> QED
      BY <3>1, <3>2
  <2>3. ArmsSeen(s, p) = ArmsSeen(s, L)
    <3>1. \A i \in 1 .. Len(s) :
            \E q \in Nat : K <= q /\ q <= L /\ q <= p /\ s[i].val = Int32(q)
      <4>1. \A i \in 1 .. Len(s) : \E q \in Nat : K <= q /\ q <= L /\ s[i].val = Int32(q)
        BY <1>4
      <4>2. \A q \in Nat : q <= L => q <= p
        BY <1>4, <2>2
      <4> HIDE DEF s, p, K, L
      <4> QED
        BY <4>1, <4>2
    <3>2. s \in Seq(Tokens) /\ K \in Nat /\ L \in Nat
      BY <1>4, <1>5
    <3> HIDE DEF s, p, K, L
    <3> QED
      BY <2>2, <3>1, <3>2, SeenFromNear
  <2>4. /\ chan'[e][c].rlimit \in chan[e][c].rlimit .. M
        /\ chan'[e][c].rpos + Due(e, c)' = chan[e][c].rpos + Due(e, c)
        /\ SeqsOf(o, c)' = SeqsOf(o, c) /\ ArmsOf(e, c)' = ArmsOf(e, c)
    BY <1>1, <1>3, <2>1, <2>2, <2>3
  <2> HIDE DEF K, o
  <2>5. Stream(o, c)!Grant
    BY <1>8, <1>k, <2>4 DEF Stream!Grant
  <2> QED
    BY <2>5 DEF Stream!Next
<1>11. ASSUME Len(w.armsOut) <= WireSize, NEW x \in Tokens, x.val = Int32(w.granted),
              v = [w EXCEPT !.armsOut = w.armsOut \o <<x>>]
       PROVE  Goal
  <2> DEFINE s == w.armsOut
  <2>1. v.granted = L /\ v.expected = w.expected /\ v.seqsIn = w.seqsIn
        /\ v.armsOut = s \o <<x>>
    BY <1>w, <1>11
  <2>2. Behind(L, x.val) = L
    <3>1. L \in Nat /\ L <= L /\ L - L < Wrap /\ x.val = Int32(L)
      BY <1>4, <1>11, SizesAssumption
    <3> HIDE DEF L
    <3> QED
      BY <3>1, PositionBehind
  <2>3. ArmsOf(e, c)' = Append(ArmsOf(e, c), L)
    <3>1. ArmsSeen(s \o <<x>>, L) = Append(ArmsSeen(s, L), Behind(L, x.val))
      BY <1>5, SeenAppended
    <3> QED
      BY <1>3, <2>1, <2>2, <3>1
  <2>4. Len(ArmsOf(e, c)) < WireSize + 1
    <3>1. Len(ArmsOf(e, c)) = Len(s) /\ Len(s) \in Nat
      BY <1>3, <1>5, SeenLength
    <3> QED
      BY <1>11, <3>1, SizesAssumption
  <2>5. /\ chan'[e][c].rlimit = chan[e][c].rlimit
        /\ chan'[e][c].rpos + Due(e, c)' = chan[e][c].rpos + Due(e, c)
        /\ SeqsOf(o, c)' = SeqsOf(o, c) /\ Len(ArmsOf(e, c)) < WireSize + 1
        /\ ArmsOf(e, c)' = Append(ArmsOf(e, c), chan[e][c].rlimit)
    BY <1>1, <1>3, <2>1, <2>3, <2>4
  <2> HIDE DEF K, o
  <2>6. Stream(o, c)!SendArm
    BY <1>8, <1>k, <2>5 DEF Stream!SendArm
  <2> QED
    BY <2>6 DEF Stream!Next
<1>12. ASSUME NEW x \in Tokens, w.seqsIn = <<x>> \o v.seqsIn, x.val = Int32(w.expected),
              v = [w EXCEPT !.expected = w.expected + x.size, !.seqsIn = v.seqsIn]
       PROVE  Goal
  <2> DEFINE s == v.seqsIn
  <2>1. v.granted = L /\ v.expected = w.expected + x.size /\ v.armsOut = w.armsOut
    BY <1>w, <1>12
  <2>2. s \in Seq(Tokens)
    BY <1>0, <1>1, NextInFlight
  <2>3. Behind(P, x.val) = R
    <3>1. P - R < Wrap
      <4>1. R \in Nat /\ P \in Nat /\ K \in Nat /\ L \in Nat /\ Wrap \in Nat
            /\ R <= P /\ P <= K /\ K <= L /\ 2 * (L - R) < Wrap
        BY <1>4, <1>5
      <4> HIDE DEF R, P, K, L
      <4> QED
        BY <4>1
    <3> QED
      BY <1>4, <1>12, <3>1, PositionBehind
  <2>4. /\ SeqsOf(o, c) # <<>> /\ Head(SeqsOf(o, c)) = [seq |-> R, size |-> x.size]
        /\ SeqsOf(o, c)' = Tail(SeqsOf(o, c))
    <3>1. SeqsOf(o, c) = SeqsSeen(<<x>> \o s, P) /\ SeqsOf(o, c)' = SeqsSeen(s, P)
      BY <1>3, <1>12
    <3> HIDE DEF s, P
    <3>3. /\ SeqsSeen(<<x>> \o s, P) # <<>>
          /\ Head(SeqsSeen(<<x>> \o s, P)) = [seq |-> Behind(P, x.val), size |-> x.size]
          /\ Tail(SeqsSeen(<<x>> \o s, P)) = SeqsSeen(s, P)
      BY <2>2, SeenTaken
    <3> QED
      BY <2>3, <3>1, <3>3
  <2>5. /\ chan'[e][c].rlimit = chan[e][c].rlimit /\ SeqsOf(o, c) # <<>>
        /\ Head(SeqsOf(o, c)).seq = chan[e][c].rpos + Due(e, c)
        /\ chan'[e][c].rpos + Due(e, c)'
             = (chan[e][c].rpos + Due(e, c)) + Head(SeqsOf(o, c)).size
        /\ SeqsOf(o, c)' = Tail(SeqsOf(o, c)) /\ ArmsOf(e, c)' = ArmsOf(e, c)
    BY <1>1, <1>3, <2>1, <2>4
  <2> HIDE DEF K, o
  <2>6. Stream(o, c)!ReceiveSeq
    BY <1>8, <1>k, <2>5 DEF Stream!ReceiveSeq
  <2> QED
    BY <2>6 DEF Stream!Next
<1> HIDE DEF Goal
<1>13. ASSUME \/ v = w
              \/ \E n : v = [w EXCEPT !.xlimit = n]
              \/ \E n, s : v = [w EXCEPT !.xarm = n, !.armsIn = s]
              \/ \E n, s : v = [w EXCEPT !.xpos = n, !.seqsOut = s]
       PROVE  Goal
  BY <1>w, <1>9, <1>13
<1>14. Goal
  BY <1>10, <1>11, <1>12, <1>13 DEF Moves, v, w
<1> QED
  BY <1>14 DEF Goal

-----------------------------------------------------------------------------
(* What becomes of the packets in flight.                                  *)

\* As long as a body is due, units of it come.
LEMMA BodyUnits ==
  ASSUME NEW S \in Seq(Tokens), NEW a \in Places, NEW b, Parses(S, a, b), Len(S) <= a.due,
         NEW i \in 1 .. Len(S)
  PROVE  S[i].type \in {"DATA", "PAD"}
<1>0. i - 1 \in 0 .. Len(S)
  OBVIOUS
<1>1. PICK m, k \in Places : Parses(SubSeq(S, 1, i - 1), a, m) /\ Leads(m, S[i], k)
  BY ParsesAt
<1> DEFINE P == SubSeq(S, 1, i - 1)
<1>2. P \in Seq(Tokens) /\ Len(P) = i - 1
  BY <1>0, PieceTyped
<1>3. Len(P) <= a.due /\ a.due - Len(P) > 0
  BY <1>2 DEF Places
<1> HIDE DEF P
<1>4. m = Place(a.phase, a.due - Len(P), a.pos, a.credit)
  BY <1>1, <1>2, <1>3, ParsesBody DEF P
<1>5. m.due > 0
  BY <1>3, <1>4 DEF Place
<1> QED
  BY <1>1, <1>5 DEF Leads

\* Units are not packets of a stream.
LEMMA UnitsAside ==
  ASSUME NEW S \in Seq(Tokens), \A i \in 1 .. Len(S) : S[i].type \in {"DATA", "PAD"},
         NEW c, NEW t \in {"SEQ", "ARM"}
  PROVE  PacketsOf(S, t, c) = <<>>
<1>1. \A i \in 1 .. Len(S) : S[i].type # t \/ S[i].ch # c
  OBVIOUS
<1> QED
  BY <1>1, PacketsNone

\* What a sender does to the packets in flight: nothing, if it leaves its
\* buffer and the transport alone.
LEMMA FlightKept ==
  ASSUME NEW e \in Peers, wire'[e] = wire[e], xmit'[e].buffer = xmit[e].buffer, NEW c, NEW t
  PROVE  InFlight(e, c, t)' = InFlight(e, c, t)
BY DEF InFlight, PacketsOf

\* A packet that is prepared is one more.
LEMMA FlightPrepared ==
  ASSUME TypeInv, NEW e \in Peers, NEW x \in Tokens, wire'[e] = wire[e],
         xmit[e].buffer = <<>>, xmit'[e].buffer = <<x>>, NEW c, NEW t
  PROVE  InFlight(e, c, t)' = InFlight(e, c, t) \o Bit(x, t, c)
<1> DEFINE w == wire[e]
           s == <<x>>
<1>1. w \in Seq(Tokens) /\ s \in Seq(Tokens)
  BY SentTyped
<1>2. InFlight(e, c, t) = PacketsOf(w, t, c)
  <2>1. w \o <<>> = w
    BY <1>1, ConcatEmptySeq
  <2> QED
    BY <2>1 DEF InFlight
<1>3. InFlight(e, c, t)' = PacketsOf(w \o s, t, c)
  BY DEF InFlight, PacketsOf
<1>4. PacketsOf(s, t, c) = Bit(x, t, c)
  BY PacketsFew
<1> HIDE DEF w, s
<1>5. PacketsOf(w \o s, t, c) = PacketsOf(w, t, c) \o PacketsOf(s, t, c)
  BY <1>1, PacketsConcat
<1> QED
  BY <1>2, <1>3, <1>4, <1>5

\* The buffer that is sent stays in flight.
LEMMA FlightSent ==
  ASSUME TypeInv, NEW e \in Peers, wire'[e] = wire[e] \o xmit[e].buffer,
         xmit'[e].buffer = <<>>, NEW c, NEW t
  PROVE  InFlight(e, c, t)' = InFlight(e, c, t)
<1> DEFINE w == wire[e] \o xmit[e].buffer
<1>1. w \in Seq(Tokens)
  BY SentTyped, ConcatProperties
<1>2. w \o <<>> = w
  <2> HIDE DEF w
  <2> QED
    BY <1>1, ConcatEmptySeq
<1>3. wire'[e] \o xmit'[e].buffer = wire[e] \o xmit[e].buffer
  BY <1>2
<1> QED
  BY <1>3 DEF InFlight, PacketsOf

\* Units that are sent add no packet.
LEMMA FlightOfUnits ==
  ASSUME TypeInv, NEW e \in Peers, NEW d \in Seq(Tokens), wire'[e] = wire[e] \o d,
         xmit[e].buffer = <<>>, xmit'[e].buffer = <<>>,
         \A i \in 1 .. Len(d) : d[i].type \in {"DATA", "PAD"}, NEW c, NEW t \in {"SEQ", "ARM"}
  PROVE  InFlight(e, c, t)' = InFlight(e, c, t)
<1> DEFINE w == wire[e]
           x == w \o d
<1>1. w \in Seq(Tokens) /\ x \in Seq(Tokens)
  BY SentTyped, ConcatProperties
<1>2. InFlight(e, c, t) = PacketsOf(w, t, c)
  <2>1. w \o <<>> = w
    BY <1>1, ConcatEmptySeq
  <2> QED
    BY <2>1 DEF InFlight
<1>3. InFlight(e, c, t)' = PacketsOf(x, t, c)
  <2>1. x \o <<>> = x
    <3> HIDE DEF x
    <3> QED
      BY <1>1, ConcatEmptySeq
  <2>2. wire'[e] \o xmit'[e].buffer = x
    BY <2>1
  <2> HIDE DEF x
  <2> QED
    BY <2>2 DEF InFlight, PacketsOf
<1>4. PacketsOf(d, t, c) = <<>>
  BY UnitsAside
<1>5. PacketsOf(w, t, c) \in Seq(Tokens)
  BY <1>1, PacketsTyped
<1>6. PacketsOf(x, t, c) = PacketsOf(w, t, c) \o PacketsOf(d, t, c)
  <2>1. w \in Seq(Tokens) /\ d \in Seq(Tokens)
    BY <1>1
  <2> HIDE DEF w
  <2> QED
    BY <2>1, PacketsConcat
<1>7. PacketsOf(w, t, c) \o <<>> = PacketsOf(w, t, c)
  BY <1>5, ConcatEmptySeq
<1> QED
  BY <1>2, <1>3, <1>4, <1>6, <1>7

\* The packets among the tokens that the receiver takes were the first ones.
LEMMA FlightTaken ==
  ASSUME TypeInv, NEW e \in Peers, NEW n \in 0 .. Len(wire[e]),
         wire'[e] = SubSeq(wire[e], n + 1, Len(wire[e])),
         xmit'[e].buffer = xmit[e].buffer, NEW c, NEW t
  PROVE  InFlight(e, c, t)
           = PacketsOf(SubSeq(wire[e], 1, n), t, c) \o InFlight(e, c, t)'
<1> DEFINE w == wire[e]
           b == xmit[e].buffer
           P == SubSeq(w, 1, n)
           Q == SubSeq(w, n + 1, Len(w))
<1>1. w \in Seq(Tokens) /\ b \in Seq(Tokens)
  BY SentTyped
<1>2. P \in Seq(Tokens) /\ Q \in Seq(Tokens) /\ w = P \o Q
  BY <1>1, PieceTyped
<1>3. InFlight(e, c, t)' = PacketsOf(Q \o b, t, c)
  BY DEF InFlight, PacketsOf
<1>4. InFlight(e, c, t) = PacketsOf((P \o Q) \o b, t, c)
  BY <1>2 DEF InFlight
<1> HIDE DEF P, Q, b, w
<1>5. (P \o Q) \o b = P \o (Q \o b)
  BY <1>1, <1>2, TokensAssociate
<1>6. Q \o b \in Seq(Tokens)
  BY <1>1, <1>2, ConcatProperties
<1>7. PacketsOf(P \o (Q \o b), t, c) = PacketsOf(P, t, c) \o PacketsOf(Q \o b, t, c)
  <2> DEFINE z == Q \o b
  <2>1. P \in Seq(Tokens) /\ z \in Seq(Tokens)
    BY <1>2, <1>6
  <2> HIDE DEF z
  <2>2. PacketsOf(P \o z, t, c) = PacketsOf(P, t, c) \o PacketsOf(z, t, c)
    BY <2>1, PacketsConcat
  <2> QED
    BY <2>2 DEF z
<1> QED
  BY <1>3, <1>4, <1>5, <1>7 DEF P, w

\* Taking units takes no packet.
LEMMA FlightPastUnits ==
  ASSUME TypeInv, TypeInv', NEW e \in Peers, NEW n \in 0 .. Len(wire[e]),
         wire'[e] = SubSeq(wire[e], n + 1, Len(wire[e])),
         xmit'[e].buffer = xmit[e].buffer, NEW c, NEW t \in {"SEQ", "ARM"},
         \A i \in 1 .. n : wire[e][i].type \in {"DATA", "PAD"}
  PROVE  InFlight(e, c, t)' = InFlight(e, c, t)
<1> DEFINE P == SubSeq(wire[e], 1, n)
           z == InFlight(e, c, t)'
<1>1. P \in Seq(Tokens) /\ \A i \in 1 .. Len(P) : P[i].type \in {"DATA", "PAD"}
  <2>1. wire[e] \in Seq(Tokens)
    BY SentTyped
  <2>2. P \in Seq(Tokens) /\ Len(P) = n /\ \A i \in 1 .. n : P[i] = wire[e][i]
    BY <2>1, PieceTyped
  <2> HIDE DEF P
  <2> QED
    BY <2>2
<1> HIDE DEF P
<1>2. PacketsOf(P, t, c) = <<>>
  BY <1>1, UnitsAside
<1>3. InFlight(e, c, t) = PacketsOf(P, t, c) \o z
  BY FlightTaken DEF P
<1>4. z \in Seq(Tokens)
  BY NextInFlight
<1> HIDE DEF z
<1>5. <<>> \o z = z
  BY <1>4, ConcatEmptySeq
<1> QED
  BY <1>2, <1>3, <1>5 DEF z

\* Taking a header takes the packet, if it is one of this stream.
LEMMA FlightPastHeader ==
  ASSUME TypeInv, NEW e \in Peers, wire[e] # <<>>, wire'[e] = SubSeq(wire[e], 2, Len(wire[e])),
         xmit'[e].buffer = xmit[e].buffer, NEW c, NEW t
  PROVE  InFlight(e, c, t) = Bit(Head(wire[e]), t, c) \o InFlight(e, c, t)'
<1> DEFINE w == wire[e]
           h == Head(w)
           P == SubSeq(w, 1, 1)
<1>1. w \in Seq(Tokens) /\ w # <<>>
  BY SentTyped
<1>2. 1 \in 0 .. Len(w) /\ h = w[1] /\ h \in Tokens
  BY <1>1
<1>3. P \in Seq(Tokens) /\ Len(P) = 1 /\ P[1] = w[1]
  BY <1>1, <1>2, PieceTyped
<1>4. P = <<h>>
  <2> DEFINE y == <<h>>
  <2>1. y \in Seq(Tokens) /\ Len(y) = 1 /\ y[1] = h
    BY <1>2
  <2> HIDE DEF P, y
  <2>2. \A i \in 1 .. Len(P) : P[i] = y[i]
    BY <1>2, <1>3, <2>1
  <2>3. P = y
    BY <1>3, <2>1, <2>2, SeqEqual
  <2> QED
    BY <2>3 DEF y
<1>5. PacketsOf(<<h>>, t, c) = Bit(h, t, c)
  BY PacketsFew
<1>6. wire'[e] = SubSeq(w, 1 + 1, Len(w))
  OBVIOUS
<1>7. InFlight(e, c, t) = PacketsOf(P, t, c) \o InFlight(e, c, t)'
  BY <1>2, <1>6, FlightTaken
<1> HIDE DEF P, h
<1> QED
  BY <1>4, <1>5, <1>7 DEF h

-----------------------------------------------------------------------------
(* The steps of an endpoint, as far as the streams see them.               *)

\* The positions and limits that ChabuFlow sees stay as they are.
StaysPut(e) ==
  \A c \in Channels :
    /\ chan'[e][c].xpos = chan[e][c].xpos /\ chan'[e][c].xarm = chan[e][c].xarm
    /\ chan'[e][c].xlimit = chan[e][c].xlimit
    /\ chan'[e][c].rpos = chan[e][c].rpos /\ chan'[e][c].rlimit = chan[e][c].rlimit

\* The xmitter sends the prepared packet, or units of a body, or prepares a
\* packet, or does none of that.
Rests(e) ==
  /\ wire'[e] = wire[e] /\ xmit'[e].buffer = xmit[e].buffer /\ xmit'[e].body = xmit[e].body
  /\ StaysPut(e)

SendsBuffer(e) ==
  /\ Len(wire[e]) < WireSize
  /\ wire'[e] = wire[e] \o xmit[e].buffer
  /\ xmit'[e].buffer = <<>> /\ xmit'[e].body = xmit[e].body
  /\ StaysPut(e)

SendsUnits(e) ==
  /\ xmit[e].buffer = <<>> /\ xmit'[e].buffer = <<>>
  /\ \E n \in 0 .. Len(xmit[e].body) :
       /\ n = 0 \/ Len(wire[e]) + n <= WireSize
       /\ wire'[e] = wire[e] \o SubSeq(xmit[e].body, 1, n)
       /\ xmit'[e].body = SubSeq(xmit[e].body, n + 1, Len(xmit[e].body))
  /\ StaysPut(e)

Prepares(e) ==
  /\ xmit[e].buffer = <<>> /\ wire'[e] = wire[e] /\ xmit'[e].body = xmit[e].body
  /\ \E x \in Tokens :
       /\ xmit'[e].buffer = <<x>>
       /\ x.type # "SEQ"
       /\ x.type = "ARM" => x.ch \in Channels /\ x.val = Int32(chan[e][x.ch].rlimit)
  /\ StaysPut(e)

PreparesSeq(e) ==
  /\ xmit[e].buffer = <<>> /\ wire'[e] = wire[e]
  /\ \A i \in 1 .. Len(xmit'[e].body) : xmit'[e].body[i].type \in {"DATA", "PAD"}
  /\ \E c \in Channels, n \in Nat, x \in Tokens :
       /\ xmit'[e].buffer = <<x>>
       /\ x.type = "SEQ" /\ x.ch = c /\ x.val = Int32(chan[e][c].xpos) /\ x.size = n
       /\ n <= Signed(chan[e][c].xarm - chan[e][c].xpos)
       /\ chan[e][c].xpos + n <= chan[e][c].xlimit
       /\ chan' = [chan EXCEPT ![e][c].xpos = chan[e][c].xpos + n]

\* How much ByteChannel.write takes.
LEMMA TakesFit ==
  ASSUME TypeInv, NEW e \in Peers, NEW m \in Nat, NEW n \in Takes(e, m)
  PROVE  n \in 0 .. m /\ (n = 0 \/ Len(wire[e]) + n <= WireSize)
<1>1. n \in 0 .. m
  BY TakesSome
<1>2. Len(wire[e]) \in Nat /\ WireSize \in Nat /\ Room(e) = WireSize - Len(wire[e])
  BY SentTyped, SizesAssumption DEF Room
<1>3. Room(e) # 0 => n <= Room(e)
  <2>1. m \in Int /\ Room(e) \in Int
    BY <1>2
  <2>2. Min({m, Room(e)}) \in Int /\ Min({m, Room(e)}) <= Room(e)
    BY <2>1, MinOfTwo, Zenon
  <2> QED
    BY <1>1, <1>2, <2>2 DEF Takes
<1> QED
  BY <1>1, <1>2, <1>3 DEF Takes

\* The units of a new body.
LEMMA BodyOfUnits ==
  ASSUME NEW n \in Nat, NEW m \in Nat
  PROVE  \A i \in 1 .. Len(Units("DATA", n) \o Units("PAD", m)) :
           (Units("DATA", n) \o Units("PAD", m))[i].type \in {"DATA", "PAD"}
<1> DEFINE A == Units("DATA", n)
           B == Units("PAD", m)
<1>1. /\ A \in Seq(Addressed) /\ Len(A) = n /\ \A i \in 1 .. n : A[i].type = "DATA"
      /\ B \in Seq(Addressed) /\ Len(B) = m /\ \A i \in 1 .. m : B[i].type = "PAD"
  BY UnitsTyped
<1> HIDE DEF A, B
<1>2. /\ Len(A \o B) = n + m
      /\ \A i \in 1 .. n + m : (A \o B)[i] = IF i <= n THEN A[i] ELSE B[i - n]
  BY <1>1, ConcatProperties
<1>3. ASSUME NEW i \in 1 .. Len(A \o B) PROVE (A \o B)[i].type \in {"DATA", "PAD"}
  <2>1. i \in 1 .. n + m
    BY <1>2
  <2>2. CASE i <= n
    BY <1>1, <1>2, <2>1, <2>2
  <2>3. CASE i > n
    <3>1. i - n \in 1 .. m /\ (A \o B)[i] = B[i - n]
      BY <1>2, <2>1, <2>3
    <3> QED
      BY <1>1, <3>1
  <2> QED
    BY <2>1, <2>2, <2>3
<1> QED
  BY <1>3 DEF A, B

\* So much an xmitter does.
LEMMA WritesAre ==
  ASSUME TypeInv, NEW e \in Peers, Writes(e), Len(wire[e]) <= WireSize
  PROVE  /\ UNCHANGED recv /\ wire'[Other(e)] = wire[Other(e)]
         /\ Rests(e) \/ SendsBuffer(e) \/ SendsUnits(e) \/ Prepares(e) \/ PreparesSeq(e)
<1> DEFINE o == Other(e)
           x == xmit[e]
           Done == Rests(e) \/ SendsBuffer(e) \/ SendsUnits(e) \/ Prepares(e) \/ PreparesSeq(e)
<1>0. /\ o \in Peers /\ o # e /\ wire \in [Peers -> Seq(Tokens)] /\ xmit \in [Peers -> XmitRecords]
      /\ chan \in [Peers -> [Channels -> ChanRecords]] /\ data \in [Peers -> Priorizers]
      /\ EndOK(e) /\ x \in XmitRecords /\ x.buffer \in Seq(Tokens) /\ x.body \in Seq(Tokens)
      /\ Len(wire[e]) \in Nat /\ WireSize \in Nat
  BY TwoPeers, SentTyped, SizesAssumption DEF TypeInv, TypeOK
<1>1. UNCHANGED recv
  BY DEF Writes, RemainingXmitBuf, RemainingSeq, EvalAbort, EvalAccept, EvalChannelCtrl,
     ClearArmFlag, ReadRecvArm, EvalChannelData, xmitEnd
<1>2. wire'[o] = wire[o]
  <2>1. wire' = wire \/ \E s : wire' = [wire EXCEPT ![e] = @ \o s]
    BY DEF Writes, RemainingXmitBuf, RemainingSeq, EvalAbort, EvalAccept, EvalChannelCtrl,
       ClearArmFlag, ReadRecvArm, EvalChannelData, xmitEnd, Send
  <2> HIDE DEF o
  <2> QED
    BY <1>0, <2>1
<1>3. ASSUME UNCHANGED chan PROVE StaysPut(e)
  BY <1>3 DEF StaysPut
<1>s. SUFFICES Done
  BY <1>1, <1>2
<1>4. CASE RemainingXmitBuf(e)
  <2>1. UNCHANGED chan
    BY <1>4 DEF RemainingXmitBuf
  <2>2. CASE UNCHANGED <<xmit, wire>>
    BY <1>3, <2>1, <2>2 DEF Rests
  <2>3. CASE Room(e) # 0
    <3>1. Send(e, x.buffer)
      BY <1>4, <2>3 DEF RemainingXmitBuf
    <3>2. xmit'[e].buffer = <<>> /\ xmit'[e].body = x.body
      BY <1>0, <1>4, <2>3 DEF RemainingXmitBuf, XmitRecords
    <3>3. wire'[e] = wire[e] \o x.buffer
      BY <1>0, <3>1 DEF Send
    <3>4. Len(wire[e]) < WireSize
      BY <1>0, <2>3 DEF Room
    <3> QED
      BY <1>3, <2>1, <3>2, <3>3, <3>4 DEF SendsBuffer
  <2> QED
    BY <1>4, <2>2, <2>3 DEF RemainingXmitBuf
<1>5. CASE RemainingSeq(e)
  <2> DEFINE body == x.body
  <2>1. PICK n \in Takes(e, Len(body)) :
          /\ wire' = [wire EXCEPT ![e] = @ \o SubSeq(body, 1, n)]
          /\ xmit' = [xmit EXCEPT ![e].body = SubSeq(@, n + 1, Len(@)),
                                  ![e].ch = IF n < Len(body) THEN @ ELSE None]
    BY <1>5, Zenon DEF RemainingSeq, Send
  <2>2. x.buffer = <<>> /\ UNCHANGED chan
    BY <1>0, <1>5 DEF RemainingSeq, EndOK, Control
  <2>3. n \in 0 .. Len(body) /\ (n = 0 \/ Len(wire[e]) + n <= WireSize)
    BY <1>0, TakesFit
  <2>4. xmit'[e].buffer = x.buffer /\ xmit'[e].body = SubSeq(body, n + 1, Len(body))
    BY <1>0, <2>1 DEF XmitRecords
  <2>5. wire'[e] = wire[e] \o SubSeq(body, 1, n)
    BY <1>0, <2>1
  <2> QED
    BY <1>3, <2>2, <2>3, <2>4, <2>5 DEF SendsUnits
<1>6. ASSUME UNCHANGED <<chan, wire>>, x.buffer = <<>>, NEW t \in Tokens,
             xmit'[e].buffer = <<t>>, xmit'[e].body = x.body,
             t.type # "SEQ", t.type = "ARM" => t.ch \in Channels /\ t.val = Int32(chan[e][t.ch].rlimit)
      PROVE  Prepares(e)
  BY <1>3, <1>6 DEF Prepares
<1>7. /\ Packet("ABORT") \in Tokens /\ Packet("ABORT").type = "ABORT"
      /\ Packet("ACCEPT") \in Tokens /\ Packet("ACCEPT").type = "ACCEPT"
  BY PacketsAddressed DEF Addressed, Packet, Token
<1>8. CASE EvalAbort(e)
  <2>1. x.buffer = <<>> /\ UNCHANGED <<chan, wire>>
    BY <1>0, <1>8 DEF EvalAbort, EndOK, Control
  <2>2. xmit'[e].buffer = <<Packet("ABORT")>> /\ xmit'[e].body = x.body
    BY <1>0, <1>8 DEF EvalAbort, Prepare, XmitRecords
  <2> QED
    BY <1>6, <1>7, <2>1, <2>2
<1>9. CASE EvalAccept(e)
  <2>1. x.buffer = <<>> /\ UNCHANGED <<chan, wire>>
    BY <1>0, <1>9 DEF EvalAccept, EndOK, Control
  <2>2. CASE xmit' = [xmit EXCEPT ![e].accepted = "prepared", ![e].buffer = <<Packet("ACCEPT")>>]
    <3>1. xmit'[e].buffer = <<Packet("ACCEPT")>> /\ xmit'[e].body = x.body
      BY <1>0, <2>2 DEF XmitRecords
    <3> QED
      BY <1>6, <1>7, <2>1, <3>1
  <2>3. CASE UNCHANGED xmit \/ xmit' = [xmit EXCEPT ![e].phase = "normal"]
    <3>1. xmit'[e].buffer = x.buffer /\ xmit'[e].body = x.body
      BY <1>0, <2>3 DEF XmitRecords
    <3> QED
      BY <1>3, <2>1, <3>1 DEF Rests
  <2> QED
    BY <1>9, <2>2, <2>3 DEF EvalAccept
<1>10. CASE EvalChannelCtrl(e)
  <2>1. UNCHANGED <<chan, wire>>
    BY <1>10 DEF EvalChannelCtrl
  <2>2. xmit' = [xmit EXCEPT ![e].ch = Popped(ctrl[e])] \/ UNCHANGED xmit
    BY <1>10 DEF EvalChannelCtrl
  <2>3. xmit'[e].buffer = x.buffer /\ xmit'[e].body = x.body
    BY <1>0, <2>2 DEF XmitRecords
  <2> QED
    BY <1>3, <2>1, <2>3 DEF Rests
<1>11. CASE ClearArmFlag(e)
  <2> DEFINE d == x.ch
  <2>1. /\ UNCHANGED wire /\ chan' = [chan EXCEPT ![e][d].armFlag = FALSE]
        /\ xmit' = [xmit EXCEPT ![e].ch = IF "read" \in net[e].todo THEN @ ELSE None]
    BY <1>11 DEF ClearArmFlag
  <2>2. xmit'[e].buffer = x.buffer /\ xmit'[e].body = x.body
    BY <1>0, <2>1 DEF XmitRecords
  <2>3. d \in Channels
    BY <1>0, <1>11 DEF ClearArmFlag, EndOK, Control
  <2>4. StaysPut(e)
    <3> HIDE DEF d
    <3> QED
      BY <1>0, <2>1, <2>3, ChanMoved DEF StaysPut
  <2> QED
    BY <2>1, <2>2, <2>4 DEF Rests
<1>12. CASE ReadRecvArm(e)
  <2> DEFINE d == x.ch
             t == Token("ARM", d, Int32(chan[e][d].rlimit), 0)
  <2>1. /\ UNCHANGED <<chan, wire>>
        /\ xmit' = [xmit EXCEPT ![e].buffer = <<t>>,
                                ![e].ch = IF "clear" \in net[e].todo THEN @ ELSE None]
    BY <1>12 DEF ReadRecvArm
  <2>2. d \in Channels /\ x.buffer = <<>>
    BY <1>0, <1>12 DEF ReadRecvArm, EndOK, Control
  <2>3. t.type = "ARM" /\ t.ch = d /\ t.val = Int32(chan[e][d].rlimit) /\ t \in Tokens
    <3>1. chan[e][d].rlimit \in Int
      BY <1>0, <2>2, ChanTyped
    <3>2. Int32(chan[e][d].rlimit) \in 0 .. Wrap - 1
      BY <3>1, Conversions
    <3> QED
      BY <2>2, <3>2 DEF Token, Tokens
  <2> HIDE DEF t
  <2>4. xmit'[e].buffer = <<t>> /\ xmit'[e].body = x.body
    BY <1>0, <2>1 DEF XmitRecords
  <2> QED
    BY <1>6, <2>1, <2>2, <2>3, <2>4
<1>13. CASE EvalChannelData(e)
  <2> DEFINE c == Popped(data[e])
             k == chan[e][c]
             s == Signed(k.xarm - k.xpos)
             davail == Min({s, k.xlimit - k.xpos})
  <2>1. c \in Channels
    BY <1>0, <1>13, PopTyped DEF EvalChannelData
  <2>2. x.buffer = <<>> /\ UNCHANGED wire
    BY <1>0, <1>13 DEF EvalChannelData, EvaluatesData, EndOK, Control
  <2>3. /\ k.xarm \in Int /\ k.xpos \in Nat /\ k.xlimit \in Nat
        /\ s \in Int /\ k.xlimit - k.xpos \in Int
    <3> HIDE DEF c
    <3>1. k.xarm \in 0 .. Wrap - 1 /\ k.xpos \in Nat /\ k.xlimit \in Nat
      BY <1>0, <2>1, ChanTyped
    <3>2. k.xarm - k.xpos \in Int
      BY <3>1
    <3> HIDE DEF k
    <3>3. s \in Int
      BY <3>2, Conversions
    <3> QED
      BY <3>1, <3>3
  <2>4. CASE UNCHANGED <<chan, xmit>>
    BY <1>3, <2>2, <2>4 DEF Rests
  <2>5. ASSUME NEW n \in 1 .. Min({davail, MaxPayload[o]}),
               chan' = [chan EXCEPT ![e][c].xpos = @ + n],
               xmit' = [xmit EXCEPT ![e].ch = c,
                   ![e].buffer = <<Token("SEQ", c, Int32(k.xpos), n)>>,
                   ![e].body = Units("DATA", n) \o Units("PAD", Padding(n))]
        PROVE  PreparesSeq(e)
    <3> DEFINE t == Token("SEQ", c, Int32(k.xpos), n)
               body == Units("DATA", n) \o Units("PAD", Padding(n))
    <3>1. davail \in Int /\ davail <= s /\ davail <= k.xlimit - k.xpos
      BY <2>3, MinOfTwo, Zenon
    <3>2. n \in Nat /\ n <= davail
      <4>1. MaxPayload[o] \in Int
        BY <1>0, SizesAssumption
      <4>2. Min({davail, MaxPayload[o]}) \in Int /\ Min({davail, MaxPayload[o]}) <= davail
        BY <3>1, <4>1, MinOfTwo, Zenon
      <4> QED
        BY <3>1, <4>2
    <3>3. t \in Tokens /\ t.type = "SEQ" /\ t.ch = c /\ t.val = Int32(k.xpos) /\ t.size = n
      <4>1. Int32(k.xpos) \in 0 .. Wrap - 1
        BY <2>3, Conversions
      <4> QED
        BY <2>1, <3>2, <4>1 DEF Token, Tokens
    <3>4. \A i \in 1 .. Len(body) : body[i].type \in {"DATA", "PAD"}
      <4>1. Padding(n) \in Nat
        BY <3>2, Conversions
      <4> QED
        BY <3>2, <4>1, BodyOfUnits
    <3> HIDE DEF t, body
    <3>5. xmit'[e].buffer = <<t>> /\ xmit'[e].body = body
      BY <1>0, <2>5 DEF XmitRecords, t, body
    <3>6. n <= s /\ k.xpos + n <= k.xlimit
      BY <2>3, <3>1, <3>2
    <3>7. chan' = [chan EXCEPT ![e][c].xpos = k.xpos + n]
      BY <2>5
    <3> HIDE DEF c
    <3> QED
      BY <2>1, <2>2, <3>2, <3>3, <3>4, <3>5, <3>6, <3>7 DEF PreparesSeq
  <2> QED
    BY <1>13, <2>4, <2>5 DEF EvalChannelData
<1>14. CASE xmitEnd(e)
  BY <1>3, <1>14 DEF xmitEnd, Rests
<1> HIDE DEF Done
<1> QED
  BY <1>4, <1>5, <1>8, <1>9, <1>10, <1>11, <1>12, <1>13, <1>14 DEF Writes

\* The receiver takes nothing, or units of a body, or a header: of a packet of
\* the startup, an ARM or a SEQ.
TakesNothing(e) ==
  /\ wire'[Other(e)] = wire[Other(e)] /\ StaysPut(e)
  /\ \A c \in Channels : Due(e, c)' = Due(e, c)

TakesUnits(e) ==
  /\ \E n \in 0 .. Len(wire[Other(e)]) :
       /\ wire'[Other(e)] = SubSeq(wire[Other(e)], n + 1, Len(wire[Other(e)]))
       /\ \A i \in 1 .. n : wire[Other(e)][i].type \in {"DATA", "PAD"}
  /\ \A c \in Channels :
       /\ chan'[e][c].xpos = chan[e][c].xpos /\ chan'[e][c].xarm = chan[e][c].xarm
       /\ chan'[e][c].xlimit = chan[e][c].xlimit /\ chan'[e][c].rlimit = chan[e][c].rlimit
       /\ chan'[e][c].rpos + Due(e, c)' = chan[e][c].rpos + Due(e, c)

TakesHeader(e) ==
  LET t == Head(wire[Other(e)]) IN
    /\ wire[Other(e)] # <<>> /\ t \in Tokens
    /\ wire'[Other(e)] = SubSeq(wire[Other(e)], 2, Len(wire[Other(e)]))
    /\ \/ /\ t.type \notin {"ARM", "SEQ"} /\ StaysPut(e)
          /\ \A c \in Channels : Due(e, c)' = Due(e, c)
       \/ /\ t.type = "ARM" /\ t.ch \in Channels
          /\ chan' = [chan EXCEPT ![e][t.ch].xarm = t.val]
          /\ \A c \in Channels : Due(e, c)' = Due(e, c)
       \/ /\ t.type = "SEQ" /\ t.ch \in Channels
          /\ t.val = Int32(chan[e][t.ch].rpos) /\ StaysPut(e)
          /\ \A c \in Channels : /\ Due(e, c) = 0
                                 /\ Due(e, c)' = IF c = t.ch THEN t.size ELSE 0

\* Behind the header of a SEQ come the units that are due.
LEMMA DueAreUnits ==
  ASSUME TypeInv, FrameInv, NEW e \in Peers, recv[e].ch # None,
         NEW n \in 0 .. Len(Inbound(e)), n <= recv[e].payload + recv[e].padding
  PROVE  \A i \in 1 .. n : Inbound(e)[i].type \in {"DATA", "PAD"}
<1> DEFINE o == Other(e)
           S == SubSeq(Inbound(e), 1, n)
<1>1. o \in Peers /\ Other(o) = e /\ Inbound(e) \in Seq(Tokens)
  BY TwoPeers, SentTyped DEF Inbound
<1>2. PICK u, v \in Places : ReadsAt(e, u) /\ WritesAt(o, v) /\ Parses(Sent(o), u, v)
  BY <1>1 DEF FrameInv, Framed
<1>3. u.due = recv[e].payload + recv[e].padding
  BY <1>2 DEF ReadsAt
<1>4. PICK m \in Places : Parses(S, u, m)
  BY <1>2, TakeParses
<1>5. S \in Seq(Tokens) /\ Len(S) = n /\ \A i \in 1 .. n : S[i] = Inbound(e)[i]
  BY <1>1, PieceTyped
<1> HIDE DEF S
<1>6. \A i \in 1 .. Len(S) : S[i].type \in {"DATA", "PAD"}
  BY <1>3, <1>4, <1>5, BodyUnits
<1> QED
  BY <1>5, <1>6

\* So much a receiver does.
LEMMA ReadsAre ==
  ASSUME TypeInv, FrameInv, NEW e \in Peers, handleChannel(e) \/ Reads(e) \/ recvNothing(e)
  PROVE  /\ UNCHANGED xmit /\ wire'[e] = wire[e]
         /\ TakesNothing(e) \/ TakesUnits(e) \/ TakesHeader(e)
<1> DEFINE o == Other(e)
           r == recv[e]
           Done == TakesNothing(e) \/ TakesUnits(e) \/ TakesHeader(e)
<1>0. /\ o \in Peers /\ o # e /\ wire \in [Peers -> Seq(Tokens)] /\ recv \in [Peers -> RecvRecords]
      /\ chan \in [Peers -> [Channels -> ChanRecords]] /\ r \in RecvRecords
      /\ wire[o] \in Seq(Addressed) /\ wire[o] \in Seq(Tokens) /\ Inbound(e) = wire[o]
      /\ WireSize \in Nat /\ None \notin Channels
  BY TwoPeers, SizesAssumption, Numbers DEF TypeInv, TypeOK, Inbound
<1>1. UNCHANGED xmit
  BY DEF handleChannel, recvNothing, Reads, recvThrows, Throw, processRecvSetup,
     processRecvAccept, processRecvArm, processSeq, handleRecvSeq, recvPadding
<1>2. wire'[e] = wire[e]
  <2>1. wire' = wire \/ \E s : wire' = [wire EXCEPT ![o] = s]
    BY DEF handleChannel, recvNothing, Reads, recvThrows, Throw, processRecvSetup,
       processRecvAccept, processRecvArm, processSeq, handleRecvSeq, recvPadding, Consume
  <2> HIDE DEF o
  <2> QED
    BY <1>0, <2>1
<1>s. SUFFICES Done
  BY <1>1, <1>2
<1>3. ASSUME UNCHANGED chan PROVE StaysPut(e)
  BY <1>3 DEF StaysPut
<1>4. ASSUME NEW n, Consume(e, n)
      PROVE  wire'[o] = SubSeq(wire[o], n + 1, Len(wire[o]))
  BY <1>0, <1>4 DEF Consume
<1>h. ASSUME Consume(e, 1)
      PROVE  wire'[o] = SubSeq(wire[o], 2, Len(wire[o]))
  <2>1. 1 + 1 = 2
    OBVIOUS
  <2> QED
    BY <1>0, <1>h, <2>1 DEF Consume
<1>5. ASSUME UNCHANGED <<chan, recv, wire>> PROVE Done
  BY <1>3, <1>5 DEF TakesNothing, Due
<1>6. CASE handleChannel(e) \/ recvThrows(e) \/ recvNothing(e)
  BY <1>5, <1>6 DEF handleChannel, recvThrows, recvNothing, Throw
<1>7. ASSUME HeaderReceived(e)
      PROVE  /\ wire[o] # <<>> /\ Header(e) = Head(wire[o]) /\ Header(e) \in Tokens
             /\ Header(e) \in Addressed /\ r.ch = None
             /\ \A c \in Channels : Due(e, c) = 0
  BY <1>0, <1>7 DEF HeaderReceived, Header, Due, Addressed
<1> DEFINE t == Header(e)
<1>8. ASSUME Receives(e, "SETUP") \/ Receives(e, "ACCEPT"), UNCHANGED chan, Consume(e, 1),
             recv'[e].ch = r.ch
      PROVE  Done
  <2>1. HeaderReceived(e) /\ t.type \in {"SETUP", "ACCEPT"}
    BY <1>8 DEF Receives
  <2>2. \A c \in Channels : Due(e, c)' = Due(e, c)
    BY <1>0, <1>7, <1>8, <2>1 DEF Due
  <2>3. wire'[o] = SubSeq(wire[o], 2, Len(wire[o]))
    BY <1>h, <1>8
  <2> QED
    BY <1>3, <1>7, <1>8, <2>1, <2>2, <2>3 DEF TakesHeader
<1>9. CASE processRecvSetup(e)
  <2>1. \E a : recv' = [recv EXCEPT ![e].answer = a]
    BY <1>9 DEF processRecvSetup
  <2>2. recv'[e].ch = r.ch
    BY <1>0, <2>1 DEF RecvRecords
  <2> QED
    BY <1>8, <1>9, <2>2 DEF processRecvSetup
<1>10. CASE processRecvAccept(e)
  <2>1. recv'[e].ch = r.ch
    BY <1>0, <1>10 DEF processRecvAccept, RecvRecords
  <2> QED
    BY <1>8, <1>10, <2>1 DEF processRecvAccept
<1>11. CASE processRecvArm(e)
  <2>1. /\ HeaderReceived(e) /\ t.type = "ARM" /\ UNCHANGED recv /\ Consume(e, 1)
        /\ chan' = [chan EXCEPT ![e][t.ch].xarm = t.val]
    BY <1>11 DEF processRecvArm, Receives
  <2>2. t.ch \in Channels
    BY <1>7, <2>1 DEF Addressed
  <2>3. \A c \in Channels : Due(e, c)' = Due(e, c)
    BY <2>1 DEF Due
  <2>4. wire'[o] = SubSeq(wire[o], 2, Len(wire[o]))
    BY <1>h, <2>1
  <2> QED
    BY <1>7, <2>1, <2>2, <2>3, <2>4 DEF TakesHeader
<1>12. CASE processSeq(e)
  <2>1. HeaderReceived(e) /\ t.type = "SEQ"
    BY <1>12 DEF processSeq, Receives
  <2>2. t.ch \in Channels
    BY <1>7, <2>1 DEF Addressed
  <2>3. CASE Throw(e, "protocol")
    BY <1>5, <2>3 DEF Throw
  <2>4. ASSUME t.val = Int32(chan[e][t.ch].rpos), UNCHANGED chan, Consume(e, 1),
               recv' = [recv EXCEPT ![e].ch = t.ch, ![e].payload = t.size,
                                    ![e].padding = Padding(t.size)]
        PROVE  Done
    <3>1. recv'[e].ch = t.ch /\ recv'[e].payload = t.size
      BY <1>0, <2>4 DEF RecvRecords
    <3>2. \A c \in Channels : Due(e, c)' = IF c = t.ch THEN t.size ELSE 0
      BY <3>1 DEF Due
    <3>3. wire'[o] = SubSeq(wire[o], 2, Len(wire[o]))
      BY <1>h, <2>4
    <3> QED
      BY <1>3, <1>7, <2>1, <2>2, <2>4, <3>2, <3>3 DEF TakesHeader
  <2> QED
    BY <1>12, <2>3, <2>4 DEF processSeq
<1>13. ASSUME NEW n \in 1 .. WireSize, r.ch # None, n <= r.payload + r.padding,
              n <= Len(wire[o]), Consume(e, n),
              \A c \in Channels :
                /\ chan'[e][c].xpos = chan[e][c].xpos /\ chan'[e][c].xarm = chan[e][c].xarm
                /\ chan'[e][c].xlimit = chan[e][c].xlimit
                /\ chan'[e][c].rlimit = chan[e][c].rlimit
                /\ chan'[e][c].rpos + Due(e, c)' = chan[e][c].rpos + Due(e, c)
       PROVE  Done
  <2>1. n \in 0 .. Len(wire[o])
    BY <1>0, <1>13
  <2>2. \A i \in 1 .. n : wire[o][i].type \in {"DATA", "PAD"}
    BY <1>0, <1>13, <2>1, DueAreUnits
  <2>3. wire'[o] = SubSeq(wire[o], n + 1, Len(wire[o]))
    BY <1>4, <1>13
  <2> QED
    BY <1>13, <2>1, <2>2, <2>3 DEF TakesUnits
<1>14. ASSUME NEW n \in 1 .. WireSize, handleRecvSeq(e, n)
       PROVE  Done
  <2> DEFINE d == r.ch
             m == chan[e][d].rpos + n
  <2>1. /\ d \in Channels /\ n <= r.payload /\ n <= Len(wire[o]) /\ Consume(e, n)
        /\ chan' = [chan EXCEPT ![e][d].rpos = m] /\ n \in Nat
        /\ recv' = [recv EXCEPT ![e].payload = @ - n,
                                ![e].ch = IF n = r.payload + r.padding THEN None ELSE @]
    BY <1>0, <1>14 DEF handleRecvSeq, RecvRecords
  <2>2. r.payload \in Nat /\ r.padding \in Nat
    BY <1>0 DEF RecvRecords
  <2>3. /\ recv'[e].payload = r.payload - n
        /\ recv'[e].ch = IF n = r.payload + r.padding THEN None ELSE d
    BY <1>0, <2>1 DEF RecvRecords
  <2>4. \A c \in Channels : /\ chan[e][c].rpos \in Nat
                            /\ Due(e, c) = IF c = d THEN r.payload ELSE 0
                            /\ Due(e, c)' = IF c = d THEN r.payload - n ELSE 0
    <3>1. \A c \in Channels : chan[e][c].rpos \in Nat
      BY <1>0, ChanTyped
    <3>2. n = r.payload + r.padding => r.payload - n = 0
      BY <2>1, <2>2
    <3> HIDE DEF d
    <3>3. \A c \in Channels : Due(e, c)' = IF c = d THEN r.payload - n ELSE 0
      BY <1>0, <2>1, <2>3, <3>2 DEF Due
    <3> QED
      BY <3>1, <3>3 DEF Due, d
  <2>5. \A c \in Channels :
          /\ chan'[e][c].xpos = chan[e][c].xpos /\ chan'[e][c].xarm = chan[e][c].xarm
          /\ chan'[e][c].xlimit = chan[e][c].xlimit /\ chan'[e][c].rlimit = chan[e][c].rlimit
          /\ chan'[e][c].rpos = IF c = d THEN m ELSE chan[e][c].rpos
    <3> HIDE DEF d, m
    <3> QED
      BY <1>0, <2>1, ChanMoved
  <2>6. \A c \in Channels : chan'[e][c].rpos + Due(e, c)' = chan[e][c].rpos + Due(e, c)
    BY <2>1, <2>2, <2>4, <2>5
  <2>7. n <= r.payload + r.padding /\ r.ch # None
    BY <1>0, <2>1, <2>2
  <2> QED
    BY <1>13, <2>1, <2>5, <2>6, <2>7
<1>15. ASSUME NEW n \in 1 .. WireSize, recvPadding(e, n)
       PROVE  Done
  <2>1. /\ r.ch # None /\ r.payload = 0 /\ n <= r.padding /\ n <= Len(wire[o]) /\ Consume(e, n)
        /\ UNCHANGED chan
        /\ recv' = [recv EXCEPT ![e].padding = @ - n,
                                ![e].ch = IF n = r.padding THEN None ELSE @]
    BY <1>0, <1>15 DEF recvPadding
  <2>2. recv'[e].payload = 0 /\ r.payload \in Nat /\ r.padding \in Nat
    BY <1>0, <2>1 DEF RecvRecords
  <2>3. \A c \in Channels : Due(e, c) = 0 /\ Due(e, c)' = 0
    BY <2>1, <2>2 DEF Due
  <2>4. n <= r.payload + r.padding
    BY <1>0, <2>1, <2>2
  <2> QED
    BY <1>13, <2>1, <2>3, <2>4
<1> HIDE DEF Done
<1> QED
  BY <1>6, <1>9, <1>10, <1>11, <1>12, <1>14, <1>15 DEF Reads

-----------------------------------------------------------------------------
(* The bounds of the streams.                                              *)

\* What bounds the packets in flight and the positions of the streams.
BuffersBounded(e) ==
  /\ Len(wire[e]) <= WireSize /\ Len(xmit[e].buffer) <= 1
  /\ \A i \in 1 .. Len(xmit[e].body) : xmit[e].body[i].type \in {"DATA", "PAD"}

LimitsBounded(e) ==
  \A c \in Channels : /\ chan[e][c].xlimit <= XmitTotal[e][c]
                      /\ chan[e][c].rlimit + Promised(e, c) <= RecvTotal[e][c]

BoundsInv == \A e \in Peers : BuffersBounded(e) /\ LimitsBounded(e)

LEMMA InitBounded ==
  ASSUME Init
  PROVE  BoundsInv
<1> SUFFICES ASSUME NEW e \in Peers PROVE BuffersBounded(e) /\ LimitsBounded(e)
  BY DEF BoundsInv
<1>1. BuffersBounded(e)
  <2>1. wire[e] = <<>> /\ xmit[e].buffer = <<Packet("SETUP")>> /\ xmit[e].body = <<>>
    BY DEF Init
  <2>2. Len(<<>>) = 0 /\ Len(<<Packet("SETUP")>>) = 1
    OBVIOUS
  <2> QED
    BY <2>1, <2>2, SizesAssumption DEF BuffersBounded
<1>2. ASSUME NEW c \in Channels
      PROVE  /\ chan[e][c].xlimit <= XmitTotal[e][c]
             /\ chan[e][c].rlimit + Promised(e, c) <= RecvTotal[e][c]
  <2>1. chan[e][c].xlimit = 0 /\ chan[e][c].rlimit = 0 /\ Promised(e, c) = 0
    BY DEF Init, Promised, Resting
  <2>2. XmitTotal[e][c] \in Nat /\ RecvTotal[e][c] \in Nat
    BY AmountsAssumption
  <2> QED
    BY <2>1, <2>2
<1> QED
  BY <1>1, <1>2 DEF LimitsBounded

\* The applications keep to the bounds of the limits.
LEMMA LimitsKept ==
  ASSUME TypeInv, FrameInv, NEW e \in Peers, Acts(e), LimitsBounded(e)
  PROVE  LimitsBounded(e)'
<1> SUFFICES ASSUME NEW c \in Channels
             PROVE  /\ chan'[e][c].xlimit <= XmitTotal[e][c]
                    /\ chan'[e][c].rlimit + Promised(e, c)' <= RecvTotal[e][c]
  BY DEF LimitsBounded
<1>1. /\ chan[e][c].xlimit <= XmitTotal[e][c]
      /\ chan[e][c].rlimit + Promised(e, c) <= RecvTotal[e][c]
  BY DEF LimitsBounded
<1>2. CASE ApplicationCall(e) \/ ApplicationStep(e)
  <2>1. Extends(e, c) /\ KeepsTotal(e, c)
    BY <1>2, ApplicationGrants
  <2> QED
    BY <1>1, <2>1 DEF Extends, KeepsTotal
<1>3. CASE NetworkThread(e)
  <2>1. /\ UNCHANGED app /\ chan'[e][c].rlimit = chan[e][c].rlimit
        /\ chan'[e][c].xlimit = chan[e][c].xlimit
    BY <1>3, NetworkKeepsLimits
  <2>2. Promised(e, c)' = Promised(e, c)
    BY <2>1 DEF Promised
  <2> QED
    BY <1>1, <2>1, <2>2
<1> QED
  BY <1>2, <1>3 DEF Acts

\* An xmitter keeps to the room of the transport.
LEMMA WritesBounded ==
  ASSUME TypeInv, NEW e \in Peers, Writes(e), BuffersBounded(e)
  PROVE  BuffersBounded(e)' /\ wire'[Other(e)] = wire[Other(e)]
<1> DEFINE w == wire[e]
           b == xmit[e].buffer
           d == xmit[e].body
<1>0. /\ w \in Seq(Tokens) /\ b \in Seq(Tokens) /\ d \in Seq(Tokens)
      /\ Len(w) \in Nat /\ Len(b) \in Nat /\ Len(d) \in Nat /\ WireSize \in Nat
  BY SentTyped, SizesAssumption
<1>1. /\ Len(w) <= WireSize /\ Len(b) <= 1
      /\ \A i \in 1 .. Len(d) : d[i].type \in {"DATA", "PAD"}
  BY DEF BuffersBounded
<1>2. /\ wire'[Other(e)] = wire[Other(e)]
      /\ Rests(e) \/ SendsBuffer(e) \/ SendsUnits(e) \/ Prepares(e) \/ PreparesSeq(e)
  BY <1>1, WritesAre
<1>s. SUFFICES BuffersBounded(e)'
  BY <1>2
<1>3. CASE Rests(e)
  BY <1>3 DEF Rests, BuffersBounded
<1>4. CASE SendsBuffer(e)
  <2>1. Len(w) < WireSize /\ wire'[e] = w \o b /\ xmit'[e].buffer = <<>> /\ xmit'[e].body = d
    BY <1>4 DEF SendsBuffer
  <2>2. Len(w \o b) = Len(w) + Len(b)
    <3> HIDE DEF w, b
    <3> QED
      BY <1>0, ConcatProperties
  <2> HIDE DEF w, b, d
  <2> QED
    BY <1>0, <1>1, <2>1, <2>2 DEF BuffersBounded
<1>5. CASE SendsUnits(e)
  <2>1. PICK n \in 0 .. Len(d) :
          /\ n = 0 \/ Len(w) + n <= WireSize
          /\ wire'[e] = w \o SubSeq(d, 1, n) /\ xmit'[e].body = SubSeq(d, n + 1, Len(d))
    BY <1>5 DEF SendsUnits
  <2>2. xmit'[e].buffer = <<>>
    BY <1>5 DEF SendsUnits
  <2> DEFINE P == SubSeq(d, 1, n)
             Q == SubSeq(d, n + 1, Len(d))
  <2> HIDE DEF w, b, d
  <2>3. /\ P \in Seq(Tokens) /\ Len(P) = n /\ Len(Q) = Len(d) - n
        /\ \A i \in 1 .. Len(d) - n : Q[i] = d[n + i]
    BY <1>0, PieceTyped
  <2>4. \A i \in 1 .. Len(Q) : Q[i].type \in {"DATA", "PAD"}
    <3> TAKE i \in 1 .. Len(Q)
    <3>1. n + i \in 1 .. Len(d) /\ Q[i] = d[n + i]
      BY <1>0, <2>3
    <3> QED
      BY <1>1, <3>1
  <2> HIDE DEF P, Q
  <2>5. Len(w \o P) = Len(w) + n
    BY <1>0, <2>3, ConcatProperties
  <2>6. Len(w) + n <= WireSize
    BY <1>0, <1>1, <2>1
  <2>7. wire'[e] = w \o P /\ xmit'[e].body = Q
    BY <2>1 DEF P, Q
  <2> QED
    BY <2>2, <2>4, <2>5, <2>6, <2>7 DEF BuffersBounded
<1>6. CASE Prepares(e)
  <2>1. PICK x : xmit'[e].buffer = <<x>>
    BY <1>6 DEF Prepares
  <2>2. Len(<<x>>) = 1
    OBVIOUS
  <2> QED
    BY <1>1, <1>6, <2>1, <2>2 DEF Prepares, BuffersBounded
<1>7. CASE PreparesSeq(e)
  <2>1. PICK x : xmit'[e].buffer = <<x>>
    BY <1>7 DEF PreparesSeq
  <2>2. Len(<<x>>) = 1
    OBVIOUS
  <2> QED
    BY <1>1, <1>7, <2>1, <2>2 DEF PreparesSeq, BuffersBounded
<1> QED
  BY <1>2, <1>3, <1>4, <1>5, <1>6, <1>7

\* A receiver only makes room.
LEMMA ReadsBounded ==
  ASSUME TypeInv, FrameInv, NEW e \in Peers, handleChannel(e) \/ Reads(e) \/ recvNothing(e),
         BoundsInv
  PROVE  BuffersBounded(e)' /\ Len(wire'[Other(e)]) <= WireSize
<1> DEFINE o == Other(e)
           w == wire[o]
<1>0. /\ o \in Peers /\ w \in Seq(Tokens) /\ Len(w) \in Nat /\ WireSize \in Nat
      /\ Len(w) <= WireSize /\ BuffersBounded(e)
  BY TwoPeers, SentTyped, SizesAssumption DEF BoundsInv, BuffersBounded
<1>1. /\ UNCHANGED xmit /\ wire'[e] = wire[e]
      /\ TakesNothing(e) \/ TakesUnits(e) \/ TakesHeader(e)
  BY ReadsAre
<1>2. BuffersBounded(e)'
  BY <1>0, <1>1 DEF BuffersBounded
<1>s. SUFFICES Len(wire'[o]) <= WireSize
  BY <1>2
<1>3. ASSUME NEW n \in 0 .. Len(w), wire'[o] = SubSeq(w, n + 1, Len(w))
      PROVE  Len(wire'[o]) <= WireSize
  <2> HIDE DEF w
  <2>1. Len(SubSeq(w, n + 1, Len(w))) = Len(w) - n
    BY <1>0, PieceTyped
  <2> QED
    BY <1>0, <1>3, <2>1
<1>4. CASE TakesNothing(e)
  BY <1>0, <1>4 DEF TakesNothing
<1>5. CASE TakesUnits(e)
  BY <1>3, <1>5 DEF TakesUnits
<1>6. CASE TakesHeader(e)
  <2>1. w # <<>> /\ wire'[o] = SubSeq(w, 2, Len(w))
    BY <1>6 DEF TakesHeader
  <2>2. 1 \in 0 .. Len(w) /\ 1 + 1 = 2
    BY <1>0, <2>1
  <2> HIDE DEF w, o
  <2>3. wire'[o] = SubSeq(w, 1 + 1, Len(w))
    BY <2>1, <2>2
  <2> QED
    BY <1>3, <2>2, <2>3
<1> QED
  BY <1>1, <1>2, <1>4, <1>5, <1>6

\* So every step keeps the bounds.
LEMMA StepBounded ==
  ASSUME TypeInv, FrameInv, BoundsInv, NEW e \in Peers, Acts(e)
  PROVE  BoundsInv'
<1> DEFINE o == Other(e)
<1>1. o \in Peers /\ o # e /\ \A p \in Peers : p = e \/ p = o
  BY TwoPeers
<1>2. LimitsBounded(e)'
  BY LimitsKept DEF BoundsInv
<1>3. BuffersBounded(e)' /\ Len(wire'[o]) <= WireSize
  <2>0. BuffersBounded(e) /\ BuffersBounded(o)
    BY <1>1 DEF BoundsInv
  <2>1. CASE ApplicationCall(e) \/ ApplicationStep(e)
    <3>1. UNCHANGED <<xmit, wire>>
      BY <2>1, ApplicationGrants
    <3> QED
      BY <2>0, <3>1 DEF BuffersBounded
  <2>2. CASE handleChannel(e) \/ Reads(e) \/ recvNothing(e)
    BY <2>2, ReadsBounded
  <2>3. CASE Writes(e)
    <3>1. BuffersBounded(e)' /\ wire'[o] = wire[o]
      BY <2>0, <2>3, WritesBounded
    <3> QED
      BY <2>0, <3>1 DEF BuffersBounded
  <2> QED
    BY <2>1, <2>2, <2>3 DEF Acts, NetworkThread
<1>4. /\ chan'[o] = chan[o] /\ xmit'[o] = xmit[o] /\ app'[o] = app[o]
  BY <1>1, OtherUntouched DEF TypeInv
<1> HIDE DEF o
<1>5. LimitsBounded(o)'
  BY <1>1, <1>4 DEF BoundsInv, LimitsBounded, Promised
<1>6. BuffersBounded(o)'
  BY <1>1, <1>3, <1>4 DEF BoundsInv, BuffersBounded
<1> QED
  BY <1>1, <1>2, <1>3, <1>5, <1>6 DEF BoundsInv

-----------------------------------------------------------------------------
(* All steps of an endpoint are moves, and so the streams are kept.        *)

\* The view of an endpoint, before and after a step.
LEMMA Views ==
  ASSUME NEW e \in Peers, NEW c
  PROVE  /\ View(e, c) = [xlimit |-> chan[e][c].xlimit, xarm |-> chan[e][c].xarm,
              xpos |-> chan[e][c].xpos, granted |-> chan[e][c].rlimit,
              expected |-> chan[e][c].rpos + Due(e, c),
              seqsOut |-> InFlight(e, c, "SEQ"), armsOut |-> InFlight(e, c, "ARM"),
              seqsIn |-> InFlight(Other(e), c, "SEQ"), armsIn |-> InFlight(Other(e), c, "ARM")]
         /\ View(e, c)' = [xlimit |-> chan'[e][c].xlimit, xarm |-> chan'[e][c].xarm,
              xpos |-> chan'[e][c].xpos, granted |-> chan'[e][c].rlimit,
              expected |-> chan'[e][c].rpos + Due(e, c)',
              seqsOut |-> InFlight(e, c, "SEQ")', armsOut |-> InFlight(e, c, "ARM")',
              seqsIn |-> InFlight(Other(e), c, "SEQ")',
              armsIn |-> InFlight(Other(e), c, "ARM")']
<1>1. View(e, c)' = [xlimit |-> chan'[e][c].xlimit, xarm |-> chan'[e][c].xarm,
              xpos |-> chan'[e][c].xpos, granted |-> chan'[e][c].rlimit,
              expected |-> chan'[e][c].rpos + Due(e, c)',
              seqsOut |-> InFlight(e, c, "SEQ")', armsOut |-> InFlight(e, c, "ARM")',
              seqsIn |-> InFlight(Other(e), c, "SEQ")',
              armsIn |-> InFlight(Other(e), c, "ARM")']
  BY DEF View
<1> QED
  BY <1>1 DEF View

\* A sender whose buffer and wire stay keeps what is in flight.
LEMMA BothKept ==
  ASSUME NEW e \in Peers, wire'[e] = wire[e], xmit'[e].buffer = xmit[e].buffer, NEW c
  PROVE  InFlight(e, c, "SEQ")' = InFlight(e, c, "SEQ")
         /\ InFlight(e, c, "ARM")' = InFlight(e, c, "ARM")
BY FlightKept

\* What an application moves.
LEMMA ApplicationMoves ==
  ASSUME TypeInv, TypeInv', FrameInv, BoundsInv, NEW e \in Peers,
         ApplicationCall(e) \/ ApplicationStep(e), NEW c \in Channels
  PROVE  Moves(e, c)
<1> DEFINE w == View(e, c)
           v == View(e, c)'
           o == Other(e)
<1>0. o \in Peers
  BY TwoPeers
<1>1. /\ UNCHANGED <<xmit, recv, wire>> /\ Roomy(e)'
      /\ chan'[e][c].xpos = chan[e][c].xpos /\ chan'[e][c].xarm = chan[e][c].xarm
      /\ chan'[e][c].rpos = chan[e][c].rpos /\ chan'[e][c].rlimit >= chan[e][c].rlimit
      /\ Extends(e, c) /\ KeepsTotal(e, c)
  BY ApplicationGrants
<1>2. /\ chan[e][c].xlimit \in Nat /\ chan'[e][c].xlimit \in Nat
      /\ chan[e][c].rlimit \in Nat /\ chan'[e][c].rlimit \in Nat
      /\ chan[e][c].rpos \in Nat /\ Due(e, c) \in Nat /\ Promised(e, c)' \in Nat
  <2>1. chan \in [Peers -> [Channels -> ChanRecords]] /\ recv[e] \in RecvRecords
    BY DEF TypeInv, TypeOK
  <2>2. chan' \in [Peers -> [Channels -> ChanRecords]] /\ app'[e] \in AppRecords
    BY DEF TypeInv, TypeOK
  <2>3. Due(e, c) \in Nat
    BY <2>1 DEF Due, RecvRecords
  <2>4. Promised(e, c)' \in Nat
    BY <2>2 DEF Promised, AppRecords
  <2> QED
    BY <2>1, <2>2, <2>3, <2>4, ChanTyped
<1>3. /\ Due(e, c)' = Due(e, c)
      /\ InFlight(e, c, "SEQ")' = InFlight(e, c, "SEQ")
      /\ InFlight(e, c, "ARM")' = InFlight(e, c, "ARM")
      /\ InFlight(o, c, "SEQ")' = InFlight(o, c, "SEQ")
      /\ InFlight(o, c, "ARM")' = InFlight(o, c, "ARM")
  BY <1>0, <1>1, BothKept DEF Due
<1>4. CASE chan'[e][c].xlimit = chan[e][c].xlimit
  <2> DEFINE n == chan'[e][c].rlimit - chan[e][c].rlimit
  <2>1. n \in Nat /\ chan'[e][c].rlimit = chan[e][c].rlimit + n
    BY <1>1, <1>2
  <2>2. chan[e][c].rlimit + n <= RecvTotal[e][c]
    <3>1. chan[e][c].rlimit + Promised(e, c) <= RecvTotal[e][c]
      BY DEF BoundsInv, LimitsBounded
    <3>2. chan'[e][c].rlimit + Promised(e, c)' <= RecvTotal[e][c]
      BY <1>1, <3>1 DEF KeepsTotal
    <3>3. RecvTotal[e][c] \in Nat
      BY AmountsAssumption
    <3> QED
      BY <1>2, <2>1, <3>2, <3>3
  <2>3. 2 * (chan[e][c].rlimit + n - (chan[e][c].rpos + Due(e, c))) < Wrap
    <3>1. 2 * (chan'[e][c].rlimit + Promised(e, c)' - chan'[e][c].rpos) < Wrap
      BY <1>1 DEF Roomy
    <3> QED
      BY <1>1, <1>2, <2>1, <3>1, SizesAssumption
  <2> HIDE DEF n
  <2>4. v = [w EXCEPT !.granted = w.granted + n]
    BY <1>1, <1>3, <1>4, <2>1, Views
  <2>5. w.granted = chan[e][c].rlimit /\ w.expected = chan[e][c].rpos + Due(e, c)
    BY Views
  <2> HIDE DEF w, v
  <2> QED
    BY <2>1, <2>2, <2>3, <2>4, <2>5, Zenon DEF Moves, w, v
<1>5. CASE chan'[e][c].xlimit # chan[e][c].xlimit
  <2>1. /\ chan'[e][c].rlimit = chan[e][c].rlimit
        /\ chan'[e][c].xlimit >= chan[e][c].xlimit /\ chan'[e][c].xlimit <= XmitTotal[e][c]
    BY <1>1, <1>5 DEF Extends
  <2> DEFINE n == chan'[e][c].xlimit - chan[e][c].xlimit
  <2>2. n \in Nat /\ chan'[e][c].xlimit = chan[e][c].xlimit + n
    BY <1>2, <2>1
  <2> HIDE DEF n
  <2>3. v = [w EXCEPT !.xlimit = w.xlimit + n]
    BY <1>1, <1>3, <2>1, <2>2, Views
  <2>4. w.xlimit + n <= XmitTotal[e][c]
    BY <2>1, <2>2, Views
  <2> QED
    BY <2>2, <2>3, <2>4 DEF Moves
<1> QED
  BY <1>4, <1>5

\* What an xmitter moves.
LEMMA WritesMove ==
  ASSUME TypeInv, BoundsInv, NEW e \in Peers, Writes(e), NEW c \in Channels
  PROVE  Moves(e, c)
<1> DEFINE w == View(e, c)
           v == View(e, c)'
           o == Other(e)
           b == xmit[e].buffer
           d == xmit[e].body
<1>0. /\ o \in Peers /\ o # e /\ Acts(e) /\ BuffersBounded(e)
      /\ Len(wire[e]) <= WireSize /\ Len(wire[e]) \in Nat /\ WireSize \in Nat
  BY TwoPeers, SentTyped, SizesAssumption DEF Acts, NetworkThread, BoundsInv, BuffersBounded
<1>r. /\ w = [xlimit |-> w.xlimit, xarm |-> w.xarm, xpos |-> w.xpos,
              granted |-> w.granted, expected |-> w.expected, seqsOut |-> w.seqsOut,
              armsOut |-> w.armsOut, seqsIn |-> w.seqsIn, armsIn |-> w.armsIn]
      /\ v = [xlimit |-> v.xlimit, xarm |-> v.xarm, xpos |-> v.xpos,
              granted |-> v.granted, expected |-> v.expected, seqsOut |-> v.seqsOut,
              armsOut |-> v.armsOut, seqsIn |-> v.seqsIn, armsIn |-> v.armsIn]
  <2>1. w = [xlimit |-> w.xlimit, xarm |-> w.xarm, xpos |-> w.xpos,
             granted |-> w.granted, expected |-> w.expected, seqsOut |-> w.seqsOut,
             armsOut |-> w.armsOut, seqsIn |-> w.seqsIn, armsIn |-> w.armsIn]
    BY Views
  <2>2. v = [xlimit |-> v.xlimit, xarm |-> v.xarm, xpos |-> v.xpos,
             granted |-> v.granted, expected |-> v.expected, seqsOut |-> v.seqsOut,
             armsOut |-> v.armsOut, seqsIn |-> v.seqsIn, armsIn |-> v.armsIn]
    BY Views
  <2> QED
    BY <2>1, <2>2
<1>1. /\ UNCHANGED recv /\ wire'[o] = wire[o]
      /\ Rests(e) \/ SendsBuffer(e) \/ SendsUnits(e) \/ Prepares(e) \/ PreparesSeq(e)
  BY <1>0, WritesAre
<1>2. xmit'[o] = xmit[o]
  BY <1>0, OtherUntouched DEF TypeInv
<1>3. /\ Due(e, c)' = Due(e, c)
      /\ InFlight(o, c, "SEQ")' = InFlight(o, c, "SEQ")
      /\ InFlight(o, c, "ARM")' = InFlight(o, c, "ARM")
  BY <1>0, <1>1, <1>2, BothKept DEF Due
<1>4. ASSUME StaysPut(e), InFlight(e, c, "SEQ")' = InFlight(e, c, "SEQ"),
             InFlight(e, c, "ARM")' = InFlight(e, c, "ARM")
      PROVE  Moves(e, c)
  <2>1. v = w
    BY <1>3, <1>4, Views DEF StaysPut
  <2> QED
    BY <2>1 DEF Moves
<1>5. CASE Rests(e)
  BY <1>4, <1>5, BothKept DEF Rests
<1>6. CASE SendsBuffer(e)
  BY <1>4, <1>6, FlightSent DEF SendsBuffer
<1>7. CASE SendsUnits(e)
  <2>1. PICK n \in 0 .. Len(d) : wire'[e] = wire[e] \o SubSeq(d, 1, n)
    BY <1>7 DEF SendsUnits
  <2> DEFINE P == SubSeq(d, 1, n)
  <2>2. d \in Seq(Tokens) /\ \A i \in 1 .. Len(d) : d[i].type \in {"DATA", "PAD"}
    BY <1>0, SentTyped DEF BuffersBounded
  <2>3. P \in Seq(Tokens) /\ Len(P) = n /\ \A i \in 1 .. n : P[i] = d[i]
    BY <2>2, PieceTyped
  <2>4. wire'[e] = wire[e] \o P
    BY <2>1
  <2> HIDE DEF P
  <2>5. \A i \in 1 .. Len(P) : P[i].type \in {"DATA", "PAD"}
    BY <2>2, <2>3
  <2>6. b = <<>> /\ xmit'[e].buffer = <<>> /\ StaysPut(e)
    BY <1>7 DEF SendsUnits
  <2> HIDE DEF d, b
  <2>7. /\ InFlight(e, c, "SEQ")' = InFlight(e, c, "SEQ")
        /\ InFlight(e, c, "ARM")' = InFlight(e, c, "ARM")
    BY <2>3, <2>4, <2>5, <2>6, FlightOfUnits DEF b
  <2> QED
    BY <1>4, <2>6, <2>7
<1>8. ASSUME b = <<>>, wire'[e] = wire[e], NEW x \in Tokens, xmit'[e].buffer = <<x>>, NEW t
      PROVE  /\ InFlight(e, c, t) \in Seq(Tokens) /\ Len(InFlight(e, c, t)) <= WireSize
             /\ InFlight(e, c, t)' = IF x.type = t /\ x.ch = c THEN InFlight(e, c, t) \o <<x>>
                                     ELSE InFlight(e, c, t)
  <2> DEFINE z == InFlight(e, c, t)
  <2>1. z \in Seq(Tokens) /\ Len(z) <= Len(wire[e]) + Len(b)
    BY InFlightSent
  <2>2. Len(b) = 0
    BY <1>8
  <2>3. Len(z) <= WireSize
    <3> HIDE DEF z, b
    <3>1. Len(z) \in Nat
      BY <2>1
    <3> QED
      BY <1>0, <2>1, <2>2, <3>1
  <2>4. InFlight(e, c, t)' = z \o Bit(x, t, c)
    BY <1>8, FlightPrepared
  <2>5. z \o <<>> = z
    <3> HIDE DEF z
    <3> QED
      BY <2>1, ConcatEmptySeq
  <2> HIDE DEF z
  <2>6. InFlight(e, c, t)' = IF x.type = t /\ x.ch = c THEN z \o <<x>> ELSE z
    BY <2>4, <2>5 DEF Bit
  <2> QED
    BY <2>1, <2>3, <2>6 DEF z
<1>9. CASE Prepares(e)
  <2>1. b = <<>> /\ wire'[e] = wire[e] /\ StaysPut(e)
    BY <1>9 DEF Prepares
  <2>2. PICK x \in Tokens :
          /\ xmit'[e].buffer = <<x>> /\ x.type # "SEQ"
          /\ x.type = "ARM" => x.ch \in Channels /\ x.val = Int32(chan[e][x.ch].rlimit)
    BY <1>9 DEF Prepares
  <2>3. /\ InFlight(e, c, "SEQ")' = InFlight(e, c, "SEQ")
        /\ Len(InFlight(e, c, "ARM")) <= WireSize
        /\ InFlight(e, c, "ARM")' = IF x.type = "ARM" /\ x.ch = c
                                      THEN InFlight(e, c, "ARM") \o <<x>>
                                      ELSE InFlight(e, c, "ARM")
    BY <1>8, <2>1, <2>2
  <2>4. CASE x.type = "ARM" /\ x.ch = c
    <3>1. /\ v.armsOut = w.armsOut \o <<x>>
          /\ v.xlimit = w.xlimit /\ v.xarm = w.xarm /\ v.xpos = w.xpos /\ v.granted = w.granted
          /\ v.expected = w.expected /\ v.seqsOut = w.seqsOut /\ v.seqsIn = w.seqsIn /\ v.armsIn = w.armsIn
      BY <1>3, <2>1, <2>3, <2>4, Views DEF StaysPut
    <3>2. Len(w.armsOut) <= WireSize /\ x.val = Int32(w.granted)
      BY <2>2, <2>3, <2>4, Views
    <3>3. v = [w EXCEPT !.armsOut = w.armsOut \o <<x>>]
      <4> HIDE DEF w, v
      <4> QED
        BY <1>r, <3>1
    <3> QED
      BY <3>2, <3>3 DEF Moves
  <2>5. CASE ~ (x.type = "ARM" /\ x.ch = c)
    BY <1>4, <2>1, <2>3, <2>5
  <2> QED
    BY <2>4, <2>5
<1>10. CASE PreparesSeq(e)
  <2>1. b = <<>> /\ wire'[e] = wire[e]
    BY <1>10 DEF PreparesSeq
  <2>2. PICK k \in Channels, n \in Nat, x \in Tokens :
          /\ xmit'[e].buffer = <<x>>
          /\ x.type = "SEQ" /\ x.ch = k /\ x.val = Int32(chan[e][k].xpos) /\ x.size = n
          /\ n <= Signed(chan[e][k].xarm - chan[e][k].xpos)
          /\ chan[e][k].xpos + n <= chan[e][k].xlimit
          /\ chan' = [chan EXCEPT ![e][k].xpos = chan[e][k].xpos + n]
    BY <1>10 DEF PreparesSeq
  <2>3. /\ InFlight(e, c, "ARM")' = InFlight(e, c, "ARM")
        /\ Len(InFlight(e, c, "SEQ")) <= WireSize
        /\ InFlight(e, c, "SEQ")' = IF k = c THEN InFlight(e, c, "SEQ") \o <<x>>
                                    ELSE InFlight(e, c, "SEQ")
    BY <1>8, <2>1, <2>2
  <2>4. /\ chan'[e][c].xpos = (IF c = k THEN chan[e][k].xpos + n ELSE chan[e][c].xpos)
        /\ chan'[e][c].xarm = chan[e][c].xarm /\ chan'[e][c].xlimit = chan[e][c].xlimit
        /\ chan'[e][c].rpos = chan[e][c].rpos /\ chan'[e][c].rlimit = chan[e][c].rlimit
    <3> DEFINE m == chan[e][k].xpos + n
    <3>1. chan \in [Peers -> [Channels -> ChanRecords]]
      BY DEF TypeInv, TypeOK
    <3>2. chan' = [chan EXCEPT ![e][k].xpos = m]
      BY <2>2
    <3> HIDE DEF m
    <3>3. /\ chan'[e][c].xpos = (IF c = k THEN m ELSE chan[e][c].xpos)
          /\ chan'[e][c].xarm = chan[e][c].xarm /\ chan'[e][c].xlimit = chan[e][c].xlimit
          /\ chan'[e][c].rpos = chan[e][c].rpos /\ chan'[e][c].rlimit = chan[e][c].rlimit
      BY <3>1, <3>2, ChanMoved
    <3> QED
      BY <3>3 DEF m
  <2>5. CASE k = c
    <3>0. /\ v.xpos = w.xpos + n /\ v.seqsOut = w.seqsOut \o <<x>>
          /\ v.xlimit = w.xlimit /\ v.xarm = w.xarm /\ v.granted = w.granted /\ v.expected = w.expected
          /\ v.armsOut = w.armsOut /\ v.seqsIn = w.seqsIn /\ v.armsIn = w.armsIn
      BY <1>3, <2>3, <2>4, <2>5, Views
    <3>1. v = [w EXCEPT !.xpos = w.xpos + n, !.seqsOut = w.seqsOut \o <<x>>]
      <4> HIDE DEF w, v
      <4> QED
        BY <1>r, <3>0
    <3>2. /\ Len(w.seqsOut) <= WireSize
          /\ n <= Signed(w.xarm - w.xpos) /\ w.xpos + n <= w.xlimit
          /\ x.val = Int32(w.xpos) /\ x.size = n
      BY <2>2, <2>3, <2>5, Views
    <3>3. w.xlimit <= XmitTotal[e][c]
      BY Views DEF BoundsInv, LimitsBounded
    <3> QED
      BY <3>1, <3>2, <3>3 DEF Moves
  <2>6. CASE k # c
    <3>1. v = w
      BY <1>3, <2>3, <2>4, <2>6, Views
    <3> QED
      BY <3>1 DEF Moves
  <2> QED
    BY <2>5, <2>6
<1> QED
  BY <1>1, <1>5, <1>6, <1>7, <1>9, <1>10

\* What a receiver moves.
LEMMA ReadsMove ==
  ASSUME TypeInv, TypeInv', FrameInv, NEW e \in Peers,
         handleChannel(e) \/ Reads(e) \/ recvNothing(e), NEW c \in Channels
  PROVE  Moves(e, c)
<1> DEFINE w == View(e, c)
           v == View(e, c)'
           o == Other(e)
           t == Head(wire[o])
<1>0. o \in Peers /\ chan \in [Peers -> [Channels -> ChanRecords]] /\ None \notin Channels
  BY TwoPeers, Numbers DEF TypeInv, TypeOK
<1>r. /\ w = [xlimit |-> w.xlimit, xarm |-> w.xarm, xpos |-> w.xpos,
              granted |-> w.granted, expected |-> w.expected, seqsOut |-> w.seqsOut,
              armsOut |-> w.armsOut, seqsIn |-> w.seqsIn, armsIn |-> w.armsIn]
      /\ v = [xlimit |-> v.xlimit, xarm |-> v.xarm, xpos |-> v.xpos,
              granted |-> v.granted, expected |-> v.expected, seqsOut |-> v.seqsOut,
              armsOut |-> v.armsOut, seqsIn |-> v.seqsIn, armsIn |-> v.armsIn]
  <2>1. w = [xlimit |-> w.xlimit, xarm |-> w.xarm, xpos |-> w.xpos,
             granted |-> w.granted, expected |-> w.expected, seqsOut |-> w.seqsOut,
             armsOut |-> w.armsOut, seqsIn |-> w.seqsIn, armsIn |-> w.armsIn]
    BY Views
  <2>2. v = [xlimit |-> v.xlimit, xarm |-> v.xarm, xpos |-> v.xpos,
             granted |-> v.granted, expected |-> v.expected, seqsOut |-> v.seqsOut,
             armsOut |-> v.armsOut, seqsIn |-> v.seqsIn, armsIn |-> v.armsIn]
    BY Views
  <2> QED
    BY <2>1, <2>2
<1>1. /\ UNCHANGED xmit /\ wire'[e] = wire[e]
      /\ TakesNothing(e) \/ TakesUnits(e) \/ TakesHeader(e)
  BY ReadsAre
<1>2. /\ InFlight(e, c, "SEQ")' = InFlight(e, c, "SEQ")
      /\ InFlight(e, c, "ARM")' = InFlight(e, c, "ARM")
  BY <1>1, BothKept
<1>3. ASSUME InFlight(o, c, "SEQ")' = InFlight(o, c, "SEQ"),
             InFlight(o, c, "ARM")' = InFlight(o, c, "ARM"),
             chan'[e][c].xpos = chan[e][c].xpos, chan'[e][c].xarm = chan[e][c].xarm,
             chan'[e][c].xlimit = chan[e][c].xlimit, chan'[e][c].rlimit = chan[e][c].rlimit,
             chan'[e][c].rpos + Due(e, c)' = chan[e][c].rpos + Due(e, c)
      PROVE  Moves(e, c)
  <2>1. v = w
    BY <1>2, <1>3, Views
  <2> QED
    BY <2>1 DEF Moves
<1>4. CASE TakesNothing(e)
  <2>1. /\ InFlight(o, c, "SEQ")' = InFlight(o, c, "SEQ")
        /\ InFlight(o, c, "ARM")' = InFlight(o, c, "ARM")
    BY <1>0, <1>1, <1>4, BothKept DEF TakesNothing
  <2> QED
    BY <1>3, <1>4, <2>1 DEF TakesNothing, StaysPut
<1>5. CASE TakesUnits(e)
  <2>1. PICK n \in 0 .. Len(wire[o]) :
          /\ wire'[o] = SubSeq(wire[o], n + 1, Len(wire[o]))
          /\ \A i \in 1 .. n : wire[o][i].type \in {"DATA", "PAD"}
    BY <1>5 DEF TakesUnits
  <2>2. /\ InFlight(o, c, "SEQ")' = InFlight(o, c, "SEQ")
        /\ InFlight(o, c, "ARM")' = InFlight(o, c, "ARM")
    <3> HIDE DEF o
    <3> QED
      BY <1>0, <1>1, <2>1, FlightPastUnits
  <2> QED
    BY <1>3, <1>5, <2>2 DEF TakesUnits
<1>6. CASE TakesHeader(e)
  <2>1. t \in Tokens /\ wire[o] # <<>> /\ wire'[o] = SubSeq(wire[o], 2, Len(wire[o]))
    BY <1>6 DEF TakesHeader
  <2>2. ASSUME NEW y
        PROVE  InFlight(o, c, y) = IF t.type = y /\ t.ch = c THEN <<t>> \o InFlight(o, c, y)'
                                   ELSE InFlight(o, c, y)'
    <3> DEFINE z == InFlight(o, c, y)'
    <3>1. InFlight(o, c, y) = Bit(t, y, c) \o z
      BY <1>0, <1>1, <2>1, FlightPastHeader
    <3>2. z \in Seq(Tokens)
      BY <1>0, NextInFlight
    <3> HIDE DEF z
    <3>3. <<>> \o z = z
      BY <3>2, ConcatEmptySeq
    <3>4. InFlight(o, c, y) = IF t.type = y /\ t.ch = c THEN <<t>> \o z ELSE z
      BY <3>1, <3>3 DEF Bit
    <3> QED
      BY <3>4 DEF z
  <2>3. CASE t.type \notin {"ARM", "SEQ"}
    <3>1. /\ InFlight(o, c, "SEQ")' = InFlight(o, c, "SEQ")
          /\ InFlight(o, c, "ARM")' = InFlight(o, c, "ARM")
      BY <2>2, <2>3
    <3>2. StaysPut(e) /\ Due(e, c)' = Due(e, c)
      BY <1>6, <2>3 DEF TakesHeader
    <3> QED
      BY <1>3, <3>1, <3>2 DEF StaysPut
  <2>4. CASE t.type = "ARM"
    <3>1. /\ t.ch \in Channels /\ Due(e, c)' = Due(e, c)
          /\ chan' = [chan EXCEPT ![e][t.ch].xarm = t.val]
      BY <1>6, <2>4 DEF TakesHeader
    <3>2. /\ chan'[e][c].xpos = chan[e][c].xpos /\ chan'[e][c].xlimit = chan[e][c].xlimit
          /\ chan'[e][c].xarm = (IF c = t.ch THEN t.val ELSE chan[e][c].xarm)
          /\ chan'[e][c].rpos = chan[e][c].rpos /\ chan'[e][c].rlimit = chan[e][c].rlimit
      <4> DEFINE k == t.ch
                 n == t.val
      <4>1. k \in Channels /\ chan' = [chan EXCEPT ![e][k].xarm = n]
        BY <3>1
      <4> HIDE DEF k, n
      <4>2. /\ chan'[e][c].xpos = chan[e][c].xpos /\ chan'[e][c].xlimit = chan[e][c].xlimit
            /\ chan'[e][c].xarm = (IF c = k THEN n ELSE chan[e][c].xarm)
            /\ chan'[e][c].rpos = chan[e][c].rpos /\ chan'[e][c].rlimit = chan[e][c].rlimit
        BY <1>0, <4>1, ChanMoved
      <4> QED
        BY <4>2 DEF k, n
    <3>3. InFlight(o, c, "SEQ")' = InFlight(o, c, "SEQ")
      BY <2>2, <2>4
    <3>4. CASE t.ch = c
      <4>1. InFlight(o, c, "ARM") = <<t>> \o InFlight(o, c, "ARM")'
        BY <2>2, <2>4, <3>4
      <4> HIDE DEF t
      <4>0. /\ v.xarm = t.val
            /\ v.xlimit = w.xlimit /\ v.xpos = w.xpos /\ v.granted = w.granted /\ v.expected = w.expected
            /\ v.seqsOut = w.seqsOut /\ v.armsOut = w.armsOut /\ v.seqsIn = w.seqsIn
        BY <1>2, <3>1, <3>2, <3>3, <3>4, Views
      <4>2. v = [w EXCEPT !.xarm = t.val, !.armsIn = v.armsIn]
        <5> HIDE DEF w, v
        <5> QED
          BY <1>r, <4>0
      <4>3. w.armsIn = <<t>> \o v.armsIn
        BY <4>1, Views
      <4> QED
        BY <2>1, <4>2, <4>3 DEF Moves
    <3>5. CASE t.ch # c
      <4>1. InFlight(o, c, "ARM")' = InFlight(o, c, "ARM")
        BY <2>2, <3>5
      <4> QED
        BY <1>3, <3>1, <3>2, <3>3, <3>5, <4>1
    <3> QED
      BY <3>4, <3>5
  <2>5. CASE t.type = "SEQ"
    <3>1. /\ t.ch \in Channels /\ t.val = Int32(chan[e][t.ch].rpos) /\ StaysPut(e)
          /\ Due(e, c) = 0 /\ Due(e, c)' = IF c = t.ch THEN t.size ELSE 0
      BY <1>6, <2>5 DEF TakesHeader
    <3>2. InFlight(o, c, "ARM")' = InFlight(o, c, "ARM")
      BY <2>2, <2>5
    <3>3. CASE t.ch = c
      <4>1. InFlight(o, c, "SEQ") = <<t>> \o InFlight(o, c, "SEQ")'
        BY <2>2, <2>5, <3>3
      <4>0. chan[e][c].rpos \in Nat /\ t.size \in Nat
        BY <1>0, <2>1, ChanTyped DEF Tokens
      <4> HIDE DEF t
      <4>2. /\ chan[e][c].rpos + Due(e, c) = chan[e][c].rpos
            /\ chan'[e][c].rpos + Due(e, c)' = chan[e][c].rpos + t.size
        BY <3>1, <3>3, <4>0 DEF StaysPut
      <4>5. /\ v.expected = w.expected + t.size
            /\ v.xlimit = w.xlimit /\ v.xarm = w.xarm /\ v.xpos = w.xpos /\ v.granted = w.granted
            /\ v.seqsOut = w.seqsOut /\ v.armsOut = w.armsOut /\ v.armsIn = w.armsIn
        BY <1>2, <3>1, <3>2, <4>2, Views DEF StaysPut
      <4>3. v = [w EXCEPT !.expected = w.expected + t.size, !.seqsIn = v.seqsIn]
        <5> HIDE DEF w, v
        <5> QED
          BY <1>r, <4>5
      <4>4. w.seqsIn = <<t>> \o v.seqsIn /\ t.val = Int32(w.expected)
        BY <3>1, <3>3, <4>1, <4>2, Views
      <4> QED
        BY <2>1, <4>3, <4>4 DEF Moves
    <3>4. CASE t.ch # c
      <4>1. InFlight(o, c, "SEQ")' = InFlight(o, c, "SEQ")
        BY <2>2, <3>4
      <4> QED
        BY <1>3, <3>1, <3>2, <3>4, <4>1 DEF StaysPut
    <3> QED
      BY <3>3, <3>4
  <2> QED
    BY <2>3, <2>4, <2>5
<1> QED
  BY <1>1, <1>4, <1>5, <1>6

\* So much a step of an endpoint moves, in both directions of every channel.
LEMMA StepMoves ==
  ASSUME TypeInv, TypeInv', FrameInv, BoundsInv, NEW e \in Peers, Acts(e), NEW c \in Channels
  PROVE  Moves(e, c)
BY ApplicationMoves, ReadsMove, WritesMove DEF Acts, NetworkThread

\* Every stream begins as ChabuFlow does.
LEMMA InitMapped ==
  ASSUME Init, NEW e \in Peers, NEW c \in Channels
  PROVE  Stream(e, c)!Init
<1> DEFINE o == Other(e)
<1>0. o \in Peers
  BY TwoPeers
<1>1. ASSUME NEW p \in Peers, NEW t \in {"SEQ", "ARM"} PROVE InFlight(p, c, t) = <<>>
  <2> DEFINE x == Packet("SETUP")
  <2>1. wire[p] = <<>> /\ xmit[p].buffer = <<x>> /\ x.type = "SETUP"
    BY DEF Init, Packet, Token
  <2>2. <<>> \o <<x>> = <<x>>
    OBVIOUS
  <2>3. PacketsOf(<<x>>, t, c) = Bit(x, t, c)
    BY PacketsFew
  <2>4. Bit(x, t, c) = <<>>
    BY <2>1 DEF Bit
  <2> HIDE DEF x
  <2> QED
    BY <2>1, <2>2, <2>3, <2>4 DEF InFlight
<1>2. SeqsOf(e, c) = <<>> /\ ArmsOf(o, c) = <<>>
  <2>1. SeqsOf(e, c) = SeqsSeen(<<>>, chan[e][c].xpos)
        /\ ArmsOf(o, c) = ArmsSeen(<<>>, chan[o][c].rlimit)
    BY <1>0, <1>1, SeenMapped
  <2> QED
    BY <2>1 DEF SeqsSeen, ArmsSeen
<1>3. /\ chan[e][c].xpos = 0 /\ chan[e][c].xarm = 0 /\ chan[e][c].xlimit = 0
      /\ chan[o][c].rpos = 0 /\ chan[o][c].rlimit = 0 /\ Due(o, c) = 0
  <2> HIDE DEF o
  <2>1. recv[o].ch = None /\ None \notin Channels
    BY <1>0, Numbers DEF Init
  <2> QED
    BY <1>0, <2>1 DEF Init, Due
<1>4. Signed(0 - 0) = 0
  <2>1. 0 + Wrap * 0 = 0 /\ 0 - 0 = 0 /\ Wrap > 0 /\ Wrap \in Int
    BY SizesAssumption
  <2>2. (0 + Wrap * 0) % Wrap = 0
    BY <2>1, Remainder
  <2> QED
    BY <2>1, <2>2 DEF Signed, Int32
<1> HIDE DEF o
<1> QED
  BY <1>2, <1>3, <1>4 DEF Stream!Init, o

\* A step is one of ChabuFlow, or none, in every stream.
LEMMA StepSimulates ==
  ASSUME TypeInv, TypeInv', FrameInv, BoundsInv, NEW e \in Peers, Acts(e),
         NEW p \in Peers, NEW c \in Channels
  PROVE  [Stream(p, c)!Next]_(Stream(p, c)!flow)
<1>1. Moves(e, c)
  BY StepMoves
<1>2. CASE p = e
  BY <1>1, <1>2, SenderSimulates
<1>3. CASE p = Other(e)
  BY <1>1, <1>3, ReceiverSimulates
<1> QED
  BY <1>2, <1>3, TwoPeers

StreamInv == LinkInv /\ BoundsInv

\* Two programs that run the Java library implement ChabuFlow in both
\* directions of every channel.  Whatever the threads, the transport and the
\* other channels do, a stream only grants, announces, sends and receives as
\* one there does, counted in full positions although the packets carry ints
\* that wrap: all that is proved of ChabuFlow is true of it.
THEOREM StreamsImplemented == Spec => StreamsKept
<1>1. Init => StreamInv
  BY InitTyped, InitFramed, InitBounded DEF StreamInv, LinkInv
<1>2. StreamInv /\ [Next]_vars => StreamInv'
  <2> SUFFICES ASSUME StreamInv, [Next]_vars PROVE StreamInv'
    OBVIOUS
  <2>1. LinkInv'
    BY NextFramed DEF StreamInv
  <2>2. CASE UNCHANGED vars
    <3>1. BoundsInv'
      BY <2>2 DEF StreamInv, BoundsInv, BuffersBounded, LimitsBounded, Promised, vars
    <3> QED
      BY <2>1, <3>1 DEF StreamInv
  <2>3. CASE Next
    BY <2>1, <2>3, StepBounded DEF StreamInv, LinkInv, Next, Acts
  <2> QED
    BY <2>2, <2>3
<1>3. Init => \A e \in Peers, c \in Channels : Stream(e, c)!Init
  BY InitMapped
<1>4. StreamInv /\ StreamInv' /\ [Next]_vars
        => [\A e \in Peers, c \in Channels :
              [Stream(e, c)!Next]_(Stream(e, c)!flow)]_vars
  <2> SUFFICES ASSUME StreamInv, StreamInv', Next, NEW p \in Peers, NEW c \in Channels
               PROVE  [Stream(p, c)!Next]_(Stream(p, c)!flow)
    OBVIOUS
  <2>1. PICK e \in Peers : Acts(e)
    BY DEF Next, Acts
  <2> QED
    BY <2>1, StepSimulates DEF StreamInv, LinkInv
<1> QED
  BY <1>1, <1>2, <1>3, <1>4, PTL DEF Spec, StreamsKept
=============================================================================

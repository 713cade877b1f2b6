------------------------------ MODULE JavaLink ------------------------------
(***************************************************************************)
(* Two programs that use the Java library (org.chabu.prot.v1.internal),    *)
(* joined by a reliable byte transport.                                    *)
(*                                                                         *)
(* One thread of each program, the network thread, calls handleChannel     *)
(* (TestServer.run): ChabuReceiver.recv, then the list of transmit actions *)
(* of ChabuXmitterStartup or ChabuXmitterNormal, round after round.  One   *)
(* action of this module is one round of recv or one transmit action.  The *)
(* application calls the channels from callbacks in that thread or, where  *)
(* Threaded, from a thread of its own, between any two accesses to state   *)
(* that both threads use without a lock.                                   *)
(*                                                                         *)
(* The transport carries tokens: a header, a unit of payload, a unit of    *)
(* padding.                                                                *)
(***************************************************************************)
EXTENDS BitSetPriorizer, Streams

CONSTANTS
  Peers,       \* the two endpoints
  Align,       \* the multiple that payload is padded to: Utils.alignUpTo4
  MaxPayload,  \* per endpoint: its recvPacketSize - SEQ_MIN_SZ
  WireSize,    \* bound: tokens the transport buffers in each direction
  Wrap,        \* 2^32: seq and arm are ints
  Accepts,     \* per endpoint: the answers its ChabuConnectingValidator may give
  Threaded,    \* per endpoint: the application has a thread of its own
  AddSizes,    \* amounts the applications add to a limit
  XmitTotal,   \* bound: per endpoint and channel, the last xmit limit
  RecvTotal    \* bound: per endpoint and channel, the last recv limit

ASSUME PeersAssumption == \E a, b \in Peers : a # b /\ Peers = {a, b}
ASSUME SizesAssumption == /\ Align \in Nat \ {0} /\ Wrap \in Nat \ {0}
                          /\ MaxPayload \in [Peers -> Nat \ {0}] /\ WireSize \in Nat
ASSUME AmountsAssumption == /\ AddSizes \subseteq Nat
                            /\ XmitTotal \in [Peers -> [Channels -> Nat]]
                            /\ RecvTotal \in [Peers -> [Channels -> Nat]]
ASSUME ProgramsAssumption == /\ Accepts \in [Peers -> SUBSET BOOLEAN]
                             /\ Threaded \in [Peers -> BOOLEAN]

VARIABLES
  chan,  \* per endpoint and channel: ChabuChannelImpl
  ctrl,  \* per endpoint: xmitChannelRequestCtrl
  data,  \* per endpoint: xmitChannelRequestData
  xmit,  \* per endpoint: the xmitter
  recv,  \* per endpoint: the receiver and what it learnt at startup
  net,   \* per endpoint: position of the network thread, wakeup, exception
  app,   \* per endpoint: what the application thread has left of its call
  wire   \* per endpoint: the tokens it sent that the other did not read

vars == <<chan, ctrl, data, xmit, recv, net, app, wire>>

None == -1
Other(e) == CHOOSE p \in Peers : p # e

Token(t, c, v, n) == [type |-> t, ch |-> c, val |-> v, size |-> n]
Packet(t) == Token(t, None, 0, 0)
Units(t, n) == [i \in 1 .. n |-> Packet(t)]

\* An int as it is stored and sent, and the difference of two of them.
Int32(n)   == n % Wrap
Signed(n)  == IF 2 * Int32(n) < Wrap THEN Int32(n) ELSE Int32(n) - Wrap
Padding(n) == (Align - (n % Align)) % Align

Resting == [call |-> "none", ch |-> None, added |-> 0, todo |-> {}]

Init ==
  /\ chan = [e \in Peers |-> [c \in Channels |->
               [xpos |-> 0, xarm |-> 0, xlimit |-> 0,
                rpos |-> 0, rlimit |-> 0, armFlag |-> TRUE]]]
  /\ ctrl = [e \in Peers |-> NoRequests]
  /\ data = [e \in Peers |-> NoRequests]
  /\ xmit = [e \in Peers |-> [phase |-> "startup", accepted |-> "idle",
               buffer |-> <<Packet("SETUP")>>, ch |-> None, body |-> <<>>]]
  /\ recv = [e \in Peers |-> [phase |-> "startup", answer |-> "none",
               ch |-> None, payload |-> 0, padding |-> 0]]
  /\ net  = [e \in Peers |-> [pc |-> "idle", wakeup |-> TRUE, fault |-> "none",
                              todo |-> {}]]
  /\ app  = [e \in Peers |-> Resting]
  /\ wire = [e \in Peers |-> <<>>]

-----------------------------------------------------------------------------
(* Calls of the application.  A channel is handed out by activate, when    *)
(* both directions have completed the startup.                             *)

Active(e) ==
  xmit[e].phase = "normal" /\ recv[e].phase = "normal" /\ net[e].pc # "dead"

\* The network thread calls the application back while it receives, and when
\* a SEQ is sent; between two handleChannel it may run calls of its own.
Calls(e) ==
  Active(e) /\ app[e] = Resting /\ (Threaded[e] \/ net[e].pc \in {"idle", "recv", "seq"})

\* channelXmitRequestArm and channelXmitRequestData: the request is entered
\* under the lock of the xmitter, then the listener wakes the network thread.
RequestAndWake(p, e, c) ==
  /\ p' = [p EXCEPT ![e] = Request(@, c)]
  /\ net' = [net EXCEPT ![e].wakeup = TRUE]

addXmitLimit(e, c, added) ==
  /\ Calls(e)
  /\ chan[e][c].xlimit + added <= XmitTotal[e][c]
  /\ chan' = [chan EXCEPT ![e][c].xlimit = @ + added]
  /\ IF Threaded[e]
       THEN /\ app' = [app EXCEPT ![e] = [Resting EXCEPT !.call = "xmit", !.ch = c]]
            /\ UNCHANGED <<data, net>>
       ELSE RequestAndWake(data, e, c) /\ UNCHANGED app
  /\ UNCHANGED <<ctrl, xmit, recv, wire>>

\* The room an application grants is less than half the range of an int.
addRecvLimit(e, c, added) ==
  /\ Calls(e)
  /\ chan[e][c].rlimit + added <= RecvTotal[e][c]
  /\ 2 * (chan[e][c].rlimit + added - chan[e][c].rpos) < Wrap
  /\ IF Threaded[e]
       THEN /\ app' = [app EXCEPT ![e] = [call |-> "recv", ch |-> c, added |-> added,
                                          todo |-> {"arm", "flag"}]]
            /\ UNCHANGED <<chan, ctrl, net>>
       ELSE /\ chan' = [chan EXCEPT ![e][c].rlimit = @ + added, ![e][c].armFlag = TRUE]
            /\ RequestAndWake(ctrl, e, c)
            /\ UNCHANGED app
  /\ UNCHANGED <<data, xmit, recv, wire>>

\* recvArm and recvArmShouldBeXmit are plain fields: the network thread may
\* see the two writes in either order.
ApplicationWrites(e) ==
  LET a == app[e] IN
    /\ net[e].pc # "dead"
    /\ \/ /\ "arm" \in a.todo
          /\ chan' = [chan EXCEPT ![e][a.ch].rlimit = @ + a.added]
          /\ app' = [app EXCEPT ![e].todo = @ \ {"arm"}]
       \/ /\ "flag" \in a.todo
          /\ chan' = [chan EXCEPT ![e][a.ch].armFlag = TRUE]
          /\ app' = [app EXCEPT ![e].todo = @ \ {"flag"}]
    /\ UNCHANGED <<ctrl, data, xmit, recv, net, wire>>

ApplicationRequests(e) ==
  /\ net[e].pc # "dead" /\ app[e].todo = {}
  /\ \/ app[e].call = "xmit" /\ RequestAndWake(data, e, app[e].ch) /\ UNCHANGED ctrl
     \/ app[e].call = "recv" /\ RequestAndWake(ctrl, e, app[e].ch) /\ UNCHANGED data
  /\ app' = [app EXCEPT ![e] = Resting]
  /\ UNCHANGED <<chan, xmit, recv, wire>>

ApplicationStep(e) == ApplicationWrites(e) \/ ApplicationRequests(e)

ApplicationCall(e) ==
  \E c \in Channels, n \in AddSizes : addXmitLimit(e, c, n) \/ addRecvLimit(e, c, n)

-----------------------------------------------------------------------------
(* handleChannel, first part: ChabuReceiver.recv.                          *)

Inbound(e) == wire[Other(e)]
Room(e)    == WireSize - Len(wire[e])

\* The selector loop calls when there is something to read, or when a wakeup
\* registered the interest to write and the transport has room.
handleChannel(e) ==
  /\ net[e].pc = "idle"
  /\ Inbound(e) # <<>> \/ (net[e].wakeup /\ Room(e) > 0)
  /\ net' = [net EXCEPT ![e].pc = "recv", ![e].wakeup = FALSE]
  /\ UNCHANGED <<chan, ctrl, data, xmit, recv, app, wire>>

\* An exception leaves handleChannel and ends the loop of the network thread.
Throw(e, fault) ==
  /\ net' = [net EXCEPT ![e].pc = "dead", ![e].fault = fault]
  /\ UNCHANGED <<chan, ctrl, data, xmit, recv, app, wire>>

Header(e) == Head(Inbound(e))

HeaderReceived(e) == net[e].pc = "recv" /\ recv[e].ch = None /\ Inbound(e) # <<>>

\* The packets that the receiver of this phase takes without an exception.
Expected(e) ==
  IF recv[e].phase = "normal" THEN {"ARM", "SEQ"}
  ELSE IF recv[e].answer = "none" THEN {"SETUP"} ELSE {"ACCEPT"}

Receives(e, type) ==
  HeaderReceived(e) /\ type \in Expected(e) /\ Header(e).type = type

Consume(e, n) ==
  wire' = [wire EXCEPT ![Other(e)] = SubSeq(@, n + 1, Len(@))]

\* The exception for the application: the peer aborted, or it violated the
\* protocol.
recvThrows(e) ==
  /\ HeaderReceived(e) /\ Header(e).type \notin Expected(e)
  /\ Throw(e, IF Header(e).type = "ABORT" THEN "abort" ELSE "protocol")

\* The validator is asked; a refusal makes the abort message pending.
processRecvSetup(e) ==
  /\ Receives(e, "SETUP")
  /\ \/ TRUE \in Accepts[e]  /\ recv' = [recv EXCEPT ![e].answer = "accept"] /\ UNCHANGED net
     \/ /\ FALSE \in Accepts[e] /\ recv' = [recv EXCEPT ![e].answer = "reject"]
        /\ net' = [net EXCEPT ![e].wakeup = TRUE]
  /\ Consume(e, 1)
  /\ UNCHANGED <<chan, ctrl, data, xmit, app>>

\* activate asks for an ARM of every channel, which tells the peer the credit.
Activate(e) ==
  ctrl' = [ctrl EXCEPT ![e].requests =
             [p \in Priorities |-> {c \in Channels : PriorityOf[c] = p}]]

\* The first transmit action that has something to do.
FirstAction(e) ==
  IF xmit[e].buffer # <<>> THEN "send" ELSE IF xmit[e].ch # None THEN "seq" ELSE "next"

\* recvCompletedStartup; the current call goes on to the xmitter.
processRecvAccept(e) ==
  /\ Receives(e, "ACCEPT")
  /\ recv' = [recv EXCEPT ![e].phase = "normal"]
  /\ IF xmit[e].phase = "normal"
       THEN Activate(e) /\ net' = [net EXCEPT ![e].pc = FirstAction(e), ![e].wakeup = TRUE]
       ELSE net' = [net EXCEPT ![e].pc = FirstAction(e)] /\ UNCHANGED ctrl
  /\ Consume(e, 1)
  /\ UNCHANGED <<chan, data, xmit, app>>

\* A mutant: takes the credit for an amount to add.
processRecvArmAdded(e) ==
  /\ Receives(e, "ARM")
  /\ LET c == Header(e).ch IN
       /\ chan' = [chan EXCEPT ![e][c].xarm = Int32(@ + Header(e).val)]
       /\ RequestAndWake(data, e, c)
  /\ Consume(e, 1)
  /\ UNCHANGED <<ctrl, xmit, recv, app>>

processRecvArm(e) ==
  /\ Receives(e, "ARM")
  /\ LET c == Header(e).ch
         k == chan[e][c]
     IN  /\ chan' = [chan EXCEPT ![e][c].xarm = Header(e).val]
         /\ IF k.xarm # Header(e).val /\ k.xlimit > k.xpos
              THEN RequestAndWake(data, e, c)
              ELSE UNCHANGED <<data, net>>
  /\ Consume(e, 1)
  /\ UNCHANGED <<ctrl, xmit, recv, app>>

\* processSeq on a new packet: the position must be the expected one, and the
\* payload must fit the credit granted.
processSeq(e) ==
  /\ Receives(e, "SEQ")
  /\ LET t == Header(e)
         k == chan[e][t.ch]
     IN  IF t.val # Int32(k.rpos) \/ t.size > Signed(k.rlimit - k.rpos)
           THEN Throw(e, "protocol")
           ELSE /\ recv' = [recv EXCEPT ![e].ch = t.ch, ![e].payload = t.size,
                                        ![e].padding = Padding(t.size)]
                /\ Consume(e, 1)
                /\ UNCHANGED <<chan, ctrl, data, xmit, net, app>>

\* A mutant: reads what is there, also beyond the packet.
handleRecvSeqUnbounded(e, n) ==
  LET r == recv[e] IN
    /\ net[e].pc = "recv" /\ r.ch # None /\ r.payload > 0
    /\ n <= Len(Inbound(e))
    /\ chan' = [chan EXCEPT ![e][r.ch].rpos = @ + n]
    /\ recv' = [recv EXCEPT ![e].payload = @ - n,
                            ![e].ch = IF n = r.payload + r.padding THEN None ELSE @]
    /\ Consume(e, n)
    /\ UNCHANGED <<ctrl, data, xmit, net, app>>

\* handleRecvSeq reads into the buffers of the application.
handleRecvSeq(e, n) ==
  LET r == recv[e] IN
    /\ net[e].pc = "recv" /\ r.ch # None
    /\ n <= r.payload /\ n <= Len(Inbound(e))
    /\ chan' = [chan EXCEPT ![e][r.ch].rpos = @ + n]
    /\ recv' = [recv EXCEPT ![e].payload = @ - n,
                            ![e].ch = IF n = r.payload + r.padding THEN None ELSE @]
    /\ Consume(e, n)
    /\ UNCHANGED <<ctrl, data, xmit, net, app>>

recvPadding(e, n) ==
  LET r == recv[e] IN
    /\ net[e].pc = "recv" /\ r.ch # None /\ r.payload = 0
    /\ n <= r.padding /\ n <= Len(Inbound(e))
    /\ recv' = [recv EXCEPT ![e].padding = @ - n,
                            ![e].ch = IF n = r.padding THEN None ELSE @]
    /\ Consume(e, n)
    /\ UNCHANGED <<chan, ctrl, data, xmit, net, app>>

\* The channel has no more bytes for now.
recvNothing(e) ==
  /\ net[e].pc = "recv"
  /\ net' = [net EXCEPT ![e].pc = FirstAction(e)]
  /\ UNCHANGED <<chan, ctrl, data, xmit, recv, app, wire>>

Reads(e) ==
  \/ recvThrows(e) \/ processRecvSetup(e) \/ processRecvAccept(e)
  \/ processRecvArm(e) \/ processSeq(e)
  \/ \E n \in 1 .. WireSize : handleRecvSeq(e, n) \/ recvPadding(e, n)

-----------------------------------------------------------------------------
(* handleChannel, second part: the transmit actions.                       *)

\* How many of n units ByteChannel.write may take.
Takes(e, n) == IF Room(e) = 0 THEN {0} ELSE 1 .. Min({n, Room(e)})

Send(e, tokens) == wire' = [wire EXCEPT ![e] = @ \o tokens]

Goto(e, pc) == net' = [net EXCEPT ![e].pc = pc]
Blocked(e)  == net' = [net EXCEPT ![e].pc = "idle", ![e].wakeup = TRUE]

\* xmitAction_RemainingXmitBuf.  The end of an ABORT is an exception here too.
RemainingXmitBuf(e) ==
  LET buffer == xmit[e].buffer
  IN  /\ net[e].pc = "send"
      /\ IF Room(e) = 0 THEN Blocked(e) /\ UNCHANGED <<xmit, wire>>
         ELSE /\ Send(e, buffer)
              /\ xmit' = [xmit EXCEPT ![e].buffer = <<>>,
                   ![e].accepted = IF buffer = <<Packet("ACCEPT")>> THEN "xmitted" ELSE @]
              /\ IF buffer = <<Packet("ABORT")>>
                   THEN net' = [net EXCEPT ![e].pc = "dead", ![e].fault = "abort"]
                   ELSE Goto(e, IF xmit[e].ch = None THEN "next" ELSE "seq")
      /\ UNCHANGED <<chan, ctrl, data, recv, app>>

\* A mutant: the channel is not requested again for the rest of its data.
RemainingSeqForgetful(e) ==
  LET body == xmit[e].body IN
    /\ net[e].pc = "seq"
    /\ \E n \in Takes(e, Len(body)) :
         /\ Send(e, SubSeq(body, 1, n))
         /\ xmit' = [xmit EXCEPT ![e].body = SubSeq(@, n + 1, Len(@)),
                                 ![e].ch = IF n < Len(body) THEN @ ELSE None]
         /\ IF n < Len(body) THEN Blocked(e) ELSE Goto(e, "next")
    /\ UNCHANGED <<chan, ctrl, data, recv, app>>

\* xmitAction_RemainingSeq: payload, then padding, until the channel takes no
\* more; then the channel is requested again if it has data and credit left.
RemainingSeq(e) ==
  LET body  == xmit[e].body
      c     == xmit[e].ch
      k     == chan[e][c]
      again == k.xlimit > k.xpos /\ Signed(k.xarm - k.xpos) > 0
  IN  /\ net[e].pc = "seq"
      /\ \E n \in Takes(e, Len(body)) :
           /\ Send(e, SubSeq(body, 1, n))
           /\ xmit' = [xmit EXCEPT ![e].body = SubSeq(@, n + 1, Len(@)),
                                   ![e].ch = IF n < Len(body) THEN @ ELSE None]
           /\ IF n < Len(body) THEN Blocked(e) /\ UNCHANGED data
              ELSE IF again
                THEN /\ data' = [data EXCEPT ![e] = Request(@, c)]
                     /\ net' = [net EXCEPT ![e].pc = "next", ![e].wakeup = TRUE]
                ELSE Goto(e, "next") /\ UNCHANGED data
      /\ UNCHANGED <<chan, ctrl, recv, app>>

\* One packet in xmitBuf; Continue begins the list of actions again.
Prepare(e, packet) ==
  xmit' = [xmit EXCEPT ![e].buffer = <<packet>>] /\ Goto(e, "send")

\* A mutant: reports the abort to the own application and sends nothing.
EvalAbortLocal(e) ==
  net[e].pc = "next" /\ recv[e].answer = "reject" /\ Throw(e, "abort")

EvalAbort(e) ==
  /\ net[e].pc = "next" /\ recv[e].answer = "reject"
  /\ Prepare(e, Packet("ABORT"))
  /\ UNCHANGED <<chan, ctrl, data, recv, app, wire>>

\* xmitAction_EvalAccept: prepares the ACCEPT, waits for the answer of the
\* validator, or, when the ACCEPT is sent, completes the startup.
EvalAccept(e) ==
  /\ net[e].pc = "next" /\ xmit[e].phase = "startup" /\ recv[e].answer # "reject"
  /\ \/ /\ xmit[e].accepted = "idle" /\ recv[e].answer = "accept"
        /\ xmit' = [xmit EXCEPT ![e].accepted = "prepared", ![e].buffer = <<Packet("ACCEPT")>>]
        /\ Goto(e, "send") /\ UNCHANGED ctrl
     \/ /\ xmit[e].accepted = "idle" /\ recv[e].answer = "none"
        /\ Goto(e, "idle") /\ UNCHANGED <<xmit, ctrl>>
     \/ /\ xmit[e].accepted = "xmitted"
        /\ xmit' = [xmit EXCEPT ![e].phase = "normal"]
        /\ IF recv[e].phase = "normal"
             THEN Activate(e) /\ Blocked(e)
             ELSE Goto(e, "idle") /\ UNCHANGED ctrl
  /\ UNCHANGED <<chan, data, recv, app, wire>>

\* xmitAction_EvalChannelCtrl pops a channel; handleXmitCtrl tests its flag.
EvalChannelCtrl(e) ==
  LET c == Popped(ctrl[e]) IN
    /\ net[e].pc = "next" /\ xmit[e].phase = "normal" /\ Pending(ctrl[e]) # {}
    /\ ctrl' = [ctrl EXCEPT ![e] = PopNextRequest(@)]
    /\ IF chan[e][c].armFlag
         THEN /\ net' = [net EXCEPT ![e].pc = "arm", ![e].todo = {"clear", "read"}]
              /\ xmit' = [xmit EXCEPT ![e].ch = c]
         ELSE Goto(e, "data") /\ UNCHANGED xmit
    /\ UNCHANGED <<chan, data, recv, app, wire>>

\* handleXmitCtrl clears the flag and reads recvArm.  The processor may read
\* before its write is seen by the other thread.
ArmDone(e, step) ==
  LET todo == net[e].todo \ {step}
  IN  net' = [net EXCEPT ![e].todo = todo,
                         ![e].pc = IF todo = {} THEN "send" ELSE @]

ClearArmFlag(e) ==
  /\ net[e].pc = "arm" /\ "clear" \in net[e].todo
  /\ chan' = [chan EXCEPT ![e][xmit[e].ch].armFlag = FALSE]
  /\ xmit' = [xmit EXCEPT ![e].ch = IF "read" \in net[e].todo THEN @ ELSE None]
  /\ ArmDone(e, "clear")
  /\ UNCHANGED <<ctrl, data, recv, app, wire>>

ReadRecvArm(e) ==
  LET c == xmit[e].ch IN
    /\ net[e].pc = "arm" /\ "read" \in net[e].todo
    /\ xmit' = [xmit EXCEPT ![e].buffer = <<Token("ARM", c, Int32(chan[e][c].rlimit), 0)>>,
                            ![e].ch = IF "clear" \in net[e].todo THEN @ ELSE None]
    /\ ArmDone(e, "read")
    /\ UNCHANGED <<chan, ctrl, data, recv, app, wire>>

\* xmitAction_EvalChannelCtrl has nothing to do, or the channel it popped had
\* nothing to grant.
EvaluatesData(e) ==
  \/ net[e].pc = "data"
  \/ net[e].pc = "next" /\ xmit[e].phase = "normal" /\ Pending(ctrl[e]) = {}

\* A mutant: the credit is not looked at.
EvalChannelDataUnpaused(e) ==
  LET c == Popped(data[e])
      k == chan[e][c]
      n == Min({k.xlimit - k.xpos, MaxPayload[Other(e)]})
  IN  /\ EvaluatesData(e) /\ Pending(data[e]) # {}
      /\ data' = [data EXCEPT ![e] = PopNextRequest(@)]
      /\ IF n = 0 THEN Goto(e, "idle") /\ UNCHANGED <<chan, xmit>>
         ELSE /\ chan' = [chan EXCEPT ![e][c].xpos = @ + n]
              /\ xmit' = [xmit EXCEPT ![e].ch = c,
                   ![e].buffer = <<Token("SEQ", c, Int32(k.xpos), n)>>,
                   ![e].body = Units("DATA", n) \o Units("PAD", Padding(n))]
              /\ Goto(e, "send")
      /\ UNCHANGED <<ctrl, recv, app, wire>>

\* xmitAction_EvalChannelData: the SEQ takes what the application has, the
\* peer granted and the peer can receive, or less if getXmitBuffer gives less.
\* A channel without data or credit ends the call.
EvalChannelData(e) ==
  LET c      == Popped(data[e])
      k      == chan[e][c]
      davail == Min({Signed(k.xarm - k.xpos), k.xlimit - k.xpos})
  IN  /\ EvaluatesData(e) /\ Pending(data[e]) # {}
      /\ data' = [data EXCEPT ![e] = PopNextRequest(@)]
      /\ \/ davail = 0 /\ Goto(e, "idle") /\ UNCHANGED <<chan, xmit>>
         \/ \E n \in 1 .. Min({davail, MaxPayload[Other(e)]}) :
              /\ chan' = [chan EXCEPT ![e][c].xpos = @ + n]
              /\ xmit' = [xmit EXCEPT ![e].ch = c,
                   ![e].buffer = <<Token("SEQ", c, Int32(k.xpos), n)>>,
                   ![e].body = Units("DATA", n) \o Units("PAD", Padding(n))]
              /\ Goto(e, "send")
      /\ UNCHANGED <<ctrl, recv, app, wire>>

\* No data is requested: xmitAction_EvalNop has nothing, xmitAction_End.
xmitEnd(e) ==
  /\ EvaluatesData(e) /\ Pending(data[e]) = {}
  /\ Goto(e, "idle")
  /\ UNCHANGED <<chan, ctrl, data, xmit, recv, app, wire>>

Writes(e) ==
  \/ RemainingXmitBuf(e) \/ RemainingSeq(e)
  \/ EvalAbort(e) \/ EvalAccept(e) \/ EvalChannelCtrl(e)
  \/ ClearArmFlag(e) \/ ReadRecvArm(e) \/ EvalChannelData(e) \/ xmitEnd(e)

NetworkThread(e) == handleChannel(e) \/ Reads(e) \/ recvNothing(e) \/ Writes(e)

Next == \E e \in Peers : ApplicationCall(e) \/ ApplicationStep(e) \/ NetworkThread(e)

Spec == Init /\ [][Next]_vars

\* Both threads run on, and the transport delivers: what can be read is read
\* at last.  No application has to make a call.
Fairness ==
  \A e \in Peers : /\ WF_vars(NetworkThread(e))
                   /\ WF_vars(ApplicationStep(e))
                   /\ SF_vars(Reads(e))

FairSpec == Spec /\ Fairness
-----------------------------------------------------------------------------
(* Properties. *)

Tokens == [type : {"SETUP", "ACCEPT", "ABORT", "ARM", "SEQ", "DATA", "PAD"},
           ch : Channels \cup {None}, val : 0 .. Wrap - 1, size : Nat]

ChanRecords == [xpos : Nat, xarm : 0 .. Wrap - 1, xlimit : Nat, rpos : Nat, rlimit : Nat,
                armFlag : BOOLEAN]
XmitRecords == [phase : {"startup", "normal"}, accepted : {"idle", "prepared", "xmitted"},
                buffer : Seq(Tokens), ch : Channels \cup {None}, body : Seq(Tokens)]
RecvRecords == [phase : {"startup", "normal"}, answer : {"none", "accept", "reject"},
                ch : Channels \cup {None}, payload : Nat, padding : Nat]
NetRecords  == [pc : {"idle", "recv", "send", "seq", "next", "arm", "data", "dead"},
                wakeup : BOOLEAN, fault : {"none", "abort", "protocol"},
                todo : SUBSET {"clear", "read"}]
AppRecords  == [call : {"none", "xmit", "recv"}, ch : Channels \cup {None}, added : Nat,
                todo : SUBSET {"arm", "flag"}]

TypeOK ==
  /\ chan \in [Peers -> [Channels -> ChanRecords]]
  /\ ctrl \in [Peers -> Priorizers] /\ data \in [Peers -> Priorizers]
  /\ xmit \in [Peers -> XmitRecords] /\ recv \in [Peers -> RecvRecords]
  /\ net \in [Peers -> NetRecords] /\ app \in [Peers -> AppRecords]
  /\ wire \in [Peers -> Seq(Tokens)]

\* However the transport splits the packets and the threads interleave, no
\* receiver throws for a packet it does not expect, a wrong position or
\* payload beyond the credit: all that verifySeq, handleRecvSeq and the
\* receivers ensure of the peer is true of a peer that runs this library.
NoProtocolError == \A e \in Peers : net[e].fault # "protocol"

\* Every stream keeps the promises of ChabuFlow, also behind the wrap of the
\* ints.  The flow counts in full positions: an int stands for the one that
\* is nearest to what its reader compares it with.
InFlight(e, c, t) == PacketsOf(wire[e] \o xmit[e].buffer, t, c)

Behind(position, int) == position - Int32(position - int)

SeqsOf(e, c) ==
  LET s == InFlight(e, c, "SEQ")
  IN  [i \in 1 .. Len(s) |-> [seq  |-> Behind(chan[e][c].xpos, s[i].val),
                              size |-> s[i].size]]

ArmsOf(e, c) ==
  LET s == InFlight(e, c, "ARM")
  IN  [i \in 1 .. Len(s) |-> Behind(chan[e][c].rlimit, s[i].val)]

\* A SEQ counts as received when its header is: its payload is due.
Due(e, c) == IF recv[e].ch = c THEN recv[e].payload ELSE 0

Stream(e, c) == INSTANCE ChabuFlow WITH
  MaxPosition <- Max({XmitTotal[e][c], RecvTotal[Other(e)][c]}),
  MaxInFlight <- WireSize + 1,
  xmitLimit <- chan[e][c].xlimit,
  xmitArm <- chan[e][c].xpos + Signed(chan[e][c].xarm - chan[e][c].xpos),
  xmitSeq <- chan[e][c].xpos, recvArm <- chan[Other(e)][c].rlimit,
  recvSeq <- chan[Other(e)][c].rpos + Due(Other(e), c),
  seqs <- SeqsOf(e, c), arms <- ArmsOf(Other(e), c)

StreamsKept ==
  /\ \A e \in Peers, c \in Channels : Stream(e, c)!Init
  /\ [][\A e \in Peers, c \in Channels :
          [Stream(e, c)!Next]_(Stream(e, c)!flow)]_vars

\* What the sender has and the receiver granted credit for is delivered, if
\* the receiving application grants from the network thread.  The sending one
\* may call from any thread.
Delivered ==
  \A e \in Peers, c \in Channels : \A n \in 1 .. XmitTotal[e][c] :
    (~ Threaded[Other(e)] /\ chan[e][c].xlimit >= n /\ chan[Other(e)][c].rlimit >= n)
      ~> (chan[Other(e)][c].rpos >= n)

\* If the validator of an endpoint rejects the connection, the application of
\* the other one gets the exception that says so.
RejectionReported ==
  \A e \in Peers : (recv[e].answer = "reject") ~> (net[Other(e)].fault = "abort")
=============================================================================

----------------------------- MODULE ChabuLink -----------------------------
(***************************************************************************)
(* Two programs that use the C library (Chabu.c, ChabuChannel.c), joined   *)
(* by a reliable byte transport such as TCP.                               *)
(*                                                                         *)
(* Chabu_HandleNetwork is one call, but its two loops go through the       *)
(* transport and the application callbacks, so the other endpoint runs     *)
(* between any two rounds of them: "pc" says which part of the call an     *)
(* endpoint is in, and one action is one round of a loop.                  *)
(*                                                                         *)
(* The transport carries tokens.  A packet header is one token; so is one  *)
(* unit of payload and one unit of padding.  It buffers WireSize tokens    *)
(* and takes what fits or less, which splits a packet at every boundary.   *)
(***************************************************************************)
EXTENDS RequestList, Streams

CONSTANTS
  Peers,       \* the two endpoints
  Align,       \* the multiple that payload is padded to: Common_AlignUp4
  MaxPayload,  \* per endpoint: its receivePacketSize - SEQ_HEADER_SZ
  WireSize,    \* bound: tokens the transport buffers in each direction
  Wrap,        \* 2^32: what is sent as an int is taken modulo Wrap
  Accepts,     \* per endpoint: the answers acceptConnection may give
  AddSizes,    \* amounts the applications add to a limit
  XmitLimits,  \* values the applications pass to SetXmitLimit
  RecvLimits,  \* values the applications pass to SetRecvLimit
  XmitTotal,   \* bound: per endpoint and channel, the last xmit limit
  RecvTotal,   \* bound: per endpoint and channel, the last recv limit
  PingTotal    \* bound: per endpoint, the calls of Chabu_StartPing

ASSUME PeersAssumption == \E a, b \in Peers : a # b /\ Peers = {a, b}
ASSUME SizesAssumption == /\ Align \in Nat \ {0}
                          /\ MaxPayload \in [Peers -> Nat \ {0}]
                          /\ Wrap \in Nat \ {0}
                          /\ WireSize \in Nat
\* AddXmitLimit and AddRecvLimit return at once for an amount of zero or less.
ASSUME AmountsAssumption == /\ AddSizes \subseteq Nat \ {0}
                            /\ XmitLimits \subseteq Int
                            /\ RecvLimits \subseteq Int
ASSUME AnswersAssumption == Accepts \in [Peers -> SUBSET BOOLEAN]
\* Up to two channels on a level the calls of the scheduler return: see
\* CallsReturn in ChabuPriorities.  (From two on, the assert in PrepareArm is
\* within reach.)
ASSUME PairsAssumption == PairLevels

VARIABLES
  chan,  \* per endpoint and channel: the counters and the ARM request flag
  ctrl,  \* per endpoint: the request lists for control packets
  data,  \* per endpoint: the request lists for payload
  xmit,  \* per endpoint: chabu->xmit, what is being sent
  recv,  \* per endpoint: chabu->recv, what is being received
  ping,  \* per endpoint: chabu->xmitPing and chabu->recvPing
  lib,   \* per endpoint: position in the call, first error, write request
  wire   \* per endpoint: the tokens it sent that the other did not read

vars == <<chan, ctrl, data, xmit, recv, ping, lib, wire>>

Other(e) == CHOOSE p \in Peers : p # e

PacketTypes == {"SETUP", "ACCEPT", "ABORT", "ARM", "SEQ", "PING", "PONG"}

Token(t, c, v, n) == [type |-> t, ch |-> c, val |-> v, size |-> n]
Packet(t) == Token(t, Null, 0, 0)
Units(t, n) == [i \in 1 .. n |-> Packet(t)]

\* An int on the wire, an unsigned 64 bit difference, and the padding units.
Int32(n)   == n % Wrap
Uint64(n)  == n % (Wrap * Wrap)
Padding(n) == (Align - (n % Align)) % Align

Init ==
  /\ chan = [e \in Peers |-> [c \in Channels |->
               [xseq |-> 0, xarm |-> 0, xlimit |-> 0,
                rseq |-> 0, rarm |-> 0, armFlag |-> FALSE]]]
  /\ ctrl = [e \in Peers |-> EmptyLists]
  /\ data = [e \in Peers |-> EmptyLists]
  /\ xmit = [e \in Peers |-> [state |-> "Setup", buffer |-> <<Packet("SETUP")>>,
                              payload |-> 0, padding |-> 0]]
  /\ recv = [e \in Peers |-> [state |-> "Setup", payload |-> 0, padding |-> 0,
                              remote |-> FALSE, stuck |-> FALSE, garbled |-> FALSE]]
  /\ ping = [e \in Peers |-> [request |-> FALSE, inProgress |-> FALSE,
                              pong |-> FALSE, started |-> 0, completed |-> 0]]
  /\ lib  = [e \in Peers |-> [pc |-> "app", error |-> "OK", writeRequest |-> TRUE]]
  /\ wire = [e \in Peers |-> <<>>]

-----------------------------------------------------------------------------
(* Calls of the application, made between two calls of HandleNetwork or    *)
(* from a callback inside one.                                             *)

Alive(e) == lib[e].pc # "dead"

\* Chabu_ReportError keeps the first error only.
ReportError(l, error) == IF l.error = "OK" THEN [l EXCEPT !.error = error] ELSE l

\* A change of a limit or an arm asks for transmission if the other one
\* leaves room, and raises NetworkRegisterWriteRequest.
RequestDataIf(cond, e, c) ==
  IF cond
    THEN /\ data' = [data EXCEPT ![e] = SetRequest(@, c)]
         /\ lib' = [lib EXCEPT ![e].writeRequest = TRUE]
    ELSE UNCHANGED <<data, lib>>

AddXmitLimit(e, c, added) ==
  /\ Alive(e)
  /\ chan[e][c].xlimit + added <= XmitTotal[e][c]
  /\ chan' = [chan EXCEPT ![e][c].xlimit = @ + added]
  /\ RequestDataIf(chan[e][c].xarm # chan[e][c].xseq, e, c)
  /\ UNCHANGED <<ctrl, xmit, recv, ping, wire>>

\* Chabu_Channel_SetXmitLimit refuses a limit smaller than the present one.
SetXmitLimit(e, c, limit) ==
  /\ Alive(e)
  /\ limit <= XmitTotal[e][c]
  /\ IF limit < chan[e][c].xlimit
       THEN /\ lib' = [lib EXCEPT ![e] = ReportError(@, "PARAMETER")]
            /\ UNCHANGED <<chan, data>>
       ELSE /\ chan' = [chan EXCEPT ![e][c].xlimit = limit]
            /\ RequestDataIf(chan[e][c].xarm # chan[e][c].xseq, e, c)
  /\ UNCHANGED <<ctrl, xmit, recv, ping, wire>>

\* Chabu_Channel_SetRecvLimit writes the limit of the transmit side.
SetRecvLimit(e, c, limit) ==
  /\ Alive(e)
  /\ limit <= XmitTotal[e][c]
  /\ chan' = [chan EXCEPT ![e][c].xlimit = limit]
  /\ UNCHANGED <<ctrl, data, xmit, recv, ping, lib, wire>>

\* A mutant: no write request is registered for the ARM.
AddRecvLimitSilent(e, c, added) ==
  /\ Alive(e)
  /\ chan[e][c].rarm + added <= RecvTotal[e][c]
  /\ chan' = [chan EXCEPT ![e][c].rarm = @ + added, ![e][c].armFlag = TRUE]
  /\ ctrl' = [ctrl EXCEPT ![e] = SetRequest(@, c)]
  /\ UNCHANGED <<data, xmit, recv, ping, lib, wire>>

AddRecvLimit(e, c, added) ==
  /\ Alive(e)
  /\ chan[e][c].rarm + added <= RecvTotal[e][c]
  /\ chan' = [chan EXCEPT ![e][c].rarm = @ + added, ![e][c].armFlag = TRUE]
  /\ ctrl' = [ctrl EXCEPT ![e] = SetRequest(@, c)]
  /\ lib' = [lib EXCEPT ![e].writeRequest = TRUE]
  /\ UNCHANGED <<data, xmit, recv, ping, wire>>

\* Nothing resets inProgress, so only the first call is ever served.
StartPing(e) ==
  /\ Alive(e)
  /\ ping[e].started < PingTotal[e]
  /\ IF ping[e].inProgress
       THEN /\ lib' = [lib EXCEPT ![e] = ReportError(@, "PING_IN_PROGRESS")]
            /\ UNCHANGED ping
       ELSE /\ ping' = [ping EXCEPT ![e].request = TRUE, ![e].inProgress = TRUE,
                                    ![e].started = @ + 1]
            /\ lib' = [lib EXCEPT ![e].writeRequest = TRUE]
  /\ UNCHANGED <<chan, ctrl, data, xmit, recv, wire>>

AppCall(e) ==
  \/ \E c \in Channels, n \in AddSizes : AddXmitLimit(e, c, n) \/ AddRecvLimit(e, c, n)
  \/ \E c \in Channels, n \in XmitLimits : SetXmitLimit(e, c, n)
  \/ \E c \in Channels, n \in RecvLimits : SetRecvLimit(e, c, n)
  \/ StartPing(e)

-----------------------------------------------------------------------------
(* Chabu_HandleNetwork: handleReads, then handleWrites.                    *)

Inbound(e) == wire[Other(e)]
Room(e)    == WireSize - Len(wire[e])

\* The application's network loop calls when there is something to read, or
\* when a write request is registered and the transport has room.
HandleNetwork(e) ==
  /\ lib[e].pc = "app"
  /\ Inbound(e) # <<>> \/ (lib[e].writeRequest /\ Room(e) > 0)
  /\ lib' = [lib EXCEPT ![e].pc = "recv", ![e].writeRequest = FALSE]
  /\ UNCHANGED <<chan, ctrl, data, xmit, recv, ping, wire>>

\* The header of a packet of this type is completely received.
Receives(e, type) ==
  /\ lib[e].pc = "recv"
  /\ recv[e].state # "SeqPayload" /\ ~ recv[e].stuck
  /\ Inbound(e) # <<>> /\ Head(Inbound(e)).type = type

Consume(e, n) ==
  wire' = [wire EXCEPT ![Other(e)] = SubSeq(@, n + 1, Len(@))]

\* A mutant: the application is not told.
RefuseSilent(e, error) ==
  /\ recv' = [recv EXCEPT ![e].stuck = TRUE]
  /\ lib' = [lib EXCEPT ![e].pc = "send"]
  /\ UNCHANGED <<chan, ctrl, data, xmit, ping, wire>>

\* An error leaves the packet in recv.buffer, so that every later call of
\* handleReads meets it again and returns; handleWrites goes on.
Refuse(e, error) ==
  /\ recv' = [recv EXCEPT ![e].stuck = TRUE]
  /\ lib' = [lib EXCEPT ![e] = [ReportError(@, error) EXCEPT !.pc = "send"]]
  /\ UNCHANGED <<chan, ctrl, data, xmit, ping, wire>>

RecvSetup(e) ==
  /\ Receives(e, "SETUP")
  /\ recv' = [recv EXCEPT ![e].state = "Accept", ![e].remote = TRUE]
  /\ Consume(e, 1)
  /\ UNCHANGED <<chan, ctrl, data, xmit, ping, lib>>

RecvAccept(e) ==
  /\ Receives(e, "ACCEPT")
  /\ recv' = [recv EXCEPT ![e].state = "Ready"]
  /\ Consume(e, 1)
  /\ UNCHANGED <<chan, ctrl, data, xmit, ping, lib>>

\* Any other type is an error: the abort of the peer, and payload or padding
\* met where a header is due.
RecvUnknown(e) ==
  /\ \E t \in {"ABORT", "DATA", "PAD"} : Receives(e, t)
  /\ Refuse(e, "PROTOCOL_PCK_TYPE")

\* A mutant: stores the credit, but does not ask for transmission.
RecvArmSilent(e) ==
  /\ Receives(e, "ARM")
  /\ LET c == Head(Inbound(e)).ch IN
       chan' = [chan EXCEPT ![e][c].xarm = Head(Inbound(e)).val]
  /\ recv' = [recv EXCEPT ![e].state = "Ready"]
  /\ Consume(e, 1)
  /\ UNCHANGED <<ctrl, data, xmit, ping, lib>>

\* A mutant: takes the credit for an amount to add.
RecvArmAdded(e) ==
  /\ Receives(e, "ARM")
  /\ LET c   == Head(Inbound(e)).ch
         arm == Head(Inbound(e)).val
     IN  /\ chan' = [chan EXCEPT ![e][c].xarm = @ + arm]
         /\ RequestDataIf(chan[e][c].xlimit # chan[e][c].xseq, e, c)
  /\ recv' = [recv EXCEPT ![e].state = "Ready"]
  /\ Consume(e, 1)
  /\ UNCHANGED <<ctrl, xmit, ping>>

RecvArm(e) ==
  /\ Receives(e, "ARM")
  /\ LET c   == Head(Inbound(e)).ch
         arm == Head(Inbound(e)).val
         new == chan[e][c].xarm # arm
     IN  IF c \notin Channels
           THEN Refuse(e, "PROTOCOL_CHANNEL_NOT_EXISTING")
           ELSE /\ chan' = [chan EXCEPT ![e][c].xarm = arm]
                /\ RequestDataIf(new /\ chan[e][c].xlimit # chan[e][c].xseq, e, c)
                /\ recv' = [recv EXCEPT ![e].state = "Ready"]
                /\ Consume(e, 1)
                /\ UNCHANGED <<ctrl, xmit, ping>>

\* A mutant: notifies the application, but does not request the pong.
RecvPingSilent(e) ==
  /\ Receives(e, "PING")
  /\ recv' = [recv EXCEPT ![e].state = "Ready"]
  /\ Consume(e, 1)
  /\ UNCHANGED <<chan, ctrl, data, xmit, ping, lib>>

RecvPing(e) ==
  /\ Receives(e, "PING")
  /\ ping' = [ping EXCEPT ![e].pong = TRUE]
  /\ recv' = [recv EXCEPT ![e].state = "Ready"]
  /\ Consume(e, 1)
  /\ UNCHANGED <<chan, ctrl, data, xmit, lib>>

RecvPong(e) ==
  /\ Receives(e, "PONG")
  /\ ping' = [ping EXCEPT ![e].completed = @ + 1]
  /\ recv' = [recv EXCEPT ![e].state = "Ready"]
  /\ Consume(e, 1)
  /\ UNCHANGED <<chan, ctrl, data, xmit, lib>>

\* The header of a SEQ: the position moves on before the payload is here,
\* and the credit that was granted is not looked at.
RecvSeq(e) ==
  /\ Receives(e, "SEQ")
  /\ LET t == Head(Inbound(e)) IN
       IF t.ch \notin Channels
         THEN Refuse(e, "PROTOCOL_CHANNEL_NOT_EXISTING")
       ELSE IF t.val # Int32(chan[e][t.ch].rseq)
         THEN Refuse(e, "PROTOCOL_SEQ_VALUE")
       ELSE /\ chan' = [chan EXCEPT ![e][t.ch].rseq = @ + t.size]
            /\ recv' = [recv EXCEPT
                 ![e].state = IF t.size > 0 THEN "SeqPayload" ELSE "Ready",
                 ![e].payload = t.size, ![e].padding = Padding(t.size)]
            /\ Consume(e, 1)
            /\ UNCHANGED <<ctrl, data, xmit, ping, lib>>

\* A mutant: the packet ends with its payload.
RecvBodyUnpadded(e, n, field, type) ==
  /\ lib[e].pc = "recv" /\ recv[e].state = "SeqPayload"
  /\ n <= recv[e][field] /\ n <= Len(Inbound(e))
  /\ recv' = [recv EXCEPT ![e][field] = @ - n,
       ![e].state = IF recv[e].payload = n THEN "Ready" ELSE @,
       ![e].garbled = @ \/ \E i \in 1 .. n : Inbound(e)[i].type # type]
  /\ Consume(e, n)
  /\ UNCHANGED <<chan, ctrl, data, xmit, ping, lib>>

\* A mutant: reads what is there, also beyond the packet.
RecvBodyUnbounded(e, n, field, type) ==
  /\ lib[e].pc = "recv" /\ recv[e].state = "SeqPayload"
  /\ n <= Len(Inbound(e))
  /\ recv' = [recv EXCEPT ![e][field] = @ - n,
       ![e].state = IF recv[e].payload + recv[e].padding = n THEN "Ready" ELSE @,
       ![e].garbled = @ \/ \E i \in 1 .. n : Inbound(e)[i].type # type]
  /\ Consume(e, n)
  /\ UNCHANGED <<chan, ctrl, data, xmit, ping, lib>>

\* Payload goes to the buffers of the application, padding to recv.buffer.
\* What arrives is taken for what is due: "garbled" records that it is not.
RecvBody(e, n, field, type) ==
  /\ lib[e].pc = "recv" /\ recv[e].state = "SeqPayload"
  /\ n <= recv[e][field] /\ n <= Len(Inbound(e))
  /\ recv' = [recv EXCEPT ![e][field] = @ - n,
       ![e].state = IF recv[e].payload + recv[e].padding = n THEN "Ready" ELSE @,
       ![e].garbled = @ \/ \E i \in 1 .. n : Inbound(e)[i].type # type]
  /\ Consume(e, n)
  /\ UNCHANGED <<chan, ctrl, data, xmit, ping, lib>>

RecvPayload(e, n) == RecvBody(e, n, "payload", "DATA")
RecvPadding(e, n) == recv[e].payload = 0 /\ RecvBody(e, n, "padding", "PAD")

\* networkRecvBuffer has no more bytes for now, or the receiver is stuck.
RecvNothing(e) ==
  /\ lib[e].pc = "recv"
  /\ lib' = [lib EXCEPT ![e].pc = "send"]
  /\ UNCHANGED <<chan, ctrl, data, xmit, recv, ping, wire>>

Reads(e) ==
  \/ RecvSetup(e) \/ RecvAccept(e) \/ RecvUnknown(e) \/ RecvArm(e)
  \/ RecvPing(e) \/ RecvPong(e) \/ RecvSeq(e)
  \/ \E n \in 1 .. WireSize : RecvPayload(e, n) \/ RecvPadding(e, n)

-----------------------------------------------------------------------------
(* handleWrites: writePendingXmitData, then prepareNextXmitState.          *)

\* How many of n units networkXmitBuffer may take.
Takes(e, n) == IF Room(e) = 0 THEN {0} ELSE 1 .. Min({n, Room(e)})

Send(e, tokens) == wire' = [wire EXCEPT ![e] = @ \o tokens]

\* A mutant: returns without the write request.
BlockedSilent(e) == lib' = [lib EXCEPT ![e].pc = "app"]

\* allDataXmitted is false: register a write request and return.
Blocked(e) == lib' = [lib EXCEPT ![e].pc = "app", ![e].writeRequest = TRUE]

SendBuffer(e) ==
  LET buffer == xmit[e].buffer
  IN  /\ lib[e].pc = "send"
      /\ buffer # <<>>
      /\ \E n \in Takes(e, Len(buffer)) :
           /\ Send(e, SubSeq(buffer, 1, n))
           /\ xmit' = [xmit EXCEPT ![e].buffer = SubSeq(@, n + 1, Len(@))]
           /\ IF n < Len(buffer) THEN Blocked(e) ELSE UNCHANGED lib
      /\ UNCHANGED <<chan, ctrl, data, recv, ping>>

\* Payload goes from the buffers of the application to the transport, round
\* after round until it takes nothing.
SendPayload(e) ==
  LET due == xmit[e].payload
  IN  /\ lib[e].pc = "send"
      /\ xmit[e].buffer = <<>> /\ xmit[e].state = "SeqPayload" /\ due > 0
      /\ \E n \in Takes(e, due) :
           /\ Send(e, Units("DATA", n))
           /\ xmit' = [xmit EXCEPT ![e].payload = @ - n]
           /\ IF n = 0 THEN Blocked(e) ELSE UNCHANGED lib
      /\ UNCHANGED <<chan, ctrl, data, recv, ping>>

\* Padding that the transport did not take stays in the buffer, but it does
\* not count as pending: the call goes on to the next packet.
SendPadding(e) ==
  LET due == xmit[e].padding
  IN  /\ lib[e].pc = "send"
      /\ xmit[e].buffer = <<>> /\ xmit[e].state = "SeqPayload"
      /\ xmit[e].payload = 0 /\ due > 0
      /\ \E n \in Takes(e, due) :
           /\ Send(e, Units("PAD", n))
           /\ xmit' = [xmit EXCEPT ![e].padding = @ - n,
                                   ![e].buffer = Units("PAD", due - n)]
      /\ lib' = [lib EXCEPT ![e].pc = "prepare"]
      /\ UNCHANGED <<chan, ctrl, data, recv, ping>>

\* writePendingXmitData has returned true.
Prepares(e) ==
  \/ lib[e].pc = "prepare"
  \/ /\ lib[e].pc = "send" /\ xmit[e].buffer = <<>>
     /\ xmit[e].state = "SeqPayload" => xmit[e].payload + xmit[e].padding = 0

\* A mutant: the setup that is sent is as good as an acceptance.
BecomesIdleAfterSetup(e) ==
  xmit[e].state \in {"Setup", "Accept", "SeqPayload", "Ping", "Pong", "Arm", "Idle"}

\* The states prepareNextXmitState turns into Idle.
BecomesIdle(e) ==
  xmit[e].state \in {"Accept", "SeqPayload", "Ping", "Pong", "Arm", "Idle"}

\* The buffer is cleared and filled with one packet; the loop goes on.
PreparePacket(e, state, packet) ==
  /\ xmit' = [xmit EXCEPT ![e].state = state, ![e].buffer = <<packet>>]
  /\ lib' = [lib EXCEPT ![e].pc = "send"]

PrepareAcceptance(e) ==
  /\ Prepares(e)
  /\ xmit[e].state = "Setup" /\ recv[e].remote
  /\ \/ TRUE \in Accepts[e]  /\ PreparePacket(e, "Accept", Packet("ACCEPT"))
     \/ FALSE \in Accepts[e] /\ PreparePacket(e, "Abort", Packet("ABORT"))
  /\ UNCHANGED <<chan, ctrl, data, recv, ping, wire>>

\* A mutant: the header of a SEQ is followed by the next packet.
PreparePayloadSkipped(e) ==
  /\ Prepares(e)
  /\ xmit[e].state = "Seq"
  /\ xmit' = [xmit EXCEPT ![e].state = "Idle"]
  /\ UNCHANGED <<chan, ctrl, data, recv, ping, lib, wire>>

PreparePayload(e) ==
  /\ Prepares(e)
  /\ xmit[e].state = "Seq"
  /\ xmit' = [xmit EXCEPT ![e].state = "SeqPayload"]
  /\ UNCHANGED <<chan, ctrl, data, recv, ping, lib, wire>>

PreparePong(e) ==
  /\ Prepares(e) /\ BecomesIdle(e)
  /\ ping[e].pong
  /\ ping' = [ping EXCEPT ![e].pong = FALSE]
  /\ PreparePacket(e, "Pong", Packet("PONG"))
  /\ UNCHANGED <<chan, ctrl, data, recv, wire>>

PreparePing(e) ==
  /\ Prepares(e) /\ BecomesIdle(e)
  /\ ~ ping[e].pong /\ ping[e].request
  /\ ping' = [ping EXCEPT ![e].request = FALSE]
  /\ PreparePacket(e, "Ping", Packet("PING"))
  /\ UNCHANGED <<chan, ctrl, data, recv, wire>>

Pinging(e) == ping[e].pong \/ ping[e].request

\* A mutant: the ARM carries the position received, not the one granted.
PrepareArmReceived(e) ==
  /\ Prepares(e) /\ BecomesIdle(e)
  /\ ~ Pinging(e) /\ Pending(ctrl[e]) # {}
  /\ LET c == Popped(ctrl[e]) IN
       /\ ctrl' = [ctrl EXCEPT ![e] = PopNextRequest(@)]
       /\ PreparePacket(e, "Arm", Token("ARM", c, Int32(chan[e][c].rseq), 0))
       /\ chan' = [chan EXCEPT ![e][c].armFlag = FALSE]
  /\ UNCHANGED <<data, recv, ping, wire>>

\* A channel popped without a reason meets assert( false ).
PrepareArm(e) ==
  /\ Prepares(e) /\ BecomesIdle(e)
  /\ ~ Pinging(e) /\ Pending(ctrl[e]) # {}
  /\ LET c == Popped(ctrl[e]) IN
       /\ ctrl' = [ctrl EXCEPT ![e] = PopNextRequest(@)]
       /\ IF chan[e][c].armFlag
            THEN /\ PreparePacket(e, "Arm", Token("ARM", c, Int32(chan[e][c].rarm), 0))
                 /\ chan' = [chan EXCEPT ![e][c].armFlag = FALSE]
            ELSE /\ lib' = [lib EXCEPT ![e].pc = "dead"]
                 /\ UNCHANGED <<chan, xmit>>
  /\ UNCHANGED <<data, recv, ping, wire>>

\* A mutant: the credit is not looked at.
SeqSizeUnpaused(e, c) ==
  Min({MaxPayload[e], Uint64(chan[e][c].xlimit - chan[e][c].xseq)})

\* The size of the next SEQ: the packet size, the data the application has,
\* the credit the peer granted.
SeqSize(e, c) ==
  Min({MaxPayload[e], Uint64(chan[e][c].xlimit - chan[e][c].xseq),
                      Uint64(chan[e][c].xarm - chan[e][c].xseq)})

\* The request is gone with the pop, also when the packet did not take all.
PrepareSeq(e) ==
  /\ Prepares(e) /\ BecomesIdle(e)
  /\ ~ Pinging(e) /\ Pending(ctrl[e]) = {} /\ Pending(data[e]) # {}
  /\ LET c    == Popped(data[e])
         size == SeqSize(e, c)
     IN  /\ data' = [data EXCEPT ![e] = PopNextRequest(@)]
         /\ chan' = [chan EXCEPT ![e][c].xseq = @ + size]
         /\ xmit' = [xmit EXCEPT ![e] =
                       [state   |-> "Seq",
                        buffer  |-> <<Token("SEQ", c, Int32(chan[e][c].xseq), size)>>,
                        payload |-> size, padding |-> Padding(size)]]
         /\ lib' = [lib EXCEPT ![e].pc = "send"]
  /\ UNCHANGED <<ctrl, recv, ping, wire>>

Idle(e) == ~ Pinging(e) /\ Pending(ctrl[e]) = {} /\ Pending(data[e]) = {}

\* Nothing to prepare: the call returns to the application.
PrepareNothing(e) ==
  /\ Prepares(e)
  /\ \/ BecomesIdle(e) /\ Idle(e)
     \/ xmit[e].state = "Setup" /\ ~ recv[e].remote
     \/ xmit[e].state = "Abort"
  /\ xmit' = [xmit EXCEPT ![e].state = IF BecomesIdle(e) THEN "Idle" ELSE @]
  /\ lib' = [lib EXCEPT ![e].pc = "app"]
  /\ UNCHANGED <<chan, ctrl, data, recv, ping, wire>>

Writes(e) ==
  \/ SendBuffer(e) \/ SendPayload(e) \/ SendPadding(e)
  \/ PrepareAcceptance(e) \/ PreparePayload(e)
  \/ PreparePong(e) \/ PreparePing(e) \/ PrepareArm(e) \/ PrepareSeq(e)
  \/ PrepareNothing(e)

Library(e) == HandleNetwork(e) \/ Reads(e) \/ RecvNothing(e) \/ Writes(e)

Next == \E e \in Peers : AppCall(e) \/ Library(e)

Spec == Init /\ [][Next]_vars

\* The network loops run, a call that was entered is gone through, and the
\* transport delivers: what can be read is read at last.
Fairness ==
  \A e \in Peers : /\ WF_vars(Library(e))
                   /\ SF_vars(Reads(e))

FairSpec == Spec /\ Fairness
-----------------------------------------------------------------------------
(* Properties. *)

Errors == {"OK", "PARAMETER", "PING_IN_PROGRESS", "PROTOCOL_PCK_TYPE",
           "PROTOCOL_CHANNEL_NOT_EXISTING", "PROTOCOL_SEQ_VALUE"}

XmitStates == {"Setup", "Accept", "Abort", "Seq", "SeqPayload", "Arm", "Ping",
               "Pong", "Idle"}
RecvStates == {"Setup", "Accept", "Ready", "SeqPayload"}

Tokens == [type : PacketTypes \cup {"DATA", "PAD"}, ch : Entries,
           val : Nat, size : Nat]

ChanRecords == [xseq : Nat, xarm : Nat, xlimit : Int, rseq : Nat, rarm : Nat,
                armFlag : BOOLEAN]
XmitRecords == [state : XmitStates, buffer : Seq(Tokens), payload : Nat,
                padding : Nat]
RecvRecords == [state : RecvStates, payload : Nat, padding : Nat,
                remote : BOOLEAN, stuck : BOOLEAN, garbled : BOOLEAN]
PingRecords == [request : BOOLEAN, inProgress : BOOLEAN, pong : BOOLEAN,
                started : Nat, completed : Nat]
CallRecords == [pc : {"app", "recv", "send", "prepare", "dead"},
                error : Errors, writeRequest : BOOLEAN]

TypeOK ==
  /\ chan \in [Peers -> [Channels -> ChanRecords]]
  /\ ctrl \in [Peers -> Lists] /\ data \in [Peers -> Lists]
  /\ xmit \in [Peers -> XmitRecords] /\ recv \in [Peers -> RecvRecords]
  /\ ping \in [Peers -> PingRecords] /\ lib \in [Peers -> CallRecords]
  /\ wire \in [Peers -> Seq(Tokens)]

\* Every stream of the bundle keeps the promises of ChabuFlow, whatever the
\* other streams, the pings and the startup do on the same wire.
InFlight(e, c, t) == PacketsOf(wire[e] \o xmit[e].buffer, t, c)

SeqsOf(e, c) ==
  LET s == InFlight(e, c, "SEQ")
  IN  [i \in 1 .. Len(s) |-> [seq |-> s[i].val, size |-> s[i].size]]

ArmsOf(e, c) ==
  LET s == InFlight(e, c, "ARM") IN [i \in 1 .. Len(s) |-> s[i].val]

Stream(e, c) == INSTANCE ChabuFlow WITH
  MaxPosition <- Max({XmitTotal[e][c], RecvTotal[Other(e)][c]}),
  MaxInFlight <- WireSize + 1,
  xmitLimit <- chan[e][c].xlimit, xmitArm <- chan[e][c].xarm,
  xmitSeq <- chan[e][c].xseq, recvArm <- chan[Other(e)][c].rarm,
  recvSeq <- chan[Other(e)][c].rseq,
  seqs <- SeqsOf(e, c), arms <- ArmsOf(Other(e), c)

StreamsKept ==
  /\ \A e \in Peers, c \in Channels : Stream(e, c)!Init
  /\ [][\A e \in Peers, c \in Channels :
          [Stream(e, c)!Next]_(Stream(e, c)!flow)]_vars

\* However the transport splits the packets, each endpoint finds headers,
\* payload and padding where it looks for them.
FramingKept ==
  \A e \in Peers : /\ ~ recv[e].garbled
                   /\ recv[e].stuck => xmit[Other(e)].state = "Abort"

\* An endpoint that returned to its application with something left to send
\* has registered a write request, so that it will be called again.
Unsent(e) ==
  \/ xmit[e].buffer # <<>>
  \/ xmit[e].state = "SeqPayload"
  \/ xmit[e].state = "Setup" /\ recv[e].remote
  \/ xmit[e].state = "Idle" /\ ~ Idle(e)

WriteRequestKept ==
  \A e \in Peers : lib[e].pc = "app" /\ Unsent(e) => lib[e].writeRequest

\* ARM, SEQ, PING and PONG take effect only when the Accept of the peer came
\* before them: no traffic of an endpoint that rejects the connection does.
TrafficAfterAccept ==
  [][\A e \in Peers :
       \/ recv[e].state \in {"Ready", "SeqPayload"}
       \/ /\ ping'[e].completed = ping[e].completed
          /\ ping'[e].pong = ping[e].pong
          /\ \A c \in Channels : /\ chan'[e][c].xarm = chan[e][c].xarm
                                 /\ chan'[e][c].rseq = chan[e][c].rseq]_vars

\* What the sender has and the receiver granted credit for is delivered.
Delivered ==
  \A e \in Peers, c \in Channels : \A n \in 1 .. XmitTotal[e][c] :
    (chan[e][c].xlimit >= n /\ chan[Other(e)][c].rarm >= n)
      ~> (chan[Other(e)][c].rseq >= n /\ recv[Other(e)].payload = 0)

\* A ping that was started is answered, unless the connection is rejected.
PingAnswered ==
  \A e \in Peers :
    (ping[e].started = 1) ~>
      (ping[e].completed = 1 \/ \E p \in Peers : xmit[p].state = "Abort")

\* If an endpoint rejects the connection, the other one learns it.
RejectionReported ==
  \A e \in Peers : (xmit[e].state = "Abort") ~> (lib[Other(e)].error # "OK")
=============================================================================

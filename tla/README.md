# Chabu in TLA+

Chabu bundles several flow-controlled byte streams ("channels") on one reliable
connection. This directory holds TLA+ modules of its C library
(`src/c/org.chabu`) and of its Java library (`src/java/org.chabu`), the TLC runs
that check them, and TLAPS proofs about the stream protocol, the two schedulers,
both links and the byte queue.

## The system

| Component | State | Operations | Talks to |
|---|---|---|---|
| C scheduler `ChabuPriorities.c` | per priority level two intrusive lists (ctrl, data), the channel selected last; per channel a `next` link | `SetRequestCtrl_Arm`, `SetRequestData`, `PopNextRequestCtrl/Data` | called by the channel API, by a received ARM and by the transmitter |
| C link `Chabu.c` | `xmit.state`, `recv.state`, one buffer each way, the remaining payload and padding, the ping flags | `Chabu_HandleNetwork` = `handleReads`; `handleWrites`; `Chabu_StartPing` | transport callbacks `networkRecvBuffer` / `networkXmitBuffer`, channel callbacks, event `NetworkRegisterWriteRequest` |
| C channel API `ChabuChannel.c` | `xmit.seq/arm/limit`, `recv.seq/arm` | `SetXmitLimit`, `AddXmitLimit`, `SetRecvLimit`, `AddRecvLimit`, getters | scheduler, event callback |
| C initialisation `ChabuInit.c` | everything above | `Chabu_Init`, `Chabu_ConfigureChannel`, `Chabu_ReportError` | application |
| C buffers `ChabuByteBuffer.c`, texts `ChabuErrors.c` | cursor of one buffer | put, get, flip, compact, transfer | link |
| Java `Priorizer` | one bit set per level, one last channel | `request`, `popNextRequest` | `ChabuXmitterNormal`, which holds a lock around both |
| Java link (`ChabuImpl`, `ChabuReceiver*`, `ChabuXmitter*`, `ChabuChannelImpl`, `Setup`, `AbortMessage`) | per channel `xmitSeq/Arm/Limit`, `recvSeq/Arm/Limit`, `recvArmShouldBeXmit`; a receiver and a transmitter object per phase | `handleChannel`, limits, abort; no ping | network thread (`handleChannel`, callbacks) and application threads (limits); the wakeup `xmitRequestListener` |
| Java `ByteQueue` | ring with committed and uncommitted positions | ports for reading and writing, commit, rollback | one writing and one reading thread, no lock |
| C# port | as Java | as Java | |
| Test nodes, director, trace runners | sockets, GUI | | around the library |

How the parts interact: the application changes a limit (data to send) or an arm
(room to receive); that puts the channel into a request list and raises a write
request. In `Chabu_HandleNetwork` the link reads packets until the transport has
no more bytes, then writes: what is pending first, then the next packet, chosen
in the order pong, ping, ARM (ctrl list), SEQ (data list). A received ARM puts
its channel into the data list again.

The Java library does the same with other means: `handleChannel` lets
`ChabuReceiver.recv` read, then `ChabuXmitter` goes through a list of actions
(rest of the buffer, rest of the SEQ, abort, ARM, SEQ) until one of them ends the
round. The receiver checks the credit it granted and throws if a peer exceeds
it. A SEQ that leaves data behind requests its channel again.

What is hard about it: calls of the application land between any two rounds of
the loops; the transport stops at every boundary inside a packet; ARM and SEQ
of both directions, pings and startup share one wire; each wakeup (request,
write request) must survive every order; positions wrap; the request lists keep
links in entries that left them. In Java application threads write counters and
flags that the network thread reads without a lock, and positions are ints that
wrap; the two sides of a byte queue share four positions. `PROJECT.json` lists the hazards with the line
each one bites at.

What makes each component correct:

- scheduler: calls return, no request is lost, levels go in order, channels of a
  level take turns;
- stream: the receiver meets the expected position, credit is never exceeded,
  never taken back, and what is granted and available is delivered;
- link: framing survives every split, an unfinished call is resumed, traffic
  follows acceptance, rejection and ping answers arrive;
- Java priorizer: as the scheduler; Java link: no wakeup lost between threads;
  byte queue: no byte lost, duplicated or overwritten before it is read.

## Modules

| Module | Models | Notes |
|---|---|---|
| `RequestList` | the list operations of `ChabuPriorities.c` as operators | a search loop is "the position it may stop at"; none means the loop never ends |
| `ChabuPriorities` | the scheduler with its only consumer | an action is one call; `fault` records a call that never returns and a failed assert |
| `RequestList_proofs` | lemmas about the list operations | what a search, an insertion and a pop do to lists that are well formed, on their level, or paired |
| `ChabuPriorities_proofs` | the proofs about the scheduler | |
| `ChabuFlow` | abstract: one direction of one channel | credit and data packets in flight; what every implementation must do |
| `ChabuFlow_proofs` | the proofs about `ChabuFlow` | |
| `Streams` | the packets of one stream among all tokens of a wire | what the mappings to `ChabuFlow` read off; a recursive function, so that proofs can follow it |
| `ChabuLink` | two C endpoints and a transport between them | uses `RequestList`; implements `ChabuFlow` per endpoint and channel |
| `ChabuLink_proofs` | the proofs about it | |
| `SharedLemmas` | least and greatest numbers, induction, pieces of sequences, walks along a sequence of tokens, the packets `Streams` selects | used by the proofs of both libraries |
| `BitSetPriorizer` | `Priorizer.java` as operators on its bit sets | |
| `JavaPriorizer` | one `Priorizer` with any sequence of calls | history variables tell who asked and who was passed over |
| `JavaPriorizer_proofs` | the proofs about it | |
| `JavaLink` | two Java endpoints and a transport, each with a network thread, one of them with an application thread too | uses `BitSetPriorizer`; implements `ChabuFlow` |
| `JavaLink_proofs` | the proofs about it | |
| `CommitQueue` | abstract: a bounded queue with commit and rollback on both sides | what the two port interfaces promise |
| `ByteQueue` | the ring with a writing and a reading thread | implements `CommitQueue` |
| `ByteQueue_proofs` | the proofs about it, the refinement included | |
| `MCPriorities`, `MCFlow`, `MCLink`, `MCJavaPriorizer`, `MCJavaLink`, `MCByteQueue` | constants for the runs | |

Definitions named "A mutant" are wrong variants of the definition that follows
them. No specification uses them; putting one in place of that definition must
make the property it is listed with in `PROJECT.json` fail.

### ChabuPriorities

`ctrl` and `data` are records `request` (head per level), `last`
(`lastSelectedChannelId`), `next` (link per channel). `next` is kept when a
channel leaves its list, as in C: `TakeHead` does not write it, and neither does
inserting into an empty list. `asked` is a history variable, the channels whose
last data request was not served.

### ChabuFlow

`xmitLimit`, `xmitArm`, `xmitSeq` on the sending side, `recvArm`, `recvSeq` on
the receiving side, and the queues `arms`, `seqs` of packets in flight.
Positions are unbounded naturals here; the 32 bits of the wire are in
`ChabuLink`.

### ChabuLink

`pc` cuts `Chabu_HandleNetwork` into rounds: "recv" (a round of `handleReads`),
"send" (a round of `writePendingXmitData`, or `prepareNextXmitState` when
nothing is pending), "prepare" (the padding was handed over), "app" (the call
returned), "dead" (a failed assert). Between two rounds the other endpoint may
run, and the application may call the library, which C programs do from the
callbacks. `recv.state`, `xmit.state`, `xmit.buffer`, the remaining payload and
padding and the ping flags are the fields of `Chabu_Data`.

Data is abstracted: one token per packet header, per unit of payload and per
unit of padding. `Align` stands for the 4 of `Common_AlignUp4`, `Wrap` for 2^32,
the width of the positions on the wire, `Uint64` for the unsigned difference of
64 bit positions (its width is twice the one of the wire, as in C). The
application always supplies the buffers it is asked for. `recv.stuck` says that
an error left its packet in the receive buffer: every later call meets it again
and stops there. The application registers for writing at first, so that the
Setup goes out. Both endpoints configure the same channels. `recv.garbled` is a
history variable: the receiver took something for payload or padding that the
sender did not mean as such.

Two struct fields the code uses (`recv.limit` of a channel, `recv.seqBuffer`)
are not declared in `Chabu.h` at this commit; `recv.limit` moves together with
`recv.arm` and `recv.seqBuffer` is the cursor of the user's buffer, and the model
reads them so.

The refinement: `Stream(e, c)` is `ChabuFlow` with its variables read off
`ChabuLink`: packets in flight are those on the wire behind those still in the
transmit buffer, selected by type and channel. `StreamsKept` says that the
initial state is one of `ChabuFlow` and every step is a step of it or leaves it
unchanged, for every endpoint and channel. (It is written out as initial
condition and action, because TLC does not accept a quantified `FlowSpec`.)

### JavaPriorizer

`priorizer` is the object: `requests` per level and `last`. `asked` and
`recently` are history: who waits, and for each waiting channel which channels
of its level were popped since it asked and since another level was served. The
last channel is shared by all levels, so a pop of another level moves it and the
turn may begin anew; that is why `recently` is cleared then.

### JavaLink

One action is one round of `recv` or one transmit action: `pc` is "recv", "send"
(rest of `xmitBuf`), "seq" (rest of payload and padding), "next" (abort, accept,
ctrl), "arm" (inside `handleXmitCtrl`), "data", "idle" (between two
`handleChannel`) or "dead" (an exception left it). Where `Threaded`, the
application has a thread of its own, whose calls are cut where both threads use a
field without a lock: `addRecvLimit` writes `recvArm` and the ARM flag, then
makes its request; `handleXmitCtrl` clears the flag and reads `recvArm`. The
fields are neither volatile nor guarded, so either order of the two accesses may
be seen by the other thread; the model allows both on both sides. Requests are
made under the lock of the transmitter and are one action.

The pairs `recvSeq`/`recvPosition`, `xmitSeq`/`xmitPosition` and
`recvArm`/`recvLimit` move together (an int and a long); the model keeps the long
and takes the int from it with `Int32`. `xmitArm` is an int of its own.
`FirstAction` skips the actions that have nothing to do. An exception for a
refused connection or a violated protocol ends the network thread, as in the
selector loop of `TestServer`, which closes the channel; `fault` tells which it
was. The refinement reads ints as the nearest position: `Behind`.

### ByteQueue

The four positions and the array of the code. The bulk transfers are two
actions, the check against the other side's position and the copy (`writing`,
`reading` hold what was checked); the operations of one, two or four bytes check
and copy without looking at the other side again and are one. An operation that
throws changes nothing and is no step. `readMarkIdx` may rest at the end of the
array behind a bulk read, as in the code. `Cautious` leaves out the uses that the
code does not carry out: a bulk write beyond `free()` (the code compares with
`freeCommitted()`, which ignores what is written and not committed), padding that
reaches the end of the array, a skip across it.

## Runs

Bounds are constants: positions end at `XmitTotal` / `RecvTotal` (last limit and
arm the applications set), `WireSize` is what the transport buffers each way.
In `LinkStream` and `LinkTwoWay` the wire has two tokens, less than a packet with
its payload, so each boundary is a place to stop; totals of two or three units
give several packets in flight and several ARM updates per stream, the smallest
instances in which packets overtake, wait and cross. `LinkLive` has a wire that
holds whole packets, two channels on different levels and padding.

| Run | Instance | Shows |
|---|---|---|
| `PrioritiesPairs` | 3 channels on 2 levels | with at most two channels per level all calls return, nothing is lost, levels in order, no starvation; a channel alone on its level is in the ctrl list only with a reason |
| `PrioritiesHang` | 3 channels, 1 level | violated: a cyclic list, a call that never returns |
| `MCFlow` | 3 positions, 3 packets in flight | the stream protocol and the inductive invariant of its proof |
| `LinkStream` | 1 channel, A to B, packets of 2, totals 3, every limit call | refinement, framing, write requests, under every split |
| `LinkTwoWay` | both directions, totals 1, a ping, either side may reject | refinement with crossing traffic; the ping is answered; a rejection lets no traffic through and is reported |
| `LinkLive` | 2 channels on 2 levels, `Align` 2, packets of 2, wire of 14 | refinement and framing with padding; what is granted and available is delivered |
| `LinkPadSplit` | `Align` 2, wire of 2 | violated: lost padding breaks the framing |
| `LinkStall` | packets of 1, total 2 | violated: the rest of a truncated SEQ is never sent |
| `JavaPriorizer` | 6 channels, 3 per level | requests are kept, the highest number goes first, round robin within a level |
| `JavaLink` | 1 channel, `Wrap` 3, packets of 2, totals 3 and 1, A threaded, either side may reject, wire of 2 | refinement and no protocol error, across the wrap of the ints |
| `JavaLive` | 1 channel, A to B, credit up to 3, no wrap, the sender threaded | what is offered and granted is delivered; a rejection is reported; refinement with packets of several units |
| `ByteQueue` | a ring of 5 slots, 2 byte values | refinement, order of the positions, all assertions |

The passing link runs are restricted where a violated one shows why.

- `LinkStream` and `LinkTwoWay` have `Align` 1: there is no padding to lose.
  `LinkLive` has padding on a wire on which a whole exchange fits, where the
  transport may still split a packet anywhere but always takes something; with
  packets of two and a padding of one it never stops inside the padding.
- `LinkLive` grants and offers on each channel what one SEQ can carry, since a
  truncated one stalls.
- The channels of `LinkLive` have a level each. Two channels on one level reach
  `assert( false )` (Chabu.c:451): a stale link puts a channel back into the ctrl
  list whose flag is cleared, and nothing is delivered behind it. `PairsAssumption` keeps `ChabuLink` to two channels per
  level, within which `PrioritiesPairs` shows that the scheduler's calls return.
- `Wrap` is out of reach in the C runs: behind 2^32 the ARM (32 bits) is smaller
  than `xmit.seq` (64 bits), and the sender takes the difference for unlimited.
- One ping per endpoint (`PingTotal`): nothing resets `xmitPing.inProgress`.
- Both endpoints have the same `MaxPayload`: the code sizes a SEQ by the
  sender's own receive buffer, not by the one the peer announced in its Setup.

Of the Java runs:

- An application grants less than half the range of an int beyond what it
  received (`addRecvLimit`), or the difference of `getXmitRemainingByRemote`
  would be negative. With `Wrap` 3 that is one unit at a time, so packets of
  several units are left to `JavaLive`.
- `Delivered` has its receiving application grant from the network thread. With a
  thread of its own an ARM may be lost: the network thread reads `recvArm`, the
  application writes it and sets the flag, the network thread clears the flag.
- `JavaLive` has one channel. With two `Delivered` does not hold, as TLC finds
  within seconds: a pop of a channel without credit (`handleXmitData` returns
  null) or of a ctrl request whose flag an earlier ARM cleared lets the list of
  actions come to its end, although the other channel is queued, and no wakeup is
  registered. It is served with the next event of any channel.
- Five slots hold a full ring, every position relative to its end, an int and
  transfers that wrap on both sides.

Deadlock checking is on in `JavaPriorizer` and `ByteQueue`, which can always go
on. It is off in the other runs: an idle connection, an application that has used
its bounded limits, a program that hangs or failed an assert and a network thread
that threw really stop.

Fairness: `WF_vars(Library(e))` says that a network loop calls the library while
there is something to read or a registered write request can be served, and that
an entered call is gone through; calls of the application are never assumed.
`SF_vars(Reads(e))` says that the transport delivers: `RecvNothing` may end a
call with bytes still on the wire (they arrive later), but not for ever. In
`ChabuPriorities` the transmitter keeps popping ctrl requests, and pops data
requests if it finds the ctrl lists empty again and again; `EveryAskerServed` has
that as its premise, because ARM traffic may otherwise use all of the link.
In `JavaLink` the network thread goes on (the selector returns for a readable
channel and for a writable one with a registered write request), an application
thread finishes a call it began, and the transport delivers as above.

## Proofs

`ChabuFlow_proofs` proves for all values of `MaxPosition` and `MaxInFlight`
(naturals, `FlowAssumption`) that `FlowSpec` implies `[]TypeOK`,
`[]SeqExpected`, `[]CreditKept` and `CreditGrows`. None of the three is
inductive. `SeqExpected` speaks of the head of the queue only: after a packet is
taken it is a fact about the next one, so `SeqsTile` says that the packets in
flight lie end to end from `recvSeq` to `xmitSeq`. `CreditKept` needs
`xmitArm <= recvArm`, which needs the same of every ARM in flight, and
`CreditGrows` needs them in ascending order: `ArmsAscend`. With `Ordered` the
three are `FlowInv`; each is shown to be kept by every step in a lemma of its own
(`OrderedKept`, `ArmsAscendKept`, `SeqsTileKept`), on top of two lemmas about
what `Append` and `Tail` do to indices. The run `MCFlow` checks the same formulas
on an instance.

`ChabuPriorities_proofs` proves for all `ChannelCount`, `PriorityCount` and
`PriorityOf` (`CountsAssumption`, `PriorityAssumption`) that `Spec` implies
`[]TypeOK` and `[]AloneHasReason`. The searches of the C code are minima of sets
of positions; that such a minimum exists (`MinIsLeast`) comes from the
well-foundedness of the naturals. Every link stays on its level (`Leveled`), so
calls for other levels do not reach a channel that has its own (`Alone`).

With at most two channels on a level (`PairLevels`, the condition of every link
run) it proves `[]CallsReturn`, `[]RequestKept` and `UrgentFirst`. The hard part
is what entries keep when they leave a list: `next` is not cleared. `Paired` is
the invariant that tames it: a link, also one outside the lists, leads to the
other channel of the level and there ends. So a walk has at most two steps, an
insertion ends at the head (`InsertAtHead`), and what a stale link adds to a list
is the other channel and nothing more. The two list operations keep `Paired`, add
their channel and lose no other one (`SetRequestPaired`, `PopNextRequestPaired`).
The limit is sharp: TLC finds `CallsReturn` violated with three channels on a
level (run `PrioritiesHang`). A stale link may add the other channel without a
request of its own, so `CtrlPopHasReason` (the assert of the transmitter) is
proved only where every channel has a level of its own
(`OwnLevelsCallsReturn`).

`JavaPriorizer_proofs` proves for all channels, levels and assignments that `Spec`
implies `[]TypeOK`, `[]RequestsExact`, `[]RecentBehind`, `HighestFirst` and
`TakesTurns`. `TakesTurns` speaks of one pop and the past; what carries the past
is `RecentBehind`: whoever was popped while a channel waits is at least as far
before it, around the ring of channel numbers, as the last channel. A pop goes to
the nearest waiting channel, so it comes strictly nearer to all others
(`PoppedChannel`), and a channel popped before would have to be farther away.

`ByteQueue_proofs` proves for every set of bytes and every `Capacity`, under
`Cautious`, that `Spec` implies `[]TypeOK`, `[]PositionsOrdered`,
`[]AssertsHold` and `QueueKept`, the refinement of `CommitQueue`. The inductive
invariant `Inv` is `TypeOK`, `PositionsOrdered`, and that the writer's positions
never rest at the end of the array (the reader's may): in that order of the
positions what one thread moves only enlarges what the other one checked. The refinement rests on `Segment` (the bytes
between two positions are a subsequence of the stored ones, across the end of the
array), `Appended` (bytes put behind the mark are appended and disturb nothing)
and `Released` (a new begin drops exactly the bytes before it).

`ChabuLink_proofs` proves `Spec => []TypeOK` for every configuration: counters of
the link never go below zero, pops give channels. `TypeInv` adds that the lists of
both kinds stay `Paired` (`PairsAssumption`), or a search might not end.

The other theorems about the C link have a hypothesis, `WholeWords`: the packet
sizes and what the applications add are multiples of `Align`, so that no packet
is padded. `Align = 1`, a link without padding, is such a configuration; so is a
C application that sends in units of four bytes with packet sizes of that kind.
It is the choice of the application: `Chabu_Init` checks only the range of the
packet size. Without it they are false, as the run `LinkPadSplit` shows.
`WholeInv` carries the hypothesis through the state: all positions and all tokens
are whole words, so nothing is ever padded and `pc` is never "prepare". Under it

- `WriteRequestsKept`: an endpoint that returns to its application with something
  unsent has a write request registered;
- `FramingAlwaysKept`: each receiver finds headers and payload where it looks for
  them. The invariant is `FrameInv`: the tokens on the wire, in the buffer and due
  from the body are accepted by an automaton (`Leads`) whose states are the places
  of the protocol (`Setup`, `Accept`, `Ready` with payload due and a position per
  channel, `Aborted`), from the place the receiver is at (`ReadsAt`) to the one
  the sender is at (`WritesAt`). A read takes a prefix off it (`Walks` may be
  split), a write puts a suffix behind it;
- `TrafficFollowsAccept`, from the same invariant.

`JavaLink_proofs` needs no such hypothesis, because the Java code keeps payload
and padding of a SEQ together. For any number of channels and levels, packet
sizes, transport buffers, amounts, widths of the ints, with and without
application threads, it proves

- `LinkTyped`. `TypeInv` adds `Control`: what the buffers hold at each position of
  the network thread, since the transmit actions trust the order of their list;
- `PeersNeverAtFault`, that is `[]NoProtocolError`: no receiver throws. `FrameInv`
  is here more than framing. A place holds the full position and the full credit
  of every channel, and an ARM leads to any credit that is not less and whose int
  it carries. So the walk from receiver to sender says at once that types are
  expected, positions are the expected ones modulo `Wrap`, and credits do not
  shrink (`ParsesRises`). The two directions need each other: a sender stays
  within the credit only if the difference of two ints is the difference of the
  positions they stand for (`Difference`), which holds while both are within half
  the range (`CreditKnown`): the credit of one direction is at most the limit its
  receiver granted, its position at least what that one received, and the room
  between is bounded by `Roomy`. `Roomy` counts what an application thread has
  promised and not yet written (`Promised`), or it would not be inductive.
- `StreamsImplemented`, that is `StreamsKept`: every step is, in every stream, one
  step of `ChabuFlow` or none. So what is proved of `ChabuFlow` holds of every
  stream. Three things carry it.
  - The positions of a stream lie in a corridor (`InCorridor`): received, sent,
    credit known, credit granted, in this order and within half the range of an
    int; every SEQ in flight stands for a position between the first two, every
    ARM for a credit between the last two. It follows from `FrameInv`
    (`Corridor`). In it the full position of an int does not depend on the
    position it is seen from (`SeenFromNear`), so a step that moves the sender's
    own position leaves the packets in flight as they were.
  - `View` is what `ChabuFlow` sees of one endpoint in both directions of a
    channel, `Moves` the seven things a step may do to it. `StepMoves` shows that
    every action of the model does one of them: most by what it does to the wire
    and the buffer (`WritesAre`, `ReadsAre`, and the `Flight...` lemmas about the
    packets in flight).
  - Each move is a step of `ChabuFlow` in the stream the endpoint sends
    (`SenderSimulates`) and in the one it receives (`ReceiverSimulates`).

  `BoundsInv` (the wire, the buffer and the limits keep to their bounds) gives the
  bounds that `ChabuFlow` has as parameters.

The condition on the room is a guard of `addRecvLimit`: an application grants
less than half the range of an int beyond what it received.

Assumptions on the constants: `PeersAssumption` (two endpoints),
`SizesAssumption`, `AmountsAssumption` (positive packet sizes and widths, amounts
and totals that are naturals), `CountsAssumption`, `PriorityAssumption`, and in
`ChabuLink` `PairsAssumption`. TLC evaluates all of them in the runs. Induction
is used in the form of `NatSetInduction`, on the set of numbers that have a
property.

Only model-checked: that `ChabuLink` implements `ChabuFlow` (its `StreamsKept`), and
liveness, which the proof system cannot state with fairness.

## Not modelled

- Contents of Setup, Abort, Ping and payload; error texts; struct info checks;
  the parameter checks of `Chabu_Init` and `Chabu_ConfigureChannel`, which are
  sequential and end in the first error.
- An application that gives no buffer or one of the wrong length
  (`XMIT_USER_BUFFER_*`, `RECV_USER_BUFFER_ZERO_LENGTH`; in Java the `ensure`s of
  `handleRecvSeq` and `handleXmitData`).
- DAVAIL, RESET and NOP: README.md lists the first two as not yet implemented, and
  no code sends them.
- `Chabu_USE_LOCK`: a field only, no code takes the lock.
- Java: the end of the stream (`read` returns -1, which the code adds to its
  counters); a header that arrives in parts (the code waits for the rest); the
  request of `handleSeqCompletion` outside the lock, whose collision with one of
  another thread may lose either.
- Byte queue: the listeners, since `setCallbackConsumed` and `setCallbackSupplied`
  throw whenever they are given one; `move`, which does not advance the read mark
  and so copies the same chunk again; the uses that `Cautious` leaves out.
- `ChabuByteBuffer.c`, `ChabuErrors.c`: a cursor on one buffer, texts.
- C#: a port of the Java library, class by class.
- Test nodes, director, trace runners: programs around the library.

Where documentation and code differ, beyond the findings: `ChabuBuilder.addChannel`
(lines 82-84) says that the lower priority number is handled first; `Priorizer`
scans from the highest number down, and `HighestFirst` states what it does.
`Chabu_Channel_SetRecvLimit` (ChabuChannel.c:79) stores its parameter in the
transmit limit; the model does the same.

## Plan

1. Done: scheduler, stream, C link, Java priorizer, Java link, byte queue; proofs
   about all of them.
2. Step simulation of `ChabuFlow` by `ChabuLink` under `WholeWords`, as for
   `JavaLink`: the corridor from `FrameInv`, then the moves of every action.
3. `ByteBuffer` and the checks of `ChabuInit` as operators against a reference
   definition.

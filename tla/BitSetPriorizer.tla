-------------------------- MODULE BitSetPriorizer --------------------------
(***************************************************************************)
(* The class Priorizer of the Java library, as operators on its state: a   *)
(* bit set of requesting channels per priority level, and the channel that *)
(* was selected last, one for all levels.                                  *)
(***************************************************************************)
EXTENDS Integers, FiniteSets, FiniteSetsExt

CONSTANTS
  ChannelCount,    \* channels.size()
  PriorityCount,   \* priorityCount
  PriorityOf       \* the priority a channel was added with

Channels   == 0 .. ChannelCount - 1
Priorities == 0 .. PriorityCount - 1

ASSUME CountsAssumption   == /\ ChannelCount \in Nat \ {0}
                             /\ PriorityCount \in Nat \ {0}
\* ChabuImpl.verifyChannels refuses a channel outside the levels, and so does
\* the ensure of request.
ASSUME PriorityAssumption == PriorityOf \in [Channels -> Priorities]

Priorizers == [requests : [Priorities -> SUBSET Channels], last : Channels]

\* A mutant: the last selected channel begins behind the last channel.
NoRequestsCount == [requests |-> [p \in Priorities |-> {}], last |-> ChannelCount]

NoRequests == [requests |-> [p \in Priorities |-> {}], last |-> ChannelCount - 1]

\* A mutant: a level holds one request, the newest.
RequestOnly(z, c) == [z EXCEPT !.requests[PriorityOf[c]] = {c}]

Request(z, c) == [z EXCEPT !.requests[PriorityOf[c]] = @ \cup {c}]

Pending(z) == {p \in Priorities : z.requests[p] # {}}

\* A mutant: the level with the lowest number first.
NextLevelLowest(z) == Min(Pending(z))

\* popNextRequest scans the levels from the highest number down.
NextLevel(z) == Max(Pending(z))

\* A mutant: always from the first channel on.
NextSetBitFirst(s, last) == Min(s)

\* The first set bit behind the last selected channel, or else the first.
NextSetBit(s, last) ==
  LET behind == {c \in s : c > last}
  IN  IF behind # {} THEN Min(behind) ELSE Min(s)

Popped(z) == NextSetBit(z.requests[NextLevel(z)], z.last)

PopNextRequest(z) ==
  [z EXCEPT !.requests[NextLevel(z)] = @ \ {Popped(z)}, !.last = Popped(z)]
=============================================================================

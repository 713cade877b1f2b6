-------------------------- MODULE ChabuPriorities --------------------------
(***************************************************************************)
(* The transmit scheduler of the C library: ChabuPriorities.c with the one *)
(* place that consumes what it returns, the idle part of                   *)
(* prepareNextXmitState in Chabu.c.                                        *)
(*                                                                         *)
(* The library is single threaded.  An action is one call: a request made  *)
(* by the channel API or by a received ARM, or a pop made by the           *)
(* transmitter.  A call whose search loop meets no stop condition never    *)
(* returns; a failed assert ends the program.                              *)
(***************************************************************************)
EXTENDS RequestList

VARIABLES
  ctrl,     \* the lists of channels with a control packet to send
  data,     \* the lists of channels with payload to send
  armFlag,  \* ch->xmit.requestCtrl_Arm
  asked,    \* history: the channels whose last data request is not served
  fault     \* "none", "hang" (a call never returns) or "assert"

vars == <<ctrl, data, armFlag, asked, fault>>

TypeOK ==
  /\ ctrl \in Lists
  /\ data \in Lists
  /\ armFlag \in [Channels -> BOOLEAN]
  /\ asked \in SUBSET Channels
  /\ fault \in {"none", "hang", "assert"}

Init ==
  /\ ctrl = EmptyLists
  /\ data = EmptyLists
  /\ armFlag = [c \in Channels |-> FALSE]
  /\ asked = {}
  /\ fault = "none"

-----------------------------------------------------------------------------
\* Chabu_Priority_SetRequestCtrl_Arm; the Davail and Reset variants have no
\* caller in the library.
SetRequestCtrl_Arm(c) ==
  /\ fault = "none"
  /\ armFlag' = [armFlag EXCEPT ![c] = TRUE]
  /\ IF SetRequestEnds(ctrl, c)
       THEN ctrl' = SetRequest(ctrl, c) /\ UNCHANGED fault
       ELSE fault' = "hang" /\ UNCHANGED ctrl
  /\ UNCHANGED <<data, asked>>

\* Chabu_Priority_SetRequestData
SetRequestData(c) ==
  /\ fault = "none"
  /\ asked' = asked \cup {c}
  /\ IF SetRequestEnds(data, c)
       THEN data' = SetRequest(data, c) /\ UNCHANGED fault
       ELSE fault' = "hang" /\ UNCHANGED data
  /\ UNCHANGED <<ctrl, armFlag>>

\* Chabu_Priority_PopNextRequestCtrl, and what prepareNextXmitState does with
\* the channel: an ARM packet if the flag is set, else assert( false ).
PopNextRequestCtrl ==
  /\ fault = "none"
  /\ Pending(ctrl) # {}
  /\ IF ~ PopEnds(ctrl)
       THEN fault' = "hang" /\ UNCHANGED <<ctrl, armFlag>>
       ELSE LET c == Popped(ctrl) IN
              /\ ctrl' = PopNextRequest(ctrl)
              /\ armFlag' = [armFlag EXCEPT ![c] = FALSE]
              /\ fault' = IF armFlag[c] THEN "none" ELSE "assert"
  /\ UNCHANGED <<data, asked>>

\* Chabu_Priority_PopNextRequestData, called when no ctrl request is pending.
PopNextRequestData ==
  /\ fault = "none"
  /\ Pending(ctrl) = {}
  /\ Pending(data) # {}
  /\ IF ~ PopEnds(data)
       THEN fault' = "hang" /\ UNCHANGED <<data, asked>>
       ELSE /\ data' = PopNextRequest(data)
            /\ asked' = asked \ {Popped(data)}
            /\ UNCHANGED fault
  /\ UNCHANGED <<ctrl, armFlag>>

Pop == PopNextRequestCtrl \/ PopNextRequestData

Next ==
  \/ \E c \in Channels : SetRequestCtrl_Arm(c) \/ SetRequestData(c)
  \/ Pop

Spec == Init /\ [][Next]_vars

\* The transmitter keeps popping as long as the transport accepts packets.
FairSpec == Spec /\ WF_vars(PopNextRequestCtrl) /\ SF_vars(PopNextRequestData)

-----------------------------------------------------------------------------
(* Properties. *)

\* No call of the scheduler loops forever: "search to find first with
\* channelId bigger than the startChannelId" finds one, or "none found, so
\* take first" (ChabuPriorities.c).
CallsReturn == fault # "hang"

\* A channel popped from the ctrl lists has a reason to be there: the
\* assert( false ) behind the three flags in Chabu.c is never reached.
CtrlPopHasReason == fault # "assert"

\* The part of that assert which the code keeps: a channel that has its level
\* for itself is in the ctrl lists only with its flag set, whatever the
\* channels of the other levels did.
AloneHasReason ==
  fault = "none" =>
    \A c \in Channels :
      (\A d \in Channels \ {c} : PriorityOf[d] # PriorityOf[c])
        => (c \in Members(ctrl, PriorityOf[c]) => armFlag[c])

\* A request stays where a pop can find it until that channel is served:
\* neither the insertion of other channels nor their pops cut it out.
RequestKept ==
  fault = "none" =>
    /\ \A c \in asked : c \in Members(data, PriorityOf[c])
    /\ \A c \in Channels : armFlag[c] => c \in Members(ctrl, PriorityOf[c])

\* popNextRequest serves the levels in ascending order: a pop never passes
\* over a channel of a more urgent level that asked, in whatever order the
\* channels asked and were served before.
UrgentFirst ==
  [][PopNextRequestData /\ fault' = "none" =>
       \A c \in asked : PriorityOf[Popped(data)] <= PriorityOf[c]]_vars

\* Round robin: a channel of the most urgent level that asked is served, no
\* matter how often the other channels of its level ask again, provided the
\* control packets, which go first, leave a gap again and again.
EveryAskerServed ==
  []<>(Pending(ctrl) = {}) =>
    \A c \in Channels : PriorityOf[c] = 0 =>
      (c \in asked ~> (c \notin asked \/ fault # "none"))
=============================================================================

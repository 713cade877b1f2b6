--------------------------- MODULE JavaPriorizer ---------------------------
(***************************************************************************)
(* The behaviour of one Priorizer: any sequence of requests and pops.      *)
(* ChabuXmitterNormal calls the two methods under its lock, so each is one *)
(* action.  (The request of handleSeqCompletion is made without the lock;  *)
(* a request of another thread at that moment is not modelled.)            *)
(***************************************************************************)
EXTENDS BitSetPriorizer

VARIABLES
  priorizer,  \* the state of the Priorizer
  asked,      \* history: the channels that asked and were not popped since
  recently    \* history: per waiting channel, the channels of its level that
              \* were popped since it asked and since another level was served

vars == <<priorizer, asked, recently>>

TypeOK ==
  /\ priorizer \in Priorizers
  /\ asked \in SUBSET Channels
  /\ recently \in [Channels -> SUBSET Channels]

Init ==
  /\ priorizer = NoRequests
  /\ asked = {}
  /\ recently = [c \in Channels |-> {}]

request(c) ==
  /\ priorizer' = Request(priorizer, c)
  /\ asked' = asked \cup {c}
  /\ UNCHANGED recently

\* Who was passed over by a pop of channel d.
Bypass(d) ==
  [c \in Channels |->
     IF c \in asked \ {d} /\ PriorityOf[c] = PriorityOf[d]
       THEN recently[c] \cup {d} ELSE {}]

popNextRequest ==
  /\ Pending(priorizer) # {}
  /\ priorizer' = PopNextRequest(priorizer)
  /\ asked' = asked \ {Popped(priorizer)}
  /\ recently' = Bypass(Popped(priorizer))

Next == popNextRequest \/ \E c \in Channels : request(c)

Spec == Init /\ [][Next]_vars

-----------------------------------------------------------------------------
(* Properties. *)

\* No request is lost and none is invented: the bits that are set are those
\* of the channels that asked and were not popped since.
RequestsExact ==
  \A p \in Priorities :
    priorizer.requests[p] = {c \in asked : PriorityOf[c] = p}

\* ChabuImpl passes the priorities on as they are, and the scan begins at the
\* highest number: no pop passes over a waiting channel with a higher number.
\* (ChabuBuilder.addChannel says the lower number is handled first.)
HighestFirst ==
  [][popNextRequest =>
       \A c \in asked : PriorityOf[c] <= PriorityOf[Popped(priorizer)]]_vars

\* Round robin of a level, as far as one last channel for all levels gives it:
\* while only channels of that level are popped, none of them is popped twice
\* while another one waits.  A pop of another level moves the last channel, and
\* the turn of a channel that waits may then begin anew.
TakesTurns ==
  [][popNextRequest =>
       \A c \in asked \ {Popped(priorizer)} :
         PriorityOf[c] = PriorityOf[Popped(priorizer)]
           => Popped(priorizer) \notin recently[c]]_vars

\* How far the search has to go from channel d to meet channel c.
Distance(d, c) == IF c > d THEN c - d ELSE c - d + ChannelCount

\* What makes TakesTurns hold: only a waiting channel has been passed over, and
\* whoever was popped recently while c waited lies at least as far before c as
\* the channel popped last.
RecentBehind ==
  \A c \in Channels : \A d \in recently[c] :
    c \in asked /\ Distance(priorizer.last, c) <= Distance(d, c)
=============================================================================

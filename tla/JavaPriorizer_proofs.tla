------------------------ MODULE JavaPriorizer_proofs ------------------------
(***************************************************************************)
(* Proofs about the scheduler of the Java library, for every number of     *)
(* channels and levels and every assignment of levels.                     *)
(***************************************************************************)
EXTENDS JavaPriorizer, SharedLemmas

-----------------------------------------------------------------------------
(* The helpers of BitSetPriorizer. *)

\* Channels and levels are naturals, and every channel has a level.
LEMMA Numbers ==
  /\ Channels \subseteq Nat /\ Priorities \subseteq Nat
  /\ ChannelCount - 1 \in Channels
  /\ \A c \in Channels : PriorityOf[c] \in Priorities
BY CountsAssumption, PriorityAssumption DEF Channels, Priorities

\* The level that is served next is the highest one with a request.
LEMMA NextLevelIsHighest ==
  ASSUME NEW z \in Priorizers, Pending(z) # {}
  PROVE  /\ NextLevel(z) \in Pending(z)
         /\ \A p \in Pending(z) : p <= NextLevel(z)
<1>1. Pending(z) \in SUBSET (0 .. PriorityCount)
  BY CountsAssumption DEF Pending, Priorities
<1> QED
  BY <1>1, MaxIsGreatest, CountsAssumption DEF NextLevel

\* The search finds the set bit that is nearest behind the last channel.
LEMMA NextSetBitIsNearest ==
  ASSUME NEW S \in SUBSET Channels, S # {}, NEW last \in Channels
  PROVE  /\ NextSetBit(S, last) \in S
         /\ \A c \in S : Distance(last, NextSetBit(S, last)) <= Distance(last, c)
<1> DEFINE behind == {c \in S : c > last}
           e == NextSetBit(S, last)
<1>0. S \in SUBSET Nat /\ behind \in SUBSET Nat
  BY Numbers
<1>1. CASE behind # {}
  <2>1. e = Min(behind)
    BY <1>1 DEF NextSetBit
  <2>2. e \in behind /\ \A c \in behind : e <= c
    <3> HIDE DEF e, behind
    <3> QED
      BY <1>0, <1>1, <2>1, MinIsLeast
  <2>3. \A c \in S : Distance(last, e) <= Distance(last, c)
    <3> HIDE DEF e
    <3> TAKE c \in S
    <3>1. e \in 0 .. ChannelCount - 1 /\ c \in 0 .. ChannelCount - 1 /\ e > last
      BY <2>2 DEF Channels
    <3>2. c > last => e <= c
      BY <2>2
    <3> QED
      BY <3>1, <3>2, CountsAssumption DEF Distance, Channels
  <2> QED
    BY <2>2, <2>3
<1>2. CASE behind = {}
  <2>1. e = Min(S)
    BY <1>2 DEF NextSetBit
  <2>2. e \in S /\ \A c \in S : e <= c
    <3> HIDE DEF e
    <3> QED
      BY <1>0, <2>1, MinIsLeast
  <2>3. \A c \in S : c <= last
    BY <1>0, <1>2, Numbers
  <2>4. \A c \in S : Distance(last, e) <= Distance(last, c)
    <3> HIDE DEF e
    <3> TAKE c \in S
    <3>1. e \in 0 .. ChannelCount - 1 /\ c \in 0 .. ChannelCount - 1 /\ e <= c
      BY <2>2 DEF Channels
    <3>2. e <= last /\ c <= last
      BY <2>2, <2>3
    <3> QED
      BY <3>1, <3>2, CountsAssumption DEF Distance, Channels
  <2> QED
    BY <2>2, <2>4
<1> QED
  BY <1>1, <1>2

\* A channel met on the way from a to c is nearer to c than a is.
LEMMA OnTheWay ==
  ASSUME NEW a \in Channels, NEW e \in Channels, NEW c \in Channels,
         c # e, Distance(a, e) <= Distance(a, c)
  PROVE  Distance(e, c) < Distance(a, c)
BY CountsAssumption DEF Distance, Channels

-----------------------------------------------------------------------------
(* The invariant. *)

Inv == TypeOK /\ RequestsExact /\ RecentBehind

\* The channel that a pop selects: it waits, no waiting channel has a higher
\* priority, and those of its own are met after it.
LEMMA PoppedChannel ==
  ASSUME Inv, Pending(priorizer) # {}
  PROVE  LET e == Popped(priorizer)
         IN  /\ e \in asked /\ PriorityOf[e] = NextLevel(priorizer)
             /\ \A c \in asked : PriorityOf[c] <= PriorityOf[e]
             /\ \A c \in asked \ {e} :
                  PriorityOf[c] = PriorityOf[e]
                    => Distance(e, c) < Distance(priorizer.last, c)
<1> DEFINE p == NextLevel(priorizer)
           S == priorizer.requests[p]
           e == Popped(priorizer)
<1>1. priorizer \in Priorizers /\ asked \in SUBSET Channels
  BY DEF Inv, TypeOK
<1>2. p \in Pending(priorizer) /\ \A r \in Pending(priorizer) : r <= p
  BY <1>1, NextLevelIsHighest
<1>3. S = {c \in asked : PriorityOf[c] = p}
  BY <1>2 DEF Inv, RequestsExact, Pending
<1>4. S \in SUBSET Channels /\ S # {} /\ priorizer.last \in Channels
  BY <1>1, <1>2, <1>3 DEF Pending, Priorizers
<1>5. e \in S /\ \A c \in S : Distance(priorizer.last, e) <= Distance(priorizer.last, c)
  <2> HIDE DEF S
  <2>1. e = NextSetBit(S, priorizer.last)
    BY DEF Popped, S
  <2> HIDE DEF e
  <2> QED
    BY <1>4, <2>1, NextSetBitIsNearest
<1>6. ASSUME NEW c \in asked
      PROVE  PriorityOf[c] <= PriorityOf[e]
  <2>1. PriorityOf[c] \in Priorities
    BY <1>1, PriorityAssumption
  <2>2. priorizer.requests[PriorityOf[c]] = {d \in asked : PriorityOf[d] = PriorityOf[c]}
    BY <2>1 DEF Inv, RequestsExact
  <2>3. PriorityOf[c] \in Pending(priorizer)
    BY <2>1, <2>2 DEF Pending
  <2>4. PriorityOf[e] = p
    BY <1>3, <1>5
  <2> QED
    BY <1>2, <2>3, <2>4
<1>7. ASSUME NEW c \in asked \ {e}, PriorityOf[c] = PriorityOf[e]
      PROVE  Distance(e, c) < Distance(priorizer.last, c)
  <2>1. c \in S
    BY <1>3, <1>5, <1>7
  <2> HIDE DEF S, e
  <2> QED
    BY <1>1, <1>4, <1>5, <2>1, OnTheWay
<1> QED
  BY <1>3, <1>5, <1>6, <1>7

\* A request preserves the invariant.
LEMMA RequestStep ==
  ASSUME Inv, NEW c \in Channels, request(c)
  PROVE  Inv'
<1> USE DEF request
<1>1. TypeOK'
  BY Numbers DEF Inv, TypeOK, Priorizers, Request
<1>2. RequestsExact'
  BY Numbers DEF Inv, TypeOK, Priorizers, RequestsExact, Request
<1>3. RecentBehind'
  BY DEF Inv, TypeOK, RecentBehind, Request
<1> QED
  BY <1>1, <1>2, <1>3 DEF Inv

\* A pop preserves the invariant.
LEMMA PopStep ==
  ASSUME Inv, popNextRequest
  PROVE  Inv'
<1> DEFINE e == Popped(priorizer)
           p == NextLevel(priorizer)
<1>1. /\ e \in asked /\ PriorityOf[e] = p
      /\ \A c \in asked \ {e} :
           PriorityOf[c] = PriorityOf[e] => Distance(e, c) < Distance(priorizer.last, c)
  BY PoppedChannel DEF popNextRequest
<1>2. e \in Channels /\ p \in Priorities
  BY <1>1, Numbers DEF Inv, TypeOK
<1>3. /\ priorizer' = [priorizer EXCEPT !.requests[p] = @ \ {e}, !.last = e]
      /\ asked' = asked \ {e} /\ recently' = Bypass(e)
  BY DEF popNextRequest, PopNextRequest
<1> HIDE DEF e, p
<1>4. TypeOK'
  BY <1>2, <1>3 DEF Inv, TypeOK, Priorizers, Bypass
<1>5. RequestsExact'
  BY <1>1, <1>2, <1>3 DEF Inv, TypeOK, Priorizers, RequestsExact
<1>6. RecentBehind'
  <2> SUFFICES ASSUME NEW c \in Channels, NEW d \in recently'[c]
               PROVE  c \in asked' /\ Distance(e, c) <= Distance(d, c)
    BY <1>3 DEF Inv, TypeOK, Priorizers, RecentBehind
  <2>1. /\ c \in asked \ {e} /\ PriorityOf[c] = PriorityOf[e]
        /\ d \in recently[c] \cup {e}
    BY <1>3 DEF Bypass
  <2>2. Distance(e, c) < Distance(priorizer.last, c)
    BY <1>1, <2>1
  <2>3. CASE d = e
    BY <1>2, <1>3, <2>1, <2>3, CountsAssumption DEF Distance, Channels
  <2>4. CASE d \in recently[c]
    <3>1. d \in Channels /\ priorizer.last \in Channels
      BY <2>4 DEF Inv, TypeOK, Priorizers
    <3>2. Distance(priorizer.last, c) <= Distance(d, c)
      BY <2>4 DEF Inv, RecentBehind
    <3>3. /\ Distance(e, c) \in Int /\ Distance(d, c) \in Int
          /\ Distance(priorizer.last, c) \in Int
      BY <1>2, <3>1, CountsAssumption DEF Distance, Channels
    <3> QED
      BY <1>3, <2>1, <2>2, <3>2, <3>3
  <2> QED
    BY <2>1, <2>3, <2>4
<1> QED
  BY <1>4, <1>5, <1>6 DEF Inv

\* The invariant holds in every state that requests and pops can reach.
THEOREM Invariance == Spec => []Inv
<1>1. Init => Inv
  BY Numbers
  DEF Init, Inv, TypeOK, Priorizers, NoRequests, RequestsExact, RecentBehind
<1>2. Inv /\ [Next]_vars => Inv'
  <2> SUFFICES ASSUME Inv, [Next]_vars
               PROVE  Inv'
    OBVIOUS
  <2>1. CASE popNextRequest
    BY <2>1, PopStep
  <2>2. ASSUME NEW c \in Channels, request(c)
        PROVE  Inv'
    BY <2>2, RequestStep
  <2>3. CASE UNCHANGED vars
    BY <2>3 DEF vars, Inv, TypeOK, RequestsExact, RecentBehind
  <2> QED
    BY <2>1, <2>2, <2>3 DEF Next
<1> QED
  BY <1>1, <1>2, PTL DEF Spec

-----------------------------------------------------------------------------
(* The theorems. *)

\* The state of the priorizer keeps its type.
THEOREM TypeCorrect == Spec => []TypeOK
<1>1. Inv => TypeOK
  BY DEF Inv
<1> QED
  BY <1>1, Invariance, PTL

\* The bits that are set are those of the channels that asked and were not
\* popped since: no request is lost, none is invented.
THEOREM NoRequestLost == Spec => []RequestsExact
<1>1. Inv => RequestsExact
  BY DEF Inv
<1> QED
  BY <1>1, Invariance, PTL

\* Whoever was popped while a channel waits lies behind the last channel on the
\* way to that one.
THEOREM RecentlyPoppedAreBehind == Spec => []RecentBehind
<1>1. Inv => RecentBehind
  BY DEF Inv
<1> QED
  BY <1>1, Invariance, PTL

\* A pop serves the highest priority that waits.
THEOREM ServesHighestFirst == Spec => HighestFirst
<1>1. Inv /\ [Next]_vars
        => [popNextRequest =>
              \A c \in asked : PriorityOf[c] <= PriorityOf[Popped(priorizer)]]_vars
  BY PoppedChannel DEF popNextRequest
<1> QED
  BY <1>1, Invariance, PTL DEF Spec, HighestFirst

\* A pop takes no channel for the second time while one of its level waits,
\* unless another level was served in between.
THEOREM TakesTurnsOnALevel == Spec => TakesTurns
<1>1. Inv /\ [Next]_vars
        => [popNextRequest =>
              \A c \in asked \ {Popped(priorizer)} :
                PriorityOf[c] = PriorityOf[Popped(priorizer)]
                  => Popped(priorizer) \notin recently[c]]_vars
  <2> SUFFICES ASSUME Inv, popNextRequest,
                      NEW c \in asked \ {Popped(priorizer)},
                      PriorityOf[c] = PriorityOf[Popped(priorizer)],
                      Popped(priorizer) \in recently[c]
               PROVE  FALSE
    OBVIOUS
  <2> DEFINE e == Popped(priorizer)
  <2>1. e \in asked /\ Distance(e, c) < Distance(priorizer.last, c)
    BY PoppedChannel DEF popNextRequest
  <2>2. Distance(priorizer.last, c) <= Distance(e, c)
    BY DEF Inv, TypeOK, RecentBehind
  <2>3. c \in Channels /\ e \in Channels /\ priorizer.last \in Channels
    BY <2>1 DEF Inv, TypeOK, Priorizers
  <2> HIDE DEF e
  <2> QED
    BY <2>1, <2>2, <2>3, CountsAssumption DEF Distance, Channels
<1> QED
  BY <1>1, Invariance, PTL DEF Spec, TakesTurns
=============================================================================

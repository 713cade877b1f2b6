------------------------- MODULE RequestList_proofs -------------------------
(***************************************************************************)
(* What the list operations of ChabuPriorities.c do, for every number of   *)
(* channels and levels: lemmas for the proofs about the scheduler and the  *)
(* link.  The links that entries keep outside of a list are part of it.    *)
(***************************************************************************)
EXTENDS RequestList, SharedLemmas

\* Channels and levels are integers, and Null is none of them.
LEMMA Numbers ==
  /\ Channels \subseteq Nat /\ Priorities \subseteq Nat
  /\ Null \notin Channels /\ Null \in Entries
  /\ \A c \in Channels : PriorityOf[c] \in Priorities /\ c \in Entries
BY CountsAssumption, PriorityAssumption DEF Channels, Priorities, Null, Entries

\* The level that is served next is the first one with a request.
LEMMA NextLevelIsFirst ==
  ASSUME NEW q \in Lists, Pending(q) # {}
  PROVE  /\ NextLevel(q) \in Pending(q)
         /\ \A p \in Pending(q) : NextLevel(q) <= p
<1>1. Pending(q) \in SUBSET Nat
  BY Numbers DEF Pending
<1> QED
  BY <1>1, MinIsLeast DEF NextLevel

-----------------------------------------------------------------------------
(* Following the links. *)

\* The entry behind e, Null behind the last one.
Behind(q, e) == IF e = Null THEN Null ELSE q.next[e]

\* The links of well formed lists can be followed as far as one likes.
LEMMA PathExists ==
  ASSUME NEW q \in Lists, NEW h \in Entries
  PROVE  \A n \in Nat : \E f \in [0 .. n -> Entries] :
           f[0] = h /\ \A i \in 1 .. n : f[i] = Behind(q, f[i - 1])
<1> DEFINE Path(f, n) == f[0] = h /\ \A i \in 1 .. n : f[i] = Behind(q, f[i - 1])
           S == {n \in Nat : \E f \in [0 .. n -> Entries] : Path(f, n)}
<1>0. \A e \in Entries : Behind(q, e) \in Entries
  BY Numbers DEF Behind, Lists, Entries
<1>1. 0 \in S
  <2>1. [i \in 0 .. 0 |-> h] \in [0 .. 0 -> Entries] /\ Path([i \in 0 .. 0 |-> h], 0)
    OBVIOUS
  <2> QED
    BY <2>1
<1>2. ASSUME NEW n \in Nat, n \in S PROVE n + 1 \in S
  <2>1. PICK f \in [0 .. n -> Entries] : Path(f, n)
    BY <1>2
  <2> DEFINE g == [i \in 0 .. n + 1 |-> IF i <= n THEN f[i] ELSE Behind(q, f[n])]
  <2>2. g \in [0 .. n + 1 -> Entries]
    BY <1>0
  <2>3. \A i \in 1 .. n + 1 : g[i] = Behind(q, g[i - 1])
    <3> TAKE i \in 1 .. n + 1
    <3>1. CASE i <= n
      BY <2>1, <3>1
    <3>2. CASE i = n + 1
      BY <3>2
    <3> QED
      BY <3>1, <3>2
  <2>4. g[0] = h
    BY <2>1
  <2>5. \E x \in [0 .. n + 1 -> Entries] : Path(x, n + 1)
    BY <2>2, <2>3, <2>4, Zenon
  <2> QED
    BY <2>5
<1>3. Nat \subseteq S
  <2> HIDE DEF S
  <2> QED
    BY <1>1, <1>2, NatSetInduction
<1> QED
  BY <1>3

\* Chain follows the links from the head of its level.
LEMMA ChainFollowsLinks ==
  ASSUME NEW q \in Lists, NEW p \in Priorities
  PROVE  /\ Chain(q, p) \in [0 .. ChannelCount -> Entries]
         /\ Chain(q, p)[0] = q.request[p]
         /\ \A i \in 1 .. ChannelCount :
              Chain(q, p)[i] = Behind(q, Chain(q, p)[i - 1])
<1> DEFINE Law(f) ==
             f = [i \in 0 .. ChannelCount |->
                    IF i = 0 THEN q.request[p]
                    ELSE IF f[i - 1] = Null THEN Null ELSE q.next[f[i - 1]]]
<1>0. ChannelCount \in Nat \ {0}
  BY CountsAssumption
<1>1. PICK f \in [0 .. ChannelCount -> Entries] :
        /\ f[0] = q.request[p]
        /\ \A i \in 1 .. ChannelCount : f[i] = Behind(q, f[i - 1])
  <2>1. q.request[p] \in Entries
    BY DEF Lists
  <2> QED
    BY <1>0, <2>1, PathExists
<1>2. Law(f)
  <2> DEFINE g == [i \in 0 .. ChannelCount |->
                     IF i = 0 THEN q.request[p]
                     ELSE IF f[i - 1] = Null THEN Null ELSE q.next[f[i - 1]]]
  <2>1. ASSUME NEW i \in 0 .. ChannelCount PROVE f[i] = g[i]
    BY <1>0, <1>1 DEF Behind
  <2> QED
    BY <2>1
<1>3. Chain(q, p) = CHOOSE g : Law(g)
  BY Zenon DEF Chain
<1>4. Law(Chain(q, p))
  <2> HIDE DEF Law
  <2> QED
    BY <1>2, <1>3, Zenon
<1> DEFINE C == Chain(q, p)
           S == {i \in Nat : i <= ChannelCount => C[i] \in Entries}
<1>5. /\ C[0] = q.request[p]
      /\ \A i \in 1 .. ChannelCount : C[i] = Behind(q, C[i - 1])
      /\ C = [i \in 0 .. ChannelCount |-> C[i]]
  <2> HIDE DEF C
  <2>1. C = [i \in 0 .. ChannelCount |->
               IF i = 0 THEN q.request[p]
               ELSE IF C[i - 1] = Null THEN Null ELSE q.next[C[i - 1]]]
    BY <1>4 DEF C
  <2>2. \A i \in 0 .. ChannelCount :
          C[i] = IF i = 0 THEN q.request[p]
                 ELSE IF C[i - 1] = Null THEN Null ELSE q.next[C[i - 1]]
    BY <2>1, Zenon
  <2>3. C = [i \in 0 .. ChannelCount |-> C[i]]
    BY <2>1
  <2>4. C[0] = q.request[p]
    BY <1>0, <2>2
  <2>5. ASSUME NEW i \in 1 .. ChannelCount PROVE C[i] = Behind(q, C[i - 1])
    <3>1. i \in 0 .. ChannelCount /\ i # 0
      BY <1>0
    <3> QED
      BY <2>2, <3>1 DEF Behind
  <2> QED
    BY <2>3, <2>4, <2>5, Zenon
<1>6. \A i \in 0 .. ChannelCount : C[i] \in Entries
  <2> HIDE DEF C
  <2>1. 0 \in S
    BY <1>5 DEF Lists
  <2>2. \A i \in Nat : i \in S => i + 1 \in S
    <3> SUFFICES ASSUME NEW i \in Nat, C[i] \in Entries, i + 1 <= ChannelCount
                 PROVE  C[i + 1] \in Entries
      BY <1>0
    <3>1. C[i + 1] = Behind(q, C[i])
      BY <1>0, <1>5
    <3> QED
      BY <3>1, Numbers DEF Behind, Lists, Entries
  <2>3. Nat \subseteq S
    <3> HIDE DEF S
    <3> QED
      BY <2>1, <2>2, NatSetInduction
  <2> QED
    BY <1>0, <2>3
<1> HIDE DEF C
<1>7. C \in [0 .. ChannelCount -> Entries]
  BY <1>5, <1>6
<1> QED
  BY <1>5, <1>7 DEF C

-----------------------------------------------------------------------------
(* Well formed lists stay well formed when the searches end. *)

\* An insertion whose search ends leaves the lists well formed.
LEMMA SetRequestTyped ==
  ASSUME NEW q \in Lists, NEW c \in Channels, SetRequestEnds(q, c)
  PROVE  SetRequest(q, c) \in Lists
<1> DEFINE p == PriorityOf[c]
<1>0. p \in Priorities /\ c \in Entries /\ Channels \subseteq Entries
  BY Numbers DEF Entries
<1>1. CASE q.request[p] = Null
  BY <1>0, <1>1 DEF SetRequest, Lists
<1>2. CASE q.request[p] = c
  BY <1>0, <1>2, Numbers DEF SetRequest, Lists
<1>3. CASE q.request[p] \notin {Null, c}
  <2> DEFINE S  == Stops(q, p, LAMBDA n : Before(c, n))
             it == StopAt(q, p, LAMBDA n : Before(c, n))
  <2>1. S # {} /\ S \in SUBSET Nat
    BY <1>3, CountsAssumption DEF SetRequestEnds, Stops
  <2>2. Min(S) \in S
    BY <2>1, MinIsLeast
  <2>3. it \in Channels
    BY <2>2 DEF Stops, StopAt
  <2> HIDE DEF it
  <2>4. q.next[it] \in Entries
    BY <2>3 DEF Lists
  <2>5. SetRequest(q, c) =
          IF q.next[it] = c THEN q
          ELSE [q EXCEPT !.next = [@ EXCEPT ![c] = q.next[it], ![it] = c]]
    BY <1>3 DEF SetRequest, it
  <2> QED
    BY <1>0, <2>3, <2>4, <2>5 DEF Lists
<1> QED
  BY <1>1, <1>2, <1>3

\* A pop whose search ends leaves the lists well formed and gives a channel.
LEMMA PopNextRequestTyped ==
  ASSUME NEW q \in Lists, Pending(q) # {}, PopEnds(q)
  PROVE  PopNextRequest(q) \in Lists /\ Popped(q) \in Channels
<1> DEFINE p    == NextLevel(q)
           head == q.request[p]
<1>1. p \in Priorities /\ head \in Channels
  BY NextLevelIsFirst DEF Pending, Lists, Entries
<1>2. \A c \in Channels : q.next[c] \in Entries /\ c \in Entries /\ Null \in Entries
  BY DEF Lists, Entries
<1>3. TakeHead(q, p) \in Lists /\ TakeHead(q, p).last[p] = head
  BY <1>1, <1>2 DEF TakeHead, Lists
<1>4. TakeFirst(q, p) \in Lists /\ TakeFirst(q, p).last[p] = head
  BY <1>1, <1>2, <1>3 DEF TakeFirst, Lists
<1>5. ASSUME NEW it \in Channels, q.next[it] # Null
      PROVE  TakeBehind(q, p, it) \in Lists /\ TakeBehind(q, p, it).last[p] \in Channels
  <2>1. q.next[it] \in Channels
    BY <1>2, <1>5 DEF Entries
  <2> QED
    BY <1>1, <1>2, <2>1 DEF TakeBehind, Lists
<1>6. CASE TakesHead(q, p)
  BY <1>1, <1>3, <1>6 DEF PopNextRequest, PopForLevel, Popped
<1>7. CASE ~ TakesHead(q, p)
  <2> DEFINE S  == Stops(q, p, LAMBDA n : NotAfter(q.last[p], n))
             it == StopAt(q, p, LAMBDA n : NotAfter(q.last[p], n))
  <2>1. S # {} /\ S \in SUBSET Nat
    BY <1>7, CountsAssumption DEF PopEnds, Stops
  <2>2. Min(S) \in S
    BY <2>1, MinIsLeast
  <2>3. it \in Channels
    BY <2>2 DEF Stops, StopAt
  <2>4. PopForLevel(q, p) =
          IF q.next[it] # Null THEN TakeBehind(q, p, it) ELSE TakeFirst(q, p)
    BY <1>7 DEF PopForLevel
  <2> HIDE DEF it
  <2>5. PopForLevel(q, p) \in Lists /\ PopForLevel(q, p).last[p] \in Channels
    BY <1>1, <1>4, <1>5, <2>3, <2>4
  <2> QED
    BY <2>5 DEF PopNextRequest, Popped
<1> QED
  BY <1>6, <1>7

-----------------------------------------------------------------------------
(* Every link stays on its level: the head of a level and whatever an      *)
(* entry links to, in its list or outside, have that level.                *)

Leveled(q) ==
  /\ \A p \in Priorities : q.request[p] # Null => PriorityOf[q.request[p]] = p
  /\ \A c \in Channels : q.next[c] # Null => PriorityOf[q.next[c]] = PriorityOf[c]

\* A walk along the links does not leave its level.
LEMMA ChainOnLevel ==
  ASSUME NEW q \in Lists, Leveled(q), NEW p \in Priorities,
         NEW i \in 0 .. ChannelCount, Chain(q, p)[i] \in Channels
  PROVE  PriorityOf[Chain(q, p)[i]] = p
<1> DEFINE C == Chain(q, p)
           S == {j \in Nat : j <= ChannelCount /\ C[j] # Null => PriorityOf[C[j]] = p}
<1>1. /\ C \in [0 .. ChannelCount -> Entries] /\ C[0] = q.request[p]
      /\ \A j \in 1 .. ChannelCount : C[j] = Behind(q, C[j - 1])
  BY ChainFollowsLinks
<1>2. C[i] # Null
  BY Numbers
<1> HIDE DEF C
<1>3. 0 \in S
  BY <1>1 DEF Leveled
<1>4. \A j \in Nat : j \in S => j + 1 \in S
  <2> SUFFICES ASSUME NEW j \in Nat, j \in S, j + 1 <= ChannelCount, C[j + 1] # Null
               PROVE  PriorityOf[C[j + 1]] = p
    OBVIOUS
  <2>1. C[j + 1] = Behind(q, C[j]) /\ C[j] \in Entries
    BY <1>1, CountsAssumption
  <2> QED
    BY <2>1, CountsAssumption DEF Behind, Leveled, Entries
<1>5. Nat \subseteq S
  <2> HIDE DEF S
  <2> QED
    BY <1>3, <1>4, NatSetInduction
<1>6. PriorityOf[C[i]] = p
  BY <1>2, <1>5, CountsAssumption
<1> QED
  BY <1>6 DEF C

\* Where the search of an insertion ends.
LEMMA InsertPlace ==
  ASSUME NEW q \in Lists, Leveled(q), NEW c \in Channels, SetRequestEnds(q, c),
         q.request[PriorityOf[c]] \notin {Null, c}
  PROVE  \E it \in Channels :
           /\ PriorityOf[it] = PriorityOf[c]
           /\ SetRequest(q, c) =
                IF q.next[it] = c THEN q
                ELSE [q EXCEPT !.next = [@ EXCEPT ![c] = q.next[it], ![it] = c]]
<1> DEFINE p  == PriorityOf[c]
           S  == Stops(q, p, LAMBDA n : Before(c, n))
           it == StopAt(q, p, LAMBDA n : Before(c, n))
<1>1. S # {} /\ S \in SUBSET Nat
  BY CountsAssumption DEF SetRequestEnds, Stops
<1>2. Min(S) \in S
  BY <1>1, MinIsLeast
<1>3. it \in Channels /\ it = Chain(q, p)[Min(S)] /\ Min(S) \in 0 .. ChannelCount
  BY <1>2 DEF Stops, StopAt
<1>4. PriorityOf[it] = p
  BY <1>3, ChainOnLevel, Numbers
<1> HIDE DEF it
<1>5. SetRequest(q, c) =
        IF q.next[it] = c THEN q
        ELSE [q EXCEPT !.next = [@ EXCEPT ![c] = q.next[it], ![it] = c]]
  BY DEF SetRequest, it
<1> QED
  BY <1>3, <1>4, <1>5

\* What a pop may do to the first level that has a request.
LEMMA PopOutcomes ==
  ASSUME NEW q \in Lists, Leveled(q), Pending(q) # {}, PopEnds(q)
  PROVE  LET p == NextLevel(q)
         IN  \/ PopNextRequest(q) \in {TakeHead(q, p), TakeFirst(q, p)}
             \/ \E it \in Channels : /\ PriorityOf[it] = p /\ q.next[it] # Null
                                      /\ PopNextRequest(q) = TakeBehind(q, p, it)
<1> DEFINE p  == NextLevel(q)
           S  == Stops(q, p, LAMBDA n : NotAfter(q.last[p], n))
           it == StopAt(q, p, LAMBDA n : NotAfter(q.last[p], n))
<1>1. p \in Priorities
  BY NextLevelIsFirst DEF Pending
<1>2. CASE TakesHead(q, p)
  BY <1>2 DEF PopNextRequest, PopForLevel
<1>3. CASE ~ TakesHead(q, p)
  <2>1. S # {} /\ S \in SUBSET Nat
    BY <1>3, CountsAssumption DEF PopEnds, Stops
  <2>2. Min(S) \in S
    BY <2>1, MinIsLeast
  <2>3. it \in Channels /\ it = Chain(q, p)[Min(S)] /\ Min(S) \in 0 .. ChannelCount
    BY <2>2 DEF Stops, StopAt
  <2>4. PriorityOf[it] = p
    BY <1>1, <2>3, ChainOnLevel
  <2> HIDE DEF it
  <2>5. PopNextRequest(q) =
          IF q.next[it] # Null THEN TakeBehind(q, p, it) ELSE TakeFirst(q, p)
    BY <1>3 DEF PopNextRequest, PopForLevel, it
  <2> QED
    BY <2>3, <2>4, <2>5
<1> QED
  BY <1>2, <1>3

\* An insertion keeps the links on their levels.
LEMMA SetRequestLeveled ==
  ASSUME NEW q \in Lists, Leveled(q), NEW c \in Channels, SetRequestEnds(q, c)
  PROVE  Leveled(SetRequest(q, c))
<1> DEFINE p == PriorityOf[c]
<1>0. p \in Priorities
  BY Numbers
<1>1. CASE q.request[p] = Null
  <2>1. SetRequest(q, c) = [q EXCEPT !.request[p] = c]
    BY <1>1 DEF SetRequest
  <2>2. SetRequest(q, c).request = [q.request EXCEPT ![p] = c]
        /\ SetRequest(q, c).next = q.next
    BY <2>1 DEF Lists
  <2> QED
    BY <1>0, <2>2 DEF Leveled, Lists
<1>2. CASE q.request[p] = c
  BY <1>2, Numbers DEF SetRequest
<1>3. CASE q.request[p] \notin {Null, c}
  <2>1. PICK it \in Channels :
          /\ PriorityOf[it] = p
          /\ SetRequest(q, c) =
               IF q.next[it] = c THEN q
               ELSE [q EXCEPT !.next = [@ EXCEPT ![c] = q.next[it], ![it] = c]]
    BY <1>3, InsertPlace
  <2>2. CASE q.next[it] # c
    <3>1. SetRequest(q, c).request = q.request
          /\ SetRequest(q, c).next = [q.next EXCEPT ![c] = q.next[it], ![it] = c]
      BY <2>1, <2>2 DEF Lists
    <3> QED
      BY <2>1, <3>1 DEF Leveled, Lists
  <2> QED
    BY <2>1, <2>2
<1> QED
  BY <1>1, <1>2, <1>3

\* A pop keeps the links on their levels, and takes a channel of the level.
LEMMA PopNextRequestLeveled ==
  ASSUME NEW q \in Lists, Leveled(q), Pending(q) # {}, PopEnds(q)
  PROVE  /\ Leveled(PopNextRequest(q))
         /\ PriorityOf[Popped(q)] = NextLevel(q)
<1> DEFINE p    == NextLevel(q)
           head == q.request[p]
           z    == PopNextRequest(q)
<1>1. p \in Priorities /\ head \in Channels /\ PriorityOf[head] = p
  BY NextLevelIsFirst DEF Pending, Lists, Entries, Leveled
<1>2. CASE z = TakeHead(q, p)
  <2>1. /\ z.request = [q.request EXCEPT ![p] = q.next[head]]
        /\ z.next = q.next /\ z.last[p] = head
    BY <1>1, <1>2 DEF TakeHead, Lists
  <2> HIDE DEF z
  <2> QED
    BY <1>1, <2>1 DEF Leveled, Lists, Popped, z
<1>3. CASE z = TakeFirst(q, p)
  <2>1. /\ z.request = [q.request EXCEPT ![p] = q.next[head]]
        /\ z.next = [q.next EXCEPT ![head] = Null] /\ z.last[p] = head
    BY <1>1, <1>3 DEF TakeFirst, TakeHead, Lists
  <2> HIDE DEF z
  <2> QED
    BY <1>1, <2>1 DEF Leveled, Lists, Popped, z
<1>4. ASSUME NEW it \in Channels, PriorityOf[it] = p, q.next[it] # Null,
             z = TakeBehind(q, p, it)
      PROVE  Leveled(z) /\ PriorityOf[z.last[p]] = p
  <2> DEFINE res == q.next[it]
  <2>1. res \in Channels /\ PriorityOf[res] = p
    BY <1>4 DEF Lists, Entries, Leveled
  <2>2. /\ z.request = q.request /\ z.last[p] = res
        /\ z.next = [q.next EXCEPT ![it] = q.next[res], ![res] = Null]
    BY <1>1, <1>4 DEF TakeBehind, Lists
  <2> HIDE DEF z, res
  <2> QED
    BY <1>4, <2>1, <2>2 DEF Leveled, Lists
<1> QED
  BY <1>2, <1>3, <1>4, PopOutcomes DEF Popped

-----------------------------------------------------------------------------
(* At most two channels on a level.  A list then is its head and perhaps   *)
(* the other channel.  A link that an entry kept when it left the list     *)
(* leads to the other channel and no further, so no walk is ever endless,  *)
(* and what the other channel becomes part of ends behind it.              *)

Paired(q) ==
  /\ Leveled(q)
  /\ \A c \in Channels : q.next[c] # Null =>
       q.next[c] # c /\ q.next[q.next[c]] = Null

\* The empty lists.
LEMMA EmptyListsPaired ==
  EmptyLists \in Lists /\ Paired(EmptyLists)
BY Numbers DEF EmptyLists, Lists, Paired, Leveled

\* A list holds its head and what that one links to.
LEMMA PairedMembers ==
  ASSUME NEW q \in Lists, Paired(q), NEW p \in Priorities, q.request[p] # Null
  PROVE  /\ q.request[p] \in Channels
         /\ Members(q, p) = {q.request[p], q.next[q.request[p]]} \ {Null}
         /\ Chain(q, p)[0] = q.request[p] /\ Chain(q, p)[1] = q.next[q.request[p]]
         /\ \A i \in 2 .. ChannelCount : Chain(q, p)[i] = Null
<1> DEFINE C == Chain(q, p)
           h == q.request[p]
<1>0. ChannelCount \in Nat \ {0} /\ h \in Channels
  BY CountsAssumption DEF Lists, Entries
<1>1. /\ C[0] = h
      /\ \A i \in 1 .. ChannelCount : C[i] = Behind(q, C[i - 1])
  BY ChainFollowsLinks
<1> HIDE DEF C
<1>2. C[1] = q.next[h]
  BY <1>0, <1>1, Numbers DEF Behind
<1>3. Behind(q, q.next[h]) = Null /\ Behind(q, Null) = Null
  BY <1>0, Numbers DEF Behind, Paired
<1>4. \A i \in 2 .. ChannelCount : C[i] = Null
  <2> DEFINE S == {i \in Nat : i + 2 <= ChannelCount => C[i + 2] = Null}
  <2>1. 0 \in S
    BY <1>0, <1>1, <1>2, <1>3
  <2>2. \A i \in Nat : i \in S => i + 1 \in S
    <3> SUFFICES ASSUME NEW i \in Nat, C[i + 2] = Null, i + 3 <= ChannelCount
                 PROVE  C[i + 3] = Null
      BY <1>0
    <3>1. C[i + 3] = Behind(q, C[i + 2])
      BY <1>0, <1>1
    <3> QED
      BY <1>3, <3>1
  <2>3. Nat \subseteq S
    <3> HIDE DEF S
    <3> QED
      BY <2>1, <2>2, NatSetInduction
  <2> TAKE i \in 2 .. ChannelCount
  <2>4. i - 2 \in S
    BY <2>3
  <2> QED
    BY <1>0, <2>4
<1>5. {C[i] : i \in 1 .. ChannelCount} \ {Null} = {C[1]} \ {Null}
  <2>1. \A i \in 1 .. ChannelCount : i = 1 \/ C[i] = Null
    BY <1>0, <1>4
  <2>2. 1 \in 1 .. ChannelCount
    BY <1>0
  <2> QED
    BY <2>1, <2>2
<1>6. Members(q, p) = {h, C[1]} \ {Null}
  BY <1>5 DEF Members, C
<1> QED
  BY <1>0, <1>1, <1>2, <1>4, <1>6 DEF C

\* A list without a head holds nothing.
LEMMA HeadlessMembers ==
  ASSUME NEW q \in Lists, NEW p \in Priorities, q.request[p] = Null
  PROVE  Members(q, p) = {}
<1> DEFINE C == Chain(q, p)
           S == {i \in Nat : i <= ChannelCount => C[i] = Null}
<1>0. ChannelCount \in Nat \ {0}
  BY CountsAssumption
<1>1. /\ C[0] = Null
      /\ \A i \in 1 .. ChannelCount : C[i] = Behind(q, C[i - 1])
  BY ChainFollowsLinks
<1> HIDE DEF C
<1>2. 0 \in S
  BY <1>1
<1>3. \A i \in Nat : i \in S => i + 1 \in S
  <2> SUFFICES ASSUME NEW i \in Nat, C[i] = Null, i + 1 <= ChannelCount
               PROVE  C[i + 1] = Null
    BY <1>0
  <2>1. C[i + 1] = Behind(q, C[i])
    BY <1>0, <1>1
  <2> QED
    BY <2>1 DEF Behind
<1>4. Nat \subseteq S
  <2> HIDE DEF S
  <2> QED
    BY <1>2, <1>3, NatSetInduction
<1>5. \A i \in 1 .. ChannelCount : C[i] = Null
  BY <1>0, <1>4
<1> QED
  BY <1>5 DEF Members, C

\* An insertion behind a head whose link is Null, or leads to the channel,
\* ends at that head.
LEMMA InsertAtHead ==
  ASSUME NEW q \in Lists, NEW c \in Channels,
         q.request[PriorityOf[c]] \in Channels \ {c},
         q.next[q.request[PriorityOf[c]]] \in {Null, c}
  PROVE  LET h == q.request[PriorityOf[c]]
         IN  SetRequest(q, c) =
               IF q.next[h] = c THEN q
               ELSE [q EXCEPT !.next = [@ EXCEPT ![c] = q.next[h], ![h] = c]]
<1> DEFINE p  == PriorityOf[c]
           h  == q.request[p]
           S  == Stops(q, p, LAMBDA n : Before(c, n))
           it == StopAt(q, p, LAMBDA n : Before(c, n))
<1>0. ChannelCount \in Nat \ {0} /\ p \in Priorities /\ h # Null /\ c \in Nat
  BY Numbers, CountsAssumption
<1>1. Chain(q, p)[0] = h
  BY <1>0, ChainFollowsLinks
<1>2. 0 \in S
  BY <1>0, <1>1 DEF Stops, Before
<1>3. S \in SUBSET Nat
  BY <1>0 DEF Stops
<1>4. Min(S) = 0
  <2> HIDE DEF S
  <2>1. Min(S) \in Nat /\ Min(S) <= 0
    BY <1>2, <1>3, MinIsLeast
  <2> QED
    BY <2>1
<1>5. it = h
  BY <1>1, <1>4 DEF StopAt
<1> HIDE DEF it
<1>6. SetRequest(q, c) =
        IF q.request[p] = Null THEN [q EXCEPT !.request[p] = c]
        ELSE IF q.request[p] = c \/ q.next[it] = c THEN q
        ELSE [q EXCEPT !.next = [@ EXCEPT ![c] = q.next[it], ![it] = c]]
  BY DEF SetRequest, it
<1> QED
  BY <1>0, <1>5, <1>6

\* The searches end.
LEMMA PairedSearches ==
  ASSUME NEW q \in Lists, Paired(q)
  PROVE  /\ \A c \in Channels : SetRequestEnds(q, c)
         /\ Pending(q) # {} => PopEnds(q)
<1>0. ChannelCount \in Nat \ {0}
  BY CountsAssumption
<1>1. ASSUME NEW c \in Channels PROVE SetRequestEnds(q, c)
  <2> DEFINE p == PriorityOf[c]
             h == q.request[p]
  <2>1. CASE h = Null
    BY <2>1 DEF SetRequestEnds
  <2>2. CASE h # Null
    <3>1. h \in Channels /\ Chain(q, p)[0] = h /\ Chain(q, p)[1] = q.next[h]
      BY <2>2, PairedMembers, Numbers
    <3>2. CASE q.next[h] = Null
      <4>1. 0 \in Stops(q, p, LAMBDA n : Before(c, n))
        BY <1>0, <3>1, <3>2 DEF Stops
      <4> QED
        BY <4>1 DEF SetRequestEnds
    <3>3. CASE q.next[h] # Null
      <4>1. q.next[h] \in Channels /\ q.next[q.next[h]] = Null
        BY <3>1, <3>3 DEF Paired, Lists, Entries
      <4>2. 1 \in Stops(q, p, LAMBDA n : Before(c, n))
        BY <1>0, <3>1, <4>1 DEF Stops
      <4> QED
        BY <4>2 DEF SetRequestEnds
    <3> QED
      BY <3>2, <3>3
  <2> QED
    BY <2>1, <2>2
<1>2. ASSUME Pending(q) # {} PROVE PopEnds(q)
  <2> DEFINE p == NextLevel(q)
             h == q.request[p]
  <2>1. p \in Priorities /\ h # Null
    BY <1>2, NextLevelIsFirst DEF Pending
  <2>2. h \in Channels /\ Chain(q, p)[0] = h /\ Chain(q, p)[1] = q.next[h]
    BY <2>1, PairedMembers
  <2>3. CASE q.next[h] = Null
    BY <2>3 DEF PopEnds, TakesHead
  <2>4. CASE q.next[h] # Null
    <3>1. q.next[h] \in Channels /\ q.next[q.next[h]] = Null
      BY <2>2, <2>4 DEF Paired, Lists, Entries
    <3>2. 1 \in Stops(q, p, LAMBDA n : NotAfter(q.last[p], n))
      BY <1>0, <2>2, <3>1 DEF Stops
    <3> QED
      BY <3>2 DEF PopEnds
  <2> QED
    BY <2>3, <2>4
<1> QED
  BY <1>1, <1>2

\* An insertion adds its channel and keeps what the lists held.
LEMMA SetRequestPaired ==
  ASSUME PairLevels, NEW q \in Lists, Paired(q), NEW c \in Channels
  PROVE  /\ SetRequest(q, c) \in Lists /\ Paired(SetRequest(q, c))
         /\ c \in Members(SetRequest(q, c), PriorityOf[c])
         /\ \A p \in Priorities : Members(q, p) \subseteq Members(SetRequest(q, c), p)
<1> DEFINE p == PriorityOf[c]
           h == q.request[p]
           z == SetRequest(q, c)
<1>0. p \in Priorities /\ c # Null /\ c \in Entries
  BY Numbers
<1>1. z \in Lists /\ Leveled(z)
  BY PairedSearches, SetRequestTyped, SetRequestLeveled DEF Paired
<1>2. CASE h = Null
  <2>1. z = [q EXCEPT !.request[p] = c]
    BY <1>2 DEF SetRequest
  <2>2. z.request = [q.request EXCEPT ![p] = c] /\ z.next = q.next
    BY <2>1 DEF Lists
  <2> HIDE DEF z
  <2>3. Paired(z)
    BY <1>1, <2>2 DEF Paired
  <2>4. c \in Members(z, p)
    BY <1>0, <1>1, <2>2, <2>3, PairedMembers DEF Lists
  <2>5. Members(q, p) = {}
    BY <1>0, <1>2, HeadlessMembers
  <2>6. \A r \in Priorities : Members(q, r) \subseteq Members(z, r)
    <3> SUFFICES ASSUME NEW r \in Priorities, r # p, q.request[r] # Null
                 PROVE  Members(q, r) \subseteq Members(z, r)
      BY <2>5, HeadlessMembers
    <3>1. z.request[r] = q.request[r]
      BY <2>2 DEF Lists
    <3>2. Members(q, r) = {q.request[r], q.next[q.request[r]]} \ {Null}
      BY PairedMembers
    <3>3. Members(z, r) = {z.request[r], z.next[z.request[r]]} \ {Null}
      BY <1>1, <2>3, <3>1, PairedMembers
    <3> QED
      BY <2>2, <3>1, <3>2, <3>3
  <2> QED
    BY <1>1, <2>3, <2>4, <2>6 DEF z
<1>3. CASE h # Null /\ (h = c \/ q.next[h] = c)
  <2>1. z = q
    <3>1. CASE h = c
      BY <1>3, <3>1 DEF SetRequest
    <3>2. CASE h # c
      <4>1. h \in Channels \ {c} /\ q.next[h] \in {Null, c}
        BY <1>0, <1>3, <3>2, PairedMembers
      <4> QED
        BY <1>3, <3>2, <4>1, InsertAtHead
    <3> QED
      BY <3>1, <3>2
  <2>2. c \in Members(q, p)
    BY <1>0, <1>3, PairedMembers
  <2> QED
    BY <2>1, <2>2
<1>4. CASE h # Null /\ h # c /\ q.next[h] # c
  <2>1. h \in Channels /\ PriorityOf[h] = p
    BY <1>0, <1>4, PairedMembers DEF Paired, Leveled
  <2>2. q.next[h] = Null
    <3> SUFFICES ASSUME q.next[h] # Null PROVE FALSE
      OBVIOUS
    <3>1. q.next[h] \in Channels /\ q.next[h] # h /\ PriorityOf[q.next[h]] = p
      BY <2>1 DEF Lists, Entries, Paired, Leveled
    <3> QED
      BY <1>4, <2>1, <3>1 DEF PairLevels
  <2>3. SetRequest(q, c) = [q EXCEPT !.next = [@ EXCEPT ![c] = q.next[h], ![h] = c]]
    BY <1>4, <2>1, <2>2, InsertAtHead
  <2>4. z.request = q.request /\ z.next = [q.next EXCEPT ![c] = Null, ![h] = c]
    BY <2>1, <2>2, <2>3 DEF Lists
  <2> HIDE DEF z
  <2>5. Paired(z)
    <3> SUFFICES ASSUME NEW d \in Channels, z.next[d] # Null
                 PROVE  z.next[d] # d /\ z.next[z.next[d]] = Null
      BY <1>1 DEF Paired
    <3>1. CASE d = h
      BY <1>4, <2>1, <2>4, <3>1 DEF Lists
    <3>2. CASE d # h
      <4>1. d # c /\ z.next[d] = q.next[d]
        BY <2>4, <3>2 DEF Lists
      <4>2. q.next[d] \in Channels /\ q.next[d] # d /\ q.next[q.next[d]] = Null
            /\ PriorityOf[q.next[d]] = PriorityOf[d]
        BY <4>1 DEF Paired, Leveled, Lists, Entries
      <4>3. q.next[d] # h
        BY <1>4, <2>1, <3>2, <4>1, <4>2 DEF PairLevels
      <4> QED
        BY <2>4, <4>1, <4>2, <4>3 DEF Lists
    <3> QED
      BY <3>1, <3>2
  <2>6. \A r \in Priorities : Members(q, r) \subseteq Members(z, r)
    <3> SUFFICES ASSUME NEW r \in Priorities, q.request[r] # Null
                 PROVE  Members(q, r) \subseteq Members(z, r)
      BY HeadlessMembers
    <3>1. q.request[r] \in Channels /\ PriorityOf[q.request[r]] = r
      BY DEF Lists, Entries, Paired, Leveled
    <3>2. q.request[r] # c
      BY <1>4, <3>1
    <3>3. Members(q, r) = {q.request[r], q.next[q.request[r]]} \ {Null}
      BY PairedMembers
    <3>4. Members(z, r) = {q.request[r], z.next[q.request[r]]} \ {Null}
      <4>1. z \in Lists /\ z.request[r] = q.request[r]
        BY <1>1, <2>4 DEF z
      <4> QED
        BY <2>5, <4>1, PairedMembers
    <3>5. z.next[q.request[r]] = q.next[q.request[r]] \/ q.next[q.request[r]] = Null
      BY <2>2, <2>4, <3>1, <3>2 DEF Lists
    <3> QED
      BY <3>3, <3>4, <3>5
  <2>7. c \in Members(z, p)
    BY <1>0, <1>1, <1>4, <2>1, <2>4, <2>5, PairedMembers DEF Lists
  <2> QED
    BY <1>1, <2>5, <2>6, <2>7 DEF z
<1> QED
  BY <1>2, <1>3, <1>4

\* A pop takes one channel out and keeps all others in their lists.
LEMMA PopNextRequestPaired ==
  ASSUME NEW q \in Lists, Paired(q), Pending(q) # {}
  PROVE  /\ PopNextRequest(q) \in Lists /\ Paired(PopNextRequest(q))
         /\ Popped(q) \in Channels /\ PriorityOf[Popped(q)] = NextLevel(q)
         /\ \A p \in Priorities :
              Members(q, p) \ {Popped(q)} \subseteq Members(PopNextRequest(q), p)
<1> DEFINE p == NextLevel(q)
           h == q.request[p]
           n == q.next[h]
           z == PopNextRequest(q)
<1>0. p \in Priorities /\ h # Null
  BY NextLevelIsFirst DEF Pending
<1>1. PopEnds(q) /\ Leveled(q)
  BY PairedSearches DEF Paired
<1>2. z \in Lists /\ Leveled(z) /\ Popped(q) \in Channels /\ PriorityOf[Popped(q)] = p
  BY <1>1, PopNextRequestTyped, PopNextRequestLeveled
<1>3. h \in Channels /\ Members(q, p) = {h, n} \ {Null}
      /\ Chain(q, p)[0] = h /\ Chain(q, p)[1] = n
      /\ \A i \in 2 .. ChannelCount : Chain(q, p)[i] = Null
  BY <1>0, PairedMembers
<1>4. n # Null => n \in Channels /\ n # h /\ q.next[n] = Null
  BY <1>3 DEF Lists, Entries, Paired
<1>5. \/ z = TakeHead(q, p)
      \/ z = TakeFirst(q, p)
      \/ n # Null /\ z = TakeBehind(q, p, h)
  <2> DEFINE S  == Stops(q, p, LAMBDA m : NotAfter(q.last[p], m))
             it == StopAt(q, p, LAMBDA m : NotAfter(q.last[p], m))
  <2>1. CASE TakesHead(q, p)
    BY <2>1 DEF PopNextRequest, PopForLevel
  <2>2. CASE ~ TakesHead(q, p)
    <3>1. S # {} /\ S \in SUBSET Nat
      BY <1>1, <2>2, CountsAssumption DEF PopEnds, Stops
    <3>2. Min(S) \in S
      BY <3>1, MinIsLeast
    <3>3. it \in Channels /\ it = Chain(q, p)[Min(S)] /\ Min(S) \in 0 .. ChannelCount
      BY <3>2 DEF Stops, StopAt
    <3>4. Min(S) = 0 \/ Min(S) = 1 \/ Min(S) \in 2 .. ChannelCount
      BY <3>3, CountsAssumption
    <3>5. it = h \/ it = n
      BY <1>3, <3>3, <3>4, Numbers
    <3> HIDE DEF it
    <3>6. z = IF q.next[it] # Null THEN TakeBehind(q, p, it) ELSE TakeFirst(q, p)
      BY <2>2 DEF PopNextRequest, PopForLevel, it
    <3> QED
      BY <1>4, <3>3, <3>5, <3>6, Numbers
  <2> QED
    BY <2>1, <2>2
<1>6. ASSUME Paired(z), \A r \in Priorities \ {p} : z.request[r] = q.request[r],
             \A c \in Channels : PriorityOf[c] # p => z.next[c] = q.next[c]
      PROVE  \A r \in Priorities \ {p} : Members(q, r) \subseteq Members(z, r)
  <2> HIDE DEF p, h, n, z
  <2> SUFFICES ASSUME NEW r \in Priorities \ {p}, q.request[r] # Null
               PROVE  Members(q, r) \subseteq Members(z, r)
    BY HeadlessMembers
  <2>1. q.request[r] \in Channels /\ PriorityOf[q.request[r]] = r
    BY <1>1 DEF Leveled, Lists, Entries
  <2> QED
    BY <1>2, <1>6, <2>1, PairedMembers
<1>7. CASE z = TakeHead(q, p)
  <2>1. /\ z.request = [q.request EXCEPT ![p] = n]
        /\ z.next = q.next /\ Popped(q) = h
    BY <1>0, <1>3, <1>7 DEF TakeHead, Lists, Popped
  <2>2. Paired(z)
    BY <1>2, <2>1 DEF Paired
  <2>3. Members(q, p) \ {h} \subseteq Members(z, p)
    <3> HIDE DEF z
    <3>1. CASE n = Null
      BY <1>3, <3>1
    <3>2. CASE n # Null
      BY <1>0, <1>2, <1>3, <2>1, <2>2, <3>2, PairedMembers DEF Lists
    <3> QED
      BY <3>1, <3>2
  <2>4. \A r \in Priorities \ {p} : z.request[r] = q.request[r]
    BY <2>1 DEF Lists
  <2> QED
    BY <1>2, <1>6, <2>1, <2>2, <2>3, <2>4
<1>8. CASE z = TakeFirst(q, p)
  <2>1. /\ z.request = [q.request EXCEPT ![p] = n]
        /\ z.next = [q.next EXCEPT ![h] = Null] /\ Popped(q) = h
    BY <1>0, <1>3, <1>8 DEF TakeFirst, TakeHead, Lists, Popped
  <2>2. Paired(z)
    BY <1>2, <1>3, <2>1 DEF Paired, Lists
  <2>3. Members(q, p) \ {h} \subseteq Members(z, p)
    <3> HIDE DEF z
    <3>1. CASE n = Null
      BY <1>3, <3>1
    <3>2. CASE n # Null
      BY <1>0, <1>2, <1>3, <2>1, <2>2, <3>2, PairedMembers DEF Lists
    <3> QED
      BY <3>1, <3>2
  <2>4. /\ \A r \in Priorities \ {p} : z.request[r] = q.request[r]
        /\ \A c \in Channels : PriorityOf[c] # p => z.next[c] = q.next[c]
    BY <1>0, <1>1, <1>3, <2>1 DEF Lists, Leveled
  <2> QED
    BY <1>2, <1>6, <2>1, <2>2, <2>3, <2>4
<1>9. CASE n # Null /\ z = TakeBehind(q, p, h)
  <2>1. /\ z.request = q.request
        /\ z.next = [q.next EXCEPT ![h] = Null, ![n] = Null] /\ Popped(q) = n
    BY <1>0, <1>3, <1>4, <1>9 DEF TakeBehind, Lists, Popped
  <2>2. Paired(z)
    <3> HIDE DEF p, h, n, z
    <3> SUFFICES ASSUME NEW d \in Channels, z.next[d] # Null
                 PROVE  z.next[d] # d /\ z.next[z.next[d]] = Null
      BY <1>2 DEF Paired
    <3>1. z.next[d] = q.next[d]
      BY <2>1 DEF Lists
    <3>2. q.next[d] \in Channels /\ q.next[d] # d /\ q.next[q.next[d]] = Null
      BY <3>1 DEF Lists, Entries, Paired
    <3> QED
      BY <2>1, <3>1, <3>2 DEF Lists
  <2>3. Members(q, p) \ {n} \subseteq Members(z, p)
    <3> HIDE DEF z
    <3> QED
      BY <1>0, <1>2, <1>3, <2>1, <2>2, PairedMembers DEF Lists
  <2>4. \A c \in Channels : PriorityOf[c] # p => z.next[c] = q.next[c]
    BY <1>0, <1>1, <1>3, <1>4, <1>9, <2>1 DEF Lists, Leveled
  <2> QED
    BY <1>2, <1>6, <2>1, <2>2, <2>3, <2>4
<1> QED
  BY <1>2, <1>5, <1>7, <1>8, <1>9
=============================================================================

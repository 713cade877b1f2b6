----------------------- MODULE ChabuPriorities_proofs -----------------------
(***************************************************************************)
(* Proofs about the scheduler of the C library, for every number of        *)
(* channels and levels: what holds without any condition, what it promises *)
(* to an application with at most two channels on a level, and what to one *)
(* that gives every channel a level of its own.                            *)
(***************************************************************************)
EXTENDS ChabuPriorities, RequestList_proofs

-----------------------------------------------------------------------------
\* Type correctness: no sequence of calls leaves a list with an entry that is
\* no channel, and a call that would never return changes no list.
THEOREM SchedulerTyped == Spec => []TypeOK
<1>1. Init => TypeOK
  BY Numbers DEF Init, TypeOK, Lists, EmptyLists
<1>2. TypeOK /\ [Next]_vars => TypeOK'
  <2> SUFFICES ASSUME TypeOK, [Next]_vars PROVE TypeOK'
    OBVIOUS
  <2> USE DEF TypeOK
  <2>1. ASSUME NEW c \in Channels, SetRequestCtrl_Arm(c) PROVE TypeOK'
    BY <2>1, SetRequestTyped DEF SetRequestCtrl_Arm
  <2>2. ASSUME NEW c \in Channels, SetRequestData(c) PROVE TypeOK'
    BY <2>2, SetRequestTyped DEF SetRequestData
  <2>3. CASE PopNextRequestCtrl
    BY <2>3, PopNextRequestTyped DEF PopNextRequestCtrl
  <2>4. CASE PopNextRequestData
    BY <2>4, PopNextRequestTyped DEF PopNextRequestData
  <2>5. CASE UNCHANGED vars
    BY <2>5 DEF vars
  <2> QED
    BY <2>1, <2>2, <2>3, <2>4, <2>5 DEF Next, Pop
<1> QED
  BY <1>1, <1>2, PTL DEF Spec

-----------------------------------------------------------------------------
(* A channel that has its level for itself.  Its list holds it or nothing, *)
(* its link stays Null, and what happens on other levels does not reach    *)
(* it, because every link stays on its level.                              *)

Alone(c) == \A d \in Channels \ {c} : PriorityOf[d] # PriorityOf[c]

\* An insertion makes such a channel its head, or does not touch it.
LEMMA SetRequestAlone ==
  ASSUME NEW q \in Lists, Leveled(q), NEW d \in Channels, SetRequestEnds(q, d),
         NEW c \in Channels, Alone(c), q.next[c] = Null
  PROVE  /\ SetRequest(q, d).next[c] = Null
         /\ SetRequest(q, d).request[PriorityOf[c]] = c
              => d = c \/ q.request[PriorityOf[c]] = c
<1> DEFINE p == PriorityOf[d]
           z == SetRequest(q, d)
<1>0. p \in Priorities /\ PriorityOf[c] \in Priorities
  BY Numbers
<1>1. CASE q.request[p] = Null
  <2>1. z = [q EXCEPT !.request[p] = d]
    BY <1>1 DEF SetRequest
  <2>2. z.request = [q.request EXCEPT ![p] = d] /\ z.next = q.next
    BY <2>1 DEF Lists
  <2> HIDE DEF z
  <2>3. d = c \/ p # PriorityOf[c]
    BY DEF Alone
  <2>4. d = c \/ z.request[PriorityOf[c]] = q.request[PriorityOf[c]]
    BY <1>0, <2>2, <2>3 DEF Lists
  <2> QED
    BY <2>2, <2>4 DEF z
<1>2. CASE q.request[p] = d
  BY <1>2, Numbers DEF SetRequest
<1>3. CASE q.request[p] \notin {Null, d}
  <2>1. PICK it \in Channels :
          /\ PriorityOf[it] = p
          /\ z = IF q.next[it] = d THEN q
                 ELSE [q EXCEPT !.next = [@ EXCEPT ![d] = q.next[it], ![it] = d]]
    BY <1>3, InsertPlace
  <2>2. z.request = q.request
        /\ \/ z.next = q.next
           \/ z.next = [q.next EXCEPT ![d] = q.next[it], ![it] = d]
    BY <2>1 DEF Lists
  <2>3. q.request[p] \in Channels /\ PriorityOf[q.request[p]] = p
    BY <1>0, <1>3 DEF Lists, Entries, Leveled
  <2>4. c # d /\ c # it
    BY <1>3, <2>1, <2>3 DEF Alone
  <2> HIDE DEF z
  <2> QED
    BY <2>2, <2>4 DEF Lists, z
<1> QED
  BY <1>1, <1>2, <1>3

\* A pop takes such a channel out of its list, or does not touch it.
LEMMA PopAlone ==
  ASSUME NEW q \in Lists, Leveled(q), Pending(q) # {}, PopEnds(q),
         NEW c \in Channels, Alone(c), q.next[c] = Null
  PROVE  /\ PopNextRequest(q).next[c] = Null
         /\ Popped(q) = c <=> PriorityOf[c] = NextLevel(q)
         /\ Popped(q) = c => /\ q.request[PriorityOf[c]] = c
                            /\ PopNextRequest(q).request[PriorityOf[c]] = Null
         /\ Popped(q) # c => PopNextRequest(q).request[PriorityOf[c]]
                              = q.request[PriorityOf[c]]
<1> DEFINE p    == NextLevel(q)
           head == q.request[p]
           z    == PopNextRequest(q)
<1>0. /\ p \in Priorities /\ PriorityOf[c] \in Priorities
      /\ head \in Channels /\ PriorityOf[head] = p
  BY Numbers, NextLevelIsFirst DEF Pending, Lists, Entries, Leveled
<1>1. Popped(q) \in Channels /\ PriorityOf[Popped(q)] = p
  BY PopNextRequestTyped, PopNextRequestLeveled
<1>2. Popped(q) = c <=> PriorityOf[c] = p
  BY <1>1 DEF Alone
<1>3. CASE PriorityOf[c] = p
  <2>1. head = c
    BY <1>0, <1>3 DEF Alone
  <2>2. z = TakeHead(q, p)
    BY <2>1 DEF TakesHead, PopNextRequest, PopForLevel
  <2>3. z.next = q.next /\ z.request = [q.request EXCEPT ![p] = Null]
    BY <2>1, <2>2 DEF TakeHead, Lists
  <2> HIDE DEF z
  <2> QED
    BY <1>0, <1>2, <1>3, <2>1, <2>3 DEF Lists, z
<1>4. CASE PriorityOf[c] # p
  <2>1. z.next[c] = Null /\ z.request[PriorityOf[c]] = q.request[PriorityOf[c]]
    <3>1. CASE z = TakeHead(q, p)
      BY <1>0, <1>4, <3>1 DEF TakeHead, Lists
    <3>2. CASE z = TakeFirst(q, p)
      BY <1>0, <1>4, <3>2 DEF TakeFirst, TakeHead, Lists
    <3>3. ASSUME NEW it \in Channels, PriorityOf[it] = p, q.next[it] # Null,
                 z = TakeBehind(q, p, it)
          PROVE  z.next[c] = Null /\ z.request[PriorityOf[c]] = q.request[PriorityOf[c]]
      <4>1. q.next[it] \in Channels /\ PriorityOf[q.next[it]] = p
        BY <3>3 DEF Lists, Entries, Leveled
      <4>2. z.request = q.request
            /\ z.next = [q.next EXCEPT ![it] = q.next[q.next[it]], ![q.next[it]] = Null]
        BY <3>3 DEF TakeBehind, Lists
      <4> HIDE DEF z
      <4> QED
        BY <1>4, <3>3, <4>1, <4>2 DEF Lists
    <3> QED
      BY <3>1, <3>2, <3>3, PopOutcomes
  <2> QED
    BY <1>2, <1>4, <2>1
<1> QED
  BY <1>3, <1>4

AloneInv ==
  /\ TypeOK
  /\ Leveled(ctrl)
  /\ \A c \in Channels : Alone(c) =>
       /\ ctrl.next[c] = Null
       /\ ctrl.request[PriorityOf[c]] = c => armFlag[c]

\* The invariant holds in every state.
LEMMA AloneInvAlways == Spec => []AloneInv
<1>1. Init => AloneInv
  BY Numbers, EmptyListsPaired DEF Init, AloneInv, TypeOK, EmptyLists, Paired
<1>2. AloneInv /\ TypeOK' /\ [Next]_vars => AloneInv'
  <2> SUFFICES ASSUME AloneInv, TypeOK', [Next]_vars PROVE AloneInv'
    OBVIOUS
  <2> USE DEF AloneInv
  <2>0. ctrl \in Lists /\ armFlag \in [Channels -> BOOLEAN]
    BY DEF TypeOK
  <2>1. ASSUME NEW c \in Channels, SetRequestCtrl_Arm(c) PROVE AloneInv'
    <3>1. CASE SetRequestEnds(ctrl, c)
      <4>1. ctrl' = SetRequest(ctrl, c) /\ armFlag' = [armFlag EXCEPT ![c] = TRUE]
        BY <2>1, <3>1 DEF SetRequestCtrl_Arm
      <4> QED
        BY <2>0, <3>1, <4>1, SetRequestLeveled, SetRequestAlone
    <3>2. CASE ~ SetRequestEnds(ctrl, c)
      BY <2>0, <2>1, <3>2 DEF SetRequestCtrl_Arm
    <3> QED
      BY <3>1, <3>2
  <2>2. ASSUME NEW c \in Channels, SetRequestData(c) PROVE AloneInv'
    BY <2>2 DEF SetRequestData
  <2>3. CASE PopNextRequestCtrl
    <3>1. CASE PopEnds(ctrl)
      <4>1. /\ Pending(ctrl) # {} /\ ctrl' = PopNextRequest(ctrl)
            /\ armFlag' = [armFlag EXCEPT ![Popped(ctrl)] = FALSE]
        BY <2>3, <3>1 DEF PopNextRequestCtrl
      <4> QED
        BY <2>0, <3>1, <4>1, PopNextRequestLeveled, PopAlone, Numbers
    <3>2. CASE ~ PopEnds(ctrl)
      BY <2>3, <3>2 DEF PopNextRequestCtrl
    <3> QED
      BY <3>1, <3>2
  <2>4. CASE PopNextRequestData
    BY <2>4 DEF PopNextRequestData
  <2>5. CASE UNCHANGED vars
    BY <2>5 DEF vars
  <2> QED
    BY <2>1, <2>2, <2>3, <2>4, <2>5 DEF Next, Pop
<1> QED
  BY <1>1, <1>2, SchedulerTyped, PTL DEF Spec

\* Whatever is configured on the other levels, a channel that has its level
\* for itself is in the ctrl lists only with its flag set.
THEOREM AloneAlwaysHasReason == Spec => []AloneHasReason
<1>1. AloneInv => AloneHasReason
  <2> SUFFICES ASSUME AloneInv, NEW c \in Channels, Alone(c),
                      c \in Members(ctrl, PriorityOf[c])
               PROVE  armFlag[c]
    BY DEF AloneHasReason, Alone
  <2>1. ctrl \in Lists /\ PriorityOf[c] \in Priorities
    BY Numbers DEF AloneInv, TypeOK
  <2>2. ctrl.request[PriorityOf[c]] # Null
    BY <2>1, HeadlessMembers
  <2>3. ctrl.request[PriorityOf[c]] = c
    BY <2>1, <2>2 DEF AloneInv, Leveled, Alone, Lists, Entries
  <2> QED
    BY <2>3 DEF AloneInv
<1> QED
  BY <1>1, AloneInvAlways, PTL

-----------------------------------------------------------------------------
(* At most two channels on a level. *)

PairInv ==
  /\ TypeOK
  /\ fault # "hang"
  /\ Paired(ctrl) /\ Paired(data)
  /\ \A c \in asked : c \in Members(data, PriorityOf[c])
  /\ \A c \in Channels : armFlag[c] => c \in Members(ctrl, PriorityOf[c])

\* The invariant holds at first and every call keeps it.
LEMMA PairInvKept ==
  ASSUME PairLevels, PairInv, [Next]_vars
  PROVE  PairInv'
<1> USE DEF PairInv
<1>0. /\ ctrl \in Lists /\ data \in Lists /\ armFlag \in [Channels -> BOOLEAN]
      /\ asked \subseteq Channels
      /\ \A c \in Channels : PriorityOf[c] \in Priorities
  BY Numbers DEF TypeOK
<1>1. ASSUME NEW c \in Channels, SetRequestCtrl_Arm(c) PROVE PairInv'
  <2>1. /\ ctrl' = SetRequest(ctrl, c) /\ armFlag' = [armFlag EXCEPT ![c] = TRUE]
        /\ UNCHANGED <<data, asked, fault>>
    BY <1>0, <1>1, PairedSearches DEF SetRequestCtrl_Arm
  <2>2. /\ ctrl' \in Lists /\ Paired(ctrl') /\ c \in Members(ctrl', PriorityOf[c])
        /\ \A p \in Priorities : Members(ctrl, p) \subseteq Members(ctrl', p)
    BY <1>0, <2>1, SetRequestPaired
  <2>3. TypeOK'
    BY <2>1, <2>2 DEF TypeOK
  <2>4. \A d \in Channels : armFlag'[d] => d \in Members(ctrl', PriorityOf[d])
    BY <1>0, <2>1, <2>2
  <2> QED
    BY <2>1, <2>2, <2>3, <2>4
<1>2. ASSUME NEW c \in Channels, SetRequestData(c) PROVE PairInv'
  <2>1. /\ data' = SetRequest(data, c) /\ asked' = asked \cup {c}
        /\ UNCHANGED <<ctrl, armFlag, fault>>
    BY <1>0, <1>2, PairedSearches DEF SetRequestData
  <2>2. /\ data' \in Lists /\ Paired(data') /\ c \in Members(data', PriorityOf[c])
        /\ \A p \in Priorities : Members(data, p) \subseteq Members(data', p)
    BY <1>0, <2>1, SetRequestPaired
  <2>3. TypeOK'
    BY <2>1, <2>2 DEF TypeOK
  <2>4. \A d \in asked' : d \in Members(data', PriorityOf[d])
    BY <1>0, <2>1, <2>2
  <2> QED
    BY <2>1, <2>2, <2>3, <2>4
<1>3. CASE PopNextRequestCtrl
  <2> DEFINE c == Popped(ctrl)
  <2>1. /\ ctrl' = PopNextRequest(ctrl) /\ armFlag' = [armFlag EXCEPT ![c] = FALSE]
        /\ fault' \in {"none", "assert"} /\ UNCHANGED <<data, asked>>
    BY <1>0, <1>3, PairedSearches DEF PopNextRequestCtrl
  <2>2. /\ ctrl' \in Lists /\ Paired(ctrl')
        /\ \A p \in Priorities : Members(ctrl, p) \ {c} \subseteq Members(ctrl', p)
    BY <1>0, <1>3, <2>1, PopNextRequestPaired DEF PopNextRequestCtrl
  <2> HIDE DEF c
  <2>3. TypeOK'
    BY <1>0, <2>1, <2>2 DEF TypeOK
  <2>4. \A d \in Channels : armFlag'[d] => d \in Members(ctrl', PriorityOf[d])
    BY <1>0, <2>1, <2>2
  <2> QED
    BY <2>1, <2>2, <2>3, <2>4
<1>4. CASE PopNextRequestData
  <2> DEFINE c == Popped(data)
  <2>1. /\ data' = PopNextRequest(data) /\ asked' = asked \ {c}
        /\ UNCHANGED <<ctrl, armFlag, fault>>
    BY <1>0, <1>4, PairedSearches DEF PopNextRequestData
  <2>2. /\ data' \in Lists /\ Paired(data')
        /\ \A p \in Priorities : Members(data, p) \ {c} \subseteq Members(data', p)
    BY <1>0, <1>4, <2>1, PopNextRequestPaired DEF PopNextRequestData
  <2> HIDE DEF c
  <2>3. TypeOK'
    BY <1>0, <2>1, <2>2 DEF TypeOK
  <2>4. \A d \in asked' : d \in Members(data', PriorityOf[d])
    BY <1>0, <2>1, <2>2
  <2> QED
    BY <2>1, <2>2, <2>3, <2>4
<1>5. CASE UNCHANGED vars
  BY <1>5 DEF vars, TypeOK
<1> QED
  BY <1>1, <1>2, <1>3, <1>4, <1>5 DEF Next, Pop

\* The invariant holds in every state.
LEMMA PairInvAlways == ASSUME PairLevels PROVE Spec => []PairInv
<1>1. Init => PairInv
  BY EmptyListsPaired DEF Init, PairInv, TypeOK
<1>2. PairInv /\ [Next]_vars => PairInv'
  BY PairInvKept
<1> QED
  BY <1>1, <1>2, PTL DEF Spec

\* With at most two channels on a level no call loops for ever.
THEOREM PairsCallsReturn == ASSUME PairLevels PROVE Spec => []CallsReturn
<1>1. PairInv => CallsReturn
  BY DEF PairInv, CallsReturn
<1> QED
  BY <1>1, PairInvAlways, PTL

\* With at most two channels on a level no request is lost before its channel
\* is served, although entries that left a list keep their links.
THEOREM PairsRequestKept == ASSUME PairLevels PROVE Spec => []RequestKept
<1>1. PairInv => RequestKept
  BY DEF PairInv, RequestKept
<1> QED
  BY <1>1, PairInvAlways, PTL

\* With at most two channels on a level payload is sent strictly in the order
\* of the levels.
THEOREM PairsUrgentFirst == ASSUME PairLevels PROVE Spec => UrgentFirst
<1>1. ASSUME PairInv, PopNextRequestData, NEW c \in asked
      PROVE  PriorityOf[Popped(data)] <= PriorityOf[c]
  <2>1. data \in Lists /\ c \in Channels /\ PriorityOf[c] \in Priorities
    BY <1>1, Numbers DEF PairInv, TypeOK
  <2>2. data.request[PriorityOf[c]] # Null
    BY <1>1, <2>1, HeadlessMembers DEF PairInv
  <2>3. PriorityOf[c] \in Pending(data)
    BY <2>1, <2>2 DEF Pending
  <2> QED
    BY <1>1, <2>1, <2>3, NextLevelIsFirst, PopNextRequestPaired DEF PairInv
<1>2. PairInv /\ [Next]_vars =>
        [PopNextRequestData /\ fault' = "none" =>
           \A c \in asked : PriorityOf[Popped(data)] <= PriorityOf[c]]_vars
  BY <1>1
<1> QED
  BY <1>2, PairInvAlways, PTL DEF Spec, UrgentFirst

-----------------------------------------------------------------------------
(* One channel per level. *)

OwnLevels == \A c, d \in Channels : PriorityOf[c] = PriorityOf[d] => c = d

\* With a level of its own for every channel no call loops for ever, and no
\* ctrl request without a reason meets the assert of the transmitter.
THEOREM OwnLevelsCallsReturn ==
  ASSUME OwnLevels PROVE Spec => [](CallsReturn /\ CtrlPopHasReason)
<1>1. PairLevels /\ \A c \in Channels : Alone(c)
  BY DEF OwnLevels, PairLevels, Alone
<1>2. Init => CtrlPopHasReason
  BY DEF Init, CtrlPopHasReason
<1>3. AloneInv /\ CtrlPopHasReason /\ [Next]_vars => CtrlPopHasReason'
  <2> SUFFICES ASSUME AloneInv, PopNextRequestCtrl, PopEnds(ctrl)
               PROVE  armFlag[Popped(ctrl)]
    BY DEF Next, Pop, vars, CtrlPopHasReason, SetRequestCtrl_Arm, SetRequestData,
           PopNextRequestCtrl, PopNextRequestData
  <2>1. ctrl \in Lists /\ Leveled(ctrl) /\ Pending(ctrl) # {}
    BY DEF AloneInv, TypeOK, PopNextRequestCtrl
  <2>2. Popped(ctrl) \in Channels
    BY <2>1, PopNextRequestTyped
  <2>3. ctrl.next[Popped(ctrl)] = Null
    BY <1>1, <2>2 DEF AloneInv
  <2>4. ctrl.request[PriorityOf[Popped(ctrl)]] = Popped(ctrl)
    BY <1>1, <2>1, <2>2, <2>3, PopAlone
  <2> QED
    BY <1>1, <2>2, <2>4 DEF AloneInv
<1>4. Spec => []CtrlPopHasReason
  BY <1>2, <1>3, AloneInvAlways, PTL DEF Spec
<1> QED
  BY <1>1, <1>4, PairsCallsReturn, PTL
=============================================================================

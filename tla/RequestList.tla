---------------------------- MODULE RequestList ----------------------------
(***************************************************************************)
(* The intrusive request lists of ChabuPriorities.c, as operators on the   *)
(* lists of one kind (ctrl or data).                                       *)
(*                                                                         *)
(* Every priority level owns one singly linked list of channels that asked *)
(* to transmit.  The link "next" lives in the channel's entry, so it       *)
(* survives the moment the channel leaves the list: whatever a call does   *)
(* not write, the next call finds as it was left.                          *)
(***************************************************************************)
EXTENDS Integers, FiniteSets, FiniteSetsExt

CONSTANTS
  ChannelCount,    \* chabu->channelCount
  PriorityCount,   \* chabu->priorityCount
  PriorityOf       \* ch->priority, fixed by Chabu_ConfigureChannel

Channels   == 0 .. ChannelCount - 1
Priorities == 0 .. PriorityCount - 1

ASSUME CountsAssumption   == /\ ChannelCount \in Nat \ {0}
                             /\ PriorityCount \in Nat \ {0}
ASSUME PriorityAssumption == PriorityOf \in [Channels -> Priorities]

\* At most two channels on a level.
PairLevels ==
  \A c, d, e \in Channels :
    PriorityOf[c] = PriorityOf[d] /\ PriorityOf[d] = PriorityOf[e]
      => c = d \/ d = e \/ c = e

\* The NULL pointer, and the -1 of "no channel selected yet".
Null == -1

Entries == Channels \cup {Null}

\* The head and the last selected channel of every level, and the link of
\* every channel's entry.
Lists == [request : [Priorities -> Entries],
          last    : [Priorities -> Entries],
          next    : [Channels -> Entries]]

\* A mutant: no channel selected yet is the channel count, not -1.
EmptyListsCount == [request |-> [p \in Priorities |-> Null],
                    last    |-> [p \in Priorities |-> ChannelCount],
                    next    |-> [c \in Channels |-> Null]]

EmptyLists == [request |-> [p \in Priorities |-> Null],
               last    |-> [p \in Priorities |-> Null],
               next    |-> [c \in Channels |-> Null]]

\* The entries met when following the links from the head of level p, Null
\* behind the last one.
Chain(q, p) ==
  LET at[i \in 0 .. ChannelCount] ==
        IF i = 0 THEN q.request[p]
        ELSE IF at[i - 1] = Null THEN Null ELSE q.next[at[i - 1]]
  IN  at

\* The channels a caller meets: the head, and those its links lead to.
Members(q, p) ==
  ({q.request[p]} \cup {Chain(q, p)[i] : i \in 1 .. ChannelCount}) \ {Null}

\* while( it->next && P(it->next) ) it = it->next, started at the head: the
\* positions it may stop at.  None: the links are a cycle and the loop endless.
Stops(q, p, P(_)) ==
  {i \in 0 .. ChannelCount :
     LET e == Chain(q, p)[i]
     IN  e \in Channels /\ (q.next[e] = Null \/ ~ P(q.next[e]))}

StopAt(q, p, P(_)) == Chain(q, p)[Min(Stops(q, p, P))]

-----------------------------------------------------------------------------
(* setRequest: insert behind the head, in ascending order there.  An empty *)
(* list gets the entry as its head, the link of the entry is not written.  *)

\* The channels a search for the place of c walks past.
Before(c, n) == n < c

SetRequestEnds(q, c) ==
  LET p == PriorityOf[c]
  IN  \/ q.request[p] \in {Null, c}
      \/ Stops(q, p, LAMBDA n : Before(c, n)) # {}

\* A mutant: an entry that is in the list already is inserted again.
SetRequestTwice(q, c) ==
  LET p  == PriorityOf[c]
      it == StopAt(q, p, LAMBDA n : Before(c, n))
  IN  IF q.request[p] = Null THEN [q EXCEPT !.request[p] = c]
      ELSE IF q.request[p] = c THEN q
      ELSE [q EXCEPT !.next = [@ EXCEPT ![c] = q.next[it], ![it] = c]]

SetRequest(q, c) ==
  LET p  == PriorityOf[c]
      it == StopAt(q, p, LAMBDA n : Before(c, n))
  IN  IF q.request[p] = Null THEN [q EXCEPT !.request[p] = c]
      ELSE IF q.request[p] = c \/ q.next[it] = c THEN q
      ELSE [q EXCEPT !.next = [@ EXCEPT ![c] = q.next[it], ![it] = c]]

-----------------------------------------------------------------------------
(* popNextRequestForLevel takes the head, its link untouched, when it is   *)
(* alone or behind the last selected channel; else it cuts out the first   *)
(* entry behind the last selected channel; else it takes the head.         *)

TakesHead(q, p) ==
  \/ q.next[q.request[p]] = Null
  \/ q.request[p] > q.last[p]

\* A mutant: the channel selected last is good enough again.
NotAfterStrict(last, n) == n < last

\* The channels the search for a successor of the last selected walks past.
NotAfter(last, n) == n <= last

\* A mutant: the head stays in its list.
TakeHeadKept(q, p) == [q EXCEPT !.last[p] = q.request[p]]

TakeHead(q, p) ==
  LET head == q.request[p]
  IN  [q EXCEPT !.request[p] = q.next[head], !.last[p] = head]

TakeBehind(q, p, it) ==
  LET res == q.next[it]
  IN  [q EXCEPT !.next = [@ EXCEPT ![it] = q.next[res], ![res] = Null],
                !.last[p] = res]

\* A mutant: unlinks the head before its successor is read.
TakeFirstUnlinked(q, p) ==
  LET head == q.request[p]
  IN  [q EXCEPT !.request[p] = Null, !.next[head] = Null, !.last[p] = head]

TakeFirst(q, p) ==
  LET head == q.request[p]
  IN  [TakeHead(q, p) EXCEPT !.next[head] = Null]

PopForLevel(q, p) ==
  LET it == StopAt(q, p, LAMBDA n : NotAfter(q.last[p], n))
  IN  IF TakesHead(q, p) THEN TakeHead(q, p)
      ELSE IF q.next[it] # Null THEN TakeBehind(q, p, it)
      ELSE TakeFirst(q, p)

\* popNextRequest serves the lowest priority index that has a request.
Pending(q) == {p \in Priorities : q.request[p] # Null}

\* A mutant: the highest index first.
NextLevelHighest(q) == Max(Pending(q))

NextLevel(q) == Min(Pending(q))

PopEnds(q) ==
  LET p == NextLevel(q)
  IN  TakesHead(q, p) \/ Stops(q, p, LAMBDA n : NotAfter(q.last[p], n)) # {}

PopNextRequest(q) == PopForLevel(q, NextLevel(q))

\* The channel a pop returns is the one it records as selected last.
Popped(q) == PopNextRequest(q).last[NextLevel(q)]
=============================================================================

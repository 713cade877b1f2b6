---------------------------- MODULE SharedLemmas ----------------------------
(***************************************************************************)
(* Lemmas that several proofs use: minima and maxima of sets of numbers,   *)
(* which the searches of the schedulers are; induction in a form without   *)
(* operator parameters; pieces of sequences; and walks, by which a stream  *)
(* of tokens leads from a place of the protocol to another.                *)
(***************************************************************************)
EXTENDS Streams, FiniteSetsExt, SequenceTheorems, WellFoundedInduction, TLAPS

\* A set of naturals that is not empty has a least element.
LEMMA MinIsLeast ==
  ASSUME NEW S \in SUBSET Nat, S # {}
  PROVE  Min(S) \in S /\ \A y \in S : Min(S) <= y
<1> DEFINE R == {ss \in Nat \X Nat : ss[1] < ss[2]}
<1>1. IsWellFoundedOn(R, Nat)
  BY NatLessThanWellFounded DEF OpToRel
<1>2. \E x \in S : \A y \in S : x <= y
  <2>1. PICK x \in S : \A y \in S : ~ (<<y, x>> \in R)
    BY <1>1, WFMin, S \subseteq Nat
  <2>2. \A y \in S : ~ (y < x)
    BY <2>1
  <2> QED
    BY <2>2
<1> QED
  BY <1>2 DEF Min

\* A bounded set of naturals that is not empty has a greatest element.
LEMMA MaxIsGreatest ==
  ASSUME NEW n \in Nat, NEW S \in SUBSET (0 .. n), S # {}
  PROVE  Max(S) \in S /\ \A y \in S : y <= Max(S)
<1> DEFINE T == {n - x : x \in S}
<1>0. \A x \in S : x \in Nat /\ n - x \in Nat
  OBVIOUS
<1>1. T \in SUBSET Nat /\ T # {}
  BY <1>0
<1>2. Min(T) \in T /\ \A y \in T : Min(T) <= y
  <2> HIDE DEF T
  <2> QED
    BY <1>1, MinIsLeast
<1>3. PICK x \in S : Min(T) = n - x
  BY <1>2
<1>4. \A y \in S : n - x <= n - y
  <2> TAKE y \in S
  <2>1. n - y \in T
    OBVIOUS
  <2> QED
    BY <1>2, <1>3, <2>1
<1>5. \A y \in S : x >= y
  BY <1>0, <1>4
<1> QED
  BY <1>5 DEF Max

\* Induction over the naturals, for the set of those that have a property.
LEMMA NatSetInduction ==
  ASSUME NEW S, 0 \in S, \A n \in Nat : n \in S => n + 1 \in S
  PROVE  Nat \subseteq S
<1> DEFINE T == {n \in Nat : n \notin S}
<1>1. SUFFICES ASSUME T # {} PROVE FALSE
  OBVIOUS
<1>2. Min(T) \in T /\ \A y \in T : Min(T) <= y
  BY <1>1, MinIsLeast
<1>3. PICK n \in T : \A y \in T : n <= y
  BY <1>2
<1>4. n # 0 /\ n - 1 \in Nat /\ n - 1 \notin T
  BY <1>3
<1> QED
  BY <1>3, <1>4

-----------------------------------------------------------------------------
(* Pieces of a sequence. *)

\* What is taken off a sequence, and what is left of it.
LEMMA PieceTyped ==
  ASSUME NEW T, NEW s \in Seq(T), NEW n \in 0 .. Len(s)
  PROVE  /\ SubSeq(s, 1, n) \in Seq(T) /\ Len(SubSeq(s, 1, n)) = n
         /\ SubSeq(s, n + 1, Len(s)) \in Seq(T)
         /\ Len(SubSeq(s, n + 1, Len(s))) = Len(s) - n
         /\ \A i \in 1 .. n : SubSeq(s, 1, n)[i] = s[i]
         /\ \A i \in 1 .. Len(s) - n : SubSeq(s, n + 1, Len(s))[i] = s[n + i]
         /\ SubSeq(s, 1, n) \o SubSeq(s, n + 1, Len(s)) = s
<1>1. \A i \in 1 .. Len(s) : s[i] \in T
  OBVIOUS
<1>2. SubSeq(s, 1, n) \o SubSeq(s, n + 1, Len(s)) = SubSeq(s, 1, Len(s))
  <2>1. 1 \in 1 .. Len(s) + 1 /\ n \in 1 - 1 .. Len(s) /\ Len(s) \in n .. Len(s)
    OBVIOUS
  <2> QED
    BY <2>1, ConcatAdjacentSubSeq
<1>3. SubSeq(s, 1, n) \o SubSeq(s, n + 1, Len(s)) = s
  BY <1>2, SubSeqFull
<1>4. /\ SubSeq(s, 1, n) \in Seq(T) /\ Len(SubSeq(s, 1, n)) = n
      /\ \A i \in 1 .. n : SubSeq(s, 1, n)[i] = s[i]
  BY <1>1, SubSeqProperties
<1>5. /\ SubSeq(s, n + 1, Len(s)) \in Seq(T)
      /\ Len(SubSeq(s, n + 1, Len(s))) = Len(s) - n
      /\ \A i \in 1 .. Len(s) - n : SubSeq(s, n + 1, Len(s))[i] = s[n + i]
  BY <1>1, SubSeqProperties
<1> QED
  BY <1>3, <1>4, <1>5

-----------------------------------------------------------------------------
(* Walks. *)

\* The tokens S lead from place a to place b, over places of P and by steps of
\* R, a set of triples place, token, place.
Walks(R, P, S, a, b) ==
  \E d \in [0 .. Len(S) -> P] :
    /\ d[0] = a /\ d[Len(S)] = b
    /\ \A i \in 1 .. Len(S) : <<d[i - 1], S[i], d[i]>> \in R

\* No token leads nowhere.
LEMMA WalksNothing ==
  ASSUME NEW R, NEW P, NEW a \in P
  PROVE  Walks(R, P, <<>>, a, a)
<1> DEFINE d == [i \in 0 .. 0 |-> a]
<1>1. d \in [0 .. Len(<<>>) -> P] /\ d[0] = a /\ d[Len(<<>>)] = a
  OBVIOUS
<1>2. \A i \in 1 .. Len(<<>>) : <<d[i - 1], <<>>[i], d[i]>> \in R
  OBVIOUS
<1> HIDE DEF d
<1> QED
  BY <1>1, <1>2 DEF Walks

\* One token.
LEMMA WalksOne ==
  ASSUME NEW R, NEW P, NEW a \in P, NEW b \in P, NEW t, <<a, t, b>> \in R
  PROVE  Walks(R, P, <<t>>, a, b)
<1> DEFINE d == [i \in 0 .. 1 |-> IF i = 0 THEN a ELSE b]
<1>1. d \in [0 .. 1 -> P] /\ d[0] = a /\ d[1] = b
  OBVIOUS
<1> HIDE DEF d
<1>2. Len(<<t>>) = 1 /\ <<t>>[1] = t
  OBVIOUS
<1>3. \A i \in 1 .. 1 : <<d[i - 1], <<t>>[i], d[i]>> \in R
  BY <1>1, <1>2
<1> QED
  BY <1>1, <1>2, <1>3 DEF Walks

\* A stream of one token is one step.
LEMMA WalksHead ==
  ASSUME NEW R, NEW P, NEW t, NEW a, NEW b, Walks(R, P, <<t>>, a, b)
  PROVE  <<a, t, b>> \in R /\ b \in P
<1>1. Len(<<t>>) = 1 /\ <<t>>[1] = t
  OBVIOUS
<1>2. PICK d \in [0 .. 1 -> P] :
        /\ d[0] = a /\ d[1] = b
        /\ \A i \in 1 .. 1 : <<d[i - 1], <<t>>[i], d[i]>> \in R
  BY <1>1 DEF Walks
<1>3. <<d[1 - 1], <<t>>[1], d[1]>> \in R
  BY <1>2
<1> QED
  BY <1>1, <1>2, <1>3

\* One part of a stream after the other.
LEMMA WalksConcat ==
  ASSUME NEW R, NEW P, NEW T, NEW A \in Seq(T), NEW B \in Seq(T), NEW a, NEW m, NEW b,
         Walks(R, P, A, a, m), Walks(R, P, B, m, b)
  PROVE  Walks(R, P, A \o B, a, b)
<1>1. PICK f \in [0 .. Len(A) -> P] :
        /\ f[0] = a /\ f[Len(A)] = m
        /\ \A i \in 1 .. Len(A) : <<f[i - 1], A[i], f[i]>> \in R
  BY DEF Walks
<1>2. PICK g \in [0 .. Len(B) -> P] :
        /\ g[0] = m /\ g[Len(B)] = b
        /\ \A i \in 1 .. Len(B) : <<g[i - 1], B[i], g[i]>> \in R
  BY DEF Walks
<1>3. /\ Len(A) \in Nat /\ Len(B) \in Nat /\ Len(A \o B) = Len(A) + Len(B)
      /\ \A i \in 1 .. Len(A) : (A \o B)[i] = A[i]
      /\ \A i \in Len(A) + 1 .. Len(A) + Len(B) : (A \o B)[i] = B[i - Len(A)]
  BY ConcatProperties
<1> DEFINE S == A \o B
           d == [i \in 0 .. Len(S) |-> IF i <= Len(A) THEN f[i] ELSE g[i - Len(A)]]
<1> HIDE DEF S
<1>4. d \in [0 .. Len(S) -> P] /\ d[0] = a
  BY <1>1, <1>2, <1>3 DEF S
<1>5. d[Len(S)] = b
  BY <1>1, <1>2, <1>3 DEF S
<1>6. ASSUME NEW i \in 1 .. Len(S)
      PROVE  <<d[i - 1], S[i], d[i]>> \in R
  <2>1. CASE i <= Len(A)
    <3>1. d[i - 1] = f[i - 1] /\ d[i] = f[i] /\ S[i] = A[i] /\ i \in 1 .. Len(A)
      BY <1>3, <2>1 DEF S
    <3>2. <<f[i - 1], A[i], f[i]>> \in R
      BY <1>1, <3>1
    <3> HIDE DEF d
    <3> QED
      BY <3>1, <3>2
  <2>2. CASE i > Len(A)
    <3>1. i - Len(A) \in 1 .. Len(B) /\ S[i] = B[i - Len(A)] /\ d[i] = g[i - Len(A)]
      BY <1>3, <2>2 DEF S
    <3>2. d[i - 1] = g[(i - Len(A)) - 1]
      BY <1>1, <1>2, <1>3, <2>2 DEF S
    <3> QED
      BY <1>2, <3>1, <3>2
  <2>3. i <= Len(A) \/ i > Len(A)
    BY <1>3 DEF S
  <2> HIDE DEF d
  <2> QED
    BY <2>1, <2>2, <2>3
<1> HIDE DEF d
<1> QED
  BY <1>4, <1>5, <1>6 DEF Walks, S

\* A stream is read in two parts.
LEMMA WalksSplit ==
  ASSUME NEW R, NEW P, NEW T, NEW A \in Seq(T), NEW B \in Seq(T), NEW a, NEW b,
         Walks(R, P, A \o B, a, b)
  PROVE  \E m \in P : Walks(R, P, A, a, m) /\ Walks(R, P, B, m, b)
<1>1. PICK d \in [0 .. Len(A \o B) -> P] :
        /\ d[0] = a /\ d[Len(A \o B)] = b
        /\ \A i \in 1 .. Len(A \o B) : <<d[i - 1], (A \o B)[i], d[i]>> \in R
  BY DEF Walks
<1>2. /\ Len(A) \in Nat /\ Len(B) \in Nat /\ Len(A \o B) = Len(A) + Len(B)
      /\ \A i \in 1 .. Len(A) : (A \o B)[i] = A[i]
      /\ \A i \in Len(A) + 1 .. Len(A) + Len(B) : (A \o B)[i] = B[i - Len(A)]
  BY ConcatProperties
<1> DEFINE S == A \o B
           f == [i \in 0 .. Len(A) |-> d[i]]
           g == [i \in 0 .. Len(B) |-> d[Len(A) + i]]
<1> HIDE DEF S
<1>3. /\ f \in [0 .. Len(A) -> P] /\ g \in [0 .. Len(B) -> P]
      /\ f[0] = a /\ f[Len(A)] = g[0] /\ g[Len(B)] = b /\ g[0] \in P
  BY <1>1, <1>2 DEF S
<1>4. ASSUME NEW i \in 1 .. Len(A)
      PROVE  <<f[i - 1], A[i], f[i]>> \in R
  <2>1. <<d[i - 1], S[i], d[i]>> \in R /\ S[i] = A[i]
    BY <1>1, <1>2 DEF S
  <2>2. f[i - 1] = d[i - 1] /\ f[i] = d[i]
    BY <1>2
  <2> QED
    BY <2>1, <2>2
<1>5. ASSUME NEW i \in 1 .. Len(B)
      PROVE  <<g[i - 1], B[i], g[i]>> \in R
  <2> DEFINE j == Len(A) + i
  <2>1. j \in 1 .. Len(A \o B) /\ j \in Len(A) + 1 .. Len(A) + Len(B)
        /\ j - Len(A) = i /\ j - 1 = Len(A) + (i - 1)
    BY <1>2
  <2>2. <<d[j - 1], S[j], d[j]>> \in R /\ S[j] = B[i]
    BY <1>1, <1>2, <2>1 DEF S
  <2>3. g[i - 1] = d[j - 1] /\ g[i] = d[j]
    BY <1>2, <2>1
  <2> QED
    BY <2>2, <2>3
<1> HIDE DEF f, g
<1>6. Walks(R, P, A, a, g[0])
  BY <1>3, <1>4 DEF Walks
<1>7. Walks(R, P, B, g[0], b)
  BY <1>3, <1>5 DEF Walks
<1> QED
  BY <1>3, <1>6, <1>7

\* What every step preserves holds at the end if it does at the beginning.
LEMMA WalksInvariant ==
  ASSUME NEW R, NEW P, NEW T, NEW A \in Seq(T), NEW a, NEW b, Walks(R, P, A, a, b),
         NEW X, a \in X, \A s, t, u : s \in X /\ <<s, t, u>> \in R => u \in X
  PROVE  b \in X
<1>1. PICK d \in [0 .. Len(A) -> P] :
        /\ d[0] = a /\ d[Len(A)] = b
        /\ \A i \in 1 .. Len(A) : <<d[i - 1], A[i], d[i]>> \in R
  BY DEF Walks
<1>0. Len(A) \in Nat
  OBVIOUS
<1> DEFINE S == {i \in Nat : i <= Len(A) => d[i] \in X}
<1>2. 0 \in S
  BY <1>0, <1>1
<1>3. ASSUME NEW i \in Nat, i \in S
      PROVE  i + 1 \in S
  <2> SUFFICES ASSUME i + 1 <= Len(A) PROVE d[i + 1] \in X
    OBVIOUS
  <2>1. i + 1 \in 1 .. Len(A) /\ (i + 1) - 1 = i /\ d[i] \in X
    BY <1>0, <1>3
  <2>2. <<d[(i + 1) - 1], A[i + 1], d[i + 1]>> \in R
    BY <1>1, <2>1
  <2> QED
    BY <2>1, <2>2
<1>4. Nat \subseteq S
  <2> HIDE DEF S
  <2> QED
    BY <1>2, <1>3, NatSetInduction
<1> QED
  BY <1>0, <1>1, <1>4

-----------------------------------------------------------------------------
(* The packets of a stream. *)

Bit(x, t, c) == IF x.type = t /\ x.ch = c THEN <<x>> ELSE <<>>

\* G collects the packets among the tokens S.
Collects(G, S, t, c, T) ==
  /\ G \in [0 .. Len(S) -> Seq(T)]
  /\ G[0] = <<>>
  /\ \A n \in 1 .. Len(S) : G[n] = G[n - 1] \o Bit(S[n], t, c)

\* A packet is in the set of the tokens.
LEMMA BitTyped ==
  ASSUME NEW T, NEW x \in T, NEW t, NEW c
  PROVE  Bit(x, t, c) \in Seq(T)
BY DEF Bit

\* Tokens can be collected, as many as there are.
LEMMA CollectionExists ==
  ASSUME NEW T, NEW S \in Seq(T), NEW t, NEW c
  PROVE  \E G : Collects(G, S, t, c, T)
<1> DEFINE Path(G, n) == /\ G \in [0 .. n -> Seq(T)] /\ G[0] = <<>>
                         /\ \A i \in 1 .. n : G[i] = G[i - 1] \o Bit(S[i], t, c)
           X == {n \in Nat : n <= Len(S) => \E G : Path(G, n)}
<1>0. Len(S) \in Nat /\ \A i \in 1 .. Len(S) : S[i] \in T
  OBVIOUS
<1>1. 0 \in X
  <2> DEFINE G == [i \in 0 .. 0 |-> <<>>]
  <2>1. Path(G, 0)
    OBVIOUS
  <2> HIDE DEF Path
  <2> QED
    BY <2>1
<1>2. ASSUME NEW n \in Nat, n \in X PROVE n + 1 \in X
  <2> HIDE DEF Path
  <2> SUFFICES ASSUME n + 1 <= Len(S) PROVE \E G : Path(G, n + 1)
    OBVIOUS
  <2>1. PICK G : Path(G, n)
    <3>1. n <= Len(S)
      BY <1>0
    <3> QED
      BY <1>2, <3>1
  <2> USE DEF Path
  <2> DEFINE b == Bit(S[n + 1], t, c)
             H == [i \in 0 .. n + 1 |-> IF i <= n THEN G[i] ELSE G[n] \o b]
  <2>2. b \in Seq(T)
    BY <1>0, BitTyped
  <2> HIDE DEF b
  <2>3. G[n] \in Seq(T) /\ G[n] \o b \in Seq(T)
    BY <2>1, <2>2, ConcatProperties
  <2>4. H \in [0 .. n + 1 -> Seq(T)]
    BY <2>1, <2>3
  <2>5. H[0] = <<>>
    BY <2>1
  <2>6. ASSUME NEW i \in 1 .. n + 1 PROVE H[i] = H[i - 1] \o Bit(S[i], t, c)
    <3>1. CASE i <= n
      <4>1. i \in 1 .. n /\ i \in 0 .. n + 1 /\ i - 1 \in 0 .. n + 1 /\ i - 1 <= n
        BY <3>1
      <4>2. H[i] = G[i] /\ H[i - 1] = G[i - 1]
        BY <3>1, <4>1
      <4>3. G[i] = G[i - 1] \o Bit(S[i], t, c)
        BY <2>1, <4>1
      <4> QED
        BY <4>2, <4>3
    <3>2. CASE i = n + 1
      <4>1. i \in 0 .. n + 1 /\ ~ (i <= n) /\ i - 1 = n /\ n \in 0 .. n + 1
        BY <3>2
      <4>2. H[i] = G[n] \o b /\ H[n] = G[n]
        BY <4>1
      <4> QED
        BY <3>2, <4>1, <4>2 DEF b
    <3>3. i <= n \/ i = n + 1
      OBVIOUS
    <3> HIDE DEF H
    <3> QED
      BY <3>1, <3>2, <3>3
  <2>7. Path(H, n + 1)
    BY <2>4, <2>5, <2>6
  <2> HIDE DEF Path
  <2> QED
    BY <2>7
<1>3. Nat \subseteq X
  <2> HIDE DEF X
  <2> QED
    BY <1>1, <1>2, NatSetInduction
<1>4. PICK G : Path(G, Len(S))
  <2> HIDE DEF Path
  <2> QED
    BY <1>0, <1>3
<1> QED
  BY <1>4 DEF Collects

\* Two collections of tokens that agree are the same.
LEMMA CollectionsAgree ==
  ASSUME NEW T, NEW R \in Seq(T), NEW S \in Seq(T), NEW t, NEW c,
         NEW G, Collects(G, R, t, c, T), NEW H, Collects(H, S, t, c, T),
         NEW m \in Nat, m <= Len(R), m <= Len(S), \A i \in 1 .. m : R[i] = S[i]
  PROVE  G[m] = H[m]
<1> DEFINE X == {n \in Nat : n <= m => G[n] = H[n]}
<1>0. Len(R) \in Nat /\ Len(S) \in Nat
  OBVIOUS
<1>1. 0 \in X
  BY DEF Collects
<1>2. ASSUME NEW n \in Nat, n \in X PROVE n + 1 \in X
  <2> SUFFICES ASSUME n + 1 <= m PROVE G[n + 1] = H[n + 1]
    OBVIOUS
  <2>1. G[n] = H[n] /\ R[n + 1] = S[n + 1]
    BY <1>2
  <2>2. n + 1 \in 1 .. Len(R) /\ n + 1 \in 1 .. Len(S) /\ (n + 1) - 1 = n
    BY <1>0
  <2>3. G[n + 1] = G[n] \o Bit(R[n + 1], t, c) /\ H[n + 1] = H[n] \o Bit(S[n + 1], t, c)
    BY <2>2 DEF Collects
  <2> QED
    BY <2>1, <2>3
<1>3. Nat \subseteq X
  <2> HIDE DEF X
  <2> QED
    BY <1>1, <1>2, NatSetInduction
<1> QED
  BY <1>3

\* PacketsOf is what such a collection ends with.
LEMMA PacketsCollected ==
  ASSUME NEW T, NEW S \in Seq(T), NEW t, NEW c, NEW G, Collects(G, S, t, c, T)
  PROVE  PacketsOf(S, t, c) = G[Len(S)] /\ PacketsOf(S, t, c) \in Seq(T)
<1> DEFINE Law(f) ==
             f = [n \in 0 .. Len(S) |->
                    IF n = 0 THEN <<>>
                    ELSE f[n - 1] \o IF S[n].type = t /\ S[n].ch = c THEN <<S[n]>> ELSE <<>>]
           F == CHOOSE f : Law(f)
<1>0. Len(S) \in Nat
  OBVIOUS
<1>1. Law(G)
  <2> DEFINE g == [n \in 0 .. Len(S) |->
                     IF n = 0 THEN <<>>
                     ELSE G[n - 1] \o IF S[n].type = t /\ S[n].ch = c THEN <<S[n]>> ELSE <<>>]
  <2>1. ASSUME NEW n \in 0 .. Len(S) PROVE G[n] = g[n]
    <3>1. CASE n = 0
      BY <3>1 DEF Collects
    <3>2. CASE n # 0
      <4>1. n \in 1 .. Len(S)
        BY <1>0, <3>2
      <4>2. G[n] = G[n - 1] \o Bit(S[n], t, c)
        BY <4>1 DEF Collects
      <4> QED
        BY <3>2, <4>2 DEF Bit
    <3> QED
      BY <3>1, <3>2
  <2>2. G = [n \in 0 .. Len(S) |-> G[n]]
    BY DEF Collects
  <2> QED
    BY <2>1, <2>2
<1>2. Law(F)
  <2> HIDE DEF Law
  <2> QED
    BY <1>1
<1>3. PacketsOf(S, t, c) = F[Len(S)]
  BY Zenon DEF PacketsOf
<1>4. /\ F[0] = <<>>
      /\ \A n \in 1 .. Len(S) : F[n] = F[n - 1] \o Bit(S[n], t, c)
  <2> HIDE DEF F
  <2>1. \A n \in 0 .. Len(S) :
          F[n] = IF n = 0 THEN <<>>
                 ELSE F[n - 1] \o IF S[n].type = t /\ S[n].ch = c THEN <<S[n]>> ELSE <<>>
    BY <1>2, Zenon
  <2>2. F[0] = <<>>
    <3>1. 0 \in 0 .. Len(S)
      BY <1>0
    <3> QED
      BY <2>1, <3>1, Zenon
  <2>3. ASSUME NEW n \in 1 .. Len(S) PROVE F[n] = F[n - 1] \o Bit(S[n], t, c)
    <3>1. n \in 0 .. Len(S) /\ n # 0
      BY <1>0
    <3> QED
      BY <2>1, <3>1 DEF Bit
  <2> QED
    BY <2>2, <2>3
<1> HIDE DEF F
<1> DEFINE X == {n \in Nat : n <= Len(S) => F[n] = G[n]}
<1>5. 0 \in X
  BY <1>4 DEF Collects
<1>6. ASSUME NEW n \in Nat, n \in X PROVE n + 1 \in X
  <2> SUFFICES ASSUME n + 1 <= Len(S) PROVE F[n + 1] = G[n + 1]
    OBVIOUS
  <2>1. n + 1 \in 1 .. Len(S) /\ (n + 1) - 1 = n /\ F[n] = G[n]
    BY <1>0, <1>6
  <2> QED
    BY <1>4, <2>1 DEF Collects
<1>7. Nat \subseteq X
  <2> HIDE DEF X
  <2> QED
    BY <1>5, <1>6, NatSetInduction
<1>8. F[Len(S)] = G[Len(S)]
  BY <1>0, <1>7
<1> QED
  BY <1>0, <1>3, <1>8 DEF Collects

\* The packets among no tokens, and among one.
LEMMA PacketsFew ==
  ASSUME NEW t, NEW c
  PROVE  /\ PacketsOf(<<>>, t, c) = <<>>
         /\ \A x : PacketsOf(<<x>>, t, c) = Bit(x, t, c)
<1>1. PacketsOf(<<>>, t, c) = <<>>
  <2> DEFINE S == <<>>
             T == {}
  <2>1. S \in Seq(T) /\ Len(S) = 0
    OBVIOUS
  <2> HIDE DEF S, T
  <2>2. PICK G : Collects(G, S, t, c, T)
    BY <2>1, CollectionExists
  <2> QED
    BY <2>1, <2>2, PacketsCollected DEF Collects, S
<1>2. ASSUME NEW x PROVE PacketsOf(<<x>>, t, c) = Bit(x, t, c)
  <2> DEFINE S == <<x>>
             T == {x}
  <2>1. S \in Seq(T) /\ Len(S) = 1 /\ S[1] = x /\ x \in T
    OBVIOUS
  <2> HIDE DEF S, T
  <2>2. PICK G : Collects(G, S, t, c, T)
    BY <2>1, CollectionExists
  <2>3. G[0] = <<>> /\ G[1] = G[0] \o Bit(x, t, c)
    <3>1. 1 \in 1 .. Len(S) /\ 1 - 1 = 0
      BY <2>1
    <3> QED
      BY <2>1, <2>2, <3>1 DEF Collects
  <2>4. Bit(x, t, c) \in Seq(T)
    BY <2>1, BitTyped
  <2>5. G[1] = Bit(x, t, c)
    BY <2>3, <2>4, ConcatEmptySeq
  <2> QED
    BY <2>1, <2>2, <2>5, PacketsCollected DEF S
<1> QED
  BY <1>1, <1>2

\* The packets p are among the tokens S.
Among(p, S, t, c) ==
  \A i \in 1 .. Len(p) :
    \E j \in 1 .. Len(S) : p[i] = S[j] /\ S[j].type = t /\ S[j].ch = c

\* Those that are collected are, and they are not more than the tokens.
LEMMA PacketsTyped ==
  ASSUME NEW T, NEW S \in Seq(T), NEW t, NEW c
  PROVE  /\ PacketsOf(S, t, c) \in Seq(T)
         /\ Len(PacketsOf(S, t, c)) <= Len(S)
         /\ Among(PacketsOf(S, t, c), S, t, c)
<1>0. Len(S) \in Nat
  OBVIOUS
<1>1. PICK G : Collects(G, S, t, c, T)
  BY CollectionExists
<1> DEFINE At(n) == /\ Len(G[n]) <= n
                    /\ \A i \in 1 .. Len(G[n]) :
                         \E j \in 1 .. Len(S) : /\ G[n][i] = S[j]
                                                /\ S[j].type = t /\ S[j].ch = c
           X == {n \in Nat : n <= Len(S) => At(n)}
<1>2. 0 \in X
  <2>1. G[0] = <<>>
    BY <1>1 DEF Collects
  <2>2. Len(G[0]) = 0
    BY <2>1
  <2> QED
    BY <2>2
<1>3. ASSUME NEW n \in Nat, n \in X PROVE n + 1 \in X
  <2> SUFFICES ASSUME n + 1 <= Len(S) PROVE At(n + 1)
    OBVIOUS
  <2>1. n + 1 \in 1 .. Len(S) /\ (n + 1) - 1 = n /\ n \in 0 .. Len(S) /\ At(n)
    BY <1>0, <1>3
  <2>2. G[n] \in Seq(T) /\ G[n + 1] = G[n] \o Bit(S[n + 1], t, c) /\ S[n + 1] \in T
    <3>1. G[n] \in Seq(T)
      BY <1>1, <2>1 DEF Collects
    <3>2. G[n + 1] = G[(n + 1) - 1] \o Bit(S[n + 1], t, c)
      BY <1>1, <2>1 DEF Collects
    <3>3. S[n + 1] \in T
      BY <2>1
    <3> QED
      BY <2>1, <3>1, <3>2, <3>3
  <2>3. CASE S[n + 1].type = t /\ S[n + 1].ch = c
    <3> DEFINE g == G[n]
               x == S[n + 1]
    <3>1. G[n + 1] = g \o <<x>> /\ g \in Seq(T) /\ x \in T
      BY <2>2, <2>3 DEF Bit
    <3>2. Len(g) \in Nat /\ Len(g) <= n
      BY <2>1, <3>1
    <3>3. /\ Len(G[n + 1]) = Len(g) + 1
          /\ \A i \in 1 .. Len(g) : G[n + 1][i] = g[i]
          /\ G[n + 1][Len(g) + 1] = x
      <4> HIDE DEF g, x
      <4> QED
        BY <3>1
    <3>4. ASSUME NEW i \in 1 .. Len(G[n + 1])
          PROVE  \E j \in 1 .. Len(S) : /\ G[n + 1][i] = S[j]
                                        /\ S[j].type = t /\ S[j].ch = c
      <4>1. CASE i <= Len(g)
        <5>1. i \in 1 .. Len(g) /\ G[n + 1][i] = g[i]
          BY <3>2, <3>3, <4>1
        <5> QED
          BY <2>1, <5>1
      <4>2. CASE i = Len(g) + 1
        BY <2>1, <2>3, <3>3, <4>2
      <4> QED
        BY <3>2, <3>3, <4>1, <4>2
    <3> QED
      BY <3>2, <3>3, <3>4
  <2>4. CASE ~ (S[n + 1].type = t /\ S[n + 1].ch = c)
    <3>1. G[n + 1] = G[n]
      <4>1. G[n + 1] = G[n] \o <<>>
        BY <2>2, <2>4 DEF Bit
      <4> QED
        BY <2>2, <4>1, ConcatEmptySeq
    <3>2. Len(G[n]) \in Nat
      BY <2>2
    <3> QED
      BY <2>1, <3>1, <3>2
  <2> QED
    BY <2>3, <2>4
<1>4. Nat \subseteq X
  <2> HIDE DEF X
  <2> QED
    BY <1>2, <1>3, NatSetInduction
<1>5. At(Len(S))
  <2> HIDE DEF At
  <2> QED
    BY <1>0, <1>4
<1>6. PacketsOf(S, t, c) = G[Len(S)] /\ PacketsOf(S, t, c) \in Seq(T)
  BY <1>1, PacketsCollected
<1> QED
  BY <1>5, <1>6 DEF Among

\* The packets among two sequences of tokens.
LEMMA PacketsConcat ==
  ASSUME NEW T, NEW A \in Seq(T), NEW B \in Seq(T), NEW t, NEW c
  PROVE  PacketsOf(A \o B, t, c) = PacketsOf(A, t, c) \o PacketsOf(B, t, c)
<1> DEFINE S == A \o B
<1>1. /\ Len(A) \in Nat /\ Len(B) \in Nat /\ Len(S) = Len(A) + Len(B) /\ S \in Seq(T)
      /\ \A i \in 1 .. Len(A) : S[i] = A[i]
      /\ \A i \in Len(A) + 1 .. Len(A) + Len(B) : S[i] = B[i - Len(A)]
  BY ConcatProperties
<1> HIDE DEF S
<1>2. PICK F : Collects(F, A, t, c, T)
  BY CollectionExists
<1>3. PICK G : Collects(G, B, t, c, T)
  BY CollectionExists
<1>4. PICK H : Collects(H, S, t, c, T)
  BY <1>1, CollectionExists
<1> DEFINE a == F[Len(A)]
           X == {n \in Nat : n <= Len(B) => H[Len(A) + n] = a \o G[n]}
<1>5. a \in Seq(T) /\ H[Len(A)] = a
  <2>1. a \in Seq(T)
    <3>1. Len(A) \in 0 .. Len(A) /\ F \in [0 .. Len(A) -> Seq(T)]
      BY <1>1, <1>2 DEF Collects
    <3> QED
      BY <3>1
  <2>2. Len(A) <= Len(A) /\ Len(A) <= Len(S)
    BY <1>1
  <2>3. F[Len(A)] = H[Len(A)]
    <3> DEFINE m == Len(A)
    <3>1. m \in Nat /\ m <= Len(A) /\ m <= Len(S) /\ \A i \in 1 .. m : A[i] = S[i]
      BY <1>1, <2>2
    <3> HIDE DEF m
    <3>2. F[m] = H[m]
      BY <1>1, <1>2, <1>4, <3>1, CollectionsAgree
    <3> QED
      BY <3>2 DEF m
  <2> QED
    BY <2>1, <2>3
<1> HIDE DEF a
<1>6. 0 \in X
  <2>1. G[0] = <<>>
    BY <1>3 DEF Collects
  <2>2. a \o <<>> = a
    BY <1>5, ConcatEmptySeq
  <2> QED
    BY <1>1, <1>5, <2>1, <2>2
<1>7. ASSUME NEW n \in Nat, n \in X PROVE n + 1 \in X
  <2> SUFFICES ASSUME n + 1 <= Len(B) PROVE H[Len(A) + (n + 1)] = a \o G[n + 1]
    OBVIOUS
  <2> DEFINE b == Bit(B[n + 1], t, c)
             g == G[n]
             k == Len(A) + (n + 1)
  <2>1. /\ n + 1 \in 1 .. Len(B) /\ (n + 1) - 1 = n /\ n \in 0 .. Len(B)
        /\ k \in 1 .. Len(S) /\ k - 1 = Len(A) + n
    BY <1>1
  <2>h. H[Len(A) + n] = a \o g
    BY <1>1, <1>7
  <2>2. S[k] = B[n + 1] /\ B[n + 1] \in T
    <3>1. k \in Len(A) + 1 .. Len(A) + Len(B) /\ k - Len(A) = n + 1
      BY <1>1
    <3>2. S[k] = B[k - Len(A)]
      BY <1>1, <3>1
    <3>3. B[n + 1] \in T
      BY <2>1
    <3> QED
      BY <3>1, <3>2, <3>3
  <2>3. H[k] = H[k - 1] \o Bit(S[k], t, c) /\ G[n + 1] = g \o b /\ g \in Seq(T)
    BY <1>3, <1>4, <2>1 DEF Collects
  <2>4. b \in Seq(T)
    BY <2>2, BitTyped
  <2>5. H[k] = (a \o g) \o b
    BY <2>1, <2>h, <2>2, <2>3
  <2>6. H[k] = a \o G[n + 1]
    <3>1. a \in Seq(T) /\ g \in Seq(T) /\ B[n + 1] \in T
      BY <1>5, <2>2, <2>3
    <3> HIDE DEF g, b, X
    <3>2. (a \o g) \o b = a \o (g \o b)
      BY <2>4, <3>1, SMT
    <3> QED
      BY <2>3, <2>5, <3>2
  <2> QED
    BY <2>6
<1>8. Nat \subseteq X
  <2> HIDE DEF X
  <2> QED
    BY <1>6, <1>7, NatSetInduction
<1>9. H[Len(A) + Len(B)] = a \o G[Len(B)]
  BY <1>1, <1>8
<1>10. PacketsOf(S, t, c) = a \o G[Len(B)]
  <2>1. PacketsOf(S, t, c) = H[Len(S)]
    <3>1. S \in Seq(T)
      BY <1>1
    <3> QED
      BY <1>4, <3>1, PacketsCollected
  <2> QED
    BY <1>1, <1>9, <2>1
<1>11. PacketsOf(A, t, c) = a /\ PacketsOf(B, t, c) = G[Len(B)]
  BY <1>2, <1>3, PacketsCollected DEF a
<1> QED
  BY <1>10, <1>11 DEF S

\* No packets, where there are none of this stream.
LEMMA PacketsNone ==
  ASSUME NEW T, NEW S \in Seq(T), NEW t, NEW c,
         \A j \in 1 .. Len(S) : S[j].type # t \/ S[j].ch # c
  PROVE  PacketsOf(S, t, c) = <<>>
<1> DEFINE p == PacketsOf(S, t, c)
<1>1. /\ p \in Seq(T)
      /\ \A i \in 1 .. Len(p) : \E j \in 1 .. Len(S) : S[j].type = t /\ S[j].ch = c
  BY PacketsTyped DEF Among
<1> HIDE DEF p
<1>2. Len(p) = 0
  BY <1>1
<1>3. p = <<>>
  BY <1>1, <1>2
<1> QED
  BY <1>3 DEF p
=============================================================================

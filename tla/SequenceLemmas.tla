--------------------------- MODULE SequenceLemmas ---------------------------
(***************************************************************************)
(* What appending to a sequence, joining two, turning one round, erasing   *)
(* an element and taking the head do to the elements, what the least of    *)
(* some numbers is, and what a step function makes of a value in a number  *)
(* of turns: facts that the proofs about every component's queues, vectors *)
(* and lists need.                                                         *)
(***************************************************************************)
EXTENDS Integers, Sequences, SequencesExt, FiniteSetsExt, SequenceTheorems,
        FiniteSetTheorems, WellFoundedInduction, TLAPS

\* An element of the set of a sequence stands somewhere in it.
LEMMA ToSetMember ==
  ASSUME NEW S, NEW s \in Seq(S), NEW e
  PROVE  e \in ToSet(s) <=> \E k \in 1..Len(s) : s[k] = e
BY LenProperties DEF ToSet

LEMMA ToSetType ==
  ASSUME NEW S, NEW s \in Seq(S)
  PROVE  ToSet(s) \subseteq S
BY ToSetMember, ElementOfSeq

\* push_back: the old elements keep their places, the new one is the last.
LEMMA AppendElements ==
  ASSUME NEW S, NEW s \in Seq(S), NEW n \in S
  PROVE  /\ Append(s, n) \in Seq(S)
         /\ Len(Append(s, n)) = Len(s) + 1
         /\ Append(s, n)[Len(s) + 1] = n
         /\ \A k \in 1..Len(s) : Append(s, n)[k] = s[k]
         /\ ToSet(Append(s, n)) = ToSet(s) \cup {n}
<1> DEFINE t == Append(s, n)
<1>1. t \in Seq(S) /\ Len(t) = Len(s) + 1 /\ t[Len(s) + 1] = n
  BY AppendProperties
<1>2. \A k \in 1..Len(s) : t[k] = s[k]
  BY AppendProperties
<1>3. Len(s) \in Nat
  BY LenProperties
<1>4. \A e : e \in ToSet(t) <=> e \in ToSet(s) \/ e = n
  <2> TAKE e
  <2>1. e \in ToSet(t) <=> \E k \in 1..Len(t) : t[k] = e
    BY <1>1, ToSetMember
  <2>2. e \in ToSet(s) <=> \E k \in 1..Len(s) : s[k] = e
    BY ToSetMember
  <2> QED BY <2>1, <2>2, <1>1, <1>2, <1>3
<1> HIDE DEF t
<1> QED BY <1>1, <1>2, <1>4 DEF t

\* A function on the first n numbers is a sequence.
LEMMA FunctionIsSeq ==
  ASSUME NEW S, NEW n \in Nat, NEW f \in [1..n -> S]
  PROVE  f \in Seq(S) /\ Len(f) = n
OBVIOUS

\* Joining two sequences: the elements of the first, then those of the second.
LEMMA ConcatElements ==
  ASSUME NEW S, NEW s \in Seq(S), NEW t \in Seq(S)
  PROVE  /\ s \o t \in Seq(S)
         /\ Len(s \o t) = Len(s) + Len(t)
         /\ \A k \in 1..Len(s) : (s \o t)[k] = s[k]
         /\ \A k \in 1..Len(t) : (s \o t)[Len(s) + k] = t[k]
         /\ ToSet(s \o t) = ToSet(s) \cup ToSet(t)
<1> DEFINE u == s \o t
<1>1. u \in Seq(S) /\ Len(u) = Len(s) + Len(t)
  BY ConcatProperties
<1>2. \A k \in 1..Len(s) + Len(t) : u[k] = IF k <= Len(s) THEN s[k] ELSE t[k - Len(s)]
  BY ConcatProperties
<1>3. Len(s) \in Nat /\ Len(t) \in Nat
  BY LenProperties
<1> HIDE DEF u
<1>4. ASSUME NEW k \in 1..Len(s)
      PROVE  u[k] = s[k] /\ k \in 1..Len(u)
  <2>1. k \in 1..Len(s) + Len(t) /\ k <= Len(s)
    BY <1>3
  <2> QED BY <2>1, <1>1, <1>2
<1>5. ASSUME NEW k \in 1..Len(t)
      PROVE  u[Len(s) + k] = t[k] /\ Len(s) + k \in 1..Len(u)
  <2>1. Len(s) + k \in 1..Len(s) + Len(t) /\ ~(Len(s) + k <= Len(s)) /\ (Len(s) + k) - Len(s) = k
    BY <1>3
  <2>2. u[Len(s) + k] = t[(Len(s) + k) - Len(s)]
    BY <2>1, <1>2
  <2> QED BY <2>1, <2>2, <1>1
<1>6. ASSUME NEW k \in 1..Len(u)
      PROVE  (\E l \in 1..Len(s) : s[l] = u[k]) \/ (\E l \in 1..Len(t) : t[l] = u[k])
  <2>1. k \in 1..Len(s) + Len(t)
    BY <1>1
  <2>2. CASE k <= Len(s)
    <3>1. k \in 1..Len(s) /\ u[k] = s[k]
      BY <2>1, <2>2, <1>2, <1>3
    <3> QED BY <3>1
  <2>3. CASE k > Len(s)
    <3>1. k - Len(s) \in 1..Len(t) /\ u[k] = t[k - Len(s)]
      BY <2>1, <2>3, <1>2, <1>3
    <3> QED BY <3>1
  <2> QED BY <2>1, <2>2, <2>3, <1>3
<1>7. \A e : e \in ToSet(u) <=> e \in ToSet(s) \/ e \in ToSet(t)
  <2> TAKE e
  <2>1. e \in ToSet(u) <=> \E k \in 1..Len(u) : u[k] = e
    BY <1>1, ToSetMember
  <2>2. e \in ToSet(s) <=> \E k \in 1..Len(s) : s[k] = e
    BY ToSetMember
  <2>3. e \in ToSet(t) <=> \E k \in 1..Len(t) : t[k] = e
    BY ToSetMember
  <2> QED BY <2>1, <2>2, <2>3, <1>4, <1>5, <1>6
<1> QED BY <1>1, <1>4, <1>5, <1>7 DEF u

\* Erasing one element: those behind it move one place to the front.
LEMMA RemoveElements ==
  ASSUME NEW S, NEW s \in Seq(S), NEW c \in 1..Len(s)
  PROVE  /\ RemoveAt(s, c) \in Seq(S)
         /\ Len(RemoveAt(s, c)) = Len(s) - 1
         /\ \A k \in 1..Len(s) - 1 :
              RemoveAt(s, c)[k] = IF k < c THEN s[k] ELSE s[k + 1]
         /\ \A e \in ToSet(s) : e = s[c] \/ e \in ToSet(RemoveAt(s, c))
         /\ ToSet(RemoveAt(s, c)) \subseteq ToSet(s)
<1> DEFINE a == SubSeq(s, 1, c - 1)
           b == SubSeq(s, c + 1, Len(s))
           r == RemoveAt(s, c)
<1>1. Len(s) \in Nat /\ c \in Nat /\ c >= 1 /\ c <= Len(s) /\ \A k \in 1..Len(s) : s[k] \in S
  BY LenProperties, ElementOfSeq
<1>2. a \in Seq(S) /\ Len(a) = c - 1 /\ \A k \in 1..c - 1 : a[k] = s[k]
  <2>1. 1 \in Int /\ c - 1 \in Int /\ \A k \in 1..c - 1 : s[k] \in S
    BY <1>1
  <2>2. /\ SubSeq(s, 1, c - 1) \in Seq(S)
        /\ Len(SubSeq(s, 1, c - 1)) = IF 1 <= c - 1 THEN c - 1 - 1 + 1 ELSE 0
        /\ \A k \in 1..c - 1 - 1 + 1 : SubSeq(s, 1, c - 1)[k] = s[1 + k - 1]
    BY <2>1, SubSeqProperties
  <2> QED BY <2>2, <1>1
<1>3. b \in Seq(S) /\ Len(b) = Len(s) - c /\ \A k \in 1..Len(s) - c : b[k] = s[c + k]
  <2>1. c + 1 \in Int /\ Len(s) \in Int /\ \A k \in c + 1..Len(s) : s[k] \in S
    BY <1>1
  <2>2. /\ SubSeq(s, c + 1, Len(s)) \in Seq(S)
        /\ Len(SubSeq(s, c + 1, Len(s))) = IF c + 1 <= Len(s) THEN Len(s) - (c + 1) + 1 ELSE 0
        /\ \A k \in 1..Len(s) - (c + 1) + 1 : SubSeq(s, c + 1, Len(s))[k] = s[c + 1 + k - 1]
    BY <2>1, SubSeqProperties
  <2>3. \A k \in 1..Len(s) - c : k \in 1..Len(s) - (c + 1) + 1 /\ c + 1 + k - 1 = c + k
    BY <1>1
  <2> QED BY <2>2, <2>3, <1>1
<1>4. r = a \o b
  BY DEF RemoveAt
<1>5. r \in Seq(S) /\ Len(r) = Len(s) - 1
  <2> HIDE DEF a, b, r
  <2>1. a \o b \in Seq(S) /\ Len(a \o b) = Len(a) + Len(b)
    BY <1>2, <1>3, ConcatProperties
  <2>2. Len(a) + Len(b) = Len(s) - 1
    BY <1>1, <1>2, <1>3
  <2> QED BY <2>1, <2>2, <1>4, Zenon
<1>6. \A k \in 1..Len(s) - 1 : r[k] = IF k < c THEN s[k] ELSE s[k + 1]
  <2> HIDE DEF a, b, r
  <2> SUFFICES ASSUME NEW k \in 1..Len(s) - 1
               PROVE  r[k] = IF k < c THEN s[k] ELSE s[k + 1]
    OBVIOUS
  <2>1. k \in 1..Len(a) + Len(b)
    BY <1>1, <1>2, <1>3
  <2>2. r[k] = IF k <= Len(a) THEN a[k] ELSE b[k - Len(a)]
    BY <2>1, <1>2, <1>3, <1>4, ConcatProperties
  <2>3. CASE k < c
    BY <2>2, <2>3, <1>1, <1>2
  <2>4. CASE k >= c
    <3>1. k - Len(a) \in 1..Len(s) - c /\ c + (k - Len(a)) = k + 1 /\ ~(k <= Len(a))
      BY <2>4, <1>1, <1>2
    <3>2. b[k - Len(a)] = s[c + (k - Len(a))]
      BY <3>1, <1>3
    <3>3. r[k] = b[k - Len(a)]
      BY <3>1, <2>2
    <3>4. ~(k < c)
      BY <2>4, <1>1
    <3> QED BY <3>1, <3>2, <3>3, <3>4
  <2> QED BY <2>3, <2>4, <1>1
<1> HIDE DEF a, b, r
<1>7. \A e : e \in ToSet(r) <=> \E k \in 1..Len(s) - 1 : r[k] = e
  BY <1>5, ToSetMember
<1>8. \A e : e \in ToSet(s) <=> \E k \in 1..Len(s) : s[k] = e
  BY ToSetMember
<1>9. ASSUME NEW k \in 1..Len(s), s[k] # s[c]
      PROVE  \E l \in 1..Len(s) - 1 : r[l] = s[k]
  <2>1. CASE k < c
    <3>1. k \in 1..Len(s) - 1 /\ r[k] = s[k]
      BY <2>1, <1>1, <1>6
    <3> QED BY <3>1
  <2>2. CASE k > c
    <3>1. k - 1 \in 1..Len(s) - 1 /\ r[k - 1] = s[k - 1 + 1] /\ k - 1 + 1 = k
      BY <2>2, <1>1, <1>6
    <3> QED BY <3>1
  <2> QED BY <2>1, <2>2, <1>9, <1>1
<1>10. ASSUME NEW k \in 1..Len(s) - 1
       PROVE  \E l \in 1..Len(s) : s[l] = r[k]
  <2>1. k \in 1..Len(s) /\ k + 1 \in 1..Len(s)
    BY <1>1
  <2> QED BY <2>1, <1>6
<1> QED BY <1>5, <1>6, <1>7, <1>8, <1>9, <1>10 DEF r

\* Taking the first element: the others move one place to the front.
LEMMA TailElements ==
  ASSUME NEW S, NEW s \in Seq(S), s # <<>>
  PROVE  /\ Head(s) \in S /\ Head(s) = s[1] /\ 1 \in 1..Len(s)
         /\ Tail(s) \in Seq(S)
         /\ Len(Tail(s)) = Len(s) - 1
         /\ \A k \in 1..Len(s) - 1 : Tail(s)[k] = s[k + 1]
         /\ ToSet(Tail(s)) \subseteq ToSet(s)
<1>1. /\ Head(s) \in S /\ Tail(s) \in Seq(S) /\ Len(Tail(s)) = Len(s) - 1
      /\ \A k \in 1..Len(s) - 1 : Tail(s)[k] = s[k + 1]
  BY HeadTailProperties
<1>2. Len(s) \in Nat \ {0}
  BY EmptySeq
<1>3. Head(s) = s[1] /\ 1 \in 1..Len(s)
  BY <1>2
<1>4. \A e : e \in ToSet(Tail(s)) => e \in ToSet(s)
  <2> TAKE e
  <2>1. e \in ToSet(Tail(s)) <=> \E k \in 1..Len(s) - 1 : Tail(s)[k] = e
    BY <1>1, ToSetMember
  <2>2. e \in ToSet(s) <=> \E k \in 1..Len(s) : s[k] = e
    BY ToSetMember
  <2>3. \A k \in 1..Len(s) - 1 : k + 1 \in 1..Len(s)
    BY <1>2
  <2> QED BY <2>1, <2>2, <2>3, <1>1
<1> QED BY <1>1, <1>3, <1>4

\* The head put back before the tail.
LEMMA HeadFirst ==
  ASSUME NEW S, NEW s \in Seq(S), s # <<>>
  PROVE  <<Head(s)>> \o Tail(s) = s
<1>1. /\ Head(s) \in S /\ Head(s) = s[1] /\ Tail(s) \in Seq(S) /\ Len(Tail(s)) = Len(s) - 1
      /\ \A k \in 1..Len(s) - 1 : Tail(s)[k] = s[k + 1]
  BY TailElements
<1>2. Len(s) \in Nat /\ Len(s) # 0
  BY EmptySeq, LenProperties
<1>3. ASSUME NEW h \in Seq(S), NEW t \in Seq(S), Len(h) = 1, h[1] = s[1], Len(t) = Len(s) - 1,
             \A k \in 1..Len(s) - 1 : t[k] = s[k + 1]
      PROVE  h \o t = s
  <2>1. /\ h \o t \in Seq(S) /\ Len(h \o t) = Len(h) + Len(t)
        /\ \A k \in 1..Len(h) : (h \o t)[k] = h[k]
        /\ \A k \in 1..Len(t) : (h \o t)[Len(h) + k] = t[k]
    BY ConcatElements
  <2>2. Len(h \o t) = Len(s) /\ (h \o t)[1] = s[1]
    BY <1>2, <1>3, <2>1
  <2>3. ASSUME NEW k \in 1..Len(s), k # 1
        PROVE  (h \o t)[k] = s[k]
    <3>1. k - 1 \in 1..Len(s) - 1 /\ 1 + (k - 1) = k /\ (k - 1) + 1 = k
      BY <1>2, <2>3
    <3> QED BY <1>3, <2>1, <3>1
  <2>4. \A k \in 1..Len(s) : (h \o t)[k] = s[k]
    BY <2>2, <2>3
  <2> QED BY <2>1, <2>2, <2>4, SeqEqual
<1>4. <<Head(s)>> \in Seq(S) /\ Len(<<Head(s)>>) = 1 /\ <<Head(s)>>[1] = s[1]
  BY <1>1
<1> QED BY <1>1, <1>3, <1>4

\* Two sequences one after the other: what is appended to the second is at the
\* end of both, and a head that moves from the second to the first keeps its
\* place.
LEMMA ConcatAppend ==
  ASSUME NEW S, NEW s \in Seq(S), NEW t \in Seq(S), NEW n \in S
  PROVE  s \o Append(t, n) = Append(s \o t, n)
<1>1. <<n>> \in Seq(S) /\ Append(t, n) = t \o <<n>>
  BY AppendIsConcat
<1>2. s \o t \in Seq(S)
  BY ConcatProperties
<1>3. Append(s \o t, n) = (s \o t) \o <<n>>
  BY <1>2, AppendIsConcat
<1>4. \A u \in Seq(S) : s \o (t \o u) = (s \o t) \o u
  BY ConcatAssociative, SMTT(60)
<1> QED BY <1>1, <1>3, <1>4

LEMMA ConcatHead ==
  ASSUME NEW S, NEW s \in Seq(S), NEW t \in Seq(S), t # <<>>
  PROVE  Append(s, Head(t)) \o Tail(t) = s \o t
<1>1. Head(t) \in S /\ Tail(t) \in Seq(S) /\ <<Head(t)>> \in Seq(S)
  BY HeadTailProperties
<1>2. Append(s, Head(t)) = s \o <<Head(t)>>
  BY <1>1, AppendIsConcat
<1>3. <<Head(t)>> \o Tail(t) = t
  BY HeadFirst
<1>4. \A u, v \in Seq(S) : s \o (u \o v) = (s \o u) \o v
  BY ConcatAssociative, SMTT(60)
<1> QED BY <1>1, <1>2, <1>3, <1>4

\* A sequence without duplicates stays one when an element is erased, and that
\* element is gone from it.
Distinct(s) == \A i, j \in 1..Len(s) : s[i] = s[j] => i = j

LEMMA RemoveDistinct ==
  ASSUME NEW S, NEW s \in Seq(S), NEW c \in 1..Len(s), Distinct(s)
  PROVE  Distinct(RemoveAt(s, c)) /\ s[c] \notin ToSet(RemoveAt(s, c))
<1> DEFINE r == RemoveAt(s, c)
<1>1. /\ r \in Seq(S) /\ Len(r) = Len(s) - 1
      /\ \A k \in 1..Len(s) - 1 : r[k] = IF k < c THEN s[k] ELSE s[k + 1]
  BY RemoveElements
<1>2. Len(s) \in Nat /\ c \in 1..Len(s)
  BY LenProperties
<1> HIDE DEF r
<1> DEFINE old(k) == IF k < c THEN k ELSE k + 1
<1>3. \A k \in 1..Len(r) : old(k) \in 1..Len(s) /\ old(k) # c /\ r[k] = s[old(k)]
  BY <1>1, <1>2
<1>4. \A i, j \in 1..Len(r) : old(i) = old(j) => i = j
  BY <1>1, <1>2
<1> HIDE DEF old
<1>5. Distinct(r)
  BY <1>3, <1>4 DEF Distinct
<1>6. \A k \in 1..Len(r) : r[k] # s[c]
  BY <1>2, <1>3 DEF Distinct
<1>7. s[c] \notin ToSet(r)
  BY <1>1, <1>6, ToSetMember
<1> QED BY <1>5, <1>7 DEF r

\* A rising sequence stays one when a greater number is appended.
Increasing(s) == \A i \in 1..Len(s) - 1 : s[i] < s[i + 1]

LEMMA AppendIncreasing ==
  ASSUME NEW s \in Seq(Int), NEW n \in Int, Increasing(s), \A k \in 1..Len(s) : s[k] < n
  PROVE  Increasing(Append(s, n))
<1>1. /\ Len(Append(s, n)) = Len(s) + 1 /\ Append(s, n)[Len(s) + 1] = n
      /\ \A k \in 1..Len(s) : Append(s, n)[k] = s[k]
  BY AppendElements
<1>2. Len(s) \in Nat
  BY LenProperties
<1> SUFFICES ASSUME NEW i \in 1..Len(s)
             PROVE  Append(s, n)[i] < Append(s, n)[i + 1]
  BY <1>1, <1>2 DEF Increasing
<1>3. CASE i = Len(s)
  BY <1>1, <1>2, <1>3
<1>4. CASE i # Len(s)
  <2>1. i \in 1..Len(s) - 1 /\ i + 1 \in 1..Len(s)
    BY <1>2, <1>4
  <2> QED BY <2>1, <1>1 DEF Increasing
<1> QED BY <1>3, <1>4

\* A set of naturals that is not empty has a least element: this is what a proof
\* by induction over numbers comes down to.
LEMMA LeastNatural ==
  ASSUME NEW T, T \subseteq Nat, T # {}
  PROVE  \E m \in T : \A k \in T : m <= k
<1> DEFINE R == OpToRel(<, Nat)
<1>1. IsWellFoundedOn(R, Nat)
  BY NatLessThanWellFounded
<1>2. \A x, y \in Nat : <<x, y>> \in R <=> x < y
  BY DEF OpToRel
<1> HIDE DEF R
<1>3. PICK m \in T : \A k \in T : ~ (<<k, m>> \in R)
  BY <1>1, WFMin
<1>4. ASSUME NEW k \in T
      PROVE  m <= k
  <2>1. m \in Nat /\ k \in Nat /\ ~(k < m)
    BY <1>2, <1>3
  <2> QED BY <2>1
<1> QED BY <1>4

\* The greatest of some naturals up to a bound is one of them.
LEMMA MaxOfBounded ==
  ASSUME NEW S, NEW b \in Nat, S \subseteq 0..b, S # {}
  PROVE  Max(S) \in S /\ \A y \in S : y <= Max(S)
<1> DEFINE T == {n \in Nat : \A y \in S : y <= n}
<1>1. b \in T
  OBVIOUS
<1>2. PICK m \in T : \A k \in T : m <= k
  BY <1>1, LeastNatural
<1>3. m \in Nat /\ \A y \in S : y \in Nat /\ y <= m
  BY <1>2
<1>4. m \in S
  <2> SUFFICES ASSUME m \notin S
               PROVE  FALSE
    OBVIOUS
  <2>1. \A y \in S : y <= m - 1 /\ m - 1 \in Nat
    BY <1>3
  <2>2. m - 1 \in T
    BY <2>1
  <2> QED BY <2>2, <1>2, <1>3
<1>5. \E x \in S : \A y \in S : x >= y
  BY <1>3, <1>4
<1>6. Max(S) \in S /\ \A y \in S : Max(S) >= y
  BY <1>5, Zenon DEF Max
<1>7. Max(S) \in Nat
  BY <1>3, <1>6
<1> QED BY <1>3, <1>6, <1>7

-----------------------------------------------------------------------------
(* FlattenSeq: sequences, one after the other.                             *)

\* f[i] is the first i sequences of s, one after the other.
Flattens(s, n, f) == f = [i \in 1..n |-> IF i = 1 THEN s[i] ELSE f[i - 1] \o s[i]]

\* The first elements decide what the first partial results are.
LEMMA FlattenAgree ==
  \A s, t, f, g : \A m, n \in Nat :
    m <= n /\ Flattens(s, m, f) /\ Flattens(t, n, g) /\ (\A i \in 1..m : s[i] = t[i])
      => \A i \in 1..m : f[i] = g[i]
<1> SUFFICES ASSUME NEW s, NEW t, NEW f, NEW g, NEW m \in Nat, NEW n \in Nat, m <= n,
                    Flattens(s, m, f), Flattens(t, n, g), \A i \in 1..m : s[i] = t[i]
             PROVE  \A i \in 1..m : f[i] = g[i]
  OBVIOUS
<1> DEFINE T == {i \in 1..m : f[i] # g[i]}
<1>1. \A i \in 1..m : i \in 1..n
  OBVIOUS
<1>2. SUFFICES ASSUME T # {} PROVE FALSE
  OBVIOUS
<1>3. PICK k \in T : \A j \in T : k <= j
  <2>1. T \subseteq Nat
    OBVIOUS
  <2> QED BY <1>2, <2>1, LeastNatural
<1>4. k \in 1..m /\ k \in 1..n /\ f[k] # g[k]
  BY <1>1
<1>5. f[k] = IF k = 1 THEN s[k] ELSE f[k - 1] \o s[k]
  BY <1>4 DEF Flattens
<1>6. g[k] = IF k = 1 THEN t[k] ELSE g[k - 1] \o t[k]
  BY <1>4 DEF Flattens
<1>7. CASE k = 1
  BY <1>4, <1>5, <1>6, <1>7
<1>8. CASE k # 1
  <2>1. k - 1 \in 1..m /\ ~(k <= k - 1)
    BY <1>4, <1>8
  <2>2. f[k - 1] = g[k - 1]
    BY <1>3, <2>1
  <2>3. s[k] = t[k]
    BY <1>4
  <2> QED BY <1>4, <1>5, <1>6, <1>8, <2>2, <2>3, Zenon
<1> QED BY <1>7, <1>8

\* There are partial results, however long s is.
LEMMA FlattenExists ==
  ASSUME NEW s, NEW n \in Nat
  PROVE  \E f : Flattens(s, n, f)
<1> DEFINE T == {i \in Nat : ~ \E f : Flattens(s, i, f)}
<1>1. SUFFICES ASSUME T # {} PROVE FALSE
  OBVIOUS
<1>2. PICK m \in T : \A j \in T : m <= j
  <2>1. T \subseteq Nat
    OBVIOUS
  <2> QED BY <1>1, <2>1, LeastNatural
<1>3. m \in Nat /\ \A f : ~Flattens(s, m, f)
  OBVIOUS
<1>4. CASE m = 0
  <2> DEFINE e == [i \in 1..0 |-> 0]
  <2>1. Flattens(s, 0, e)
    BY DEF Flattens
  <2> QED BY <1>3, <1>4, <2>1
<1>5. CASE m # 0
  <2>1. m - 1 \in Nat /\ ~(m <= m - 1)
    BY <1>3, <1>5
  <2>2. PICK g : Flattens(s, m - 1, g)
    BY <1>2, <2>1
  <2> DEFINE last == IF m = 1 THEN s[m] ELSE g[m - 1] \o s[m]
             f == [i \in 1..m |-> IF i = m THEN last ELSE g[i]]
  <2>3. \A i \in 1..m - 1 : g[i] = IF i = 1 THEN s[i] ELSE g[i - 1] \o s[i]
    BY <2>2 DEF Flattens
  <2>4. ASSUME NEW i \in 1..m
        PROVE  f[i] = IF i = 1 THEN s[i] ELSE f[i - 1] \o s[i]
    <3>1. CASE i = m
      <4>1. f[i] = last
        BY <3>1
      <4>2. i # 1 => f[i - 1] = g[m - 1]
        <5>1. i # 1 => i - 1 \in 1..m /\ i - 1 # m /\ i - 1 = m - 1
          BY <1>3, <3>1
        <5> HIDE DEF last
        <5> QED BY <5>1
      <4> HIDE DEF f
      <4> QED BY <3>1, <4>1, <4>2
    <3>2. CASE i # m
      <4>1. i \in 1..m - 1
        BY <1>3, <3>2
      <4>2. f[i] = g[i]
        BY <3>2
      <4>3. i # 1 => f[i - 1] = g[i - 1]
        <5>1. i # 1 => i - 1 \in 1..m /\ i - 1 # m
          BY <1>3
        <5> HIDE DEF last
        <5> QED BY <5>1
      <4> HIDE DEF f
      <4> QED BY <2>3, <4>1, <4>2, <4>3
    <3> QED BY <3>1, <3>2
  <2>5. f = [i \in 1..m |-> f[i]]
    OBVIOUS
  <2> HIDE DEF f
  <2>6. Flattens(s, m, f)
    BY <2>4, <2>5 DEF Flattens
  <2> QED BY <1>3, <2>6
<1> QED BY <1>4, <1>5

\* What FlattenSeq chooses is the last of the partial results.
LEMMA FlattenIs ==
  ASSUME NEW s, Len(s) \in Nat, Len(s) # 0
  PROVE  \E f : Flattens(s, Len(s), f) /\ FlattenSeq(s) = f[Len(s)]
<1> DEFINE g == CHOOSE f : f = [i \in 1..Len(s) |-> IF i = 1 THEN s[i] ELSE f[i - 1] \o s[i]]
<1>1. PICK f : f = [i \in 1..Len(s) |-> IF i = 1 THEN s[i] ELSE f[i - 1] \o s[i]]
  BY FlattenExists DEF Flattens
<1>2. g = [i \in 1..Len(s) |-> IF i = 1 THEN s[i] ELSE g[i - 1] \o s[i]]
  BY <1>1, Zenon
<1>3. FlattenSeq(s) = g[Len(s)]
  BY Zenon DEF FlattenSeq
<1> QED BY <1>2, <1>3, Zenon DEF Flattens

\* Every partial result is a sequence of S.
LEMMA FlattenTyped ==
  ASSUME NEW S, NEW t \in Seq(Seq(S)), NEW n \in 0..Len(t), NEW f, Flattens(t, n, f)
  PROVE  \A i \in 1..n : f[i] \in Seq(S)
<1> DEFINE T == {i \in 1..n : f[i] \notin Seq(S)}
<1>1. SUFFICES ASSUME T # {} PROVE FALSE
  OBVIOUS
<1>2. Len(t) \in Nat /\ n \in Nat
  BY LenProperties
<1>3. PICK k \in T : \A j \in T : k <= j
  <2>1. T \subseteq Nat
    BY <1>2
  <2> QED BY <1>1, <2>1, LeastNatural
<1>4. k \in 1..n /\ f[k] \notin Seq(S)
  OBVIOUS
<1>5. f[k] = IF k = 1 THEN t[k] ELSE f[k - 1] \o t[k]
  BY <1>4 DEF Flattens
<1>6. t[k] \in Seq(S)
  <2>1. k \in 1..Len(t)
    BY <1>2, <1>4
  <2> QED BY <2>1, ElementOfSeq
<1>7. k # 1
  BY <1>4, <1>5, <1>6
<1>8. k - 1 \in 1..n /\ ~(k <= k - 1)
  BY <1>2, <1>4, <1>7
<1>9. f[k - 1] \in Seq(S)
  BY <1>3, <1>8
<1>10. f[k - 1] \o t[k] \in Seq(S)
  BY <1>6, <1>9, ConcatProperties
<1> QED BY <1>4, <1>5, <1>7, <1>10, Zenon

\* Sequences of S, one after the other, are a sequence of S.
LEMMA FlattenType ==
  ASSUME NEW S, NEW s \in Seq(Seq(S))
  PROVE  FlattenSeq(s) \in Seq(S)
<1>1. Len(s) \in Nat
  BY LenProperties
<1>2. CASE Len(s) = 0
  <2>1. FlattenSeq(s) = s
    BY <1>2, Zenon DEF FlattenSeq
  <2>2. s = <<>> /\ <<>> \in Seq(S)
    BY <1>2, EmptySeq
  <2> QED BY <2>1, <2>2, Zenon
<1>3. CASE Len(s) # 0
  <2>1. PICK f : Flattens(s, Len(s), f) /\ FlattenSeq(s) = f[Len(s)]
    BY <1>1, <1>3, FlattenIs
  <2>2. Len(s) \in 1..Len(s) /\ Len(s) \in 0..Len(s)
    BY <1>1, <1>3
  <2>3. f[Len(s)] \in Seq(S)
    BY <2>1, <2>2, FlattenTyped, Zenon
  <2> QED BY <2>1, <2>3, Zenon
<1> QED BY <1>2, <1>3

\* The step from one partial result to the next.
LEMMA FlattenOneMore ==
  ASSUME NEW s, NEW t, NEW a \in Nat, NEW b \in Nat, Len(s) = a, Len(t) = b,
         a # 0, b = a + 1, \A i \in 1..a : s[i] = t[i]
  PROVE  FlattenSeq(t) = FlattenSeq(s) \o t[b]
<1>1. b # 0
  OBVIOUS
<1>2. PICK f : Flattens(s, a, f) /\ FlattenSeq(s) = f[a]
  <2>1. \E h : Flattens(s, Len(s), h) /\ FlattenSeq(s) = h[Len(s)]
    BY FlattenIs, Zenon
  <2> QED BY <2>1
<1>3. PICK g : Flattens(t, b, g) /\ FlattenSeq(t) = g[b]
  <2>1. Len(t) \in Nat /\ Len(t) # 0
    BY <1>1
  <2>2. \E h : Flattens(t, Len(t), h) /\ FlattenSeq(t) = h[Len(t)]
    BY <2>1, FlattenIs, Zenon
  <2> QED BY <2>2
<1>4. f[a] = g[a]
  <2>1. Flattens(s, a, f) /\ Flattens(t, b, g)
    BY <1>2, <1>3, Zenon
  <2>2. a <= b /\ a \in 1..a
    OBVIOUS
  <2>3. \A i \in 1..a : f[i] = g[i]
    BY <2>1, <2>2, FlattenAgree
  <2> QED BY <2>2, <2>3, Zenon
<1>5. g[b] = IF b = 1 THEN t[b] ELSE g[b - 1] \o t[b]
  <2>1. g = [i \in 1..b |-> IF i = 1 THEN t[i] ELSE g[i - 1] \o t[i]]
    BY <1>3, Zenon DEF Flattens
  <2>2. b \in 1..b
    OBVIOUS
  <2> QED BY <2>1, <2>2, Zenon
<1>6. b # 1 /\ b - 1 = a
  OBVIOUS
<1> QED BY <1>2, <1>3, <1>4, <1>5, <1>6, Zenon

\* One sequence more: what it holds follows what the others hold.
LEMMA FlattenStep ==
  ASSUME NEW S, NEW s \in Seq(Seq(S)), NEW t \in Seq(Seq(S)),
         Len(t) = Len(s) + 1, \A i \in 1..Len(s) : t[i] = s[i]
  PROVE  FlattenSeq(t) = FlattenSeq(s) \o t[Len(t)]
<1>1. Len(s) \in Nat /\ Len(t) \in Nat /\ Len(t) # 0
  BY LenProperties
<1>2. PICK g : Flattens(t, Len(t), g) /\ FlattenSeq(t) = g[Len(t)]
  BY <1>1, FlattenIs
<1>3. Len(t) \in 1..Len(t) /\ t[Len(t)] \in Seq(S)
  <2>1. Len(t) \in 1..Len(t)
    BY <1>1
  <2> QED BY <2>1, ElementOfSeq
<1>4. g[Len(t)] = IF Len(t) = 1 THEN t[Len(t)] ELSE g[Len(t) - 1] \o t[Len(t)]
  BY <1>2, <1>3 DEF Flattens
<1>5. CASE Len(s) = 0
  <2>1. FlattenSeq(s) = s /\ s = <<>>
    <3>1. FlattenSeq(s) = s
      BY <1>5, Zenon DEF FlattenSeq
    <3> QED BY <1>5, <3>1, EmptySeq
  <2>2. <<>> \o t[Len(t)] = t[Len(t)]
    BY <1>3, ConcatEmptySeq
  <2>3. Len(t) = 1
    BY <1>5
  <2> QED BY <1>2, <1>4, <2>1, <2>2, <2>3, Zenon
<1>6. CASE Len(s) # 0
  <2>1. \A i \in 1..Len(s) : s[i] = t[i]
    OBVIOUS
  <2> QED BY <1>1, <1>6, <2>1, FlattenOneMore
<1> QED BY <1>5, <1>6

\* A sequence cut in two after its first n elements.
LEMMA SubSeqCut ==
  ASSUME NEW S, NEW s \in Seq(S), NEW n \in 0..Len(s)
  PROVE  /\ SubSeq(s, 1, n) \in Seq(S)
         /\ SubSeq(s, n + 1, Len(s)) \in Seq(S)
         /\ SubSeq(s, 1, n) \o SubSeq(s, n + 1, Len(s)) = s
<1>1. Len(s) \in Nat /\ n \in Nat
  BY LenProperties
<1>2. \A i \in 1..n : s[i] \in S
  BY <1>1, ElementOfSeq
<1>3. \A i \in n + 1..Len(s) : s[i] \in S
  BY <1>1, ElementOfSeq
<1>4. SubSeq(s, 1, n) \in Seq(S)
  BY <1>1, <1>2, SubSeqProperties
<1>5. SubSeq(s, n + 1, Len(s)) \in Seq(S)
  BY <1>1, <1>3, SubSeqProperties
<1>6. SubSeq(s, 1, n) \o SubSeq(s, n + 1, Len(s)) = SubSeq(s, 1, Len(s))
  <2>1. 1 \in 1..Len(s) + 1 /\ n \in (1 - 1)..Len(s) /\ Len(s) \in n..Len(s)
    BY <1>1
  <2>2. \A m \in 1..Len(s) + 1 : \A k \in m - 1..Len(s) : \A l \in k..Len(s) :
          SubSeq(s, m, k) \o SubSeq(s, k + 1, l) = SubSeq(s, m, l)
    BY ConcatAdjacentSubSeq
  <2> QED BY <2>1, <2>2, Zenon
<1>7. SubSeq(s, 1, Len(s)) = s
  BY SubSeqFull
<1> QED BY <1>4, <1>5, <1>6, <1>7, Zenon

\* The lesser of two naturals.
LEMMA MinOfTwo ==
  ASSUME NEW a \in Nat, NEW b \in Nat
  PROVE  Min({a, b}) \in Nat /\ Min({a, b}) <= a /\ Min({a, b}) <= b /\ Min({a, b}) \in {a, b}
<1>1. \E x \in {a, b} : \A y \in {a, b} : x =< y
  OBVIOUS
<1>2. Min({a, b}) \in {a, b} /\ \A y \in {a, b} : Min({a, b}) =< y
  BY <1>1, Zenon DEF Min
<1> QED BY <1>2

-----------------------------------------------------------------------------
(* Counting.                                                               *)

\* Where an element stands in a sequence.
Occurrences(o, s) == {k \in DOMAIN s : s[k] = o}

\* Sets between which there is a bijection have as many elements.
LEMMA SameSize ==
  ASSUME NEW S, NEW T, IsFiniteSet(S), NEW f \in [S -> T],
         \A x, y \in S : f[x] = f[y] => x = y, \A t \in T : \E x \in S : f[x] = t
  PROVE  IsFiniteSet(T) /\ Cardinality(T) = Cardinality(S)
<1>1. f \in Injection(S, T)
  BY DEF Injection, IsInjective
<1>2. f \in Surjection(S, T)
  BY DEF Surjection
<1>3. ExistsBijection(S, T)
  BY <1>1, <1>2 DEF ExistsBijection, Bijection
<1> QED BY <1>3, FS_Bijection

\* The places of an element in a sequence are finitely many.
LEMMA OccurrencesFinite ==
  ASSUME NEW S, NEW s \in Seq(S), NEW o
  PROVE  /\ IsFiniteSet(Occurrences(o, s)) /\ Occurrences(o, s) \subseteq 1..Len(s)
         /\ Cardinality(Occurrences(o, s)) \in Nat
<1>1. Len(s) \in Nat /\ DOMAIN s = 1..Len(s)
  BY LenProperties
<1>2. Occurrences(o, s) \subseteq 1..Len(s)
  BY <1>1 DEF Occurrences
<1>3. IsFiniteSet(1..Len(s))
  BY <1>1, FS_Interval
<1>4. IsFiniteSet(Occurrences(o, s))
  BY <1>2, <1>3, FS_Subset
<1> QED BY <1>2, <1>4, FS_CardinalityType

\* push_back: one place more for the element that is appended.
LEMMA OccurrencesAppend ==
  ASSUME NEW S, NEW s \in Seq(S), NEW n \in S, NEW o
  PROVE  Cardinality(Occurrences(o, Append(s, n))) = Cardinality(Occurrences(o, s)) + (IF n = o THEN 1 ELSE 0)
<1> DEFINE t == Append(s, n)
<1>1. /\ t \in Seq(S) /\ Len(t) = Len(s) + 1 /\ t[Len(s) + 1] = n
      /\ \A k \in 1..Len(s) : t[k] = s[k]
  BY AppendElements
<1>2. Len(s) \in Nat /\ DOMAIN s = 1..Len(s) /\ DOMAIN t = 1..Len(t)
  BY <1>1, LenProperties
<1> HIDE DEF t
<1>3. IsFiniteSet(Occurrences(o, s)) /\ Cardinality(Occurrences(o, s)) \in Nat /\ Occurrences(o, s) \subseteq 1..Len(s)
  BY OccurrencesFinite
<1>4. CASE n = o
  <2>1. Occurrences(o, t) = Occurrences(o, s) \cup {Len(s) + 1}
    BY <1>1, <1>2, <1>4 DEF Occurrences
  <2>2. Len(s) + 1 \notin Occurrences(o, s)
    BY <1>2, <1>3
  <2> QED BY <2>1, <2>2, <1>3, <1>4, FS_AddElement DEF t
<1>5. CASE n # o
  <2>1. Occurrences(o, t) = Occurrences(o, s)
    BY <1>1, <1>2, <1>5 DEF Occurrences
  <2> QED BY <2>1, <1>3, <1>5 DEF t
<1> QED BY <1>4, <1>5

\* Joining two sequences: an element stands in both as often as in each.
LEMMA OccurrencesConcat ==
  ASSUME NEW S, NEW s \in Seq(S), NEW t \in Seq(S), NEW o
  PROVE  Cardinality(Occurrences(o, s \o t)) = Cardinality(Occurrences(o, s)) + Cardinality(Occurrences(o, t))
<1> DEFINE u == s \o t
           P == Occurrences(o, s)
           Q == Occurrences(o, t)
           R == {Len(s) + k : k \in Q}
           f == [k \in Q |-> Len(s) + k]
<1>1. /\ u \in Seq(S) /\ Len(u) = Len(s) + Len(t)
      /\ \A k \in 1..Len(s) : u[k] = s[k]
      /\ \A k \in 1..Len(t) : u[Len(s) + k] = t[k]
  BY ConcatElements
<1>2. /\ Len(s) \in Nat /\ DOMAIN s = 1..Len(s) /\ DOMAIN u = 1..Len(u)
      /\ Len(t) \in Nat /\ DOMAIN t = 1..Len(t)
  BY <1>1, LenProperties
<1> HIDE DEF u
<1>3. /\ IsFiniteSet(P) /\ P \subseteq 1..Len(s) /\ Cardinality(Occurrences(o, s)) \in Nat
      /\ IsFiniteSet(Q) /\ Q \subseteq 1..Len(t) /\ Cardinality(Occurrences(o, t)) \in Nat
  BY OccurrencesFinite
<1>4. \A k \in 1..Len(u) : k \in 1..Len(s) \/ (k - Len(s) \in 1..Len(t) /\ k = Len(s) + (k - Len(s)))
  BY <1>1, <1>2
<1>5. \A k \in 1..Len(s) : k \in 1..Len(u)
  BY <1>1, <1>2
<1>6. \A k \in 1..Len(t) : Len(s) + k \in 1..Len(u)
  BY <1>1, <1>2
<1>7. \A k : k \in Occurrences(o, u) <=> k \in P \cup R
  <2>1. ASSUME NEW k \in Occurrences(o, u) PROVE k \in P \cup R
    <3>1. k \in 1..Len(u) /\ u[k] = o
      BY <1>2 DEF Occurrences
    <3>2. CASE k \in 1..Len(s)
      BY <3>1, <3>2, <1>1, <1>2 DEF Occurrences
    <3>3. CASE k - Len(s) \in 1..Len(t) /\ k = Len(s) + (k - Len(s))
      <4>1. t[k - Len(s)] = o
        BY <3>1, <3>3, <1>1
      <4>2. k - Len(s) \in Q
        BY <4>1, <3>3, <1>2 DEF Occurrences
      <4> QED BY <4>2, <3>3
    <3> QED BY <3>1, <3>2, <3>3, <1>4
  <2>2. ASSUME NEW k \in P PROVE k \in Occurrences(o, u)
    BY <1>1, <1>2, <1>5 DEF Occurrences
  <2>3. ASSUME NEW k \in Q PROVE Len(s) + k \in Occurrences(o, u)
    BY <1>1, <1>2, <1>6 DEF Occurrences
  <2> QED BY <2>1, <2>2, <2>3
<1>8. Occurrences(o, u) = P \cup R
  BY <1>7
<1>9. IsFiniteSet(R) /\ Cardinality(R) = Cardinality(Q)
  <2>1. f \in [Q -> R]
    OBVIOUS
  <2>2. \A x, y \in Q : f[x] = f[y] => x = y
    BY <1>2, <1>3
  <2>3. \A r \in R : \E x \in Q : f[x] = r
    OBVIOUS
  <2> HIDE DEF f, R, Q
  <2> QED BY <2>1, <2>2, <2>3, <1>3, SameSize
<1>10. P \cap R = {}
  BY <1>2, <1>3
<1> HIDE DEF P, Q, R
<1>11. Cardinality(P \cup R) = Cardinality(P) + Cardinality(R) - Cardinality({})
  BY <1>3, <1>9, <1>10, FS_Union
<1>12. Cardinality(P) \in Nat /\ Cardinality(R) \in Nat /\ Cardinality({}) = 0
  BY <1>3, <1>9, FS_CardinalityType, FS_EmptySet
<1>13. Cardinality(P \cup R) = Cardinality(P) + Cardinality(Q)
  BY <1>9, <1>11, <1>12
<1> QED BY <1>8, <1>13 DEF P, Q, u

\* The least of some numbers is one of them.
LEMMA MinOfNaturals ==
  ASSUME NEW S, S \subseteq Nat, S # {}
  PROVE  Min(S) \in S /\ \A y \in S : Min(S) <= y
<1>1. \E x \in S : \A y \in S : x <= y
  BY LeastNatural
<1> QED BY <1>1, Zenon DEF Min

\* Induction over the first numbers, for a set of them.
LEMMA UpTo ==
  ASSUME NEW n \in Nat, NEW T, 0 \in T, \A i \in 1..n : i - 1 \in T => i \in T
  PROVE  \A i \in 0..n : i \in T
<1> DEFINE F == {i \in 0..n : i \notin T}
<1> SUFFICES ASSUME F # {} PROVE FALSE
  OBVIOUS
<1>1. PICK m \in F : \A k \in F : m <= k
  <2>1. F \subseteq Nat
    OBVIOUS
  <2> QED BY <2>1, LeastNatural
<1>2. m \in 1..n /\ m - 1 \in 0..n /\ ~(m <= m - 1)
  BY <1>1
<1>3. m - 1 \in T
  BY <1>1, <1>2
<1> QED BY <1>1, <1>2, <1>3

\* What a step function makes of a first value in so many turns.
Iterates(base, g, n, f) == f = [i \in 0..n |-> IF i = 0 THEN base ELSE g[<<f[i - 1], i>>]]

\* There are such values, however many the turns.
LEMMA IterationExists ==
  ASSUME NEW base, NEW g, NEW n \in Nat
  PROVE  \E f : Iterates(base, g, n, f)
<1> DEFINE T == {i \in 0..n : \E f : Iterates(base, g, i, f)}
<1>1. 0 \in T
  <2> DEFINE e == [i \in 0..0 |-> base]
  <2>1. e = [i \in 0..0 |-> IF i = 0 THEN base ELSE g[<<e[i - 1], i>>]]
    OBVIOUS
  <2>2. Iterates(base, g, 0, e)
    BY <2>1, Zenon DEF Iterates
  <2> QED BY <2>2
<1>2. ASSUME NEW m \in 1..n, m - 1 \in T
      PROVE  m \in T
  <2>1. PICK h : Iterates(base, g, m - 1, h)
    BY <1>2
  <2>2. \A i \in 0..m - 1 : h[i] = IF i = 0 THEN base ELSE g[<<h[i - 1], i>>]
    BY <2>1 DEF Iterates
  <2> DEFINE next == g[<<h[m - 1], m>>]
             f == [i \in 0..m |-> IF i = m THEN next ELSE h[i]]
  <2>3. ASSUME NEW i \in 0..m
        PROVE  f[i] = IF i = 0 THEN base ELSE g[<<f[i - 1], i>>]
    <3>1. i # 0 => i - 1 \in 0..m /\ i - 1 # m
      OBVIOUS
    <3> HIDE DEF next
    <3>2. i # 0 => f[i - 1] = h[i - 1]
      BY <3>1
    <3>3. CASE i = m
      <4>1. f[i] = next /\ i # 0
        BY <3>3
      <4> HIDE DEF f
      <4> QED BY <3>2, <3>3, <4>1 DEF next
    <3>4. CASE i # m
      <4>1. f[i] = h[i] /\ i \in 0..m - 1
        BY <3>4
      <4> HIDE DEF f
      <4> QED BY <2>2, <3>2, <4>1
    <3> QED BY <3>3, <3>4
  <2>4. f = [i \in 0..m |-> f[i]]
    OBVIOUS
  <2> HIDE DEF f
  <2>5. Iterates(base, g, m, f)
    BY <2>3, <2>4 DEF Iterates
  <2> QED BY <2>5
<1>3. n \in T
  <2> HIDE DEF T
  <2> QED BY <1>1, <1>2, UpTo
<1> QED BY <1>3

\* They are all of the state the step function keeps.
LEMMA IterationTyped ==
  ASSUME NEW S, NEW base \in S, NEW n \in Nat, NEW g \in [S \X (1..n) -> S], NEW f,
         Iterates(base, g, n, f)
  PROVE  f \in [0..n -> S]
<1> DEFINE T == {i \in 0..n : f[i] \in S}
<1>1. \A i \in 0..n : f[i] = IF i = 0 THEN base ELSE g[<<f[i - 1], i>>]
  BY DEF Iterates
<1>2. 0 \in T
  <2>1. 0 \in 0..n
    OBVIOUS
  <2>2. f[0] = base
    BY <1>1, <2>1
  <2> QED BY <2>1, <2>2
<1>3. ASSUME NEW i \in 1..n, i - 1 \in T
      PROVE  i \in T
  <2>1. f[i - 1] \in S /\ i \in 0..n /\ i # 0
    BY <1>3
  <2>2. <<f[i - 1], i>> \in S \X (1..n)
    BY <2>1
  <2>3. f[i] = g[<<f[i - 1], i>>]
    BY <1>1, <2>1
  <2>4. f[i] \in S
    BY <2>2, <2>3
  <2> QED BY <2>1, <2>4
<1>4. \A i \in 0..n : i \in T
  <2> HIDE DEF T
  <2> QED BY <1>2, <1>3, UpTo
<1>5. \A i \in 0..n : f[i] \in S
  BY <1>4
<1>6. f = [i \in 0..n |-> f[i]]
  BY Zenon DEF Iterates
<1> QED BY <1>5, <1>6

\* A sequence turned round: what is put in front is appended, and what is erased
\* is erased.
LEMMA ReverseElements ==
  ASSUME NEW S, NEW s \in Seq(S)
  PROVE  /\ Reverse(s) \in Seq(S) /\ Len(Reverse(s)) = Len(s)
         /\ \A k \in 1..Len(s) : Reverse(s)[k] = s[Len(s) + 1 - k]
         /\ ToSet(Reverse(s)) = ToSet(s)
<1> DEFINE r == Reverse(s)
<1>1. Len(s) \in Nat /\ \A k \in 1..Len(s) : s[k] \in S
  BY LenProperties, ElementOfSeq
<1>2. \A k \in 1..Len(s) : Len(s) + 1 - k \in 1..Len(s) /\ Len(s) + 1 - (Len(s) + 1 - k) = k
                           /\ Len(s) - k + 1 = Len(s) + 1 - k
  BY <1>1
<1>3. r = [k \in 1..Len(s) |-> s[Len(s) + 1 - k]]
  BY <1>2 DEF Reverse
<1>4. r \in [1..Len(s) -> S]
  BY <1>1, <1>2, <1>3
<1>5. r \in Seq(S) /\ Len(r) = Len(s)
  BY <1>1, <1>4, FunctionIsSeq
<1>6. \A k \in 1..Len(s) : r[k] = s[Len(s) + 1 - k]
  BY <1>3
<1> HIDE DEF r
<1>7. \A e : e \in ToSet(r) <=> e \in ToSet(s)
  <2> TAKE e
  <2>1. e \in ToSet(r) <=> \E k \in 1..Len(r) : r[k] = e
    BY <1>5, ToSetMember
  <2>2. e \in ToSet(s) <=> \E k \in 1..Len(s) : s[k] = e
    BY ToSetMember
  <2>3. \A k \in 1..Len(s) : s[k] = r[Len(s) + 1 - k]
    BY <1>2, <1>6
  <2> QED BY <2>1, <2>2, <2>3, <1>2, <1>5, <1>6
<1> QED BY <1>5, <1>6, <1>7 DEF r

LEMMA FrontOfReverse ==
  ASSUME NEW S, NEW s \in Seq(S), NEW n \in S
  PROVE  <<n>> \o Reverse(s) = Reverse(Append(s, n))
<1>1. /\ Append(s, n) \in Seq(S) /\ Len(Append(s, n)) = Len(s) + 1 /\ Append(s, n)[Len(s) + 1] = n
      /\ \A k \in 1..Len(s) : Append(s, n)[k] = s[k]
  BY AppendElements
<1>2. Reverse(s) \in Seq(S) /\ Len(Reverse(s)) = Len(s) /\ \A k \in 1..Len(s) : Reverse(s)[k] = s[Len(s) + 1 - k]
  BY ReverseElements
<1>3. PICK a : a = Append(s, n)
  OBVIOUS
<1>4. /\ Reverse(a) \in Seq(S) /\ Len(Reverse(a)) = Len(s) + 1
      /\ \A k \in 1..Len(s) + 1 : Reverse(a)[k] = a[Len(s) + 2 - k]
  <2>1. /\ Reverse(a) \in Seq(S) /\ Len(Reverse(a)) = Len(a)
        /\ \A k \in 1..Len(a) : Reverse(a)[k] = a[Len(a) + 1 - k]
    BY <1>1, <1>3, ReverseElements
  <2> QED BY <1>1, <1>3, <2>1, LenProperties
<1>5. PICK h : h = <<n>> /\ h \in Seq(S) /\ Len(h) = 1 /\ h[1] = n
  <2>1. <<n>> \in Seq(S) /\ Len(<<n>>) = 1 /\ <<n>>[1] = n
    OBVIOUS
  <2> QED BY <2>1
<1>6. PICK r : r = Reverse(s)
  OBVIOUS
<1>7. /\ h \o r \in Seq(S) /\ Len(h \o r) = Len(h) + Len(r)
      /\ \A k \in 1..Len(h) : (h \o r)[k] = h[k]
      /\ \A k \in 1..Len(r) : (h \o r)[Len(h) + k] = r[k]
  BY <1>2, <1>5, <1>6, ConcatElements
<1>8. Len(s) \in Nat
  BY LenProperties
<1>9. ASSUME NEW k \in 1..Len(s) + 1
      PROVE  (h \o r)[k] = Reverse(a)[k]
  <2>1. CASE k = 1
    <3>1. (h \o r)[k] = n
      BY <1>5, <1>7, <2>1
    <3>2. Reverse(a)[k] = a[Len(s) + 1]
      BY <1>4, <1>8, <2>1
    <3> QED BY <3>1, <3>2, <1>1, <1>3
  <2>2. CASE k # 1
    <3>1. k - 1 \in 1..Len(s) /\ 1 + (k - 1) = k /\ Len(s) + 1 - (k - 1) = Len(s) + 2 - k
          /\ Len(s) + 2 - k \in 1..Len(s)
      BY <1>8, <2>2
    <3>2. (h \o r)[k] = r[k - 1]
      BY <1>2, <1>5, <1>6, <1>7, <3>1
    <3>3. r[k - 1] = s[Len(s) + 2 - k]
      BY <1>2, <1>6, <3>1
    <3>4. Reverse(a)[k] = a[Len(s) + 2 - k]
      BY <1>4
    <3> QED BY <1>1, <1>3, <3>1, <3>2, <3>3, <3>4
  <2> QED BY <2>1, <2>2
<1>10. h \o r = Reverse(a)
  <2>1. Len(h \o r) = Len(s) + 1
    BY <1>2, <1>5, <1>6, <1>7, <1>8
  <2> QED BY <1>4, <1>7, <1>9, <2>1, SeqEqual
<1> QED BY <1>3, <1>5, <1>6, <1>10

LEMMA RemoveFromReverse ==
  ASSUME NEW S, NEW s \in Seq(S), NEW c \in 1..Len(s)
  PROVE  RemoveAt(Reverse(s), Len(s) + 1 - c) = Reverse(RemoveAt(s, c))
<1>1. Len(s) \in Nat
  BY LenProperties
<1>2. PICK d : d = Len(s) + 1 - c
  OBVIOUS
<1>3. d \in 1..Len(s)
  BY <1>1, <1>2
<1>4. PICK r : r = Reverse(s)
  OBVIOUS
<1>5. r \in Seq(S) /\ Len(r) = Len(s) /\ \A k \in 1..Len(s) : r[k] = s[Len(s) + 1 - k]
  BY <1>4, ReverseElements
<1>6. PICK t : t = RemoveAt(s, c)
  OBVIOUS
<1>7. /\ t \in Seq(S) /\ Len(t) = Len(s) - 1
      /\ \A k \in 1..Len(s) - 1 : t[k] = IF k < c THEN s[k] ELSE s[k + 1]
  BY <1>6, RemoveElements
<1>8. PICK u : u = RemoveAt(r, d)
  OBVIOUS
<1>9. /\ u \in Seq(S) /\ Len(u) = Len(s) - 1
      /\ \A k \in 1..Len(s) - 1 : u[k] = IF k < d THEN r[k] ELSE r[k + 1]
  <2>1. d \in 1..Len(r)
    BY <1>3, <1>5
  <2>2. /\ RemoveAt(r, d) \in Seq(S) /\ Len(RemoveAt(r, d)) = Len(r) - 1
        /\ \A k \in 1..Len(r) - 1 : RemoveAt(r, d)[k] = IF k < d THEN r[k] ELSE r[k + 1]
    BY <1>5, <2>1, RemoveElements
  <2> QED BY <1>5, <1>8, <2>2
<1>10. /\ Reverse(t) \in Seq(S) /\ Len(Reverse(t)) = Len(s) - 1
       /\ \A k \in 1..Len(s) - 1 : Reverse(t)[k] = t[Len(s) - k]
  <2>1. /\ Reverse(t) \in Seq(S) /\ Len(Reverse(t)) = Len(t)
        /\ \A k \in 1..Len(t) : Reverse(t)[k] = t[Len(t) + 1 - k]
    BY <1>7, ReverseElements
  <2>2. \A k \in 1..Len(s) - 1 : Len(s) - 1 + 1 - k = Len(s) - k
    BY <1>1
  <2> QED BY <1>7, <2>1, <2>2
<1>11. ASSUME NEW k \in 1..Len(s) - 1
       PROVE  u[k] = Reverse(t)[k]
  <2>1. /\ Len(s) - k \in 1..Len(s) - 1 /\ k \in 1..Len(s) /\ k + 1 \in 1..Len(s)
        /\ Len(s) + 1 - (k + 1) = Len(s) - k /\ (Len(s) - k) + 1 = Len(s) + 1 - k
        /\ (k < d <=> ~(Len(s) - k < c))
    BY <1>1, <1>2
  <2>2. t[Len(s) - k] = IF Len(s) - k < c THEN s[Len(s) - k] ELSE s[Len(s) + 1 - k]
    BY <1>7, <2>1
  <2>3. r[k] = s[Len(s) + 1 - k] /\ r[k + 1] = s[Len(s) - k]
    BY <1>5, <2>1
  <2> QED BY <1>9, <1>10, <2>1, <2>2, <2>3
<1>12. u = Reverse(t)
  BY <1>9, <1>10, <1>11, SeqEqual
<1> QED BY <1>2, <1>4, <1>6, <1>8, <1>12

\* The place of an element that stands in a sequence once.
LEMMA FirstPlace ==
  ASSUME NEW S, NEW s \in Seq(S), NEW e
  PROVE  /\ (\A k \in 1..Len(s) : s[k] # e) => RemoveFirst(s, e) = s
         /\ Distinct(s) => \A c \in 1..Len(s) : s[c] = e => RemoveFirst(s, e) = RemoveAt(s, c)
<1>1. (\A k \in 1..Len(s) : s[k] # e) => RemoveFirst(s, e) = s
  BY DEF RemoveFirst
<1>2. ASSUME Distinct(s), NEW c \in 1..Len(s), s[c] = e
      PROVE  RemoveFirst(s, e) = RemoveAt(s, c)
  <2> DEFINE I == {i \in 1..Len(s) : s[i] = e}
  <2>1. I = {c}
    BY <1>2 DEF Distinct
  <2>2. Min(I) = c
    <3>1. I \subseteq Nat /\ I # {}
      BY <2>1
    <3> HIDE DEF I
    <3> QED BY <2>1, <3>1, MinOfNaturals
  <2>3. SelectInSeq(s, LAMBDA v : v = e) = Min(I)
    BY <2>1 DEF SelectInSeq
  <2>4. RemoveFirst(s, e) = RemoveAt(s, SelectInSeq(s, LAMBDA v : v = e))
    BY <1>2 DEF RemoveFirst
  <2> QED BY <2>2, <2>3, <2>4
<1> QED BY <1>1, <1>2

\* A number of distinct places is left distinct by a place that is not among them.
LEMMA AppendDistinct ==
  ASSUME NEW S, NEW s \in Seq(S), NEW n \in S, Distinct(s), n \notin ToSet(s)
  PROVE  Distinct(Append(s, n))
<1>1. /\ Append(s, n) \in Seq(S) /\ Len(Append(s, n)) = Len(s) + 1 /\ Append(s, n)[Len(s) + 1] = n
      /\ \A k \in 1..Len(s) : Append(s, n)[k] = s[k]
  BY AppendElements
<1>2. Len(s) \in Nat /\ \A k \in 1..Len(s) : s[k] # n
  BY LenProperties, ToSetMember
<1> QED BY <1>1, <1>2 DEF Distinct
=============================================================================

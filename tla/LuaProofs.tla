----------------------------- MODULE LuaProofs ------------------------------
(***************************************************************************)
(* Theorems of Lua, for any number of scripts, events, requests and walks  *)
(* within walks: what was cleared or ended is never called again, and an   *)
(* entry stays in the vectors until it is done.                            *)
(*                                                                         *)
(* Tasks and listeners are held in the same way, in a vector and a vector  *)
(* of new entries per context.  The first part is about such a pair.       *)
(***************************************************************************)
EXTENDS Lua, SequenceLemmas

Lists == [Context -> Seq(Nat)]

Both(L, N, c) == ToSet(L[c]) \cup ToSet(N[c])
Held(L, N) == UNION {Both(L, N, c) : c \in Context}

\* No entry stands in two places.
OnePlace(L, N) ==
  \A c \in Context :
    /\ Distinct(L[c]) /\ Distinct(N[c])
    /\ ToSet(L[c]) \cap ToSet(N[c]) = {}
    /\ \A d \in Context : d # c => Both(L, N, c) \cap Both(L, N, d) = {}

\* What add, merge_callbacks and erase do to a pair of vectors.
Pushed(N, c, id) == [N EXCEPT ![c] = Append(@, id)]
Joined(L, N, c)  == [L EXCEPT ![c] = @ \o N[c]]
Emptied(N, c)    == [N EXCEPT ![c] = <<>>]
Erased(L, c, k)  == [L EXCEPT ![c] = RemoveAt(@, k)]

LEMMA HeldWhere ==
  \A L, N : \A e : e \in Held(L, N) <=> \E c \in Context : e \in Both(L, N, c)
BY DEF Held

\* The empty sequence has no element.
LEMMA NoElements ==
  <<>> \in Seq(Nat) /\ Len(<<>>) = 0 /\ ToSet(<<>>) = {} /\ Distinct(<<>>)
<1>1. <<>> \in Seq(Nat) /\ Len(<<>>) = 0
  OBVIOUS
<1>2. ToSet(<<>>) = {}
  BY DEF ToSet
<1> QED
  BY <1>1, <1>2 DEF Distinct

\* Appending a new element, joining two disjoint sequences.
LEMMA PushDistinct ==
  ASSUME NEW s \in Seq(Nat), NEW id \in Nat, Distinct(s), id \notin ToSet(s)
  PROVE  Distinct(Append(s, id))
<1>1. /\ Len(Append(s, id)) = Len(s) + 1 /\ Append(s, id)[Len(s) + 1] = id
      /\ \A k \in 1..Len(s) : Append(s, id)[k] = s[k]
  BY AppendElements
<1>2. Len(s) \in Nat /\ \A k \in 1..Len(s) : s[k] # id
  BY ToSetMember
<1> QED
  BY <1>1, <1>2 DEF Distinct

LEMMA JoinDistinct ==
  ASSUME NEW s \in Seq(Nat), NEW t \in Seq(Nat), Distinct(s), Distinct(t),
         ToSet(s) \cap ToSet(t) = {}
  PROVE  Distinct(s \o t)
<1> DEFINE u == s \o t
<1>1. /\ Len(u) = Len(s) + Len(t)
      /\ \A k \in 1..Len(s) : u[k] = s[k] /\ s[k] \in ToSet(s)
      /\ \A k \in 1..Len(t) : u[Len(s) + k] = t[k] /\ t[k] \in ToSet(t)
  BY ConcatElements, ToSetMember
<1>2. Len(s) \in Nat /\ Len(t) \in Nat
  BY LenProperties
<1> HIDE DEF u
<1>3. ASSUME NEW j \in 1..Len(u)
      PROVE  \/ j \in 1..Len(s) /\ u[j] = s[j] /\ u[j] \in ToSet(s)
             \/ j - Len(s) \in 1..Len(t) /\ u[j] = t[j - Len(s)] /\ u[j] \in ToSet(t)
  <2>1. CASE j <= Len(s)
    BY <1>1, <1>2, <2>1
  <2>2. CASE j > Len(s)
    <3>1. j - Len(s) \in 1..Len(t) /\ j = Len(s) + (j - Len(s))
      BY <1>1, <1>2, <2>2
    <3> QED
      BY <1>1, <3>1
  <2> QED
    BY <1>2, <2>1, <2>2
<1>4. ASSUME NEW j \in 1..Len(u), NEW k \in 1..Len(u), u[j] = u[k]
      PROVE  j = k
  <2>1. CASE u[j] \in ToSet(s)
    BY <1>3, <1>4, <2>1 DEF Distinct
  <2>2. CASE u[j] \in ToSet(t)
    <3>1. j - Len(s) \in 1..Len(t) /\ k - Len(s) \in 1..Len(t)
            /\ t[j - Len(s)] = t[k - Len(s)]
      BY <1>3, <1>4, <2>2
    <3>2. j - Len(s) = k - Len(s)
      BY <3>1 DEF Distinct
    <3> QED
      BY <3>2, <1>2
  <2> QED
    BY <1>3, <2>1, <2>2
<1> QED
  BY <1>4 DEF u, Distinct

\* A vector that changes in one context, elements in one place.
LEMMA OneContext ==
  ASSUME NEW L \in Lists, NEW N \in Lists, NEW c \in Context, OnePlace(L, N),
         NEW L2 \in Lists, NEW N2 \in Lists,
         \A d \in Context : d # c => L2[d] = L[d] /\ N2[d] = N[d],
         Distinct(L2[c]), Distinct(N2[c]), ToSet(L2[c]) \cap ToSet(N2[c]) = {},
         \A e \in Both(L2, N2, c) : e \in Both(L, N, c) \/ e \notin Held(L, N)
  PROVE  OnePlace(L2, N2)
<1>1. \A d \in Context : d # c => Both(L2, N2, d) = Both(L, N, d)
  BY DEF Both
<1>2. \A d \in Context : Both(L, N, d) \subseteq Held(L, N)
  BY DEF Held
<1> SUFFICES ASSUME NEW a \in Context
             PROVE  /\ Distinct(L2[a]) /\ Distinct(N2[a])
                    /\ ToSet(L2[a]) \cap ToSet(N2[a]) = {}
                    /\ \A d \in Context : d # a => Both(L2, N2, a) \cap Both(L2, N2, d) = {}
  BY DEF OnePlace
<1>3. /\ Distinct(L2[a]) /\ Distinct(N2[a])
      /\ ToSet(L2[a]) \cap ToSet(N2[a]) = {}
  <2>1. CASE a = c
    BY <2>1
  <2>2. CASE a # c
    <3>1. L2[a] = L[a] /\ N2[a] = N[a]
      BY <2>2
    <3> QED
      BY <3>1 DEF OnePlace
  <2> QED
    BY <2>1, <2>2
<1>4. ASSUME NEW d \in Context, d # a
      PROVE  Both(L2, N2, a) \cap Both(L2, N2, d) = {}
  <2>1. Both(L, N, a) \cap Both(L, N, d) = {}
    BY <1>4 DEF OnePlace
  <2> QED
    BY <1>1, <1>2, <1>4, <2>1
<1> QED
  BY <1>3, <1>4

\* add: the new entry joins those held.
LEMMA Pushing ==
  ASSUME NEW L \in Lists, NEW N \in Lists, NEW c \in Context, NEW id \in Nat,
         OnePlace(L, N), id \notin Held(L, N)
  PROVE  /\ Pushed(N, c, id) \in Lists
         /\ OnePlace(L, Pushed(N, c, id))
         /\ Held(L, Pushed(N, c, id)) = Held(L, N) \cup {id}
<1> DEFINE P == Pushed(N, c, id)
<1>1. /\ L[c] \in Seq(Nat) /\ N[c] \in Seq(Nat) /\ P[c] = Append(N[c], id)
      /\ \A d \in Context : d # c => P[d] = N[d]
  BY DEF Lists, Pushed
<1>2. P[c] \in Seq(Nat) /\ ToSet(P[c]) = ToSet(N[c]) \cup {id}
  BY <1>1, AppendElements
<1>3. P \in Lists
  BY <1>1, <1>2 DEF Lists, Pushed
<1>4. id \notin ToSet(L[c]) /\ id \notin ToSet(N[c])
  BY DEF Held, Both
<1>5. Distinct(L[c]) /\ Distinct(N[c]) /\ ToSet(L[c]) \cap ToSet(N[c]) = {}
  BY DEF OnePlace
<1>6. Distinct(P[c]) /\ ToSet(L[c]) \cap ToSet(P[c]) = {}
  BY <1>1, <1>2, <1>4, <1>5, PushDistinct
<1> HIDE DEF P
<1>7. Both(L, P, c) = Both(L, N, c) \cup {id}
  BY <1>2 DEF Both
<1>8. OnePlace(L, P)
  <2>1. \A e \in Both(L, P, c) : e \in Both(L, N, c) \/ e \notin Held(L, N)
    BY <1>7
  <2>2. \A d \in Context : d # c => L[d] = L[d] /\ P[d] = N[d]
    BY <1>1
  <2> QED
    BY <1>3, <1>5, <1>6, <2>1, <2>2, OneContext
<1>9. Held(L, P) = Held(L, N) \cup {id}
  <2>1. \A d \in Context : d # c => Both(L, P, d) = Both(L, N, d)
    BY <1>1 DEF Both
  <2> QED
    BY <1>7, <2>1, HeldWhere
<1> QED
  BY <1>3, <1>8, <1>9 DEF P

\* merge_callbacks: what was held is held, and old places stay.
LEMMA Joining ==
  ASSUME NEW L \in Lists, NEW N \in Lists, NEW c \in Context, OnePlace(L, N)
  PROVE  /\ Joined(L, N, c) \in Lists /\ Emptied(N, c) \in Lists
         /\ OnePlace(Joined(L, N, c), Emptied(N, c))
         /\ Held(Joined(L, N, c), Emptied(N, c)) = Held(L, N)
         /\ N[c] = <<>> => Joined(L, N, c) = L
         /\ \A d \in Context : d # c => Joined(L, N, c)[d] = L[d]
<1> DEFINE J == Joined(L, N, c)
           E == Emptied(N, c)
<1>1. /\ L[c] \in Seq(Nat) /\ N[c] \in Seq(Nat) /\ J[c] = L[c] \o N[c] /\ E[c] = <<>>
      /\ \A d \in Context : d # c => J[d] = L[d] /\ E[d] = N[d]
  BY DEF Lists, Joined, Emptied
<1>2. /\ J[c] \in Seq(Nat) /\ ToSet(J[c]) = ToSet(L[c]) \cup ToSet(N[c])
      /\ E[c] \in Seq(Nat) /\ ToSet(E[c]) = {} /\ Distinct(E[c])
  BY <1>1, ConcatElements, NoElements
<1>3. J \in Lists /\ E \in Lists
  BY <1>1, <1>2 DEF Lists, Joined, Emptied
<1>4. Distinct(L[c]) /\ Distinct(N[c]) /\ ToSet(L[c]) \cap ToSet(N[c]) = {}
  BY DEF OnePlace
<1>5. Distinct(J[c])
  BY <1>1, <1>4, JoinDistinct
<1>6. N[c] = <<>> => J = L
  <2> SUFFICES ASSUME N[c] = <<>> PROVE J = L
    OBVIOUS
  <2>1. J[c] = L[c]
    BY <1>1, ConcatEmptySeq
  <2> QED
    BY <1>1, <1>3, <2>1 DEF Lists
<1> HIDE DEF J, E
<1>7. Both(J, E, c) = Both(L, N, c)
  BY <1>2 DEF Both
<1>8. OnePlace(J, E)
  <2>1. \A e \in Both(J, E, c) : e \in Both(L, N, c) \/ e \notin Held(L, N)
    BY <1>7
  <2>2. ToSet(J[c]) \cap ToSet(E[c]) = {}
    BY <1>2
  <2>3. \A d \in Context : d # c => J[d] = L[d] /\ E[d] = N[d]
    BY <1>1
  <2> QED
    BY <1>2, <1>3, <1>5, <2>1, <2>2, <2>3, OneContext
<1>9. Held(J, E) = Held(L, N)
  <2>1. \A d \in Context : Both(J, E, d) = Both(L, N, d)
    BY <1>1, <1>7 DEF Both
  <2>2. \A e : e \in Held(J, E) <=> e \in Held(L, N)
    BY <2>1, HeldWhere, Zenon
  <2> QED
    BY <2>2
<1> QED
  BY <1>1, <1>3, <1>6, <1>8, <1>9 DEF J, E

\* erase: one entry is held no more.
LEMMA Erasing ==
  ASSUME NEW L \in Lists, NEW N \in Lists, NEW c \in Context, OnePlace(L, N),
         NEW k \in 1..Len(L[c])
  PROVE  /\ Erased(L, c, k) \in Lists
         /\ OnePlace(Erased(L, c, k), N)
         /\ Held(Erased(L, c, k), N) = Held(L, N) \ {L[c][k]}
         /\ L[c][k] \in Held(L, N)
         /\ \A d \in Context : d # c => Erased(L, c, k)[d] = L[d]
<1> DEFINE E == Erased(L, c, k)
<1>1. /\ L[c] \in Seq(Nat) /\ N[c] \in Seq(Nat) /\ E[c] = RemoveAt(L[c], k)
      /\ \A d \in Context : d # c => E[d] = L[d]
  BY DEF Lists, Erased
<1>2. Distinct(L[c]) /\ Distinct(N[c]) /\ ToSet(L[c]) \cap ToSet(N[c]) = {}
  BY DEF OnePlace
<1>3. /\ E[c] \in Seq(Nat) /\ ToSet(E[c]) \subseteq ToSet(L[c])
      /\ \A e \in ToSet(L[c]) : e = L[c][k] \/ e \in ToSet(E[c])
      /\ Distinct(E[c]) /\ L[c][k] \notin ToSet(E[c])
  BY <1>1, <1>2, RemoveElements, RemoveDistinct
<1>4. L[c][k] \in ToSet(L[c])
  BY <1>1, ToSetMember
<1>5. E \in Lists
  BY <1>1, <1>3 DEF Lists, Erased
<1> HIDE DEF E
<1>6. Both(E, N, c) = Both(L, N, c) \ {L[c][k]}
  BY <1>2, <1>3, <1>4 DEF Both
<1>7. OnePlace(E, N)
  <2>1. \A e \in Both(E, N, c) : e \in Both(L, N, c) \/ e \notin Held(L, N)
    BY <1>6
  <2>2. ToSet(E[c]) \cap ToSet(N[c]) = {}
    BY <1>2, <1>3
  <2>3. \A d \in Context : d # c => E[d] = L[d] /\ N[d] = N[d]
    BY <1>1
  <2> QED
    BY <1>2, <1>3, <1>5, <2>1, <2>2, <2>3, OneContext
<1>8. L[c][k] \in Both(L, N, c)
  BY <1>4 DEF Both
<1>9. Held(E, N) = Held(L, N) \ {L[c][k]}
  <2>1. \A d \in Context : d # c => Both(E, N, d) = Both(L, N, d)
    BY <1>1 DEF Both
  <2>2. \A d \in Context : d # c => L[c][k] \notin Both(L, N, d)
    BY <1>8 DEF OnePlace
  <2> QED
    BY <1>6, <2>1, <2>2, HeldWhere
<1>10. L[c][k] \in Held(L, N)
  BY <1>8 DEF Held
<1> QED
  BY <1>1, <1>5, <1>7, <1>9, <1>10 DEF E

-----------------------------------------------------------------------------
(* The stack of walks.                                                     *)

WalkRecord ==
  [op : {"frame", "notify", "load"}, context : Context, event : Event,
   at : Nat \ {0}, calling : BOOLEAN]

\* Only dispatches are walks within walks, and only where a script runs.
Stacked(st) ==
  \A k \in 1..Len(st) :
    /\ st[k].op # "notify" => k = 1
    /\ k < Len(st) => st[k].op = "load" \/ st[k].calling
    /\ st[k].op = "load" => ~st[k].calling

\* The walks of a kind whose callback runs.
Calls(op, st) == {k \in 1..Len(st) : st[k].op = op /\ st[k].calling}

\* The callbacks under way stay under way, and no other starts.
SameCalls(op, st, st2) ==
  /\ Calls(op, st2) = Calls(op, st)
  /\ \A k \in Calls(op, st) : st2[k] = st[k]

\* The innermost walk begins, changes, or ends.
LEMMA PushWalk ==
  ASSUME NEW st \in Seq(WalkRecord), NEW w \in WalkRecord
  PROVE  /\ Append(st, w) \in Seq(WalkRecord) /\ Len(Append(st, w)) = Len(st) + 1
         /\ Append(st, w)[Len(st) + 1] = w
         /\ \A k \in 1..Len(st) : Append(st, w)[k] = st[k]
BY AppendElements

LEMMA PopWalk ==
  ASSUME NEW st \in Seq(WalkRecord), st # <<>>
  PROVE  /\ Front(st) \in Seq(WalkRecord) /\ Len(Front(st)) = Len(st) - 1
         /\ \A k \in 1..Len(st) - 1 : Front(st)[k] = st[k]
         /\ Len(st) \in Nat \ {0} /\ Last(st) = st[Len(st)] /\ Last(st) \in WalkRecord
<1>1. Len(st) \in Nat \ {0}
  BY LenProperties, EmptySeq
<1>2. Front(st) = [k \in 1..Len(st) - 1 |-> st[k]]
  BY <1>1 DEF Front
<1>3. [k \in 1..Len(st) - 1 |-> st[k]] \in [1..Len(st) - 1 -> WalkRecord]
  BY <1>1
<1>4. Len(st) - 1 \in Nat
  BY <1>1
<1>5. Front(st) \in Seq(WalkRecord) /\ Len(Front(st)) = Len(st) - 1
  BY <1>2, <1>3, <1>4, FunctionIsSeq
<1>6. Last(st) = st[Len(st)] /\ Last(st) \in WalkRecord
  BY <1>1 DEF Last
<1> QED
  BY <1>1, <1>2, <1>5, <1>6

LEMMA ChangeWalk ==
  ASSUME NEW st \in Seq(WalkRecord), st # <<>>, NEW w \in WalkRecord
  PROVE  /\ Front(st) \o <<w>> = Append(Front(st), w)
         /\ Front(st) \o <<w>> \in Seq(WalkRecord)
         /\ Len(Front(st) \o <<w>>) = Len(st)
         /\ (Front(st) \o <<w>>)[Len(st)] = w
         /\ \A k \in 1..Len(st) - 1 : (Front(st) \o <<w>>)[k] = st[k]
<1>1. /\ Front(st) \in Seq(WalkRecord) /\ Len(Front(st)) = Len(st) - 1
      /\ \A k \in 1..Len(st) - 1 : Front(st)[k] = st[k]
      /\ Len(st) \in Nat \ {0}
  BY PopWalk
<1>2. Front(st) \o <<w>> = Append(Front(st), w)
  BY <1>1, AppendIsConcat
<1>3. Len(Front(st)) + 1 = Len(st)
  BY <1>1
<1> QED
  BY <1>1, <1>2, <1>3, PushWalk

-----------------------------------------------------------------------------
(* What holds of a pair of vectors, the walks through it, and what was     *)
(* called and ended.  op is the kind of these walks, kind the kind of the  *)
(* entries, en what was added, cs what was called, es what was ended.      *)

Kept(kind, L, N, en) ==
  /\ OnePlace(L, N)
  /\ \A id \in Held(L, N) : id \in DOMAIN en /\ en[id].kind = kind

\* The entry whose callback a walk runs.
Called(L, walk) == L[walk.context][walk.at]

Settled(op, kind, L, N, st, en, cs, es) ==
  \* The iterator of a walk is valid while its callback runs.
  /\ \A k \in Calls(op, st) :
       /\ st[k].at \in 1..Len(L[st[k].context])
       /\ Called(L, st[k]) \in cs
  \* Who was to be called once and has been is still running.
  /\ \A id \in Held(L, N) : en[id].volatile /\ id \in cs =>
       \E k \in Calls(op, st) : Called(L, st[k]) = id
  \* Who is not there any more has been ended, or called if only once.
  /\ \A id \in DOMAIN en : en[id].kind = kind /\ id \notin Held(L, N) =>
       id \in es \/ (en[id].volatile /\ id \in cs)

\* A step that starts no callback of these walks.
LEMMA SettledSame ==
  ASSUME NEW op, NEW kind, NEW L, NEW N, NEW L2, NEW N2, NEW st, NEW st2, NEW en,
         NEW cs, NEW cs2, NEW es, NEW es2,
         Settled(op, kind, L, N, st, en, cs, es),
         SameCalls(op, st, st2),
         \A k \in Calls(op, st) : L2[st[k].context] = L[st[k].context],
         Held(L2, N2) = Held(L, N),
         cs \subseteq cs2, \A id \in cs2 : id \in cs \/ id \notin Held(L, N),
         es \subseteq es2
  PROVE  Settled(op, kind, L2, N2, st2, en, cs2, es2)
<1>1. ASSUME NEW k \in Calls(op, st2)
      PROVE  /\ k \in Calls(op, st) /\ st2[k] = st[k] /\ Called(L2, st2[k]) = Called(L, st[k])
             /\ st2[k].at \in 1..Len(L2[st2[k].context])
             /\ Called(L2, st2[k]) \in cs2
  <2>1. k \in Calls(op, st) /\ st2[k] = st[k]
    BY DEF SameCalls
  <2> QED
    BY <2>1 DEF Called, Settled
<1>2. ASSUME NEW id \in Held(L2, N2), en[id].volatile, id \in cs2
      PROVE  \E k \in Calls(op, st2) : Called(L2, st2[k]) = id
  <2>1. PICK k \in Calls(op, st) : Called(L, st[k]) = id
    BY <1>2 DEF Settled
  <2> QED
    BY <1>1, <2>1 DEF SameCalls
<1>3. ASSUME NEW id \in DOMAIN en, en[id].kind = kind, id \notin Held(L2, N2)
      PROVE  id \in es2 \/ (en[id].volatile /\ id \in cs2)
  BY <1>3 DEF Settled
<1> QED
  BY <1>1, <1>2, <1>3 DEF Settled

\* add: one entry more, held by the pair of its kind.
LEMMA SettledAdd ==
  ASSUME NEW op, NEW kind, NEW L, NEW N, NEW N2, NEW st, NEW en \in Seq(AnyRequest),
         NEW r \in AnyRequest, NEW cs, NEW es,
         Settled(op, kind, L, N, st, en, cs, es),
         cs \subseteq DOMAIN en, Held(L, N) \subseteq DOMAIN en,
         \/ r.kind = kind /\ Held(L, N2) = Held(L, N) \cup {Len(en) + 1}
         \/ r.kind # kind /\ Held(L, N2) = Held(L, N)
  PROVE  Settled(op, kind, L, N2, st, Append(en, r), cs, es)
<1> DEFINE en2 == Append(en, r)
           new == Len(en) + 1
<1>1. /\ Len(en) \in Nat /\ DOMAIN en = 1..Len(en) /\ DOMAIN en2 = 1..Len(en) + 1
      /\ en2[new] = r /\ \A k \in 1..Len(en) : en2[k] = en[k]
  <2>1. en2 \in Seq(AnyRequest) /\ Len(en2) = Len(en) + 1
    BY AppendElements
  <2> QED
    BY <2>1, AppendElements
<1> HIDE DEF en2
<1>2. /\ \A id \in DOMAIN en : id \in DOMAIN en2 /\ en2[id] = en[id] /\ id # new
      /\ \A id \in DOMAIN en2 : id \in DOMAIN en \/ id = new
  BY <1>1
<1>3. new \notin cs
  BY <1>2
<1>4. ASSUME NEW id \in Held(L, N2), en2[id].volatile, id \in cs
      PROVE  \E k \in Calls(op, st) : Called(L, st[k]) = id
  <2>1. id \in Held(L, N) /\ en2[id] = en[id]
    BY <1>2, <1>3, <1>4
  <2> QED
    BY <1>4, <2>1 DEF Settled
<1>5. ASSUME NEW id \in DOMAIN en2, en2[id].kind = kind, id \notin Held(L, N2)
      PROVE  id \in es \/ (en2[id].volatile /\ id \in cs)
  <2>1. id \in DOMAIN en /\ id \notin Held(L, N) /\ en2[id] = en[id]
    BY <1>1, <1>2, <1>5
  <2> QED
    BY <1>5, <2>1 DEF Settled
<1> QED
  BY <1>4, <1>5 DEF Settled, en2

\* The callback of the innermost walk begins.
LEMMA SettledCall ==
  ASSUME NEW op, NEW kind, NEW L, NEW N, NEW st, NEW st2, NEW en, NEW cs, NEW es, NEW n, NEW id,
         Settled(op, kind, L, N, st, en, cs, es),
         Calls(op, st2) = Calls(op, st) \cup {n},
         \A k \in Calls(op, st) : st2[k] = st[k],
         st2[n].at \in 1..Len(L[st2[n].context]), Called(L, st2[n]) = id
  PROVE  Settled(op, kind, L, N, st2, en, cs \cup {id}, es)
<1>1. \A k \in Calls(op, st2) :
        /\ st2[k].at \in 1..Len(L[st2[k].context])
        /\ Called(L, st2[k]) \in cs \cup {id}
  BY DEF Settled
<1>2. ASSUME NEW i \in Held(L, N), en[i].volatile, i \in cs \cup {id}
      PROVE  \E k \in Calls(op, st2) : Called(L, st2[k]) = i
  <2>1. CASE i = id
    BY <2>1
  <2>2. CASE i \in cs
    <3>1. PICK k \in Calls(op, st) : Called(L, st[k]) = i
      BY <1>2, <2>2 DEF Settled
    <3> QED
      BY <3>1
  <2> QED
    BY <1>2, <2>1, <2>2
<1>3. \A i \in DOMAIN en : en[i].kind = kind /\ i \notin Held(L, N) =>
        i \in es \/ (en[i].volatile /\ i \in cs \cup {id})
  BY DEF Settled
<1> QED
  BY <1>1, <1>2, <1>3 DEF Settled

\* The innermost walk leaves its entry id: the callback has returned, or was
\* not wanted.  The entry is done and erased, or it is to be called again.
Leaves(op, L, N, L2, st, st2, en, cs, es, id) ==
  /\ Calls(op, st2) \subseteq Calls(op, st)
  /\ \A k \in Calls(op, st2) : st2[k] = st[k] /\ L2[st[k].context] = L[st[k].context]
  /\ \A k \in Calls(op, st) : k \in Calls(op, st2) \/ Called(L, st[k]) = id
  /\ \/ Held(L2, N) = Held(L, N) /\ ~en[id].volatile
     \/ Held(L2, N) = Held(L, N) \ {id} /\ (id \in es \/ (en[id].volatile /\ id \in cs))

LEMMA SettledLeave ==
  ASSUME NEW op, NEW kind, NEW L, NEW N, NEW L2, NEW st, NEW st2, NEW en, NEW cs, NEW es, NEW id,
         Settled(op, kind, L, N, st, en, cs, es),
         Leaves(op, L, N, L2, st, st2, en, cs, es, id)
  PROVE  Settled(op, kind, L2, N, st2, en, cs, es)
<1>1. \A k \in Calls(op, st2) :
        /\ st2[k].at \in 1..Len(L2[st2[k].context])
        /\ Called(L2, st2[k]) = Called(L, st[k])
        /\ Called(L2, st2[k]) \in cs
  BY DEF Settled, Called, Leaves
<1>2. ASSUME NEW i \in Held(L2, N), en[i].volatile, i \in cs
      PROVE  \E k \in Calls(op, st2) : Called(L2, st2[k]) = i
  <2>1. i \in Held(L, N) /\ i # id
    BY <1>2 DEF Leaves
  <2>2. PICK k \in Calls(op, st) : Called(L, st[k]) = i
    BY <1>2, <2>1 DEF Settled
  <2>3. k \in Calls(op, st2)
    BY <2>1, <2>2 DEF Leaves
  <2> QED
    BY <1>1, <2>2, <2>3
<1>3. ASSUME NEW i \in DOMAIN en, en[i].kind = kind, i \notin Held(L2, N)
      PROVE  i \in es \/ (en[i].volatile /\ i \in cs)
  <2>1. CASE i \notin Held(L, N)
    BY <1>3, <2>1 DEF Settled
  <2>2. CASE i \in Held(L, N)
    BY <1>3, <2>2 DEF Leaves
  <2> QED
    BY <2>1, <2>2
<1> QED
  BY <1>1, <1>2, <1>3 DEF Settled

\* Nothing was added, nothing runs.
LEMMA SettledEmpty ==
  ASSUME NEW op, NEW kind, NEW st, Calls(op, st) = {}
  PROVE  /\ Empty \in Lists /\ Held(Empty, Empty) = {} /\ OnePlace(Empty, Empty)
         /\ Settled(op, kind, Empty, Empty, st, <<>>, {}, {})
<1>1. Empty \in Lists /\ \A c \in Context : Empty[c] = <<>>
  BY NoElements DEF Lists, Empty
<1>2. \A c \in Context : Both(Empty, Empty, c) = {}
  BY <1>1, NoElements DEF Both
<1>3. Held(Empty, Empty) = {}
  BY <1>2, HeldWhere
<1>4. OnePlace(Empty, Empty)
  BY <1>1, <1>2, NoElements DEF OnePlace
<1>5. DOMAIN <<>> = {}
  OBVIOUS
<1>6. Settled(op, kind, Empty, Empty, st, <<>>, {}, {})
  BY <1>3, <1>5 DEF Settled
<1> QED
  BY <1>1, <1>3, <1>4, <1>6

-----------------------------------------------------------------------------
(* Walks that start and stop between callbacks.                            *)

LEMMA NewWalk ==
  ASSUME NEW op \in {"frame", "notify", "load"}, NEW c \in Context, NEW e \in Event
  PROVE  /\ Walk(op, c, e) \in WalkRecord
         /\ Walk(op, c, e).op = op /\ ~Walk(op, c, e).calling
BY DEF Walk, WalkRecord

LEMMA SomeEvent == (CHOOSE e \in Event : TRUE) \in Event
BY LuaAssumption

\* What a step does to the record of the innermost walk.
LEMMA WalkChanges ==
  ASSUME NEW w \in WalkRecord
  PROVE  /\ [w EXCEPT !.at = @ + 1] \in WalkRecord
         /\ [w EXCEPT !.at = @ + 1].op = w.op
         /\ [w EXCEPT !.at = @ + 1].calling = w.calling
         /\ \A b \in BOOLEAN :
              /\ [w EXCEPT !.calling = b] \in WalkRecord
              /\ [w EXCEPT !.calling = b].op = w.op
              /\ [w EXCEPT !.calling = b].at = w.at
              /\ [w EXCEPT !.calling = b].context = w.context
              /\ [w EXCEPT !.calling = b].calling = b
         /\ [w EXCEPT !.at = @ + 1, !.calling = FALSE] \in WalkRecord
         /\ [w EXCEPT !.at = @ + 1, !.calling = FALSE].op = w.op
         /\ ~[w EXCEPT !.at = @ + 1, !.calling = FALSE].calling
<1>1. w.at + 1 \in Nat \ {0}
  BY DEF WalkRecord
<1>2. /\ [w EXCEPT !.at = @ + 1] \in WalkRecord
      /\ [w EXCEPT !.at = @ + 1].op = w.op
      /\ [w EXCEPT !.at = @ + 1].calling = w.calling
  BY <1>1 DEF WalkRecord
<1>3. ASSUME NEW b \in BOOLEAN
      PROVE  /\ [w EXCEPT !.calling = b] \in WalkRecord
             /\ [w EXCEPT !.calling = b].op = w.op
             /\ [w EXCEPT !.calling = b].at = w.at
             /\ [w EXCEPT !.calling = b].context = w.context
             /\ [w EXCEPT !.calling = b].calling = b
  BY DEF WalkRecord
<1>4. [w EXCEPT !.at = @ + 1, !.calling = FALSE] \in WalkRecord
  BY <1>1 DEF WalkRecord
<1>5. [w EXCEPT !.at = @ + 1, !.calling = FALSE].op = w.op
  BY DEF WalkRecord
<1>6. ~[w EXCEPT !.at = @ + 1, !.calling = FALSE].calling
  BY DEF WalkRecord
<1> QED
  BY <1>2, <1>3, <1>4, <1>5, <1>6

\* The innermost walk goes on, before and after in no callback.
LEMMA QuietChange ==
  ASSUME NEW st \in Seq(WalkRecord), st # <<>>, Stacked(st), NEW w \in WalkRecord,
         w.op = Last(st).op, w.op = "load" => ~w.calling
  PROVE  /\ Stacked(Front(st) \o <<w>>)
         /\ ~Last(st).calling /\ ~w.calling =>
              \A op : SameCalls(op, st, Front(st) \o <<w>>)
<1> DEFINE st2 == Front(st) \o <<w>>
<1>1. /\ Len(st2) = Len(st) /\ st2[Len(st)] = w /\ \A k \in 1..Len(st) - 1 : st2[k] = st[k]
      /\ Len(st) \in Nat \ {0} /\ Last(st) = st[Len(st)]
  BY ChangeWalk, PopWalk
<1> HIDE DEF st2
<1>2. Stacked(st2)
  BY <1>1 DEF Stacked
<1>3. ~Last(st).calling /\ ~w.calling => \A op : SameCalls(op, st, st2)
  BY <1>1 DEF SameCalls, Calls
<1> QED
  BY <1>2, <1>3 DEF st2

\* Every walk on the stack runs a callback, or loads a script.
AllRun(st) == \A k \in 1..Len(st) : st[k].op = "load" \/ st[k].calling

\* The innermost walk ends: those around it run.
LEMMA QuietPop ==
  ASSUME NEW st \in Seq(WalkRecord), st # <<>>, Stacked(st), ~Last(st).calling
  PROVE  /\ Stacked(Front(st)) /\ AllRun(Front(st))
         /\ \A op : SameCalls(op, st, Front(st))
<1>1. /\ Len(Front(st)) = Len(st) - 1 /\ \A k \in 1..Len(st) - 1 : Front(st)[k] = st[k]
      /\ Len(st) \in Nat \ {0} /\ Last(st) = st[Len(st)]
  BY PopWalk
<1>2. Stacked(Front(st)) /\ AllRun(Front(st))
  BY <1>1 DEF Stacked, AllRun
<1>3. \A op : SameCalls(op, st, Front(st))
  BY <1>1 DEF SameCalls, Calls
<1> QED
  BY <1>2, <1>3

\* A dispatch begins, within what runs.
LEMMA QuietPush ==
  ASSUME NEW st \in Seq(WalkRecord), Stacked(st), AllRun(st), NEW w \in WalkRecord,
         w.op = "notify", ~w.calling
  PROVE  /\ Stacked(Append(st, w))
         /\ \A op : SameCalls(op, st, Append(st, w))
<1>1. /\ Len(Append(st, w)) = Len(st) + 1 /\ Append(st, w)[Len(st) + 1] = w
      /\ \A k \in 1..Len(st) : Append(st, w)[k] = st[k]
      /\ Len(st) \in Nat
  BY PushWalk
<1>2. Stacked(Append(st, w))
  BY <1>1 DEF Stacked, AllRun
<1>3. \A op : SameCalls(op, st, Append(st, w))
  BY <1>1 DEF SameCalls, Calls
<1> QED
  BY <1>2, <1>3

\* A stack of one walk that runs no callback.
LEMMA OneWalk ==
  ASSUME NEW w \in WalkRecord, ~w.calling
  PROVE  <<w>> \in Seq(WalkRecord) /\ Stacked(<<w>>) /\ \A op : Calls(op, <<w>>) = {}
<1>1. <<w>> \in Seq(WalkRecord) /\ Len(<<w>>) = 1 /\ <<w>>[1] = w
  OBVIOUS
<1> QED
  BY <1>1 DEF Stacked, Calls

LEMMA NoWalk ==
  Stacked(<<>>) /\ AllRun(<<>>) /\ <<>> \in Seq(WalkRecord) /\ \A op : Calls(op, <<>>) = {}
<1>1. Len(<<>>) = 0 /\ <<>> \in Seq(WalkRecord)
  OBVIOUS
<1> QED
  BY <1>1 DEF Stacked, AllRun, Calls

-----------------------------------------------------------------------------
(* The invariant.                                                          *)

LuaTypes ==
  /\ scripts \in 0..Contexts
  /\ entry \in Seq(AnyRequest)
  /\ tasks \in Lists /\ new_tasks \in Lists
  /\ listeners \in Lists /\ new_listeners \in Lists
  /\ stack \in Seq(WalkRecord)
  /\ Stacked(stack)

\* What the marks say: whatever was cleared or ended is marked as deleted.
Marked == is_deleted = ended /\ called \subseteq Added

TasksKept == Kept("task", tasks, new_tasks, entry)
ListenersKept == Kept("listener", listeners, new_listeners, entry)
TasksSettled == Settled("frame", "task", tasks, new_tasks, stack, entry, called, ended)
ListenersSettled ==
  Settled("notify", "listener", listeners, new_listeners, stack, entry, called, ended)

LuaInv ==
  /\ LuaTypes
  /\ Marked
  /\ TasksKept /\ ListenersKept
  /\ TasksSettled
  /\ ~disturbed /\ ~undefined => ListenersSettled

\* What a context holds, and what all contexts hold.
LEMMA ListedWhere ==
  ASSUME LuaTypes
  PROVE  /\ \A c \in Context : Listed(c) =
              Both(tasks, new_tasks, c) \cup Both(listeners, new_listeners, c)
         /\ InLists = Held(tasks, new_tasks) \cup Held(listeners, new_listeners)
<1>1. ASSUME NEW c \in Context
      PROVE  Listed(c) = Both(tasks, new_tasks, c) \cup Both(listeners, new_listeners, c)
  <2>1. /\ tasks[c] \in Seq(Nat) /\ new_tasks[c] \in Seq(Nat)
        /\ listeners[c] \in Seq(Nat) /\ new_listeners[c] \in Seq(Nat)
    BY DEF LuaTypes, Lists
  <2>2. \A s, u \in Seq(Nat) : s \o u \in Seq(Nat) /\ ToSet(s \o u) = ToSet(s) \cup ToSet(u)
    BY ConcatElements
  <2>3. tasks[c] \o new_tasks[c] \o listeners[c] \in Seq(Nat) /\ tasks[c] \o new_tasks[c] \in Seq(Nat)
    BY <2>1, <2>2, Zenon
  <2>4. /\ ToSet(tasks[c] \o new_tasks[c]) = ToSet(tasks[c]) \cup ToSet(new_tasks[c])
        /\ ToSet(tasks[c] \o new_tasks[c] \o listeners[c]) =
             ToSet(tasks[c] \o new_tasks[c]) \cup ToSet(listeners[c])
        /\ ToSet(tasks[c] \o new_tasks[c] \o listeners[c] \o new_listeners[c]) =
             ToSet(tasks[c] \o new_tasks[c] \o listeners[c]) \cup ToSet(new_listeners[c])
    BY <2>1, <2>2, <2>3, Zenon
  <2> QED
    BY <2>4 DEF Listed, Both
<1>2. \A e : e \in InLists <=> \E c \in Context : e \in Listed(c)
  BY DEF InLists
<1>3. \A e : e \in InLists <=> e \in Held(tasks, new_tasks) \cup Held(listeners, new_listeners)
  BY <1>1, <1>2, HeldWhere
<1> QED
  BY <1>1, <1>3

\* The pairs hold entries of different kinds.
LEMMA KindsApart ==
  ASSUME TasksKept, ListenersKept
  PROVE  Held(tasks, new_tasks) \cap Held(listeners, new_listeners) = {}
BY DEF TasksKept, ListenersKept, Kept

\* The invariant says what KeptUntilDone promises.
LEMMA SettledKeeps ==
  LuaInv => KeptUntilDone
<1> SUFFICES ASSUME LuaInv, NEW id \in Added,
                    entry[id].kind = "task" \/ ~(disturbed \/ undefined)
             PROVE  ~Lost(id) /\ ~Left(id)
  BY DEF KeptUntilDone
<1>1. InLists = Held(tasks, new_tasks) \cup Held(listeners, new_listeners)
  BY ListedWhere DEF LuaInv
<1>2. entry[id].kind \in {"task", "listener"}
  BY DEF LuaInv, LuaTypes, AnyRequest, Added
<1>3. CASE entry[id].kind = "task"
  <2>1. id \notin Held(listeners, new_listeners)
    BY <1>3 DEF LuaInv, ListenersKept, Kept
  <2>2. ~Lost(id)
    BY <1>1, <1>3 DEF LuaInv, TasksSettled, Settled, Lost, Added
  <2>3. ASSUME Left(id)
        PROVE  FALSE
    <3>1. PICK k \in Calls("frame", stack) : Called(tasks, stack[k]) = id
      BY <1>1, <2>1, <2>3 DEF LuaInv, TasksSettled, Settled, Left
    <3>2. k \in DOMAIN stack /\ stack[k].calling /\ stack[k].op = "frame"
            /\ id = tasks[stack[k].context][stack[k].at]
      BY <3>1 DEF Calls, Called, LuaInv, LuaTypes
    <3> QED
      BY <2>3, <3>2 DEF Left, OnStack
  <2> QED
    BY <2>2, <2>3
<1>4. CASE entry[id].kind = "listener"
  <2>1. id \notin Held(tasks, new_tasks) /\ ListenersSettled
    BY <1>4 DEF LuaInv, TasksKept, Kept
  <2>2. ~Lost(id)
    BY <1>1, <1>4, <2>1 DEF ListenersSettled, Settled, Lost, Added
  <2>3. ASSUME Left(id)
        PROVE  FALSE
    <3>1. PICK k \in Calls("notify", stack) : Called(listeners, stack[k]) = id
      BY <1>1, <2>1, <2>3 DEF ListenersSettled, Settled, Left
    <3>2. k \in DOMAIN stack /\ stack[k].calling /\ stack[k].op # "frame"
            /\ id = listeners[stack[k].context][stack[k].at]
      BY <3>1 DEF Calls, Called, LuaInv, LuaTypes
    <3> QED
      BY <2>3, <3>2 DEF Left, OnStack
  <2> QED
    BY <2>2, <2>3
<1> QED
  BY <1>2, <1>3, <1>4

-----------------------------------------------------------------------------
(* The steps.                                                              *)

\* The innermost walk is one of the records of the stack.
LEMMA TopWalk ==
  ASSUME LuaTypes, stack # <<>>
  PROVE  /\ Top \in WalkRecord /\ Top = stack[Len(stack)] /\ Top = Last(stack)
         /\ Len(stack) \in Nat \ {0}
         /\ Top.op # "notify" => Len(stack) = 1
         /\ Top.op = "load" => ~Top.calling
         /\ \A op : ~Top.calling /\ Top.op # "notify" => Calls(op, stack) = {}
<1>1. Top \in WalkRecord /\ Top = stack[Len(stack)] /\ Top = Last(stack) /\ Len(stack) \in Nat \ {0}
  BY PopWalk DEF LuaTypes, Top
<1>2. /\ Top.op # "notify" => Len(stack) = 1
      /\ Top.op = "load" => ~Top.calling
  <2>1. Len(stack) \in 1..Len(stack)
    BY <1>1
  <2>2. /\ stack[Len(stack)].op # "notify" => Len(stack) = 1
        /\ stack[Len(stack)].op = "load" => ~stack[Len(stack)].calling
    BY <2>1, Zenon DEF LuaTypes, Stacked
  <2> QED
    BY <1>1, <2>2, Zenon
<1>3. ASSUME NEW op, ~Top.calling, Top.op # "notify"
      PROVE  Calls(op, stack) = {}
  <2>1. \A k \in 1..Len(stack) : stack[k] = Top
    <3>1. Len(stack) = 1
      BY <1>2, <1>3
    <3>2. Top = stack[1]
      BY <1>1, <3>1, Zenon
    <3>3. \A k \in 1..Len(stack) : k = 1
      BY <3>1
    <3> QED
      BY <3>2, <3>3, Zenon
  <2> QED
    BY <1>3, <2>1 DEF Calls
<1> QED
  BY <1>1, <1>2, <1>3

LEMMA SameStack ==
  \A op, st : SameCalls(op, st, st)
BY DEF SameCalls

\* A step that changes no vector and starts no callback.
LEMMA QuietStep ==
  ASSUME LuaInv, LuaTypes', Marked', UNCHANGED <<entry, lists, called, disturbed, undefined>>,
         \A op : SameCalls(op, stack, stack'),
         ended \subseteq ended'
  PROVE  LuaInv'
<1> USE DEF lists
<1>1. TasksKept' /\ ListenersKept'
  BY DEF LuaInv, TasksKept, ListenersKept
<1>2. TasksSettled'
  BY SettledSame DEF LuaInv, TasksSettled
<1>3. ASSUME ~disturbed', ~undefined'
      PROVE  ListenersSettled'
  <2>1. ListenersSettled
    BY <1>3 DEF LuaInv
  <2> QED
    BY <2>1, SettledSame DEF ListenersSettled
<1> QED
  BY <1>1, <1>2, <1>3 DEF LuaInv

\* A new entry: held by the pair of its kind, and no one has called it.
LEMMA AddStep ==
  ASSUME LuaInv, NEW r \in Request, Add(r)
  PROVE  LuaInv'
<1> DEFINE c == Top.context
           id == Len(entry) + 1
<1>1. stack # <<>> /\ c \in Context
  BY TopWalk DEF LuaInv, Add, Running, WalkRecord
<1>2. r \in AnyRequest /\ r.kind \in {"task", "listener"}
  BY LuaAssumption DEF AnyRequest
<1>3. /\ entry \in Seq(AnyRequest) /\ entry' = Append(entry, r)
      /\ entry' \in Seq(AnyRequest) /\ Len(entry') = id
      /\ DOMAIN entry = 1..Len(entry) /\ Len(entry) \in Nat
      /\ entry'[id] = r /\ \A k \in DOMAIN entry : entry'[k] = entry[k]
  BY <1>2, AppendElements DEF LuaInv, LuaTypes, Add
<1>4. /\ id \in Nat /\ id \notin DOMAIN entry
      /\ DOMAIN entry' = DOMAIN entry \cup {id}
  BY <1>3
<1>5. /\ Held(tasks, new_tasks) \subseteq DOMAIN entry /\ OnePlace(tasks, new_tasks)
      /\ Held(listeners, new_listeners) \subseteq DOMAIN entry /\ OnePlace(listeners, new_listeners)
  BY DEF LuaInv, TasksKept, ListenersKept, Kept
<1>6. /\ tasks \in Lists /\ new_tasks \in Lists /\ listeners \in Lists /\ new_listeners \in Lists
  BY DEF LuaInv, LuaTypes
<1>7. /\ \/ /\ r.kind = "task"
            /\ new_tasks' = Pushed(new_tasks, c, id) /\ UNCHANGED new_listeners
         \/ /\ r.kind # "task"
            /\ new_listeners' = Pushed(new_listeners, c, id) /\ UNCHANGED new_tasks
      /\ UNCHANGED <<scripts, tasks, listeners, is_deleted, ended, stack, undefined, disturbed, called>>
  BY <1>3 DEF Add, Pushed, marks
<1> HIDE DEF id
<1>8. /\ new_tasks' \in Lists /\ OnePlace(tasks, new_tasks')
      /\ \/ r.kind = "task" /\ Held(tasks, new_tasks') = Held(tasks, new_tasks) \cup {id}
         \/ r.kind # "task" /\ Held(tasks, new_tasks') = Held(tasks, new_tasks)
  <2>1. CASE r.kind = "task"
    <3>1. new_tasks' = Pushed(new_tasks, c, id) /\ id \notin Held(tasks, new_tasks)
      BY <1>4, <1>5, <1>7, <2>1
    <3> QED
      BY <1>1, <1>4, <1>5, <1>6, <2>1, <3>1, Pushing
  <2>2. CASE r.kind # "task"
    BY <1>5, <1>6, <1>7, <2>2
  <2> QED
    BY <2>1, <2>2
<1>9. /\ new_listeners' \in Lists /\ OnePlace(listeners, new_listeners')
      /\ \/ r.kind = "listener"
              /\ Held(listeners, new_listeners') = Held(listeners, new_listeners) \cup {id}
         \/ r.kind # "listener" /\ Held(listeners, new_listeners') = Held(listeners, new_listeners)
  <2>1. CASE r.kind # "task"
    <3>1. new_listeners' = Pushed(new_listeners, c, id) /\ id \notin Held(listeners, new_listeners)
      BY <1>4, <1>5, <1>7, <2>1
    <3> QED
      BY <1>1, <1>2, <1>4, <1>5, <1>6, <2>1, <3>1, Pushing
  <2>2. CASE r.kind = "task"
    BY <1>5, <1>6, <1>7, <2>2
  <2> QED
    BY <2>1, <2>2
<1>10. LuaTypes'
  BY <1>3, <1>6, <1>7, <1>8, <1>9 DEF LuaInv, LuaTypes
<1>11. Marked'
  BY <1>4, <1>7 DEF LuaInv, Marked, Added
<1>12. TasksKept'
  BY <1>3, <1>4, <1>7, <1>8 DEF LuaInv, TasksKept, Kept
<1>13. ListenersKept'
  BY <1>3, <1>4, <1>7, <1>9 DEF LuaInv, ListenersKept, Kept
<1>14. called \subseteq DOMAIN entry
  BY DEF LuaInv, Marked, Added
<1>15. TasksSettled'
  <2>1. Settled("frame", "task", tasks, new_tasks, stack, entry, called, ended)
    BY DEF LuaInv, TasksSettled
  <2>2. Settled("frame", "task", tasks, new_tasks', stack, Append(entry, r), called, ended)
    BY <1>2, <1>3, <1>5, <1>8, <1>14, <2>1, SettledAdd DEF id
  <2> QED
    BY <1>3, <1>7, <2>2 DEF TasksSettled
<1>16. ASSUME ~disturbed', ~undefined'
       PROVE  ListenersSettled'
  <2>1. Settled("notify", "listener", listeners, new_listeners, stack, entry, called, ended)
    BY <1>7, <1>16 DEF LuaInv, ListenersSettled
  <2>2. Settled("notify", "listener", listeners, new_listeners', stack, Append(entry, r), called, ended)
    BY <1>2, <1>3, <1>5, <1>9, <1>14, <2>1, SettledAdd DEF id
  <2> QED
    BY <1>3, <1>7, <2>2 DEF ListenersSettled
<1> QED
  BY <1>10, <1>11, <1>12, <1>13, <1>15, <1>16 DEF LuaInv

\* A frame begins with a context: its new tasks join the others.
LEMMA FrameStep ==
  ASSUME LuaInv, \A op : Calls(op, stack) = {}, NEW c \in Context, BeginFrame(c)
  PROVE  LuaInv'
<1> DEFINE w == Walk("frame", c, CHOOSE e \in Event : TRUE)
<1>1. /\ tasks' = Joined(tasks, new_tasks, c) /\ new_tasks' = Emptied(new_tasks, c)
      /\ stack' = <<w>>
      /\ UNCHANGED <<scripts, entry, listeners, new_listeners, is_deleted, ended, undefined,
                     disturbed, called>>
  BY DEF BeginFrame, Merge, Joined, Emptied, marks
<1>2. w \in WalkRecord /\ ~w.calling
  BY NewWalk, SomeEvent
<1> HIDE DEF w
<1>3. stack' \in Seq(WalkRecord) /\ Stacked(stack') /\ \A op : Calls(op, stack') = {}
  BY <1>1, <1>2, OneWalk
<1>4. /\ tasks' \in Lists /\ new_tasks' \in Lists /\ OnePlace(tasks', new_tasks')
      /\ Held(tasks', new_tasks') = Held(tasks, new_tasks)
  BY <1>1, Joining DEF LuaInv, LuaTypes, TasksKept, Kept
<1>5. \A op : SameCalls(op, stack, stack')
  BY <1>3 DEF SameCalls
<1>6. LuaTypes' /\ Marked'
  BY <1>1, <1>3, <1>4 DEF LuaInv, LuaTypes, Marked, Added
<1>7. TasksKept' /\ ListenersKept'
  BY <1>1, <1>4 DEF LuaInv, TasksKept, ListenersKept, Kept
<1>8. TasksSettled'
  <2>1. \A k \in Calls("frame", stack) : tasks'[stack[k].context] = tasks[stack[k].context]
    OBVIOUS
  <2> QED
    BY <1>1, <1>4, <1>5, <2>1, SettledSame DEF LuaInv, TasksSettled
<1>9. ~disturbed' /\ ~undefined' => ListenersSettled'
  BY <1>1, <1>5, SettledSame DEF LuaInv, ListenersSettled
<1> QED
  BY <1>6, <1>7, <1>8, <1>9 DEF LuaInv

\* A dispatch begins with a context: what the event ends is marked, and the new
\* listeners join the others; if a dispatch further out walks through them the
\* vector has been disturbed.
LEMMA NotifyStep ==
  ASSUME LuaInv, ~undefined, NEW outer \in Seq(WalkRecord), Stacked(outer), AllRun(outer),
         \A op : SameCalls(op, stack, outer),
         NEW c \in Context, NEW e \in Event, BeginNotify(outer, c, e)
  PROVE  LuaInv'
<1> DEFINE w == Walk("notify", c, e)
           moved == Nested(outer, c) /\ new_listeners[c] # <<>>
<1>1. /\ listeners' = Joined(listeners, new_listeners, c)
      /\ new_listeners' = Emptied(new_listeners, c)
      /\ stack' = Append(outer, w)
      /\ disturbed' = (disturbed \/ moved)
      /\ UNCHANGED <<scripts, entry, tasks, new_tasks, called>>
  BY DEF BeginNotify, Joined, Emptied
<1>2. w \in WalkRecord /\ w.op = "notify" /\ ~w.calling
  BY NewWalk
<1> HIDE DEF w
<1>3. /\ stack' \in Seq(WalkRecord) /\ Stacked(stack')
      /\ \A op : SameCalls(op, outer, stack')
  BY <1>1, <1>2, PushWalk, QuietPush
<1>4. \A op : SameCalls(op, stack, stack')
  BY <1>3 DEF SameCalls
<1>5. /\ listeners' \in Lists /\ new_listeners' \in Lists /\ OnePlace(listeners', new_listeners')
      /\ Held(listeners', new_listeners') = Held(listeners, new_listeners)
      /\ new_listeners[c] = <<>> => listeners' = listeners
      /\ \A d \in Context : d # c => listeners'[d] = listeners[d]
  BY <1>1, Joining DEF LuaInv, LuaTypes, ListenersKept, Kept
<1>6. is_deleted' = ended' /\ ended \subseteq ended'
  <2> DEFINE gone == EndedBy(tasks[c] \o new_tasks[c] \o listeners[c] \o new_listeners[c], e)
  <2>1. /\ is_deleted' = is_deleted \cup (EndedTasks(c, e) \cup EndedListeners(c, e))
        /\ ended' = ended \cup gone
    BY DEF BeginNotify
  <2>2. \A i : i \in gone <=> i \in Listed(c) /\ <<i, e>> \in endon
    BY DEF EndedBy, Listed
  <2>3. \A i : i \in EndedTasks(c, e) <=> i \in Both(tasks, new_tasks, c) /\ <<i, e>> \in endon
    <3>1. ToSet(tasks[c] \o new_tasks[c]) = Both(tasks, new_tasks, c)
      BY ConcatElements DEF LuaInv, LuaTypes, Lists, Both
    <3> QED
      BY <3>1 DEF EndedTasks, EndedBy
  <2>4. \A i : i \in EndedListeners(c, e) <=>
                i \in Both(listeners, new_listeners, c) /\ <<i, e>> \in endon
    <3>1. ToSet(listeners[c] \o new_listeners[c]) = Both(listeners, new_listeners, c)
      BY ConcatElements DEF LuaInv, LuaTypes, Lists, Both
    <3> QED
      BY <3>1 DEF EndedListeners, EndedBy
  <2>5. Listed(c) = Both(tasks, new_tasks, c) \cup Both(listeners, new_listeners, c)
    BY ListedWhere DEF LuaInv
  <2> HIDE DEF gone
  <2>6. gone = EndedTasks(c, e) \cup EndedListeners(c, e)
    BY <2>2, <2>3, <2>4, <2>5
  <2>7. is_deleted = ended
    BY DEF LuaInv, Marked
  <2> QED
    BY <2>1, <2>6, <2>7
<1>7. LuaTypes' /\ Marked'
  BY <1>1, <1>3, <1>5, <1>6 DEF LuaInv, LuaTypes, Marked, Added
<1>8. TasksKept' /\ ListenersKept'
  BY <1>1, <1>5 DEF LuaInv, TasksKept, ListenersKept, Kept
<1>9. TasksSettled'
  BY <1>1, <1>4, <1>6, SettledSame DEF LuaInv, TasksSettled
<1>10. ASSUME ~disturbed', ~undefined'
       PROVE  ListenersSettled'
  <2>1. Settled("notify", "listener", listeners, new_listeners, stack, entry, called, ended)
    BY <1>1, <1>10 DEF LuaInv, ListenersSettled
  <2>2. ASSUME NEW k \in Calls("notify", stack)
        PROVE  listeners'[stack[k].context] = listeners[stack[k].context]
    <3>1. CASE new_listeners[c] = <<>>
      BY <1>5, <3>1
    <3>2. CASE new_listeners[c] # <<>>
      <4>1. ~Nested(outer, c)
        BY <1>1, <1>10, <3>2
      <4>2. k \in 1..Len(outer) /\ outer[k] = stack[k] /\ outer[k].op = "notify"
        BY DEF SameCalls, Calls
      <4>3. stack[k].context # c
        BY <4>1, <4>2 DEF Nested
      <4>4. stack[k].context \in Context
        <5>1. outer[k] \in WalkRecord
          BY <4>2
        <5> QED
          BY <4>2, <5>1 DEF WalkRecord
      <4> QED
        BY <1>5, <4>3, <4>4
    <3> QED
      BY <3>1, <3>2
  <2> QED
    BY <1>1, <1>4, <1>5, <1>6, <2>1, <2>2, SettledSame DEF ListenersSettled
<1> QED
  BY <1>7, <1>8, <1>9, <1>10 DEF LuaInv

\* The vector the innermost walk goes through holds the entry it is at.
LEMMA ThisHeld ==
  ASSUME LuaInv, stack # <<>>, Top.op # "load", Inside
  PROVE  /\ Top.context \in Context
         /\ \/ /\ Top.op = "frame" /\ Top.at \in 1..Len(tasks[Top.context])
               /\ This = tasks[Top.context][Top.at]
               /\ This \in Held(tasks, new_tasks) /\ This \notin Held(listeners, new_listeners)
            \/ /\ Top.op = "notify" /\ Top.at \in 1..Len(listeners[Top.context])
               /\ This = listeners[Top.context][Top.at]
               /\ This \in Held(listeners, new_listeners) /\ This \notin Held(tasks, new_tasks)
         /\ This \in DOMAIN entry
<1> DEFINE c == Top.context
<1>1. Top.op \in {"frame", "notify"} /\ c \in Context /\ Top.at \in Nat \ {0}
  BY TopWalk DEF LuaInv, WalkRecord
<1>2. /\ tasks[c] \in Seq(Nat) /\ Len(tasks[c]) \in Nat
      /\ listeners[c] \in Seq(Nat) /\ Len(listeners[c]) \in Nat
  BY <1>1 DEF LuaInv, LuaTypes, Lists
<1>3. Held(tasks, new_tasks) \cap Held(listeners, new_listeners) = {}
  BY KindsApart DEF LuaInv
<1>4. CASE Top.op = "frame"
  <2>1. Top.at \in 1..Len(tasks[c]) /\ This = tasks[c][Top.at]
    BY <1>1, <1>2, <1>4 DEF Inside, Walked, This
  <2>2. This \in ToSet(tasks[c])
    BY <1>2, <2>1, ToSetMember
  <2>3. This \in Held(tasks, new_tasks)
    BY <1>1, <2>2, HeldWhere DEF Both
  <2>4. This \in DOMAIN entry
    BY <2>3 DEF LuaInv, TasksKept, Kept
  <2> QED
    BY <1>1, <1>3, <1>4, <2>1, <2>3, <2>4
<1>5. CASE Top.op = "notify"
  <2>1. Top.at \in 1..Len(listeners[c]) /\ This = listeners[c][Top.at]
    BY <1>1, <1>2, <1>5 DEF Inside, Walked, This
  <2>2. This \in ToSet(listeners[c])
    BY <1>2, <2>1, ToSetMember
  <2>3. This \in Held(listeners, new_listeners)
    BY <1>1, <2>2, HeldWhere DEF Both
  <2>4. This \in DOMAIN entry
    BY <2>3 DEF LuaInv, ListenersKept, Kept
  <2> QED
    BY <1>1, <1>3, <1>5, <2>1, <2>3, <2>4
<1> QED
  BY <1>1, <1>4, <1>5

\* The stack when the callback of the innermost walk begins.
LEMMA CallStack ==
  ASSUME NEW st \in Seq(WalkRecord), st # <<>>, Stacked(st),
         Last(st).op # "load", ~Last(st).calling
  PROVE  LET w == [Last(st) EXCEPT !.calling = TRUE]
             st2 == Front(st) \o <<w>>
         IN /\ st2 \in Seq(WalkRecord) /\ Stacked(st2)
            /\ st2[Len(st)] = w /\ w.at = Last(st).at /\ w.context = Last(st).context
            /\ Calls(Last(st).op, st2) = Calls(Last(st).op, st) \cup {Len(st)}
            /\ \A k \in Calls(Last(st).op, st) : st2[k] = st[k]
            /\ \A op : op # Last(st).op => SameCalls(op, st, st2)
<1> DEFINE w == [Last(st) EXCEPT !.calling = TRUE]
           st2 == Front(st) \o <<w>>
<1>1. Last(st) \in WalkRecord /\ Len(st) \in Nat \ {0} /\ Last(st) = st[Len(st)]
  BY PopWalk
<1>2. /\ w \in WalkRecord /\ w.op = Last(st).op /\ w.at = Last(st).at
      /\ w.context = Last(st).context /\ w.calling
  BY <1>1, WalkChanges
<1> HIDE DEF w
<1>3. /\ st2 \in Seq(WalkRecord) /\ Len(st2) = Len(st) /\ st2[Len(st)] = w
      /\ \A k \in 1..Len(st) - 1 : st2[k] = st[k]
  BY <1>2, ChangeWalk
<1>4. Stacked(st2)
  BY <1>2, QuietChange
<1> HIDE DEF st2
<1>5. \A op, k : k \in Calls(op, st) => k \in 1..Len(st) - 1 /\ st2[k] = st[k]
  <2> SUFFICES ASSUME NEW op, NEW k \in Calls(op, st)
               PROVE  k \in 1..Len(st) - 1 /\ st2[k] = st[k]
    OBVIOUS
  <2>1. k \in 1..Len(st) /\ st[k].calling
    BY DEF Calls
  <2>2. k # Len(st)
    BY <1>1, <2>1
  <2> QED
    BY <1>1, <1>3, <2>1, <2>2
<1>6. \A op, k : k \in Calls(op, st2) =>
        k \in Calls(op, st) \/ (k = Len(st) /\ op = Last(st).op)
  <2> SUFFICES ASSUME NEW op, NEW k \in Calls(op, st2)
               PROVE  k \in Calls(op, st) \/ (k = Len(st) /\ op = Last(st).op)
    OBVIOUS
  <2>1. k \in 1..Len(st) /\ st2[k].calling /\ st2[k].op = op
    BY <1>3 DEF Calls
  <2>2. CASE k = Len(st)
    BY <1>2, <1>3, <2>1, <2>2
  <2>3. CASE k # Len(st)
    <3>1. st2[k] = st[k]
      BY <1>1, <1>3, <2>1, <2>3
    <3> QED
      BY <2>1, <3>1 DEF Calls
  <2> QED
    BY <2>2, <2>3
<1>7. \A op, k : k \in Calls(op, st) => k \in Calls(op, st2)
  <2> SUFFICES ASSUME NEW op, NEW k \in Calls(op, st)
               PROVE  k \in Calls(op, st2)
    OBVIOUS
  <2>1. k \in 1..Len(st) /\ st[k].op = op /\ st[k].calling
    BY DEF Calls
  <2>2. st2[k] = st[k]
    BY <1>5
  <2> QED
    BY <1>3, <2>1, <2>2 DEF Calls
<1>8. Len(st) \in Calls(Last(st).op, st2)
  BY <1>1, <1>2, <1>3 DEF Calls
<1>9. Calls(Last(st).op, st2) = Calls(Last(st).op, st) \cup {Len(st)}
  BY <1>6, <1>7, <1>8
<1>10. \A op : op # Last(st).op => SameCalls(op, st, st2)
  <2> SUFFICES ASSUME NEW op, op # Last(st).op
               PROVE  SameCalls(op, st, st2)
    OBVIOUS
  <2>1. \A k : k \in Calls(op, st2) <=> k \in Calls(op, st)
    BY <1>6, <1>7
  <2>2. \A k \in Calls(op, st) : st2[k] = st[k]
    BY <1>5
  <2> QED
    BY <2>1, <2>2 DEF SameCalls
<1> QED
  BY <1>2, <1>3, <1>4, <1>5, <1>9, <1>10 DEF w, st2

\* The stack when the innermost walk leaves its entry, with or without a
\* callback behind it.
LEMMA LeaveStack ==
  ASSUME NEW st \in Seq(WalkRecord), st # <<>>, Stacked(st),
         NEW w \in WalkRecord, w.op = Last(st).op, ~w.calling,
         NEW st2, st2 = Front(st) \o <<w>>
  PROVE  /\ st2 \in Seq(WalkRecord) /\ Stacked(st2)
         /\ \A op, k : k \in Calls(op, st2) =>
              k \in Calls(op, st) /\ k \in 1..Len(st) - 1 /\ st2[k] = st[k]
         /\ \A op, k : k \in Calls(op, st) =>
              k \in Calls(op, st2) \/ (k = Len(st) /\ op = Last(st).op)
         /\ \A op : op # Last(st).op => SameCalls(op, st, st2)
<1>1. Last(st) \in WalkRecord /\ Len(st) \in Nat \ {0} /\ Last(st) = st[Len(st)]
  BY PopWalk
<1>2. /\ st2 \in Seq(WalkRecord) /\ Len(st2) = Len(st) /\ st2[Len(st)] = w
      /\ \A k \in 1..Len(st) - 1 : st2[k] = st[k]
  BY ChangeWalk
<1>3. Stacked(st2)
  BY QuietChange
<1>4. \A op, k : k \in Calls(op, st2) =>
        k \in Calls(op, st) /\ k \in 1..Len(st) - 1 /\ st2[k] = st[k]
  <2> SUFFICES ASSUME NEW op, NEW k \in Calls(op, st2)
               PROVE  k \in Calls(op, st) /\ k \in 1..Len(st) - 1 /\ st2[k] = st[k]
    OBVIOUS
  <2>1. k \in 1..Len(st) /\ st2[k].calling /\ st2[k].op = op
    BY <1>2 DEF Calls
  <2>2. k # Len(st)
    BY <1>2, <2>1
  <2>3. k \in 1..Len(st) - 1 /\ st2[k] = st[k]
    BY <1>1, <1>2, <2>1, <2>2
  <2> QED
    BY <2>1, <2>3 DEF Calls
<1>5. \A op, k : k \in Calls(op, st) =>
        k \in Calls(op, st2) \/ (k = Len(st) /\ op = Last(st).op)
  <2> SUFFICES ASSUME NEW op, NEW k \in Calls(op, st)
               PROVE  k \in Calls(op, st2) \/ (k = Len(st) /\ op = Last(st).op)
    OBVIOUS
  <2>1. k \in 1..Len(st) /\ st[k].calling /\ st[k].op = op
    BY DEF Calls
  <2>2. CASE k = Len(st)
    BY <1>1, <2>1, <2>2
  <2>3. CASE k # Len(st)
    <3>1. st2[k] = st[k]
      BY <1>1, <1>2, <2>1, <2>3
    <3> QED
      BY <1>2, <2>1, <3>1 DEF Calls
  <2> QED
    BY <2>2, <2>3
<1>6. \A op : op # Last(st).op => SameCalls(op, st, st2)
  <2> SUFFICES ASSUME NEW op, op # Last(st).op
               PROVE  SameCalls(op, st, st2)
    OBVIOUS
  <2>1. \A k : k \in Calls(op, st2) <=> k \in Calls(op, st)
    BY <1>4, <1>5
  <2>2. \A k \in Calls(op, st) : st2[k] = st[k]
    BY <1>4, <2>1
  <2> QED
    BY <2>1, <2>2 DEF SameCalls
<1> QED
  BY <1>2, <1>3, <1>4, <1>5, <1>6

\* A callback begins.
LEMMA CallStep ==
  ASSUME LuaInv, Call
  PROVE  LuaInv'
<1> DEFINE w == [Top EXCEPT !.calling = TRUE]
<1>1. /\ stack # <<>> /\ Top.op # "load" /\ ~Top.calling /\ Inside
      /\ stack' = Front(stack) \o <<w>> /\ called' = called \cup {This}
      /\ UNCHANGED <<scripts, entry, tasks, new_tasks, listeners, new_listeners,
                     is_deleted, undefined, disturbed, ended>>
  BY DEF Call, Walking, SetTop, lists
<1>2. stack \in Seq(WalkRecord) /\ Stacked(stack) /\ Top = Last(stack)
  BY DEF LuaInv, LuaTypes, Top
<1>3. /\ stack' \in Seq(WalkRecord) /\ Stacked(stack')
      /\ stack'[Len(stack)] = w /\ w.at = Top.at /\ w.context = Top.context
      /\ Calls(Top.op, stack') = Calls(Top.op, stack) \cup {Len(stack)}
      /\ \A k \in Calls(Top.op, stack) : stack'[k] = stack[k]
      /\ \A op : op # Top.op => SameCalls(op, stack, stack')
  BY <1>1, <1>2, CallStack
<1> HIDE DEF w
<1>4. /\ Top.context \in Context
      /\ \/ /\ Top.op = "frame" /\ Top.at \in 1..Len(tasks[Top.context])
            /\ This = tasks[Top.context][Top.at]
            /\ This \notin Held(listeners, new_listeners)
         \/ /\ Top.op = "notify" /\ Top.at \in 1..Len(listeners[Top.context])
            /\ This = listeners[Top.context][Top.at]
            /\ This \notin Held(tasks, new_tasks)
      /\ This \in DOMAIN entry
  BY <1>1, ThisHeld
<1>5. LuaTypes' /\ Marked'
  BY <1>1, <1>3, <1>4 DEF LuaInv, LuaTypes, Marked, Added
<1>6. TasksKept' /\ ListenersKept'
  BY <1>1 DEF LuaInv, TasksKept, ListenersKept
<1>7. TasksSettled'
  <2>1. Settled("frame", "task", tasks, new_tasks, stack, entry, called, ended)
    BY DEF LuaInv, TasksSettled
  <2>2. CASE Top.op = "frame"
    <3>1. /\ stack'[Len(stack)].at \in 1..Len(tasks[stack'[Len(stack)].context])
          /\ Called(tasks, stack'[Len(stack)]) = This
      BY <1>3, <1>4, <2>2 DEF Called
    <3>2. /\ Calls("frame", stack') = Calls("frame", stack) \cup {Len(stack)}
          /\ \A k \in Calls("frame", stack) : stack'[k] = stack[k]
      BY <1>3, <2>2
    <3>3. Settled("frame", "task", tasks, new_tasks, stack', entry, called \cup {This}, ended)
      BY <2>1, <3>1, <3>2, SettledCall
    <3> QED
      BY <1>1, <3>3 DEF TasksSettled
  <2>3. CASE Top.op = "notify"
    <3>1. SameCalls("frame", stack, stack')
      BY <1>3, <2>3
    <3>2. \A i \in called' : i \in called \/ i \notin Held(tasks, new_tasks)
      BY <1>1, <1>4, <2>3
    <3> QED
      BY <1>1, <2>1, <3>1, <3>2, SettledSame DEF TasksSettled
  <2> QED
    BY <1>4, <2>2, <2>3
<1>8. ASSUME ~disturbed', ~undefined'
      PROVE  ListenersSettled'
  <2>1. Settled("notify", "listener", listeners, new_listeners, stack, entry, called, ended)
    BY <1>1, <1>8 DEF LuaInv, ListenersSettled
  <2>2. CASE Top.op = "notify"
    <3>1. /\ stack'[Len(stack)].at \in 1..Len(listeners[stack'[Len(stack)].context])
          /\ Called(listeners, stack'[Len(stack)]) = This
      BY <1>3, <1>4, <2>2 DEF Called
    <3>2. /\ Calls("notify", stack') = Calls("notify", stack) \cup {Len(stack)}
          /\ \A k \in Calls("notify", stack) : stack'[k] = stack[k]
      BY <1>3, <2>2
    <3>3. Settled("notify", "listener", listeners, new_listeners, stack', entry, called \cup {This}, ended)
      BY <2>1, <3>1, <3>2, SettledCall
    <3> QED
      BY <1>1, <3>3 DEF ListenersSettled
  <2>3. CASE Top.op = "frame"
    <3>1. SameCalls("notify", stack, stack')
      BY <1>3, <2>3
    <3>2. \A i \in called' : i \in called \/ i \notin Held(listeners, new_listeners)
      BY <1>1, <1>4, <2>3
    <3> QED
      BY <1>1, <2>1, <3>1, <3>2, SettledSame DEF ListenersSettled
  <2> QED
    BY <1>4, <2>2, <2>3
<1> QED
  BY <1>5, <1>6, <1>7, <1>8 DEF LuaInv

\* A walk leaves its entry: erased when it is done, else passed by.
LEMMA LeaveStep ==
  ASSUME LuaInv, stack # <<>>, Top.op # "load", Inside, Leave,
         Top.calling \/ This \in is_deleted,
         UNCHANGED <<scripts, entry, new_tasks, new_listeners, is_deleted, undefined, called, ended>>
  PROVE  LuaInv'
<1> DEFINE c == Top.context
<1>1. stack \in Seq(WalkRecord) /\ Stacked(stack) /\ Top = Last(stack) /\ Top = stack[Len(stack)]
  BY TopWalk DEF LuaInv, LuaTypes
<1>2. PICK w \in WalkRecord : w.op = Top.op /\ ~w.calling /\ stack' = Front(stack) \o <<w>>
  <2>1. Top \in WalkRecord
    BY TopWalk DEF LuaInv
  <2>2. CASE Drop
    <3>1. stack' = Front(stack) \o <<[Top EXCEPT !.calling = FALSE]>>
      BY <2>2 DEF Drop, SetTop
    <3> QED
      BY <2>1, <3>1, WalkChanges
  <2>3. CASE Keep
    <3>1. stack' = Front(stack) \o <<[Top EXCEPT !.at = @ + 1, !.calling = FALSE]>>
      BY <2>3 DEF Keep, SetTop
    <3> QED
      BY <2>1, <3>1, WalkChanges
  <2> QED
    BY <2>2, <2>3 DEF Leave
<1>3. /\ stack' \in Seq(WalkRecord) /\ Stacked(stack')
      /\ \A op, k : k \in Calls(op, stack') =>
           k \in Calls(op, stack) /\ k \in 1..Len(stack) - 1 /\ stack'[k] = stack[k]
      /\ \A op, k : k \in Calls(op, stack) =>
           k \in Calls(op, stack') \/ (k = Len(stack) /\ op = Top.op)
      /\ \A op : op # Top.op => SameCalls(op, stack, stack')
  <2> DEFINE st2 == Front(stack) \o <<w>>
  <2>1. /\ st2 \in Seq(WalkRecord) /\ Stacked(st2)
        /\ \A op, k : k \in Calls(op, st2) =>
             k \in Calls(op, stack) /\ k \in 1..Len(stack) - 1 /\ st2[k] = stack[k]
        /\ \A op, k : k \in Calls(op, stack) =>
             k \in Calls(op, st2) \/ (k = Len(stack) /\ op = Top.op)
        /\ \A op : op # Top.op => SameCalls(op, stack, st2)
    BY <1>1, <1>2, LeaveStack
  <2>2. stack' = st2
    BY <1>2
  <2> HIDE DEF st2
  <2> QED
    BY <2>1, <2>2
<1>4. /\ c \in Context
      /\ \/ /\ Top.op = "frame" /\ Top.at \in 1..Len(tasks[c]) /\ This = tasks[c][Top.at]
         \/ /\ Top.op = "notify" /\ Top.at \in 1..Len(listeners[c]) /\ This = listeners[c][Top.at]
  BY ThisHeld
<1>5. \/ /\ Top.op = "frame" /\ tasks' = Erased(tasks, c, Top.at) /\ UNCHANGED listeners
         /\ entry[This].volatile \/ This \in ended
      \/ /\ Top.op = "notify" /\ listeners' = Erased(listeners, c, Top.at) /\ UNCHANGED tasks
         /\ ~disturbed' => ~Nested(Front(stack), c)
         /\ entry[This].volatile \/ This \in ended
      \/ UNCHANGED <<tasks, listeners>> /\ ~entry[This].volatile
  <2>1. is_deleted = ended
    BY DEF LuaInv, Marked
  <2>2. CASE Finished(This)
    <3>1. Drop /\ (entry[This].volatile \/ This \in ended)
      BY <2>1, <2>2 DEF Leave, Finished
    <3>2. CASE Top.op = "frame"
      <4>1. tasks' = Erased(tasks, c, Top.at) /\ UNCHANGED listeners
        BY <3>1, <3>2 DEF Drop, Erased
      <4> QED
        BY <3>1, <3>2, <4>1
    <3>3. CASE Top.op = "notify"
      <4>1. listeners' = Erased(listeners, c, Top.at) /\ UNCHANGED tasks
        BY <3>1, <3>3 DEF Drop, Erased
      <4>2. ~disturbed' => ~Nested(Front(stack), c)
        BY <3>1, <3>3 DEF Drop
      <4> QED
        BY <3>1, <3>3, <4>1, <4>2
    <3> QED
      BY <1>4, <3>2, <3>3
  <2>3. CASE ~Finished(This)
    BY <2>3 DEF Leave, Keep, Finished
  <2> QED
    BY <2>2, <2>3
<1>6. /\ OnePlace(tasks, new_tasks) /\ OnePlace(listeners, new_listeners)
      /\ tasks \in Lists /\ new_tasks \in Lists /\ listeners \in Lists /\ new_listeners \in Lists
  BY DEF LuaInv, LuaTypes, TasksKept, ListenersKept, Kept
<1>7. /\ tasks' \in Lists /\ OnePlace(tasks', new_tasks)
      /\ \/ tasks' = tasks
         \/ /\ Top.op = "frame" /\ Held(tasks', new_tasks) = Held(tasks, new_tasks) \ {This}
            /\ entry[This].volatile \/ This \in ended
  <2>1. CASE Top.op = "frame" /\ tasks' = Erased(tasks, c, Top.at)
               /\ (entry[This].volatile \/ This \in ended)
    <3>1. Top.at \in 1..Len(tasks[c]) /\ This = tasks[c][Top.at]
      BY <1>4, <2>1
    <3>2. /\ Erased(tasks, c, Top.at) \in Lists /\ OnePlace(Erased(tasks, c, Top.at), new_tasks)
          /\ Held(Erased(tasks, c, Top.at), new_tasks) = Held(tasks, new_tasks) \ {tasks[c][Top.at]}
      BY <1>4, <1>6, <3>1, Erasing
    <3> QED
      BY <2>1, <3>1, <3>2
  <2>2. CASE tasks' = tasks
    BY <1>6, <2>2
  <2> QED
    BY <1>5, <2>1, <2>2
<1>8. /\ listeners' \in Lists /\ OnePlace(listeners', new_listeners)
      /\ \/ listeners' = listeners
         \/ /\ Top.op = "notify"
            /\ Held(listeners', new_listeners) = Held(listeners, new_listeners) \ {This}
            /\ entry[This].volatile \/ This \in ended
            /\ \A d \in Context : d # c => listeners'[d] = listeners[d]
            /\ ~disturbed' => ~Nested(Front(stack), c)
  <2>1. CASE Top.op = "notify" /\ listeners' = Erased(listeners, c, Top.at)
               /\ (~disturbed' => ~Nested(Front(stack), c))
               /\ (entry[This].volatile \/ This \in ended)
    <3>1. Top.at \in 1..Len(listeners[c]) /\ This = listeners[c][Top.at]
      BY <1>4, <2>1
    <3>2. /\ Erased(listeners, c, Top.at) \in Lists
          /\ OnePlace(Erased(listeners, c, Top.at), new_listeners)
          /\ Held(Erased(listeners, c, Top.at), new_listeners)
               = Held(listeners, new_listeners) \ {listeners[c][Top.at]}
          /\ \A d \in Context : d # c => Erased(listeners, c, Top.at)[d] = listeners[d]
      BY <1>4, <1>6, <3>1, Erasing
    <3> QED
      BY <2>1, <3>1, <3>2
  <2>2. CASE listeners' = listeners
    BY <1>6, <2>2
  <2> QED
    BY <1>5, <2>1, <2>2
<1>9. UNCHANGED <<entry, new_tasks, new_listeners, called, ended>> /\ (disturbed => disturbed')
  BY DEF Leave, Drop, Keep
<1>10. LuaTypes' /\ Marked'
  BY <1>3, <1>7, <1>8 DEF LuaInv, LuaTypes, Marked, Added
<1>11. TasksKept'
  <2>1. Held(tasks', new_tasks) \subseteq Held(tasks, new_tasks)
    BY <1>7
  <2> QED
    BY <1>7, <1>9, <2>1 DEF LuaInv, TasksKept, Kept
<1>12. ListenersKept'
  <2>1. Held(listeners', new_listeners) \subseteq Held(listeners, new_listeners)
    BY <1>8
  <2> QED
    BY <1>8, <1>9, <2>1 DEF LuaInv, ListenersKept, Kept
<1>13. TasksSettled'
  <2>1. Settled("frame", "task", tasks, new_tasks, stack, entry, called, ended)
    BY DEF LuaInv, TasksSettled
  <2>2. CASE Top.op = "frame"
    <3>1. Len(stack) = 1
      BY <2>2, TopWalk DEF LuaInv
    <3>2. Calls("frame", stack') = {}
      BY <1>3, <3>1
    <3>3. Called(tasks, stack[Len(stack)]) = This
      BY <1>1, <1>4, <2>2 DEF Called
    <3>4. \A k \in Calls("frame", stack) : Called(tasks, stack[k]) = This
      BY <1>3, <3>2, <3>3
    <3>5. This \in ended \/ This \in called
      <4>1. CASE Top.calling
        <5>1. Len(stack) \in Calls("frame", stack)
          BY <1>1, <2>2, <3>1, <4>1 DEF Calls
        <5> QED
          BY <2>1, <3>3, <5>1 DEF Settled
      <4>2. CASE This \in is_deleted
        BY <4>2 DEF LuaInv, Marked
      <4> QED
        BY <4>1, <4>2
    <3>6. \/ Held(tasks', new_tasks) = Held(tasks, new_tasks) /\ ~entry[This].volatile
          \/ /\ Held(tasks', new_tasks) = Held(tasks, new_tasks) \ {This}
             /\ This \in ended \/ (entry[This].volatile /\ This \in called)
      <4>1. CASE ~entry[This].volatile /\ tasks' = tasks
        BY <4>1
      <4>2. CASE /\ Held(tasks', new_tasks) = Held(tasks, new_tasks) \ {This}
                 /\ entry[This].volatile \/ This \in ended
        BY <3>5, <4>2
      <4>3. \/ ~entry[This].volatile /\ tasks' = tasks
            \/ /\ Held(tasks', new_tasks) = Held(tasks, new_tasks) \ {This}
               /\ entry[This].volatile \/ This \in ended
        <5>1. Held(Erased(tasks, c, Top.at), new_tasks) = Held(tasks, new_tasks) \ {This}
          BY <1>4, <1>6, <2>2, Erasing
        <5> QED
          BY <1>5, <2>2, <5>1
      <4> QED
        BY <4>1, <4>2, <4>3
    <3>7. /\ Calls("frame", stack') \subseteq Calls("frame", stack)
          /\ \A k \in Calls("frame", stack') :
               stack'[k] = stack[k] /\ tasks'[stack[k].context] = tasks[stack[k].context]
          /\ \A k \in Calls("frame", stack) :
               k \in Calls("frame", stack') \/ Called(tasks, stack[k]) = This
      BY <3>2, <3>4
    <3>8. Leaves("frame", tasks, new_tasks, tasks', stack, stack', entry, called, ended, This)
      BY <3>6, <3>7 DEF Leaves
    <3>9. Settled("frame", "task", tasks', new_tasks, stack', entry, called, ended)
      BY <2>1, <3>8, SettledLeave
    <3> QED
      BY <1>9, <3>9 DEF TasksSettled
  <2>3. CASE Top.op = "notify"
    <3>1. SameCalls("frame", stack, stack')
      BY <1>3, <2>3
    <3>2. tasks' = tasks
      BY <1>5, <2>3
    <3> QED
      BY <1>9, <2>1, <3>1, <3>2, SettledSame DEF TasksSettled
  <2> QED
    BY <1>4, <2>2, <2>3
<1>14. ASSUME ~disturbed', ~undefined'
       PROVE  ListenersSettled'
  <2>1. Settled("notify", "listener", listeners, new_listeners, stack, entry, called, ended)
    BY <1>9, <1>14 DEF LuaInv, ListenersSettled
  <2>2. CASE Top.op = "notify"
    <3>1. Called(listeners, stack[Len(stack)]) = This
      BY <1>1, <1>4, <2>2 DEF Called
    <3>2. \A k \in Calls("notify", stack') :
            k \in Calls("notify", stack) /\ k \in 1..Len(stack) - 1 /\ stack'[k] = stack[k]
      BY <1>3
    <3>3. \A k \in Calls("notify", stack) :
            k \in Calls("notify", stack') \/ Called(listeners, stack[k]) = This
      BY <1>3, <3>1
    <3>4. This \in ended \/ This \in called
      <4>1. CASE Top.calling
        <5>1. Len(stack) \in Nat \ {0}
          BY TopWalk DEF LuaInv
        <5>2. Len(stack) \in Calls("notify", stack)
          BY <1>1, <2>2, <4>1, <5>1 DEF Calls
        <5> QED
          BY <2>1, <3>1, <5>2 DEF Settled
      <4>2. CASE This \in is_deleted
        BY <4>2 DEF LuaInv, Marked
      <4> QED
        BY <4>1, <4>2
    <3>5. ASSUME NEW k \in Calls("notify", stack')
          PROVE  listeners'[stack[k].context] = listeners[stack[k].context]
      <4>1. CASE listeners' = listeners
        BY <4>1
      <4>2. CASE /\ \A d \in Context : d # c => listeners'[d] = listeners[d]
                 /\ ~Nested(Front(stack), c)
        <5>1. /\ Front(stack) \in Seq(WalkRecord) /\ k \in 1..Len(Front(stack))
              /\ Front(stack)[k] = stack[k]
          BY <1>1, <3>2, PopWalk
        <5>2. stack[k].op = "notify"
          BY <3>2 DEF Calls
        <5>3. stack[k].context # c
          BY <4>2, <5>1, <5>2 DEF Nested
        <5>4. stack[k] \in WalkRecord
          BY <5>1
        <5>5. stack[k].context \in Context
          BY <5>4 DEF WalkRecord
        <5> QED
          BY <4>2, <5>3, <5>5
      <4> QED
        BY <1>8, <1>14, <4>1, <4>2
    <3>6. \/ Held(listeners', new_listeners) = Held(listeners, new_listeners) /\ ~entry[This].volatile
          \/ /\ Held(listeners', new_listeners) = Held(listeners, new_listeners) \ {This}
             /\ This \in ended \/ (entry[This].volatile /\ This \in called)
      <4>1. CASE ~entry[This].volatile /\ listeners' = listeners
        BY <4>1
      <4>2. CASE /\ Held(listeners', new_listeners) = Held(listeners, new_listeners) \ {This}
                 /\ entry[This].volatile \/ This \in ended
        BY <3>4, <4>2
      <4>3. \/ ~entry[This].volatile /\ listeners' = listeners
            \/ /\ Held(listeners', new_listeners) = Held(listeners, new_listeners) \ {This}
               /\ entry[This].volatile \/ This \in ended
        <5>1. Held(Erased(listeners, c, Top.at), new_listeners)
                = Held(listeners, new_listeners) \ {This}
          BY <1>4, <1>6, <2>2, Erasing
        <5> QED
          BY <1>5, <2>2, <5>1
      <4> QED
        BY <4>1, <4>2, <4>3
    <3>7. /\ Calls("notify", stack') \subseteq Calls("notify", stack)
          /\ \A k \in Calls("notify", stack') :
               stack'[k] = stack[k] /\ listeners'[stack[k].context] = listeners[stack[k].context]
      BY <3>2, <3>5
    <3>8. Leaves("notify", listeners, new_listeners, listeners', stack, stack', entry, called, ended, This)
      BY <3>3, <3>6, <3>7 DEF Leaves
    <3>9. Settled("notify", "listener", listeners', new_listeners, stack', entry, called, ended)
      BY <2>1, <3>8, SettledLeave
    <3> QED
      BY <1>9, <3>9 DEF ListenersSettled
  <2>3. CASE Top.op = "frame"
    <3>1. SameCalls("notify", stack, stack')
      BY <1>3, <2>3
    <3>2. listeners' = listeners
      BY <1>5, <2>3
    <3> QED
      BY <1>9, <2>1, <3>1, <3>2, SettledSame DEF ListenersSettled
  <2> QED
    BY <1>4, <2>2, <2>3
<1> QED
  BY <1>10, <1>11, <1>12, <1>13, <1>14 DEF LuaInv

\* The innermost walk passes an entry by.
LEMMA SkipStep ==
  ASSUME LuaInv, Skip
  PROVE  LuaInv'
<1> DEFINE w == [Top EXCEPT !.at = @ + 1]
<1>1. /\ stack # <<>> /\ ~Top.calling /\ stack' = Front(stack) \o <<w>>
      /\ UNCHANGED <<scripts, entry, lists, is_deleted, undefined, disturbed, called, ended>>
  BY DEF Skip, Walking, SetTop, history
<1>2. stack \in Seq(WalkRecord) /\ Stacked(stack) /\ Top = Last(stack) /\ Top \in WalkRecord
      /\ (Top.op = "load" => ~Top.calling)
  BY <1>1, TopWalk DEF LuaInv, LuaTypes
<1>3. w \in WalkRecord /\ w.op = Top.op /\ w.calling = Top.calling
  BY <1>2, WalkChanges
<1> HIDE DEF w
<1>4. stack' \in Seq(WalkRecord)
  BY <1>1, <1>2, <1>3, ChangeWalk
<1>5. Stacked(stack') /\ \A op : SameCalls(op, stack, stack')
  BY <1>1, <1>2, <1>3, QuietChange
<1>6. LuaTypes' /\ Marked'
  BY <1>1, <1>4, <1>5 DEF LuaInv, LuaTypes, Marked, Added, lists
<1> QED
  BY <1>1, <1>5, <1>6, QuietStep

\* The innermost walk ends.
LEMMA DoneStep ==
  ASSUME LuaInv, Done
  PROVE  LuaInv'
<1>1. /\ stack # <<>> /\ ~Last(stack).calling /\ stack' = Front(stack)
      /\ UNCHANGED <<scripts, entry, lists, is_deleted, undefined, disturbed, called, ended>>
  BY DEF Done, Walking, Top, history
<1>2. stack \in Seq(WalkRecord) /\ Stacked(stack)
  BY DEF LuaInv, LuaTypes
<1>3. stack' \in Seq(WalkRecord) /\ Stacked(stack') /\ \A op : SameCalls(op, stack, stack')
  BY <1>1, <1>2, PopWalk, QuietPop
<1>4. LuaTypes' /\ Marked'
  BY <1>1, <1>3 DEF LuaInv, LuaTypes, Marked, Added, lists
<1> QED
  BY <1>1, <1>3, <1>4, QuietStep

\* A step of a script, or of the clock, that leaves the vectors and the walks.
LEMMA ScriptStep ==
  ASSUME LuaInv,
         \/ \E id \in Added : remove(id)
         \/ \E id \in Added, e \in Ending : add_endon_condition(id, e)
         \/ Tick
  PROVE  LuaInv'
<1>1. /\ UNCHANGED <<scripts, entry, lists, stack, undefined, disturbed, called>>
      /\ \/ UNCHANGED <<is_deleted, ended>>
         \/ \E id \in Added : is_deleted' = is_deleted \cup {id} /\ ended' = ended \cup {id}
  BY DEF remove, add_endon_condition, Tick, history
<1>2. /\ ended \subseteq ended'
      /\ is_deleted = ended => is_deleted' = ended'
  BY <1>1
<1>3. LuaTypes' /\ Marked'
  BY <1>1, <1>2 DEF LuaInv, LuaTypes, Marked, Added, lists
<1>4. \A op : SameCalls(op, stack, stack')
  BY <1>1, SameStack
<1> QED
  BY <1>1, <1>2, <1>3, <1>4, QuietStep

\* The place of the innermost walk is past the end when its callback returns.
LEMMA LostPlace ==
  ASSUME LuaInv, undefined',
         UNCHANGED <<scripts, entry, lists, is_deleted, stack, disturbed, called, ended>>
  PROVE  LuaInv'
<1> USE DEF lists
<1>1. LuaTypes' /\ Marked'
  BY DEF LuaInv, LuaTypes, Marked, Added
<1>2. TasksKept' /\ ListenersKept' /\ TasksSettled'
  BY DEF LuaInv, TasksKept, ListenersKept, TasksSettled
<1> QED
  BY <1>1, <1>2 DEF LuaInv

\* A callback returns.
LEMMA ReturnStep ==
  ASSUME LuaInv, Return
  PROVE  LuaInv'
<1>1. /\ stack # <<>> /\ Top.op # "load" /\ Top.calling
      /\ UNCHANGED <<scripts, entry, new_tasks, new_listeners, is_deleted, called, ended>>
  BY DEF Return, Running
<1>2. CASE Inside
  <2>1. Leave /\ UNCHANGED undefined
    BY <1>2 DEF Return
  <2> QED
    BY <1>1, <1>2, <2>1, LeaveStep
<1>3. CASE ~Inside
  <2>1. undefined' /\ UNCHANGED <<tasks, listeners, stack, disturbed>>
    BY <1>3 DEF Return
  <2> QED
    BY <1>1, <2>1, LostPlace DEF lists
<1> QED
  BY <1>2, <1>3

\* Nothing is kept from one run of the engine to the next.
LEMMA StoppedInv ==
  ASSUME scripts = 0, entry = <<>>, tasks = Empty, new_tasks = Empty,
         listeners = Empty, new_listeners = Empty,
         is_deleted = {}, called = {}, ended = {},
         stack \in Seq(WalkRecord), Stacked(stack), \A op : Calls(op, stack) = {}
  PROVE  LuaInv
<1>1. Empty \in Lists /\ Held(Empty, Empty) = {} /\ OnePlace(Empty, Empty)
  BY SettledEmpty
<1>2. \A op, kind : Settled(op, kind, Empty, Empty, stack, <<>>, {}, {})
  BY SettledEmpty
<1>3. LuaTypes /\ Marked
  <2>1. <<>> \in Seq(AnyRequest) /\ 0 \in 0..Contexts
    BY LuaAssumption
  <2> QED
    BY <1>1, <2>1 DEF LuaTypes, Marked
<1>4. TasksKept /\ ListenersKept
  BY <1>1 DEF TasksKept, ListenersKept, Kept
<1>5. TasksSettled /\ ListenersSettled
  BY <1>2 DEF TasksSettled, ListenersSettled
<1> QED
  BY <1>3, <1>4, <1>5 DEF LuaInv

LEMMA InitInv ==
  Init => LuaInv
<1> SUFFICES ASSUME Init PROVE LuaInv
  OBVIOUS
<1>1. stack \in Seq(WalkRecord) /\ Stacked(stack) /\ \A op : Calls(op, stack) = {}
  BY NoWalk DEF Init
<1> QED
  BY <1>1, StoppedInv DEF Init

\* The engine stops, and loads the first script.
LEMMA StopStep ==
  ASSUME LuaInv, LoadLevel \/ ShutdownGame
  PROVE  LuaInv'
<1>1. /\ scripts' = 0 /\ entry' = <<>> /\ tasks' = Empty /\ new_tasks' = Empty
      /\ listeners' = Empty /\ new_listeners' = Empty
      /\ is_deleted' = {} /\ called' = {} /\ ended' = {}
  BY DEF LoadLevel, ShutdownGame, stop
<1>2. stack' \in Seq(WalkRecord) /\ Stacked(stack') /\ \A op : Calls(op, stack') = {}
  <2>1. CASE LoadLevel
    <3> DEFINE w == Walk("load", 1, CHOOSE e \in Event : TRUE)
    <3>1. w \in WalkRecord /\ ~w.calling
      <4>1. 1 \in Context
        BY LuaAssumption DEF Context
      <4> QED
        BY <4>1, NewWalk, SomeEvent
    <3>2. stack' = <<w>>
      BY <2>1 DEF LoadLevel
    <3> HIDE DEF w
    <3> QED
      BY <3>1, <3>2, OneWalk
  <2>2. CASE ShutdownGame
    BY <2>2, NoWalk DEF ShutdownGame, Idle
  <2> QED
    BY <2>1, <2>2
<1>3. TasksKept' /\ ListenersKept'
  BY <1>1, SettledEmpty, <1>2 DEF TasksKept, ListenersKept, Kept
<1>4. LuaTypes' /\ Marked'
  <2>1. <<>> \in Seq(AnyRequest) /\ 0 \in 0..Contexts
    BY LuaAssumption
  <2> QED
    BY <1>1, <1>2, <2>1, SettledEmpty DEF LuaTypes, Marked
<1>5. TasksSettled' /\ ListenersSettled'
  <2>1. \A op, kind : Settled(op, kind, Empty, Empty, stack', <<>>, {}, {})
    BY <1>2, SettledEmpty
  <2> QED
    BY <1>1, <2>1 DEF TasksSettled, ListenersSettled
<1> QED
  BY <1>3, <1>4, <1>5 DEF LuaInv

\* A script is loaded, and the next one begins.
LEMMA LoadedStep ==
  ASSUME LuaInv, Loaded
  PROVE  LuaInv'
<1>1. /\ stack # <<>> /\ Top.op = "load"
      /\ UNCHANGED <<entry, lists, is_deleted, undefined, disturbed, called, ended>>
  BY DEF Loaded, Running, history
<1>2. /\ Top.context \in Context /\ Top.event \in Event
      /\ \A op : Calls(op, stack) = {}
  <2>1. Top \in WalkRecord /\ ~Top.calling /\ \A op : Calls(op, stack) = {}
    BY <1>1, TopWalk DEF LuaInv
  <2> QED
    BY <2>1 DEF WalkRecord
<1>3. stack' \in Seq(WalkRecord) /\ Stacked(stack') /\ \A op : Calls(op, stack') = {}
  <2>1. CASE Top.context < Contexts
    <3> DEFINE w == Walk("load", Top.context + 1, Top.event)
    <3>1. w \in WalkRecord /\ ~w.calling
      <4>1. Top.context + 1 \in Context
        BY <1>2, <2>1, LuaAssumption DEF Context
      <4> QED
        BY <1>2, <4>1, NewWalk
    <3>2. stack' = <<w>>
      BY <2>1 DEF Loaded
    <3> HIDE DEF w
    <3> QED
      BY <3>1, <3>2, OneWalk
  <2>2. CASE ~(Top.context < Contexts)
    BY <2>2, NoWalk DEF Loaded
  <2> QED
    BY <2>1, <2>2
<1>4. \A op : SameCalls(op, stack, stack')
  BY <1>2, <1>3 DEF SameCalls
<1>5. scripts' \in 0..Contexts
  BY <1>2, LuaAssumption DEF Loaded, Context
<1>6. LuaTypes' /\ Marked'
  BY <1>1, <1>3, <1>5 DEF LuaInv, LuaTypes, Marked, Added, lists
<1> QED
  BY <1>1, <1>4, <1>6, QuietStep

\* A walk through the next context begins where one has ended.
LEMMA NextContextStep ==
  ASSUME LuaInv, NextContext
  PROVE  LuaInv'
<1>1. stack # <<>> /\ ~undefined /\ Top.op # "load" /\ ~Top.calling /\ Top.context < scripts
  BY DEF NextContext, Walking
<1>2. Top \in WalkRecord /\ Top = Last(stack)
      /\ (Top.op # "notify" => \A op : Calls(op, stack) = {})
  BY <1>1, TopWalk DEF LuaInv
<1>3. Top.context + 1 \in Context /\ Top.event \in Event /\ Top.op \in {"frame", "notify"}
  <2>1. scripts \in 0..Contexts
    BY DEF LuaInv, LuaTypes
  <2> QED
    BY <1>1, <1>2, <2>1, LuaAssumption DEF WalkRecord, Context
<1>4. CASE Top.op = "frame"
  <2>1. BeginFrame(Top.context + 1)
    BY <1>4 DEF NextContext
  <2> QED
    BY <1>2, <1>3, <1>4, <2>1, FrameStep
<1>5. CASE Top.op = "notify"
  <2>1. BeginNotify(Front(stack), Top.context + 1, Top.event)
    BY <1>5 DEF NextContext
  <2>2. /\ Front(stack) \in Seq(WalkRecord) /\ Stacked(Front(stack)) /\ AllRun(Front(stack))
        /\ \A op : SameCalls(op, stack, Front(stack))
    BY <1>1, <1>2, PopWalk, QuietPop DEF LuaInv, LuaTypes
  <2> QED
    BY <1>1, <1>3, <2>1, <2>2, NotifyStep
<1> QED
  BY <1>3, <1>4, <1>5

\* The game notifies, or the callback that runs does.
LEMMA NotifiedStep ==
  ASSUME LuaInv, NEW e \in Event, Notify(e)
  PROVE  LuaInv'
<1>1. ~undefined /\ BeginNotify(stack, 1, e) /\ (stack = <<>> \/ Running)
  BY DEF Notify, Idle, Running
<1>2. stack \in Seq(WalkRecord) /\ Stacked(stack) /\ 1 \in Context
  BY LuaAssumption DEF LuaInv, LuaTypes, Context
<1>3. AllRun(stack)
  <2>1. CASE stack = <<>>
    BY <2>1, NoWalk
  <2>2. CASE stack # <<>> /\ Running
    <3>1. Len(stack) \in Nat \ {0} /\ Top = stack[Len(stack)] /\ (Top.op = "load" \/ Top.calling)
      BY <2>2, TopWalk DEF LuaInv, Running
    <3>2. \A k \in 1..Len(stack) : k < Len(stack) \/ k = Len(stack)
      BY <3>1
    <3> QED
      BY <1>2, <3>1, <3>2 DEF AllRun, Stacked
  <2> QED
    BY <1>1, <2>1, <2>2
<1> QED
  BY <1>1, <1>2, <1>3, SameStack, NotifyStep

\* A frame of the server.
LEMMA RunFrameStep ==
  ASSUME LuaInv, RunFrame
  PROVE  LuaInv'
<1>1. BeginFrame(1) /\ stack = <<>> /\ 1 \in Context
  BY LuaAssumption DEF RunFrame, Idle, Context
<1> QED
  BY <1>1, NoWalk, FrameStep

\* A deleted entry is dropped when its turn comes.
LEMMA DiscardStep ==
  ASSUME LuaInv, Discard
  PROVE  LuaInv'
<1>1. /\ stack # <<>> /\ Top.op # "load" /\ Inside /\ Leave /\ This \in is_deleted
      /\ UNCHANGED <<scripts, entry, new_tasks, new_listeners, is_deleted, undefined, called, ended>>
  BY DEF Discard, Walking, Wanted
<1> QED
  BY <1>1, LeaveStep

LEMMA NextInv ==
  LuaInv /\ [Next]_vars => LuaInv'
<1> SUFFICES ASSUME LuaInv, [Next]_vars
             PROVE  LuaInv'
  OBVIOUS
<1>1. CASE \E r \in Request : Add(r)
  BY <1>1, AddStep
<1>2. CASE (\E id \in Added : remove(id))
             \/ (\E id \in Added, e \in Ending : add_endon_condition(id, e)) \/ Tick
  BY <1>2, ScriptStep
<1>3. CASE \E e \in Event : Notify(e)
  BY <1>3, NotifiedStep
<1>4. CASE RunFrame
  BY <1>4, RunFrameStep
<1>5. CASE Skip
  BY <1>5, SkipStep
<1>6. CASE Call
  BY <1>6, CallStep
<1>7. CASE Discard
  BY <1>7, DiscardStep
<1>8. CASE Return
  BY <1>8, ReturnStep
<1>9. CASE NextContext
  BY <1>9, NextContextStep
<1>10. CASE Done
  BY <1>10, DoneStep
<1>11. CASE LoadLevel \/ ShutdownGame
  BY <1>11, StopStep
<1>12. CASE Loaded
  BY <1>12, LoadedStep
<1>13. CASE UNCHANGED vars
  <2>1. UNCHANGED <<scripts, entry, lists, is_deleted, stack, undefined, disturbed, called, ended>>
    BY <1>13 DEF vars, history
  <2>2. LuaTypes' /\ Marked'
    BY <2>1 DEF LuaInv, LuaTypes, Marked, Added, lists
  <2>3. \A op : SameCalls(op, stack, stack')
    BY <2>1, SameStack
  <2> QED
    BY <2>1, <2>2, <2>3, QuietStep
<1> QED
  BY <1>1, <1>2, <1>3, <1>4, <1>5, <1>6, <1>7, <1>8, <1>9, <1>10, <1>11, <1>12, <1>13 DEF Next

\* A task stays until it has been ended or has been called as often as it
\* asked for, whatever is added, cleared and notified in between; so does a
\* listener as long as no dispatch within a dispatch has changed its vector.
THEOREM EntriesKept ==
  Spec => []KeptUntilDone
BY InitInv, NextInv, SettledKeeps, PTL DEF Spec

-----------------------------------------------------------------------------
(* Who is called.                                                          *)

\* The last walk of a stack that was appended, or changed.
LEMMA NewTop ==
  ASSUME NEW st \in Seq(WalkRecord), NEW w \in WalkRecord
  PROVE  /\ Last(Append(st, w)) = w
         /\ st # <<>> => Last(Front(st) \o <<w>>) = w
<1>1. \A s \in Seq(WalkRecord) : Len(s) \in Nat /\ Last(Append(s, w)) = w
  BY AppendElements DEF Last
<1>2. st # <<>> => Front(st) \in Seq(WalkRecord) /\ Front(st) \o <<w>> = Append(Front(st), w)
  BY PopWalk, ChangeWalk
<1> QED
  BY <1>1, <1>2

\* Where the innermost walk gets its record from, if a callback has started.
LEMMA OnlyCallStarts ==
  ASSUME LuaInv, Next, NEW id, Starts(id)
  PROVE  Call
<1>1. /\ stack # <<>> /\ Len(stack') = Len(stack) /\ ~Top.calling /\ Last(stack').calling
      /\ stack \in Seq(WalkRecord) /\ Last(stack) = Top /\ Top \in WalkRecord
      /\ Len(stack) \in Nat \ {0}
  BY TopWalk DEF LuaInv, LuaTypes, Starts, Top
<1>2. stack' # stack
  BY <1>1
<1>3. ASSUME NEW w \in WalkRecord, ~w.calling
      PROVE  /\ stack' # Front(stack) \o <<w>> /\ stack' # Append(Front(stack), w)
             /\ stack' # Append(stack, w) /\ stack' # <<w>>
  <2>1. stack' # Front(stack) \o <<w>> /\ stack' # Append(Front(stack), w)
    <3>1. Last(Front(stack) \o <<w>>) = w /\ Front(stack) \o <<w>> = Append(Front(stack), w)
      BY <1>1, NewTop, ChangeWalk
    <3> QED
      BY <1>1, <1>3, <3>1
  <2>2. stack' # Append(stack, w)
    BY <1>1, <1>3, NewTop
  <2>3. stack' # <<w>>
    BY <1>1, <1>3 DEF Last
  <2> QED
    BY <2>1, <2>2, <2>3
<1>4. ~(\E r \in Request : Add(r)) /\ ~Tick /\ ~ShutdownGame
      /\ ~(\E i \in Added : remove(i)) /\ ~(\E i \in Added, e \in Ending : add_endon_condition(i, e))
  BY <1>2 DEF Add, Tick, ShutdownGame, remove, add_endon_condition
<1>5. ~RunFrame /\ ~LoadLevel
  BY <1>1 DEF RunFrame, LoadLevel, Idle
<1>6. ~Return
  BY <1>1 DEF Return, Running
<1>7. ~Skip
  <2>1. [Top EXCEPT !.at = @ + 1] \in WalkRecord /\ ~[Top EXCEPT !.at = @ + 1].calling
    BY <1>1, WalkChanges
  <2> QED
    BY <1>3, <2>1 DEF Skip, SetTop
<1>8. ~Discard
  <2>1. /\ [Top EXCEPT !.calling = FALSE] \in WalkRecord /\ ~[Top EXCEPT !.calling = FALSE].calling
        /\ [Top EXCEPT !.at = @ + 1, !.calling = FALSE] \in WalkRecord
        /\ ~[Top EXCEPT !.at = @ + 1, !.calling = FALSE].calling
    BY <1>1, WalkChanges
  <2> QED
    BY <1>3, <2>1 DEF Discard, Leave, Drop, Keep, SetTop
<1>9. ~Done
  <2>1. Len(Front(stack)) = Len(stack) - 1
    BY <1>1, PopWalk
  <2> QED
    BY <1>1, <2>1 DEF Done
<1>10. ~Loaded
  <2> SUFFICES ASSUME Loaded PROVE FALSE
    OBVIOUS
  <2>1. CASE Top.context < Contexts
    <3>1. stack' = <<Walk("load", Top.context + 1, Top.event)>>
      BY <2>1 DEF Loaded
    <3>2. Top.context + 1 \in Context /\ Top.event \in Event
      BY <1>1, <2>1, LuaAssumption DEF WalkRecord, Context
    <3> QED
      BY <1>3, <3>1, <3>2, NewWalk
  <2>2. CASE ~(Top.context < Contexts)
    <3>1. stack' = <<>>
      BY <2>2 DEF Loaded
    <3> QED
      BY <1>1, <3>1
  <2> QED
    BY <2>1, <2>2
<1>11. ASSUME NEW e \in Event, Notify(e)
       PROVE  FALSE
  <2>1. Walk("notify", 1, e) \in WalkRecord /\ ~Walk("notify", 1, e).calling
    <3>1. 1 \in Context
      BY LuaAssumption DEF Context
    <3> QED
      BY <3>1, NewWalk
  <2>2. stack' = Append(stack, Walk("notify", 1, e))
    BY <1>11 DEF Notify, BeginNotify
  <2> QED
    BY <1>3, <2>1, <2>2
<1>12. ~NextContext
  <2> SUFFICES ASSUME NextContext PROVE FALSE
    OBVIOUS
  <2> DEFINE c == Top.context + 1
  <2>1. c \in Context /\ Top.event \in Event
    <3>1. scripts \in 0..Contexts /\ Top.context < scripts
      BY DEF LuaInv, LuaTypes, NextContext
    <3> QED
      BY <1>1, <3>1, LuaAssumption DEF WalkRecord, Context
  <2>2. CASE Top.op = "frame"
    <3>1. stack' = <<Walk("frame", c, CHOOSE e \in Event : TRUE)>>
      BY <2>2 DEF NextContext, BeginFrame
    <3> QED
      BY <1>3, <2>1, <3>1, NewWalk, SomeEvent
  <2>3. CASE Top.op # "frame"
    <3>1. stack' = Append(Front(stack), Walk("notify", c, Top.event))
      BY <2>3 DEF NextContext, BeginNotify
    <3> QED
      BY <1>3, <2>1, <3>1, NewWalk
  <2> QED
    BY <2>2, <2>3
<1> QED
  BY <1>4, <1>5, <1>6, <1>7, <1>8, <1>9, <1>10, <1>11, <1>12 DEF Next

\* What was cleared, or ended by an event, is never called afterwards, not even
\* by the walk that is under way.
THEOREM NeverCalledAgain ==
  Spec => EndedNeverCalled
<1>1. ASSUME LuaInv, [Next]_vars
      PROVE  [\A id \in Added : Starts(id) => id \notin ended]_vars
  <2>1. CASE Next
    <3> SUFFICES ASSUME NEW id \in Added, Starts(id)
                 PROVE  id \notin ended
      OBVIOUS
    <3>1. Call
      BY <1>1, <2>1, OnlyCallStarts
    <3>2. This \notin is_deleted /\ This = id
      BY <3>1 DEF Call, Wanted, Starts
    <3> QED
      BY <1>1, <3>2 DEF LuaInv, Marked
  <2>2. CASE UNCHANGED vars
    BY <2>2
  <2> QED
    BY <1>1, <2>1, <2>2
<1> QED
  BY <1>1, InitInv, NextInv, PTL DEF Spec, EndedNeverCalled
===============================================================================

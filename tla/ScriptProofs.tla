---------------------------- MODULE ScriptProofs ----------------------------
(***************************************************************************)
(* Proofs about what runs scripts.  ScriptVM: for any objects, arguments   *)
(* and nested calls, the count of every object of the script machine is    *)
(* the number of its holders; these are counted as sets of places on       *)
(* stacks, and the invariant says besides that a result stands alone on    *)
(* the stack of its call: only then does a call that ends leave no         *)
(* parameter behind uncounted.  LuaValues: hooks stay fewer than the       *)
(* lowest position of code, so an invoke is told from them and a number is *)
(* free.  Gsc: every table is one of some code that was compiled, and      *)
(* places of code do not overlap.  UiScripting: references have one owner  *)
(* each, so there is always a free one.                                    *)
(***************************************************************************)
EXTENDS MCScripting, SequenceLemmas

\* The machine by itself.
ScriptSpec == VMInit /\ [][VMNext]_vmVars

-----------------------------------------------------------------------------
(* Counting the places of an object.                                       *)

\* The places of an object on a stack are finitely many.
LEMMA PlacesFinite ==
  ASSUME NEW S, NEW s \in Seq(S), NEW o
  PROVE  /\ IsFiniteSet(Places(o, s)) /\ Places(o, s) \subseteq 1..Len(s)
         /\ Times(o, s) \in Nat
BY OccurrencesFinite DEF Times, Places, Occurrences

\* An empty stack holds nothing.
LEMMA TimesNone ==
  ASSUME NEW o
  PROVE  Times(o, <<>>) = 0
<1>1. Places(o, <<>>) = {}
  BY DEF Places
<1> QED BY <1>1, FS_EmptySet DEF Times

\* push_value: one place more for the object that is pushed.
LEMMA TimesAppend ==
  ASSUME NEW S, NEW s \in Seq(S), NEW n \in S, NEW o
  PROVE  Times(o, Append(s, n)) = Times(o, s) + (IF n = o THEN 1 ELSE 0)
<1>1. \A t : Times(o, t) = Cardinality(Occurrences(o, t))
  BY DEF Times, Places, Occurrences
<1> QED BY <1>1, OccurrencesAppend

\* Two stacks one upon the other hold what both hold.
LEMMA TimesConcat ==
  ASSUME NEW S, NEW s \in Seq(S), NEW t \in Seq(S), NEW o
  PROVE  Times(o, s \o t) = Times(o, s) + Times(o, t)
<1>1. \A u : Times(o, u) = Cardinality(Occurrences(o, u))
  BY DEF Times, Places, Occurrences
<1> QED BY <1>1, OccurrencesConcat

\* The arguments are pushed in reverse: every one of them once.
LEMMA TimesReverse ==
  ASSUME NEW S, NEW s \in Seq(S), NEW o
  PROVE  Reverse(s) \in Seq(S) /\ Len(Reverse(s)) = Len(s) /\ Times(o, Reverse(s)) = Times(o, s)
<1> DEFINE r == Reverse(s)
           P == Places(o, s)
           Q == Places(o, r)
           f == [k \in P |-> Len(s) - k + 1]
<1>1. Len(s) \in Nat /\ DOMAIN s = 1..Len(s) /\ \A k \in 1..Len(s) : s[k] \in S
  BY LenProperties, ElementOfSeq
<1>2. \A k \in 1..Len(s) : Len(s) - k + 1 \in 1..Len(s) /\ Len(s) - (Len(s) - k + 1) + 1 = k
  BY <1>1
<1>3. r \in [1..Len(s) -> S] /\ \A k \in 1..Len(s) : r[k] = s[Len(s) - k + 1]
  BY <1>1, <1>2 DEF Reverse
<1> HIDE DEF r
<1>4. r \in Seq(S) /\ Len(r) = Len(s) /\ DOMAIN r = 1..Len(s)
  BY <1>1, <1>3, FunctionIsSeq
<1>5. IsFiniteSet(P) /\ P \subseteq 1..Len(s)
  BY PlacesFinite
<1>6. f \in [P -> Q]
  <2>1. ASSUME NEW k \in P PROVE Len(s) - k + 1 \in Q
    <3>1. k \in 1..Len(s) /\ s[k] = o
      BY <1>1 DEF Places
    <3>2. r[Len(s) - k + 1] = o
      BY <3>1, <1>2, <1>3
    <3> QED BY <3>1, <3>2, <1>2, <1>4 DEF Places
  <2> QED BY <2>1
<1>7. \A x, y \in P : f[x] = f[y] => x = y
  BY <1>1, <1>5
<1>8. ASSUME NEW q \in Q PROVE \E x \in P : f[x] = q
  <2>1. q \in 1..Len(s) /\ r[q] = o
    BY <1>4 DEF Places
  <2>2. Len(s) - q + 1 \in P
    BY <2>1, <1>1, <1>2, <1>3 DEF Places
  <2>3. f[Len(s) - q + 1] = q
    BY <2>1, <2>2, <1>2
  <2> QED BY <2>2, <2>3
<1> HIDE DEF f, P, Q
<1>9. Cardinality(Q) = Cardinality(P)
  BY <1>5, <1>6, <1>7, <1>8, SameSize
<1> QED BY <1>4, <1>9 DEF Times, P, Q, r

\* Clearing the out parameters takes what they hold from the stack.
LEMMA TimesCut ==
  ASSUME NEW S, NEW s \in Seq(S), NEW n \in 0..Len(s), NEW o
  PROVE  /\ SubSeq(s, 1, n) \in Seq(S) /\ Len(SubSeq(s, 1, n)) = n
         /\ SubSeq(s, n + 1, Len(s)) \in Seq(S)
         /\ Times(o, s) = Times(o, SubSeq(s, 1, n)) + Times(o, SubSeq(s, n + 1, Len(s)))
<1>1. /\ SubSeq(s, 1, n) \in Seq(S) /\ SubSeq(s, n + 1, Len(s)) \in Seq(S)
      /\ SubSeq(s, 1, n) \o SubSeq(s, n + 1, Len(s)) = s
  BY SubSeqCut
<1>2. Len(s) \in Nat /\ n \in Nat /\ \A i \in 1..n : s[i] \in S
  BY LenProperties, ElementOfSeq
<1>3. Len(SubSeq(s, 1, n)) = n
  BY <1>2, SubSeqProperties
<1>4. Times(o, SubSeq(s, 1, n) \o SubSeq(s, n + 1, Len(s)))
        = Times(o, SubSeq(s, 1, n)) + Times(o, SubSeq(s, n + 1, Len(s)))
  BY <1>1, TimesConcat
<1> QED BY <1>1, <1>3, <1>4

-----------------------------------------------------------------------------
(* Calls that wait.                                                        *)

Op == {"call", "exec", "notify"}
Machine == [stack : Seq(Object), in : Nat, out : Nat]
Call == [op : Op, saved : Machine]

\* The places on the stacks of the calls that wait are finitely many.
LEMMA WaitingFinite ==
  ASSUME NEW cs \in Seq(Call), NEW o
  PROVE  IsFiniteSet(Waiting(o, cs)) /\ Cardinality(Waiting(o, cs)) \in Nat
<1> DEFINE D == DOMAIN cs
           F == {{k} \X Places(o, cs[k].saved.stack) : k \in D}
           f == [k \in D |-> {k} \X Places(o, cs[k].saved.stack)]
<1>1. D = 1..Len(cs) /\ Len(cs) \in Nat /\ \A k \in 1..Len(cs) : cs[k] \in Call
  BY LenProperties, ElementOfSeq
<1>2. IsFiniteSet(D)
  BY <1>1, FS_Interval
<1>3. f \in Surjection(D, F)
  BY DEF Surjection
<1>4. IsFiniteSet(F)
  BY <1>2, <1>3, FS_Surjection
<1>5. ASSUME NEW k \in D
      PROVE  IsFiniteSet({k} \X Places(o, cs[k].saved.stack))
  <2>1. cs[k].saved.stack \in Seq(Object)
    BY <1>1 DEF Call, Machine
  <2>2. IsFiniteSet(Places(o, cs[k].saved.stack)) /\ IsFiniteSet({k})
    BY <2>1, PlacesFinite, FS_Singleton
  <2> QED BY <2>2, FS_Product
<1>6. \A T \in F : IsFiniteSet(T)
  BY <1>5
<1>7. IsFiniteSet(UNION F)
  BY <1>4, <1>6, FS_UNION
<1> QED BY <1>7, FS_CardinalityType DEF Waiting

\* Nothing waits when there is no call.
LEMMA WaitingNone ==
  ASSUME NEW o
  PROVE  Cardinality(Waiting(o, <<>>)) = 0 /\ Cardinality(LongJumps(<<>>)) = 0
<1>1. Waiting(o, <<>>) = {} /\ LongJumps(<<>>) = {}
  BY DEF Waiting, LongJumps
<1> QED BY <1>1, FS_EmptySet

\* A call that begins saves the stack: what stood on it waits now.
LEMMA WaitingPush ==
  ASSUME NEW cs \in Seq(Call), NEW c \in Call, NEW o
  PROVE  Cardinality(Waiting(o, Append(cs, c))) = Cardinality(Waiting(o, cs)) + Times(o, c.saved.stack)
<1> DEFINE t == Append(cs, c)
           W == Waiting(o, cs)
           N == {Len(cs) + 1} \X Places(o, c.saved.stack)
<1>1. /\ t \in Seq(Call) /\ Len(t) = Len(cs) + 1 /\ t[Len(cs) + 1] = c
      /\ \A k \in 1..Len(cs) : t[k] = cs[k]
  BY AppendElements
<1>2. Len(cs) \in Nat /\ DOMAIN cs = 1..Len(cs) /\ DOMAIN t = 1..Len(t)
  BY <1>1, LenProperties
<1> HIDE DEF t
<1>3. \A e : e \in W <=> \E k \in 1..Len(cs) : e \in {k} \X Places(o, cs[k].saved.stack)
  BY <1>2 DEF Waiting
<1>4. \A e : e \in Waiting(o, t) <=> \E k \in 1..Len(cs) + 1 : e \in {k} \X Places(o, t[k].saved.stack)
  BY <1>1, <1>2 DEF Waiting
<1>5. \A k : k \in 1..Len(cs) + 1 <=> k \in 1..Len(cs) \/ k = Len(cs) + 1
  BY <1>2
<1>6. \A e : e \in Waiting(o, t) <=> e \in W \cup N
  <2> HIDE DEF W
  <2> TAKE e
  <2>1. e \in Waiting(o, t) => e \in W \cup N
    BY <1>1, <1>3, <1>4, <1>5
  <2>2. e \in W => e \in Waiting(o, t)
    BY <1>1, <1>3, <1>4, <1>5
  <2>3. e \in N => e \in Waiting(o, t)
    BY <1>1, <1>4, <1>5
  <2> QED BY <2>1, <2>2, <2>3
<1>7. Waiting(o, t) = W \cup N
  BY <1>6
<1>8. W \cap N = {}
  <2> HIDE DEF W
  <2>1. ASSUME NEW e \in W, e \in N PROVE FALSE
    <3>1. PICK k \in 1..Len(cs) : e \in {k} \X Places(o, cs[k].saved.stack)
      BY <1>3
    <3>2. e[1] = k /\ e[1] = Len(cs) + 1
      BY <2>1, <3>1
    <3> QED BY <3>2, <1>2
  <2> QED BY <2>1
<1>9. IsFiniteSet(W) /\ Cardinality(W) \in Nat
  BY WaitingFinite
<1>10. IsFiniteSet(N) /\ Cardinality(N) = Times(o, c.saved.stack) /\ Cardinality(N) \in Nat
  <2>1. c.saved.stack \in Seq(Object)
    BY DEF Call, Machine
  <2>2. IsFiniteSet(Places(o, c.saved.stack)) /\ Times(o, c.saved.stack) \in Nat
    BY <2>1, PlacesFinite
  <2>3. IsFiniteSet({Len(cs) + 1}) /\ Cardinality({Len(cs) + 1}) = 1
    BY FS_Singleton
  <2>4. IsFiniteSet(N) /\ Cardinality(N) = Cardinality({Len(cs) + 1}) * Cardinality(Places(o, c.saved.stack))
    BY <2>2, <2>3, FS_Product
  <2>5. \A n \in Nat : 1 * n = n
    OBVIOUS
  <2> HIDE DEF N
  <2> QED BY <2>2, <2>3, <2>4, <2>5 DEF Times
<1> HIDE DEF W, N
<1>11. Cardinality(W \cup N) = Cardinality(W) + Cardinality(N) - Cardinality({})
  BY <1>8, <1>9, <1>10, FS_Union
<1>12. Cardinality({}) = 0
  BY FS_EmptySet
<1>13. Cardinality(W \cup N) = Cardinality(W) + Cardinality(N)
  BY <1>9, <1>10, <1>11, <1>12
<1> QED BY <1>7, <1>10, <1>13 DEF t, W

\* A call that sets a long jump raises their number by one.
LEMMA JumpsPush ==
  ASSUME NEW cs \in Seq(Call), NEW c \in Call
  PROVE  /\ Cardinality(LongJumps(cs)) \in Nat
         /\ Cardinality(LongJumps(Append(cs, c)))
              = Cardinality(LongJumps(cs)) + (IF c.op = "call" THEN 1 ELSE 0)
<1> DEFINE t == Append(cs, c)
<1>1. /\ t \in Seq(Call) /\ Len(t) = Len(cs) + 1 /\ t[Len(cs) + 1] = c
      /\ \A k \in 1..Len(cs) : t[k] = cs[k]
  BY AppendElements
<1>2. Len(cs) \in Nat /\ DOMAIN cs = 1..Len(cs) /\ DOMAIN t = 1..Len(t)
  BY <1>1, LenProperties
<1> HIDE DEF t
<1>3. LongJumps(cs) \subseteq 1..Len(cs) /\ IsFiniteSet(1..Len(cs))
  BY <1>2, FS_Interval DEF LongJumps
<1>4. IsFiniteSet(LongJumps(cs)) /\ Cardinality(LongJumps(cs)) \in Nat
  BY <1>3, FS_Subset, FS_CardinalityType
<1>5. CASE c.op = "call"
  <2>1. LongJumps(t) = LongJumps(cs) \cup {Len(cs) + 1}
    BY <1>1, <1>2, <1>5 DEF LongJumps
  <2>2. Len(cs) + 1 \notin LongJumps(cs)
    BY <1>2, <1>3
  <2> QED BY <2>1, <2>2, <1>4, <1>5, FS_AddElement DEF t
<1>6. CASE c.op # "call"
  <2>1. LongJumps(t) = LongJumps(cs)
    BY <1>1, <1>2, <1>6 DEF LongJumps
  <2> QED BY <2>1, <1>4, <1>6 DEF t
<1> QED BY <1>5, <1>6

\* The calls without the innermost, and the innermost appended again.
LEMMA InnermostLast ==
  ASSUME NEW S, NEW cs \in Seq(S), cs # <<>>
  PROVE  /\ Front(cs) \in Seq(S) /\ Last(cs) \in S /\ Len(Front(cs)) = Len(cs) - 1
         /\ Len(cs) \in Nat \ {0} /\ Last(cs) = cs[Len(cs)]
         /\ \A k \in 1..Len(cs) - 1 : Front(cs)[k] = cs[k]
         /\ Append(Front(cs), Last(cs)) = cs
<1> DEFINE u == Front(cs)
<1>1. Len(cs) \in Nat \ {0} /\ \A k \in 1..Len(cs) : cs[k] \in S
  BY EmptySeq, LenProperties, ElementOfSeq
<1>2. Last(cs) = cs[Len(cs)] /\ Len(cs) \in 1..Len(cs)
  BY <1>1 DEF Last
<1>3. u \in Seq(S) /\ Len(u) = Len(cs) - 1 /\ \A k \in 1..Len(cs) - 1 : u[k] = cs[k]
  <2>1. /\ SubSeq(cs, 1, Len(cs) - 1) \in Seq(S)
        /\ Len(SubSeq(cs, 1, Len(cs) - 1)) = IF 1 <= Len(cs) - 1 THEN Len(cs) - 1 - 1 + 1 ELSE 0
        /\ \A k \in 1..Len(cs) - 1 - 1 + 1 : SubSeq(cs, 1, Len(cs) - 1)[k] = cs[1 + k - 1]
    <3>1. 1 \in Int /\ Len(cs) - 1 \in Int /\ \A k \in 1..Len(cs) - 1 : cs[k] \in S
      BY <1>1
    <3> QED BY <3>1, SubSeqProperties
  <2>2. /\ (IF 1 <= Len(cs) - 1 THEN Len(cs) - 1 - 1 + 1 ELSE 0) = Len(cs) - 1
        /\ Len(cs) - 1 - 1 + 1 = Len(cs) - 1
        /\ \A k \in 1..Len(cs) - 1 : 1 + k - 1 = k
    <3>1. \A n \in Nat \ {0} :
            (IF 1 <= n - 1 THEN n - 1 - 1 + 1 ELSE 0) = n - 1 /\ n - 1 - 1 + 1 = n - 1
      OBVIOUS
    <3>2. \A k \in 1..Len(cs) - 1 : 1 + k - 1 = k
      OBVIOUS
    <3> QED BY <3>1, <3>2, <1>1, Zenon
  <2> DEFINE v == SubSeq(cs, 1, Len(cs) - 1)
  <2>3. v = u
    BY Zenon DEF Front
  <2> HIDE DEF u, v
  <2>4. v \in Seq(S) /\ Len(v) = Len(cs) - 1
    BY <2>1, <2>2, Zenon DEF v
  <2>5. \A k \in 1..Len(cs) - 1 : v[k] = cs[k]
    BY <2>1, <2>2 DEF v
  <2> QED BY <2>3, <2>4, <2>5
<1> HIDE DEF u
<1>4. Last(cs) \in S
  BY <1>1, <1>2
<1>5. Append(u, Last(cs)) = cs
  <2>1. /\ Append(u, Last(cs)) \in Seq(S) /\ Len(Append(u, Last(cs))) = Len(u) + 1
        /\ Append(u, Last(cs))[Len(u) + 1] = Last(cs)
        /\ \A k \in 1..Len(u) : Append(u, Last(cs))[k] = u[k]
    BY <1>3, <1>4, AppendElements
  <2>2. Len(Append(u, Last(cs))) = Len(cs)
    BY <1>1, <1>3, <2>1
  <2>3. \A k \in 1..Len(cs) : Append(u, Last(cs))[k] = cs[k]
    BY <1>1, <1>2, <1>3, <2>1
  <2> QED BY <2>1, <2>2, <2>3, SeqEqual
<1> QED BY <1>1, <1>2, <1>3, <1>4, <1>5 DEF u

\* In which call the k-th stack is in use; the first is the game's own.
Over(cs, k) == IF k = 1 THEN "game" ELSE cs[k - 1].op

\* A result is alone on the stack, and only a call that may have one has one.
Alone(m, op) == m.in = 0 \/ (m.out = 0 /\ op \in {"call", "exec"})

\* The stacks of the calls under way, the innermost one's is m.
Shape(m, cs) ==
  /\ Counted(m) /\ Alone(m, Over(cs, Len(cs) + 1))
  /\ \A k \in 1..Len(cs) : Counted(cs[k].saved) /\ Alone(cs[k].saved, Over(cs, k))

\* The call c waits besides cs: the counts of what waits follow.
OneMore(ds, cs, c) ==
  /\ \A o : Cardinality(Waiting(o, ds)) = Cardinality(Waiting(o, cs)) + Times(o, c.saved.stack)
  /\ Cardinality(LongJumps(ds)) = Cardinality(LongJumps(cs)) + (IF c.op = "call" THEN 1 ELSE 0)

\* stack_isolation (stack_isolation.cpp): the stack waits with the others.
LEMMA Pushed ==
  ASSUME NEW c \in Call, NEW cs \in Seq(Call), Shape(c.saved, cs),
         NEW n \in Machine, Counted(n), n.in = 0,
         NEW ds, ds = Append(cs, c)
  PROVE  /\ ds \in Seq(Call) /\ Shape(n, ds)
         /\ OneMore(ds, cs, c)
<1>1. c \in Call
  OBVIOUS
<1>2. /\ ds \in Seq(Call) /\ Len(ds) = Len(cs) + 1 /\ ds[Len(cs) + 1] = c
      /\ \A k \in 1..Len(cs) : ds[k] = cs[k]
  BY AppendElements
<1>3. Len(cs) \in Nat
  BY LenProperties
<1>4. \A k \in 1..Len(cs) + 1 : Over(ds, k) = Over(cs, k)
  BY <1>2, <1>3 DEF Over
<1>5. \A k \in 1..Len(cs) : Counted(ds[k].saved) /\ Alone(ds[k].saved, Over(ds, k))
  BY <1>2, <1>3, <1>4 DEF Shape
<1>6. Counted(ds[Len(cs) + 1].saved) /\ Alone(ds[Len(cs) + 1].saved, Over(ds, Len(cs) + 1))
  BY <1>1, <1>2, <1>3, <1>4 DEF Shape
<1>7. \A k \in 1..Len(ds) : k \in 1..Len(cs) \/ k = Len(cs) + 1
  BY <1>2, <1>3
<1>8. Shape(n, ds)
  BY <1>5, <1>6, <1>7 DEF Shape, Alone
<1>9. \A o : Cardinality(Waiting(o, ds)) = Cardinality(Waiting(o, cs)) + Times(o, c.saved.stack)
  <2> TAKE o
  <2>1. Cardinality(Waiting(o, Append(cs, c))) = Cardinality(Waiting(o, cs)) + Times(o, c.saved.stack)
    BY <1>1, WaitingPush
  <2> QED BY <2>1, <1>1, Zenon
<1>10. Cardinality(LongJumps(ds)) = Cardinality(LongJumps(cs)) + (IF c.op = "call" THEN 1 ELSE 0)
  <2>1. Cardinality(LongJumps(Append(cs, c))) = Cardinality(LongJumps(cs)) + (IF c.op = "call" THEN 1 ELSE 0)
    BY <1>1, JumpsPush
  <2> QED BY <2>1, <1>1, Zenon
<1> QED BY <1>2, <1>8, <1>9, <1>10 DEF OneMore

\* ~stack_isolation (stack_isolation.cpp): the stack saved last is back.
LEMMA Popped ==
  ASSUME NEW m \in Machine, NEW cs \in Seq(Call), Shape(m, cs), cs # <<>>
  PROVE  /\ Front(cs) \in Seq(Call) /\ Last(cs).saved \in Machine /\ Last(cs).op \in Op
         /\ Shape(Last(cs).saved, Front(cs)) /\ Alone(m, Last(cs).op)
         /\ OneMore(cs, Front(cs), Last(cs))
<1> DEFINE c == Last(cs)
           ds == Front(cs)
<1>1. /\ ds \in Seq(Call) /\ c \in Call /\ Len(ds) = Len(cs) - 1
      /\ Len(cs) \in Nat \ {0} /\ c = cs[Len(cs)]
      /\ \A k \in 1..Len(cs) - 1 : ds[k] = cs[k]
      /\ Append(ds, c) = cs
  BY InnermostLast
<1> HIDE DEF c, ds
<1>2. c.saved \in Machine /\ c.op \in Op
  BY <1>1 DEF Call
<1>3. \A k \in 1..Len(cs) : Over(ds, k) = Over(cs, k)
  BY <1>1 DEF Over
<1>4. Alone(m, c.op)
  BY <1>1 DEF Shape, Over
<1>5. Counted(c.saved) /\ Alone(c.saved, Over(ds, Len(ds) + 1))
  <2>1. Len(cs) \in 1..Len(cs) /\ Len(ds) + 1 = Len(cs)
    BY <1>1
  <2> QED BY <2>1, <1>1, <1>3 DEF Shape
<1>6. \A k \in 1..Len(ds) : Counted(ds[k].saved) /\ Alone(ds[k].saved, Over(ds, k))
  <2>1. \A k \in 1..Len(ds) : k \in 1..Len(cs) /\ k \in 1..Len(cs) - 1
    BY <1>1
  <2> QED BY <2>1, <1>1, <1>3 DEF Shape
<1>7. Shape(c.saved, ds)
  BY <1>5, <1>6 DEF Shape
<1>8. \A o : Cardinality(Waiting(o, cs)) = Cardinality(Waiting(o, ds)) + Times(o, c.saved.stack)
  <2> TAKE o
  <2>1. Cardinality(Waiting(o, Append(ds, c))) = Cardinality(Waiting(o, ds)) + Times(o, c.saved.stack)
    BY <1>1, WaitingPush
  <2> QED BY <2>1, <1>1, Zenon
<1>9. Cardinality(LongJumps(cs)) = Cardinality(LongJumps(ds)) + (IF c.op = "call" THEN 1 ELSE 0)
  <2>1. Cardinality(LongJumps(Append(ds, c))) = Cardinality(LongJumps(ds)) + (IF c.op = "call" THEN 1 ELSE 0)
    BY <1>1, JumpsPush
  <2> QED BY <2>1, <1>1, Zenon
<1>10. OneMore(cs, ds, c)
  BY <1>8, <1>9 DEF OneMore
<1> QED BY <1>1, <1>2, <1>4, <1>7, <1>10 DEF c, ds

\* Another stack of the same call.
LEMMA Replaced ==
  ASSUME NEW m, NEW n, NEW cs, Shape(m, cs), Counted(n), Alone(n, Over(cs, Len(cs) + 1))
  PROVE  Shape(n, cs)
BY DEF Shape

\* Scr_ClearOutParams: the references of the out parameters end with them.
LEMMA ClearedOut ==
  ASSUME NEW m \in Machine, Counted(m)
  PROVE  /\ Cleared(m) \in Machine /\ Counted(Cleared(m)) /\ Len(Cleared(m).stack) = m.in
         /\ Cleared(m).in = m.in /\ Cleared(m).out = 0
         /\ OutParams(m) \in Seq(Object)
         /\ \A o : Times(o, m.stack) = Times(o, Cleared(m).stack) + Times(o, OutParams(m))
<1> DEFINE s == m.stack
           n == Len(s) - m.out
<1>0. s = m.stack
  OBVIOUS
<1>1. s \in Seq(Object) /\ m.in \in Nat /\ m.out \in Nat /\ m.in + m.out = Len(s) /\ Len(s) \in Nat
  BY LenProperties DEF Machine, Counted
<1>2. n \in 0..Len(s) /\ n = m.in
  BY <1>1
<1>3. Cleared(m) = [stack |-> SubSeq(s, 1, n), in |-> m.in, out |-> 0] /\ OutParams(m) = SubSeq(s, n + 1, Len(s))
  BY DEF Cleared, OutParams, Stack
<1> HIDE DEF s, n
<1>4. /\ SubSeq(s, 1, n) \in Seq(Object) /\ Len(SubSeq(s, 1, n)) = n
      /\ SubSeq(s, n + 1, Len(s)) \in Seq(Object)
      /\ \A o : Times(o, s) = Times(o, SubSeq(s, 1, n)) + Times(o, SubSeq(s, n + 1, Len(s)))
  BY <1>1, <1>2, TimesCut
<1>5. Cleared(m).stack = SubSeq(s, 1, n) /\ Cleared(m).in = m.in /\ Cleared(m).out = 0
  BY DEF Cleared, Stack, s, n
<1>6. Cleared(m) \in Machine
  BY <1>1, <1>3, <1>4 DEF Machine
<1>7. Counted(Cleared(m)) /\ Len(Cleared(m).stack) = m.in
  BY <1>1, <1>2, <1>4, <1>5 DEF Counted
<1>8. \A o : Times(o, m.stack) = Times(o, Cleared(m).stack) + Times(o, OutParams(m))
  BY <1>0, <1>3, <1>4, <1>5, Zenon
<1> QED BY <1>3, <1>4, <1>5, <1>6, <1>7, <1>8

\* When all are out parameters, nothing is left.
LEMMA AllOut ==
  ASSUME NEW m \in Machine, m.out = Len(m.stack)
  PROVE  OutParams(m) = m.stack
<1>1. m.stack \in Seq(Object) /\ Len(m.stack) \in Nat
  BY LenProperties DEF Machine
<1>2. Len(m.stack) - m.out + 1 = 1
  BY <1>1
<1> QED BY <1>1, <1>2, SubSeqFull DEF OutParams

-----------------------------------------------------------------------------
(* The invariant.                                                          *)

\* The type invariant of ScriptVM (client/game/scripting).
ScriptTypeOK ==
  /\ refs \in [Object -> Int]
  /\ owned \subseteq Object
  /\ held \in [Object -> Nat]
  /\ variable \in Object \cup {NoObject} /\ custom \in Object \cup {NoObject}
  /\ vm \in Machine
  /\ calls \in Seq(Call)
  /\ g_script_error_level \in Int
  /\ events \in [Object -> Nat]

\* The holders of an object besides the stacks.
Own(o) ==
  held[o]
    + (IF o \in owned THEN 1 ELSE 0)
    + (IF o = variable THEN 1 ELSE 0)
    + (IF o = custom THEN 1 ELSE 0)

\* The references to an object that belong to somebody.
Kept == [o \in Object |-> refs[o] - events[o]]

Balanced == \A o \in Object : Kept[o] = Own(o) + Times(o, vm.stack) + Cardinality(Waiting(o, calls))

ScriptInv ==
  /\ ScriptTypeOK
  /\ Shape(vm, calls)
  /\ g_script_error_level = Cardinality(LongJumps(calls))
  /\ ~unheld => Balanced

\* What a stack holds is a number.
LEMMA PartsInt ==
  ASSUME NEW m \in Machine, NEW cs \in Seq(Call)
  PROVE  \A o : Times(o, m.stack) \in Nat /\ Cardinality(Waiting(o, cs)) \in Nat
<1> TAKE o
<1>1. m.stack \in Seq(Object)
  BY DEF Machine
<1> QED BY <1>1, PlacesFinite, WaitingFinite

\* An object has a number of holders besides the stacks.
LEMMA OwnInt ==
  ASSUME ScriptTypeOK, NEW o \in Object
  PROVE  Own(o) \in Nat
BY DEF ScriptTypeOK, Own

LEMMA InitialScript ==
  ASSUME VMInit
  PROVE  ScriptInv
<1>1. /\ owned \subseteq Object /\ refs = [o \in Object |-> IF o \in owned THEN 1 ELSE 0]
      /\ held = [o \in Object |-> 0] /\ variable = NoObject /\ custom = NoObject
      /\ calls = <<>> /\ g_script_error_level = 0 /\ events = [o \in Object |-> 0]
  BY DEF VMInit
<1>2. vm = [stack |-> <<>>, in |-> 0, out |-> 0]
  BY DEF VMInit, Stack
<1>3. /\ vm.stack = <<>> /\ vm.in = 0 /\ vm.out = 0 /\ vm \in Machine
      /\ calls \in Seq(Call)
  <2>1. \A S : <<>> \in Seq(S)
    OBVIOUS
  <2> QED BY <1>1, <1>2, <2>1 DEF Machine
<1>4. ScriptTypeOK
  BY <1>1, <1>3 DEF ScriptTypeOK
<1>5. Shape(vm, calls)
  BY <1>1, <1>3 DEF Shape, Counted, Alone
<1>6. \A o \in Object : Kept[o] = Own(o)
  BY <1>1, ScriptVMAssumption DEF Own, Kept
<1>7. \A o : Times(o, vm.stack) = 0 /\ Cardinality(Waiting(o, calls)) = 0 /\ Cardinality(LongJumps(calls)) = 0
  BY <1>1, <1>3, TimesNone, WaitingNone, Zenon
<1>8. \A o \in Object : Own(o) \in Nat
  BY <1>4, OwnInt
<1> QED BY <1>1, <1>4, <1>5, <1>6, <1>7, <1>8 DEF ScriptInv, Balanced

\* A step that leaves the stacks alone keeps the counts if it counts what it
\* gives and takes.
LEMMA SameMachine ==
  ASSUME ScriptInv, ScriptTypeOK', UNCHANGED machine, UNCHANGED events,
         unheld' \/ (~unheld /\ \A o \in Object : refs'[o] = refs[o] + Own(o)' - Own(o))
  PROVE  ScriptInv'
<1>1. vm' = vm /\ calls' = calls /\ g_script_error_level' = g_script_error_level
  BY DEF machine
<1>2. Shape(vm, calls)' /\ (g_script_error_level = Cardinality(LongJumps(calls)))'
  BY <1>1 DEF ScriptInv
<1>3. ASSUME ~unheld'
      PROVE  Balanced'
  <2>1. ~unheld /\ \A o \in Object : refs'[o] = refs[o] + Own(o)' - Own(o)
    BY <1>3
  <2>2. ASSUME NEW o \in Object
        PROVE  (Kept[o] = Own(o) + Times(o, vm.stack) + Cardinality(Waiting(o, calls)))'
    <3>1. refs[o] - events[o] = Own(o) + Times(o, vm.stack) + Cardinality(Waiting(o, calls))
      BY <2>1 DEF ScriptInv, Balanced, Kept
    <3>5. refs[o] \in Int /\ events[o] \in Nat
      BY DEF ScriptInv, ScriptTypeOK
    <3>2. Own(o) \in Nat /\ Own(o)' \in Nat
      <4>1. Own(o)' \in Nat
        BY DEF ScriptTypeOK, Own
      <4> QED BY <4>1, OwnInt DEF ScriptInv
    <3>3. Times(o, vm.stack) \in Nat /\ Cardinality(Waiting(o, calls)) \in Nat
      BY PartsInt DEF ScriptInv, ScriptTypeOK
    <3>4. Times(o, vm.stack)' = Times(o, vm.stack) /\ Cardinality(Waiting(o, calls))' = Cardinality(Waiting(o, calls))
      BY <1>1
    <3> HIDE DEF Own
    <3> QED BY <2>1, <3>1, <3>2, <3>3, <3>4, <3>5 DEF Kept
  <2> QED BY <2>2 DEF Balanced
<1> QED BY <1>2, <1>3 DEF ScriptInv

-----------------------------------------------------------------------------
(* References and fields.                                                  *)

\* variable_value::assign: one script_value more, one reference more.
LEMMA WrapStep ==
  ASSUME ScriptInv, ~unheld, UNCHANGED events, NEW o \in Object, Wrap(o)
  PROVE  ScriptInv'
<1>1. /\ held' = [held EXCEPT ![o] = @ + 1] /\ refs' = [refs EXCEPT ![o] = @ + 1]
      /\ UNCHANGED <<owned, variable, custom, machine, unheld>>
  BY DEF Wrap, Assign, fields
<1>2. ScriptTypeOK'
  BY <1>1 DEF ScriptInv, ScriptTypeOK, machine
<1>3. ASSUME NEW x \in Object
      PROVE  refs'[x] = refs[x] + Own(x)' - Own(x)
  <2>1. refs[x] \in Int /\ held[x] \in Nat
    BY DEF ScriptInv, ScriptTypeOK
  <2>2. /\ refs'[x] = refs[x] + (IF x = o THEN 1 ELSE 0)
        /\ held'[x] = held[x] + (IF x = o THEN 1 ELSE 0)
    BY <1>1 DEF ScriptInv, ScriptTypeOK
  <2>3. owned' = owned /\ variable' = variable /\ custom' = custom
    BY <1>1
  <2> QED BY <2>1, <2>2, <2>3 DEF Own
<1> QED BY <1>1, <1>2, <1>3, SameMachine

\* variable_value::release.
LEMMA ReleaseStep ==
  ASSUME ScriptInv, ~unheld, UNCHANGED events, NEW o \in Object, Release(o)
  PROVE  ScriptInv'
<1>1. /\ held' = [held EXCEPT ![o] = @ - 1] /\ refs' = [refs EXCEPT ![o] = @ - 1] /\ held[o] > 0
      /\ UNCHANGED <<owned, variable, custom, machine, unheld>>
  BY DEF Release, fields
<1>2. ScriptTypeOK'
  BY <1>1 DEF ScriptInv, ScriptTypeOK, machine
<1>3. ASSUME NEW x \in Object
      PROVE  refs'[x] = refs[x] + Own(x)' - Own(x)
  <2>1. refs[x] \in Int /\ held[x] \in Nat
    BY DEF ScriptInv, ScriptTypeOK
  <2>2. /\ refs'[x] = refs[x] - (IF x = o THEN 1 ELSE 0)
        /\ held'[x] = held[x] - (IF x = o THEN 1 ELSE 0)
    BY <1>1 DEF ScriptInv, ScriptTypeOK
  <2>3. owned' = owned /\ variable' = variable /\ custom' = custom
    BY <1>1
  <2> QED BY <2>1, <2>2, <2>3 DEF Own
<1> QED BY <1>1, <1>2, <1>3, SameMachine

\* The game refers to an object, or no longer.
LEMMA GameStep ==
  ASSUME ScriptInv, ~unheld, UNCHANGED events, NEW o \in Object, GameRefers(o) \/ GameReleases(o)
  PROVE  ScriptInv'
<1>1. /\ UNCHANGED <<held, variable, custom, machine, unheld>>
      /\ \/ /\ o \notin owned /\ owned' = owned \cup {o}
            /\ refs' = [refs EXCEPT ![o] = @ + 1]
         \/ /\ o \in owned /\ owned' = owned \ {o}
            /\ refs' = [refs EXCEPT ![o] = @ - 1]
  BY DEF GameRefers, GameReleases, fields
<1>2. ScriptTypeOK'
  BY <1>1 DEF ScriptInv, ScriptTypeOK, machine
<1>3. \A x \in Object : refs'[x] = refs[x] + Own(x)' - Own(x)
  <2>0. refs \in [Object -> Int] /\ held \in [Object -> Nat]
    BY DEF ScriptInv, ScriptTypeOK
  <2>1. ASSUME NEW x \in Object
        PROVE  refs'[x] = refs[x] + (IF x \in owned' THEN 1 ELSE 0) - (IF x \in owned THEN 1 ELSE 0)
    <3>1. CASE o \notin owned
      <4>1. owned' = owned \cup {o} /\ refs'[x] = refs[x] + (IF x = o THEN 1 ELSE 0)
        BY <1>1, <2>0, <3>1
      <4> QED BY <4>1, <2>0, <3>1
    <3>2. CASE o \in owned
      <4>1. owned' = owned \ {o} /\ refs'[x] = refs[x] - (IF x = o THEN 1 ELSE 0)
        BY <1>1, <2>0, <3>2
      <4> QED BY <4>1, <2>0, <3>2
    <3> QED BY <3>1, <3>2
  <2> QED BY <1>1, <2>0, <2>1 DEF Own
<1> QED BY <1>1, <1>2, <1>3, SameMachine

\* What replaces an object in a field: one reference more for the new object,
\* one less for the old.
LEMMA FieldTypes ==
  ASSUME refs \in [Object -> Int], NEW o \in Object, NEW old \in Object \cup {NoObject},
         NEW new, new = LET counted == [refs EXCEPT ![o] = @ + 1]
                        IN IF old = NoObject THEN counted ELSE [counted EXCEPT ![old] = @ - 1]
  PROVE  /\ new \in [Object -> Int]
         /\ \A x \in Object :
              new[x] = refs[x] + (IF x = o THEN 1 ELSE 0) - (IF x = old THEN 1 ELSE 0)
<1> DEFINE counted == [refs EXCEPT ![o] = @ + 1]
<1>1. counted \in [Object -> Int] /\ \A x \in Object : counted[x] = refs[x] + (IF x = o THEN 1 ELSE 0)
  OBVIOUS
<1>2. new = IF old = NoObject THEN counted ELSE [counted EXCEPT ![old] = @ - 1]
  OBVIOUS
<1> HIDE DEF counted
<1>3. CASE old = NoObject
  BY <1>1, <1>2, <1>3, ScriptVMAssumption
<1>4. CASE old # NoObject
  BY <1>1, <1>2, <1>4
<1> QED BY <1>3, <1>4

\* A field of a struct or an array of the machine, or of an entity.
LEMMA FieldStep ==
  ASSUME ScriptInv, ~unheld, UNCHANGED events, NEW o \in Object,
         SetStructField(o) \/ SetArrayField(o) \/ SetCustomField(o)
  PROVE  ScriptInv'
<1>0. /\ refs \in [Object -> Int] /\ held \in [Object -> Nat]
      /\ variable \in Object \cup {NoObject} /\ custom \in Object \cup {NoObject}
  BY DEF ScriptInv, ScriptTypeOK
<1>1. CASE SetStructField(o)
  <2>1. /\ variable' = o /\ UNCHANGED <<owned, held, custom, machine>>
        /\ refs' = LET counted == [refs EXCEPT ![o] = @ + 1]
                   IN IF variable = NoObject THEN counted ELSE [counted EXCEPT ![variable] = @ - 1]
    BY <1>1 DEF SetStructField
  <2>2. /\ refs' \in [Object -> Int]
        /\ \A x \in Object :
             refs'[x] = refs[x] + (IF x = o THEN 1 ELSE 0) - (IF x = variable THEN 1 ELSE 0)
    BY <1>0, <2>1, FieldTypes
  <2>3. ScriptTypeOK'
    BY <2>1, <2>2 DEF ScriptInv, ScriptTypeOK, machine
  <2>4. \A x \in Object : refs'[x] = refs[x] + Own(x)' - Own(x)
    BY <1>0, <2>1, <2>2 DEF Own
  <2> QED BY <2>1, <2>3, <2>4, SameMachine
<1>2. CASE SetArrayField(o)
  <2>1. variable' = o /\ UNCHANGED <<refs, owned, held, custom, machine>> /\ unheld'
    BY <1>2 DEF SetArrayField, counts
  <2>2. ScriptTypeOK'
    BY <2>1 DEF ScriptInv, ScriptTypeOK, machine
  <2> QED BY <2>1, <2>2, SameMachine
<1>3. CASE SetCustomField(o)
  <2>1. /\ custom' = o /\ UNCHANGED <<owned, held, variable, machine>>
        /\ refs' = LET counted == [refs EXCEPT ![o] = @ + 1]
                   IN IF custom = NoObject THEN counted ELSE [counted EXCEPT ![custom] = @ - 1]
    BY <1>3 DEF SetCustomField
  <2>2. /\ refs' \in [Object -> Int]
        /\ \A x \in Object :
             refs'[x] = refs[x] + (IF x = o THEN 1 ELSE 0) - (IF x = custom THEN 1 ELSE 0)
    BY <1>0, <2>1, FieldTypes
  <2>3. ScriptTypeOK'
    BY <2>1, <2>2 DEF ScriptInv, ScriptTypeOK, machine
  <2>4. \A x \in Object : refs'[x] = refs[x] + Own(x)' - Own(x)
    BY <1>0, <2>1, <2>2 DEF Own
  <2> QED BY <2>1, <2>3, <2>4, SameMachine
<1> QED BY <1>1, <1>2, <1>3

\* clear_entity_fields: the script_value in custom_fields is gone.
LEMMA ClearStep ==
  ASSUME ScriptInv, ~unheld, UNCHANGED events, ClearEntityFields
  PROVE  ScriptInv'
<1>1. /\ custom' = NoObject /\ refs' = [refs EXCEPT ![custom] = @ - 1]
      /\ UNCHANGED <<owned, held, variable, machine, unheld>> /\ custom # NoObject
  BY DEF ClearEntityFields
<1>2. ScriptTypeOK'
  BY <1>1 DEF ScriptInv, ScriptTypeOK, machine
<1>3. ASSUME NEW x \in Object
      PROVE  refs'[x] = refs[x] + Own(x)' - Own(x)
  <2>1. refs[x] \in Int /\ held[x] \in Nat /\ x # NoObject
    BY ScriptVMAssumption DEF ScriptInv, ScriptTypeOK
  <2>2. refs'[x] = refs[x] - (IF x = custom THEN 1 ELSE 0)
    BY <1>1 DEF ScriptInv, ScriptTypeOK
  <2>3. owned' = owned /\ variable' = variable /\ held' = held /\ custom' = NoObject
    BY <1>1
  <2> QED BY <2>1, <2>2, <2>3 DEF Own
<1> QED BY <1>1, <1>2, <1>3, SameMachine

-----------------------------------------------------------------------------
(* Calls.                                                                  *)

\* AddRefToValue and RemoveRefToValue for the members of a sequence.
LEMMA Counting ==
  ASSUME NEW counted \in [Object -> Int], NEW s \in Seq(Object)
  PROVE  /\ Released(counted, s) \in [Object -> Int]
         /\ \A x \in Object : Released(counted, s)[x] = counted[x] - Times(x, s)
<1>1. \A x : Times(x, s) \in Nat
  BY PlacesFinite
<1> QED BY <1>1 DEF Released

LEMMA Referring ==
  ASSUME refs \in [Object -> Int], NEW s \in Seq(Object)
  PROVE  /\ Referred(s) \in [Object -> Int]
         /\ \A x \in Object : Referred(s)[x] = refs[x] + Times(x, s)
<1>1. \A x : Times(x, s) \in Nat
  BY PlacesFinite
<1> QED BY <1>1 DEF Referred

\* Arguments are a sequence of objects.
LEMMA ArgsType ==
  ASSUME NEW args \in Args
  PROVE  args \in Seq(Object)
BY DEF Args, BoundedSeq, SeqOf

\* What the invariant asks of a step that changes the stacks.
LEMMA NewStacks ==
  ASSUME ScriptInv, ~unheld, ScriptTypeOK', Shape(vm, calls)', UNCHANGED <<owned, fields, unheld>>,
         (g_script_error_level = Cardinality(LongJumps(calls)))',
         \A o \in Object :
           Kept'[o] - held'[o] = Kept[o] - held[o] + (Times(o, vm.stack) + Cardinality(Waiting(o, calls)))'
                                 - (Times(o, vm.stack) + Cardinality(Waiting(o, calls)))
  PROVE  ScriptInv'
<1> SUFFICES Balanced'
  BY DEF ScriptInv
<1>1. ASSUME NEW o \in Object
      PROVE  (Kept[o] = Own(o) + Times(o, vm.stack) + Cardinality(Waiting(o, calls)))'
  <2>1. Kept[o] = Own(o) + Times(o, vm.stack) + Cardinality(Waiting(o, calls))
    BY DEF ScriptInv, Balanced
  <2>2. /\ held[o] \in Nat /\ held'[o] \in Nat /\ Kept[o] \in Int /\ Kept'[o] \in Int
        /\ Own(o) \in Nat /\ Own(o)' \in Nat /\ Own(o)' = Own(o) + held'[o] - held[o]
    <3>1. held[o] \in Nat /\ held'[o] \in Nat /\ Kept[o] \in Int /\ Kept'[o] \in Int
      <4>1. held[o] \in Nat /\ held'[o] \in Nat
        BY DEF ScriptInv, ScriptTypeOK
      <4>2. refs[o] \in Int /\ refs'[o] \in Int /\ events[o] \in Nat /\ events'[o] \in Nat
        BY DEF ScriptInv, ScriptTypeOK
      <4> QED BY <4>1, <4>2 DEF Kept
    <3>2. owned' = owned /\ variable' = variable /\ custom' = custom
      BY DEF fields
    <3> QED BY <3>1, <3>2 DEF Own
  <2>3. Times(o, vm.stack) \in Nat /\ Cardinality(Waiting(o, calls)) \in Nat
    BY PartsInt DEF ScriptInv, ScriptTypeOK
  <2>4. Times(o, vm.stack)' \in Nat /\ Cardinality(Waiting(o, calls))' \in Nat
    <3>1. \A m \in Machine : \A cs \in Seq(Call) :
            Times(o, m.stack) \in Nat /\ Cardinality(Waiting(o, cs)) \in Nat
      BY PartsInt
    <3> QED BY <3>1 DEF ScriptTypeOK
  <2>5. Kept'[o] - held'[o] = Kept[o] - held[o] + (Times(o, vm.stack)' + Cardinality(Waiting(o, calls))')
                                 - (Times(o, vm.stack) + Cardinality(Waiting(o, calls)))
    OBVIOUS
  <2>6. \A r, w, t, c, h, r1, w1, t1, c1, h1 \in Int :
          r = w + t + c /\ w1 = w + h1 - h /\ r1 - h1 = r - h + (t1 + c1) - (t + c) => r1 = w1 + t1 + c1
    OBVIOUS
  <2>7. PICK r, w, t, c, h \in Int :
          Kept[o] = r /\ Own(o) = w /\ Times(o, vm.stack) = t /\ Cardinality(Waiting(o, calls)) = c /\ held[o] = h
    BY <2>2, <2>3
  <2>8. PICK r1, w1, t1, c1, h1 \in Int :
          /\ Kept'[o] = r1 /\ Own(o)' = w1 /\ Times(o, vm.stack)' = t1
          /\ Cardinality(Waiting(o, calls))' = c1 /\ held'[o] = h1
    BY <2>2, <2>4
  <2>9. r = w + t + c /\ w1 = w + h1 - h /\ r1 - h1 = r - h + (t1 + c1) - (t + c)
    BY <2>1, <2>2, <2>5, <2>7, <2>8, Zenon
  <2>10. r1 = w1 + t1 + c1
    BY <2>6, <2>9
  <2> QED BY <2>8, <2>10, Zenon
<1> QED BY <1>1 DEF Balanced

\* What the references gain, those that belong to somebody gain.
LEMMA KeptMoves ==
  ASSUME ScriptInv, ScriptTypeOK', UNCHANGED events,
         \A o \in Object :
           refs'[o] - held'[o] = refs[o] - held[o] + (Times(o, vm.stack) + Cardinality(Waiting(o, calls)))'
                                 - (Times(o, vm.stack) + Cardinality(Waiting(o, calls)))
  PROVE  \A o \in Object :
           Kept'[o] - held'[o] = Kept[o] - held[o] + (Times(o, vm.stack) + Cardinality(Waiting(o, calls)))'
                                 - (Times(o, vm.stack) + Cardinality(Waiting(o, calls)))
<1> TAKE o \in Object
<1>1. PICK r, r1, h, h1, e \in Int :
        refs[o] = r /\ refs'[o] = r1 /\ held[o] = h /\ held'[o] = h1 /\ events[o] = e
  BY DEF ScriptInv, ScriptTypeOK
<1>2. \A m \in Machine : \A cs \in Seq(Call) :
        Times(o, m.stack) \in Nat /\ Cardinality(Waiting(o, cs)) \in Nat
  BY PartsInt
<1>3. PICK t, t1, w, w1 \in Int :
        /\ Times(o, vm.stack) = t /\ Times(o, vm.stack)' = t1
        /\ Cardinality(Waiting(o, calls)) = w /\ Cardinality(Waiting(o, calls))' = w1
  BY <1>2 DEF ScriptInv, ScriptTypeOK
<1>4. r1 - h1 = r - h + (t1 + w1) - (t + w)
  BY <1>1, <1>3
<1>5. Kept[o] = r - e /\ Kept'[o] = r1 - e
  BY <1>1 DEF Kept
<1>6. (r1 - e) - h1 = (r - e) - h + (t1 + w1) - (t + w)
  BY <1>4
<1> QED BY <1>1, <1>3, <1>5, <1>6

\* stack_isolation at the beginning of a call, and the arguments on its stack.
LEMMA CallStep ==
  ASSUME ScriptInv, ~unheld, NEW op \in Op, NEW s \in Seq(Object), NEW n \in Machine,
         Counted(n), n.in = 0, \A o : Times(o, n.stack) = Times(o, s),
         Isolate(op, n), refs' \in [Object -> Int], events' \in [Object -> Nat],
         \A o \in Object : Kept'[o] = Kept[o] + Times(o, s),
         g_script_error_level' = g_script_error_level + (IF op = "call" THEN 1 ELSE 0),
         UNCHANGED <<owned, held, fields, unheld>>
  PROVE  ScriptInv'
<1>1. /\ vm \in Machine /\ calls \in Seq(Call) /\ Shape(vm, calls) /\ refs \in [Object -> Int]
      /\ held \in [Object -> Nat]
  BY DEF ScriptInv, ScriptTypeOK
<1>2. calls' = Append(calls, [op |-> op, saved |-> vm]) /\ vm' = n
  BY DEF Isolate
<1>3. PICK c \in Call : c = [op |-> op, saved |-> vm]
  BY <1>1 DEF Call
<1>4. PICK cs \in Seq(Call), ds \in {Append(calls, c)} :
        cs = calls /\ ds \in Seq(Call) /\ Shape(n, ds) /\ OneMore(ds, cs, c)
  <2>1. PICK cs \in Seq(Call), ds \in {Append(calls, c)} : cs = calls /\ ds = Append(cs, c)
    BY <1>1
  <2>2. Shape(c.saved, cs)
    BY <1>1, <1>3, <2>1
  <2>3. ds \in Seq(Call) /\ Shape(n, ds) /\ OneMore(ds, cs, c)
    BY <2>1, <2>2, Pushed
  <2> QED BY <2>1, <2>3
<1>5. calls' = ds /\ c.saved = vm /\ c.op = op
  BY <1>2, <1>3, <1>4
<1>7. ScriptTypeOK'
  <2>1. g_script_error_level' \in Int
    BY DEF ScriptInv, ScriptTypeOK
  <2> QED BY <2>1, <1>2, <1>4, <1>5 DEF ScriptInv, ScriptTypeOK, fields
<1>8. Shape(vm, calls)' /\ (g_script_error_level = Cardinality(LongJumps(calls)))'
  BY <1>2, <1>4, <1>5 DEF ScriptInv, OneMore
<1>9. ASSUME NEW o \in Object
      PROVE  Kept'[o] - held'[o] = Kept[o] - held[o] + (Times(o, vm.stack) + Cardinality(Waiting(o, calls)))'
                                 - (Times(o, vm.stack) + Cardinality(Waiting(o, calls)))
  <2>1. Times(o, vm.stack)' = Times(o, s) /\ Cardinality(Waiting(o, calls))' = Cardinality(Waiting(o, ds))
    BY <1>2, <1>5
  <2>2. Cardinality(Waiting(o, ds)) = Cardinality(Waiting(o, calls)) + Times(o, vm.stack)
    BY <1>4, <1>5 DEF OneMore
  <2>3. Times(o, vm.stack) \in Nat /\ Cardinality(Waiting(o, calls)) \in Nat /\ Times(o, s) \in Nat
    BY <1>1, PartsInt, PlacesFinite
  <2>4. Kept'[o] = Kept[o] + Times(o, s) /\ Kept[o] \in Int /\ held[o] \in Nat /\ held' = held
    BY <1>1 DEF Kept, ScriptInv, ScriptTypeOK
  <2>5. \A r, h, t, w, v \in Int : (r + v) - h = r - h + (v + (w + t)) - (t + w)
    OBVIOUS
  <2>6. PICK r, h \in Int : Kept[o] = r /\ held[o] = h
    BY <2>4
  <2>7. PICK t, w, v \in Int :
          Times(o, vm.stack) = t /\ Cardinality(Waiting(o, calls)) = w /\ Times(o, s) = v
    BY <2>3
  <2>8. (r + v) - h = r - h + (v + (w + t)) - (t + w)
    BY <2>5
  <2> QED BY <2>1, <2>2, <2>4, <2>6, <2>7, <2>8, Zenon
<1> QED BY <1>7, <1>8, <1>9, NewStacks

\* References taken for the members of a sequence.
LEMMA Counts ==
  ASSUME ScriptInv, UNCHANGED events, NEW s \in Seq(Object), refs' = Referred(s)
  PROVE  /\ refs' \in [Object -> Int] /\ events' \in [Object -> Nat]
         /\ \A o \in Object : Kept'[o] = Kept[o] + Times(o, s)
<1>1. refs \in [Object -> Int] /\ events \in [Object -> Nat]
  BY DEF ScriptInv, ScriptTypeOK
<1>2. refs' \in [Object -> Int] /\ \A o \in Object : refs'[o] = refs[o] + Times(o, s)
  BY <1>1, Referring
<1>3. ASSUME NEW o \in Object
      PROVE  Kept'[o] = Kept[o] + Times(o, s)
  <2>1. Times(o, s) \in Nat
    BY PlacesFinite
  <2>2. PICK r, e, t \in Int : refs[o] = r /\ events[o] = e /\ Times(o, s) = t
    BY <1>1, <2>1
  <2>3. refs'[o] = r + t /\ events'[o] = e
    BY <1>2, <2>2
  <2> QED BY <2>2, <2>3 DEF Kept
<1> QED BY <1>1, <1>2, <1>3

\* call_function and exec_ent_thread (execution.cpp) up to the game.
LEMMA BeginStep ==
  ASSUME ScriptInv, ~unheld, UNCHANGED events, (\E args \in Args : call_function(args)) \/ exec_ent_thread
  PROVE  ScriptInv'
<1>1. ASSUME NEW args \in Args, call_function(args)
      PROVE  ScriptInv'
  <2>1. args \in Seq(Object)
    BY ArgsType
  <2>2. /\ Reverse(args) \in Seq(Object) /\ Len(Reverse(args)) = Len(args)
        /\ \A o : Times(o, Reverse(args)) = Times(o, args)
    BY <2>1, TimesReverse
  <2>3. PICK n : n = Stack(Reverse(args), 0, Len(args))
    OBVIOUS
  <2>4. n.stack = Reverse(args) /\ n.in = 0 /\ n.out = Len(args) /\ n \in Machine
    BY <2>1, <2>2, <2>3, LenProperties DEF Stack, Machine
  <2>5. Counted(n)
    BY <2>1, <2>2, <2>4, LenProperties DEF Counted
  <2>6. PICK op \in Op : op = "call"
    BY DEF Op
  <2>7. /\ Isolate(op, n) /\ refs' = Referred(args)
        /\ g_script_error_level' = g_script_error_level + (IF op = "call" THEN 1 ELSE 0)
        /\ UNCHANGED <<owned, held, fields, unheld>>
    BY <1>1, <2>3, <2>6, Zenon DEF call_function
  <2>8. \A o : Times(o, n.stack) = Times(o, args)
    BY <2>2, <2>4
  <2>9. /\ refs' \in [Object -> Int] /\ events' \in [Object -> Nat]
        /\ \A o \in Object : Kept'[o] = Kept[o] + Times(o, args)
    BY <2>1, <2>7, Counts
  <2> QED BY <2>1, <2>4, <2>5, <2>7, <2>8, <2>9, CallStep
<1>2. CASE exec_ent_thread
  <2>1. PICK n : n = Stack(<<>>, 0, 0)
    OBVIOUS
  <2>2. PICK s \in Seq(Object) : s = <<>>
    <3>1. <<>> \in Seq(Object)
      OBVIOUS
    <3> QED BY <3>1
  <2>3. n.stack = s /\ n.in = 0 /\ n.out = 0 /\ n \in Machine /\ Counted(n)
    BY <2>1, <2>2 DEF Stack, Machine, Counted
  <2>4. PICK op \in Op : /\ op # "call" /\ Isolate(op, n)
                         /\ UNCHANGED <<counts, fields, g_script_error_level, unheld>>
    BY <1>2, <2>1 DEF exec_ent_thread, Op
  <2>5. refs' = Referred(s)
    <3>1. \A x : Times(x, s) = 0
      BY <2>2, TimesNone
    <3>2. refs \in [Object -> Int]
      BY DEF ScriptInv, ScriptTypeOK
    <3>3. Referred(s) \in [Object -> Int] /\ \A x \in Object : Referred(s)[x] = refs[x]
      BY <3>1, <3>2, Referring
    <3> QED BY <2>4, <3>2, <3>3 DEF counts
  <2>6. g_script_error_level' = g_script_error_level + (IF op = "call" THEN 1 ELSE 0)
    BY <2>4 DEF ScriptInv, ScriptTypeOK
  <2>7. UNCHANGED <<owned, held, fields, unheld>>
    BY <2>4 DEF counts
  <2>8. \A o : Times(o, n.stack) = Times(o, s)
    BY <2>3
  <2>9. /\ refs' \in [Object -> Int] /\ events' \in [Object -> Nat]
        /\ \A o \in Object : Kept'[o] = Kept[o] + Times(o, s)
    BY <2>5, Counts
  <2> QED BY <2>3, <2>4, <2>6, <2>7, <2>8, <2>9, CallStep
<1> QED BY <1>1, <1>2

\* notify up to the game, the reference to the event's string taken.
LEMMA NotifyStep ==
  ASSUME ScriptInv, ~unheld, NEW event \in Object, notify(event)
  PROVE  ScriptInv'
<1>1. PICK n : n = Stack(<<>>, 0, 0)
  OBVIOUS
<1>2. PICK s \in Seq(Object) : s = <<>>
  <2>1. <<>> \in Seq(Object)
    OBVIOUS
  <2> QED BY <2>1
<1>3. n.stack = s /\ n.in = 0 /\ n.out = 0 /\ n \in Machine /\ Counted(n)
  BY <1>1, <1>2 DEF Stack, Machine, Counted
<1>4. PICK op \in Op : op = "notify"
  BY DEF Op
<1>5. /\ Isolate(op, n) /\ refs' = [refs EXCEPT ![event] = @ + 1]
      /\ events' = [events EXCEPT ![event] = @ + 1]
      /\ UNCHANGED <<owned, held, fields, unheld>>
      /\ g_script_error_level' = g_script_error_level + (IF op = "call" THEN 1 ELSE 0)
  BY <1>1, <1>4 DEF notify, ScriptInv, ScriptTypeOK
<1>6. refs \in [Object -> Int] /\ events \in [Object -> Nat]
  BY DEF ScriptInv, ScriptTypeOK
<1>7. refs' \in [Object -> Int] /\ events' \in [Object -> Nat]
  BY <1>5, <1>6
<1>8. \A o \in Object : Kept'[o] = Kept[o] + Times(o, s)
  <2> TAKE o \in Object
  <2>1. Times(o, s) = 0
    BY <1>2, TimesNone
  <2>2. refs'[o] - events'[o] = refs[o] - events[o]
    BY <1>5, <1>6
  <2>3. refs[o] - events[o] \in Int
    BY <1>6
  <2> QED BY <2>1, <2>2, <2>3 DEF Kept
<1>9. \A o : Times(o, n.stack) = Times(o, s)
  BY <1>3
<1> QED BY <1>3, <1>5, <1>7, <1>8, <1>9, CallStep

\* ~stack_isolation at the end of a call, when the whole stack was out
\* parameters, and a result is counted as the script_value made of it.
LEMMA EndStep ==
  ASSUME ScriptInv, ~unheld, UNCHANGED events, calls # <<>>, NEW counted \in [Object -> Int],
         refs' = Released(counted, vm.stack), vm' = Last(calls).saved, calls' = Front(calls),
         held' \in [Object -> Nat], \A o \in Object : counted[o] - held'[o] = refs[o] - held[o],
         g_script_error_level' = g_script_error_level - Level, UNCHANGED <<owned, fields, unheld>>
  PROVE  ScriptInv'
<1>1. /\ vm \in Machine /\ calls \in Seq(Call) /\ Shape(vm, calls) /\ refs \in [Object -> Int]
      /\ held \in [Object -> Nat] /\ g_script_error_level \in Int /\ vm.stack \in Seq(Object)
  BY DEF ScriptInv, ScriptTypeOK, Machine
<1>2. PICK ds, c : ds = Front(calls) /\ c = Last(calls)
  OBVIOUS
<1>3. /\ ds \in Seq(Call) /\ c.saved \in Machine /\ c.op \in Op
      /\ Shape(c.saved, ds) /\ OneMore(calls, ds, c)
  BY <1>1, <1>2, Popped
<1>4. calls' = ds /\ vm' = c.saved
  BY <1>2
<1>5. refs' \in [Object -> Int] /\ \A o \in Object : refs'[o] = counted[o] - Times(o, vm.stack)
  BY <1>1, Counting
<1>6. g_script_error_level' = Cardinality(LongJumps(ds)) /\ g_script_error_level' \in Int
  <2>1. g_script_error_level' = g_script_error_level - (IF c.op = "call" THEN 1 ELSE 0)
    BY <1>2 DEF Level
  <2>2. /\ g_script_error_level = Cardinality(LongJumps(calls))
        /\ Cardinality(LongJumps(calls)) = Cardinality(LongJumps(ds)) + (IF c.op = "call" THEN 1 ELSE 0)
    BY <1>3 DEF ScriptInv, OneMore
  <2>3. Cardinality(LongJumps(ds)) \in Nat
    <3>1. \A d \in Call : Cardinality(LongJumps(ds)) \in Nat
      BY <1>3, JumpsPush
    <3>2. c \in Call
      BY <1>1, <1>2, InnermostLast
    <3> QED BY <3>1, <3>2
  <2> QED BY <1>1, <2>1, <2>2, <2>3
<1>7. ScriptTypeOK'
  BY <1>3, <1>4, <1>5, <1>6 DEF ScriptInv, ScriptTypeOK, fields
<1>8. Shape(vm, calls)' /\ (g_script_error_level = Cardinality(LongJumps(calls)))'
  BY <1>3, <1>4, <1>6
<1>9. ASSUME NEW o \in Object
      PROVE  refs'[o] - held'[o] = refs[o] - held[o] + (Times(o, vm.stack) + Cardinality(Waiting(o, calls)))'
                                 - (Times(o, vm.stack) + Cardinality(Waiting(o, calls)))
  <2>1. Times(o, vm.stack)' = Times(o, c.saved.stack) /\ Cardinality(Waiting(o, calls))' = Cardinality(Waiting(o, ds))
    BY <1>4
  <2>2. Cardinality(Waiting(o, calls)) = Cardinality(Waiting(o, ds)) + Times(o, c.saved.stack)
    BY <1>3 DEF OneMore
  <2>3. /\ Times(o, vm.stack) \in Nat /\ Cardinality(Waiting(o, ds)) \in Nat
        /\ Times(o, c.saved.stack) \in Nat
    BY <1>1, <1>3, PartsInt
  <2>4. /\ refs'[o] = counted[o] - Times(o, vm.stack) /\ refs[o] \in Int /\ held[o] \in Nat
        /\ held'[o] \in Nat /\ counted[o] \in Int /\ counted[o] - held'[o] = refs[o] - held[o]
    BY <1>1, <1>5
  <2>5. PICK r, h, r1, h1, k \in Int :
          refs[o] = r /\ held[o] = h /\ refs'[o] = r1 /\ held'[o] = h1 /\ counted[o] = k
    BY <1>5, <2>4
  <2>6. PICK t, w, v \in Int :
          Times(o, vm.stack) = t /\ Cardinality(Waiting(o, ds)) = w /\ Times(o, c.saved.stack) = v
    BY <2>3
  <2>7. r1 = k - t /\ k - h1 = r - h
    BY <2>4, <2>5, <2>6, Zenon
  <2>8. r1 - h1 = r - h + (v + w) - (t + (w + v))
    BY <2>7
  <2> QED BY <2>1, <2>2, <2>5, <2>6, <2>8, Zenon
<1>10. \A o \in Object :
         Kept'[o] - held'[o] = Kept[o] - held[o] + (Times(o, vm.stack) + Cardinality(Waiting(o, calls)))'
                               - (Times(o, vm.stack) + Cardinality(Waiting(o, calls)))
  BY <1>7, <1>9, KeptMoves
<1> QED BY <1>7, <1>8, <1>10, NewStacks

\* Without a result, all that stands on the stack of a call are out parameters.
LEMMA NoResult ==
  ASSUME NEW m \in Machine, Counted(m), m.in = 0
  PROVE  OutParams(m) = m.stack
<1>1. m.out = Len(m.stack)
  BY DEF Counted, Machine
<1> QED BY <1>1, AllOut

\* One more of an object.
LEMMA OneMoreOf ==
  ASSUME NEW f \in [Object -> Int], NEW o \in Object, NEW g, g = [f EXCEPT ![o] = @ + 1]
  PROVE  /\ g \in [Object -> Int] /\ \A x \in Object : g[x] = f[x] + (IF x = o THEN 1 ELSE 0)
         /\ f \in [Object -> Nat] => g \in [Object -> Nat]
<1>1. g \in [Object -> Int] /\ \A x \in Object : g[x] = f[x] + (IF x = o THEN 1 ELSE 0)
  OBVIOUS
<1>2. f \in [Object -> Nat] => g \in [Object -> Nat]
  OBVIOUS
<1> QED BY <1>1, <1>2

\* The call is over, or its function has failed (execution.cpp, safe_execution.cpp).
LEMMA OverStep ==
  ASSUME ScriptInv, ~unheld, UNCHANGED events, Return \/ Fail
  PROVE  ScriptInv'
<1>1. /\ vm \in Machine /\ calls \in Seq(Call) /\ Shape(vm, calls) /\ Counted(vm)
      /\ refs \in [Object -> Int] /\ held \in [Object -> Nat]
      /\ vm.in \in Nat /\ vm.out \in Nat /\ vm.stack \in Seq(Object) /\ Len(vm.stack) \in Nat
  BY LenProperties DEF ScriptInv, ScriptTypeOK, Shape, Machine
<1>2. calls # <<>> /\ UNCHANGED <<owned, fields, unheld>>
  BY DEF Return, Fail
<1>3. Alone(vm, Last(calls).op)
  BY <1>1, <1>2, Popped
<1>4. PICK m \in Machine : m = vm
  BY <1>1
<1>5. CASE Fail \/ (Return /\ (vm.in = 0 \/ Last(calls).op = "notify"))
  <2>1. vm.in = 0
    BY <1>3, <1>5 DEF Fail, Alone
  <2>2. Leave(vm, refs) /\ held' = held /\ g_script_error_level' = g_script_error_level - Level
    <3>1. CASE Fail
      BY <3>1 DEF Fail, Level
    <3>2. CASE Return
      BY <3>2, <2>1 DEF Return
    <3> QED BY <1>5, <3>1, <3>2
  <2>3. OutParams(vm) = vm.stack
    BY <1>1, <1>4, <2>1, NoResult
  <2>4. PICK counted \in [Object -> Int] : counted = refs
    BY <1>1
  <2>5. refs' = Released(counted, vm.stack) /\ vm' = Last(calls).saved /\ calls' = Front(calls)
    BY <2>2, <2>3, <2>4, Zenon DEF Leave, Restore
  <2>6. held' \in [Object -> Nat] /\ \A o \in Object : counted[o] - held'[o] = refs[o] - held[o]
    BY <1>1, <2>2, <2>4
  <2> QED BY <1>2, <2>2, <2>5, <2>6, EndStep
<1>6. CASE Return /\ ~(vm.in = 0 \/ Last(calls).op = "notify")
  <2>1. PICK result : result = Last(vm.stack)
    OBVIOUS
  <2>2. /\ held' = [held EXCEPT ![result] = @ + 1]
        /\ Leave(Stack(vm.stack, 0, vm.in), [refs EXCEPT ![result] = @ + 1])
        /\ g_script_error_level' = g_script_error_level - Level
    BY <1>6, <2>1 DEF Return
  <2>3. vm.out = 0 /\ vm.in = Len(vm.stack) /\ vm.stack # <<>>
    <3>1. vm.out = 0 /\ vm.in # 0
      BY <1>3, <1>6 DEF Alone
    <3>2. vm.in = Len(vm.stack)
      BY <1>1, <3>1 DEF Counted
    <3> QED BY <3>1, <3>2, EmptySeq, <1>1
  <2>4. result \in Object
    BY <1>1, <2>1, <2>3, InnermostLast
  <2>5. PICK n : n = Stack(vm.stack, 0, vm.in)
    OBVIOUS
  <2>6. n.stack = vm.stack /\ n.in = 0 /\ n \in Machine /\ Counted(n)
    BY <1>1, <2>3, <2>5 DEF Stack, Machine, Counted
  <2>7. OutParams(n) = vm.stack
    BY <2>6, NoResult
  <2>8. PICK counted \in [Object -> Int] :
          /\ counted = [refs EXCEPT ![result] = @ + 1]
          /\ \A x \in Object : counted[x] = refs[x] + (IF x = result THEN 1 ELSE 0)
    <3>1. PICK k : k = [refs EXCEPT ![result] = @ + 1]
      OBVIOUS
    <3>2. k \in [Object -> Int] /\ \A x \in Object : k[x] = refs[x] + (IF x = result THEN 1 ELSE 0)
      BY <1>1, <2>4, <3>1, OneMoreOf
    <3> QED BY <3>1, <3>2, Zenon
  <2>9. refs' = Released(counted, vm.stack) /\ vm' = Last(calls).saved /\ calls' = Front(calls)
    BY <2>2, <2>5, <2>7, <2>8, Zenon DEF Leave, Restore
  <2>10. held' \in [Object -> Nat] /\ \A o \in Object : counted[o] - held'[o] = refs[o] - held[o]
    <3>1. held \in [Object -> Int]
      BY <1>1
    <3>2. PICK k : k = held'
      OBVIOUS
    <3>3. k \in [Object -> Nat] /\ \A x \in Object : k[x] = held[x] + (IF x = result THEN 1 ELSE 0)
      BY <1>1, <2>2, <2>4, <3>1, <3>2, OneMoreOf
    <3>4. ASSUME NEW o \in Object
          PROVE  counted[o] - k[o] = refs[o] - held[o]
      <4>1. PICK a, h, d \in Int : a = refs[o] /\ h = held[o] /\ d = (IF o = result THEN 1 ELSE 0)
        BY <1>1, <3>1
      <4>2. counted[o] = a + d /\ k[o] = h + d
        BY <2>8, <3>3, <4>1
      <4> QED BY <4>1, <4>2
    <3> QED BY <3>2, <3>3, <3>4, Zenon
  <2> QED BY <1>2, <2>2, <2>9, <2>10, EndStep
<1> QED BY <1>5, <1>6

\* A step of the machine on the stack of the innermost call.
LEMMA StackStep ==
  ASSUME ScriptInv, ~unheld, UNCHANGED events, NEW n \in Machine, vm' = n, Counted(n), Alone(n, Over(calls, Len(calls) + 1)),
         refs' \in [Object -> Int],
         \A o \in Object : refs'[o] = refs[o] + Times(o, n.stack) - Times(o, vm.stack),
         UNCHANGED <<owned, held, fields, calls, g_script_error_level, unheld>>
  PROVE  ScriptInv'
<1>1. /\ vm \in Machine /\ calls \in Seq(Call) /\ Shape(vm, calls) /\ refs \in [Object -> Int]
      /\ held \in [Object -> Nat]
  BY DEF ScriptInv, ScriptTypeOK
<1>2. ScriptTypeOK'
  BY DEF ScriptInv, ScriptTypeOK, fields
<1>3. Shape(vm, calls)' /\ (g_script_error_level = Cardinality(LongJumps(calls)))'
  <2>1. Shape(n, calls)
    BY <1>1, Replaced
  <2> QED BY <2>1 DEF ScriptInv
<1>4. ASSUME NEW o \in Object
      PROVE  refs'[o] - held'[o] = refs[o] - held[o] + (Times(o, vm.stack) + Cardinality(Waiting(o, calls)))'
                                 - (Times(o, vm.stack) + Cardinality(Waiting(o, calls)))
  <2>1. Times(o, vm.stack)' = Times(o, n.stack) /\ Cardinality(Waiting(o, calls))' = Cardinality(Waiting(o, calls))
    OBVIOUS
  <2>2. Times(o, vm.stack) \in Nat /\ Cardinality(Waiting(o, calls)) \in Nat /\ Times(o, n.stack) \in Nat
    BY <1>1, PartsInt
  <2>3. /\ refs'[o] = refs[o] + Times(o, n.stack) - Times(o, vm.stack)
        /\ refs[o] \in Int /\ held[o] \in Nat /\ held' = held
    BY <1>1
  <2>4. \A r, h, t, w, v \in Int : (r + v - t) - h = r - h + (v + w) - (t + w)
    OBVIOUS
  <2>5. PICK r, h, t, w, v \in Int :
          /\ refs[o] = r /\ held[o] = h /\ Times(o, vm.stack) = t /\ Cardinality(Waiting(o, calls)) = w
          /\ Times(o, n.stack) = v
    BY <2>2, <2>3
  <2>6. (r + v - t) - h = r - h + (v + w) - (t + w)
    BY <2>4
  <2> QED BY <2>1, <2>3, <2>5, <2>6, Zenon
<1>5. \A o \in Object :
         Kept'[o] - held'[o] = Kept[o] - held[o] + (Times(o, vm.stack) + Cardinality(Waiting(o, calls)))'
                               - (Times(o, vm.stack) + Cardinality(Waiting(o, calls)))
  BY <1>2, <1>4, KeptMoves
<1> QED BY <1>2, <1>3, <1>5, NewStacks

\* A function of the game, or a thread, gives its result.
LEMMA ResultStep ==
  ASSUME ScriptInv, ~unheld, UNCHANGED events, NEW o \in Object, Result(o)
  PROVE  ScriptInv'
<1>1. /\ vm \in Machine /\ calls \in Seq(Call) /\ Counted(vm) /\ refs \in [Object -> Int]
  BY DEF ScriptInv, ScriptTypeOK, Shape
<1>2. /\ calls # <<>> /\ Last(calls).op \in {"call", "exec"} /\ vm.in = 0
      /\ vm' = Stack(Append(Cleared(vm).stack, o), 1, 0)
      /\ refs' = Released([refs EXCEPT ![o] = @ + 1], OutParams(vm))
      /\ UNCHANGED <<owned, held, fields, calls, g_script_error_level, unheld>>
  BY DEF Result
<1>3. PICK m \in Machine : m = vm
  BY <1>1
<1>4. /\ Cleared(m).stack \in Seq(Object) /\ Len(Cleared(m).stack) = 0 /\ OutParams(m) \in Seq(Object)
      /\ \A x : Times(x, m.stack) = Times(x, Cleared(m).stack) + Times(x, OutParams(m))
  BY <1>1, <1>2, <1>3, ClearedOut DEF Machine
<1>5. PICK s, out \in Seq(Object) : s = Cleared(m).stack /\ out = OutParams(m)
  BY <1>4
<1>6. /\ Append(s, o) \in Seq(Object) /\ Len(Append(s, o)) = 1
      /\ \A x : Times(x, Append(s, o)) = Times(x, s) + (IF o = x THEN 1 ELSE 0)
  BY <1>4, <1>5, AppendElements, TimesAppend
<1>7. PICK n : n = Stack(Append(s, o), 1, 0)
  OBVIOUS
<1>8. n.stack = Append(s, o) /\ n.in = 1 /\ n.out = 0 /\ n \in Machine
  BY <1>6, <1>7 DEF Stack, Machine
<1>9. vm' = n /\ Counted(n)
  BY <1>2, <1>3, <1>5, <1>6, <1>7, <1>8 DEF Counted
<1>10. Alone(n, Over(calls, Len(calls) + 1))
  <2>1. Len(calls) \in Nat \ {0} /\ Last(calls) = calls[Len(calls)]
    BY <1>1, <1>2, InnermostLast
  <2>2. Over(calls, Len(calls) + 1) = Last(calls).op
    BY <2>1 DEF Over
  <2> QED BY <1>2, <1>8, <2>2 DEF Alone
<1>11. PICK counted \in [Object -> Int] :
         /\ counted = [refs EXCEPT ![o] = @ + 1]
         /\ \A x \in Object : counted[x] = refs[x] + (IF x = o THEN 1 ELSE 0)
  <2>1. PICK k : k = [refs EXCEPT ![o] = @ + 1]
    OBVIOUS
  <2>2. k \in [Object -> Int] /\ \A x \in Object : k[x] = refs[x] + (IF x = o THEN 1 ELSE 0)
    BY <1>1, <2>1, OneMoreOf
  <2> QED BY <2>1, <2>2, Zenon
<1>12. /\ refs' \in [Object -> Int]
       /\ \A x \in Object : refs'[x] = counted[x] - Times(x, out)
  BY <1>2, <1>3, <1>5, <1>11, Counting
<1>13. ASSUME NEW x \in Object
       PROVE  refs'[x] = refs[x] + Times(x, n.stack) - Times(x, vm.stack)
  <2>1. counted[x] = refs[x] + (IF o = x THEN 1 ELSE 0) /\ refs[x] \in Int
    BY <1>1, <1>11
  <2>2. Times(x, n.stack) = Times(x, s) + (IF o = x THEN 1 ELSE 0)
    BY <1>6, <1>8
  <2>3. Times(x, vm.stack) = Times(x, s) + Times(x, out)
    BY <1>3, <1>4, <1>5
  <2>4. Times(x, s) \in Nat /\ Times(x, out) \in Nat
    BY PlacesFinite
  <2> QED BY <1>12, <2>1, <2>2, <2>3, <2>4
<1> QED BY <1>2, <1>8, <1>9, <1>10, <1>12, <1>13, StackStep

\* The game's own parameters, before or after a call.
LEMMA ParamsStep ==
  ASSUME ScriptInv, ~unheld, UNCHANGED events, (\E args \in Args : GameParams(args)) \/ GameClears
  PROVE  ScriptInv'
<1>1. /\ vm \in Machine /\ Counted(vm) /\ refs \in [Object -> Int] /\ Alone(vm, Over(calls, Len(calls) + 1))
  BY DEF ScriptInv, ScriptTypeOK, Shape
<1>2. calls = <<>> => Over(calls, Len(calls) + 1) = "game"
  BY DEF Over
<1>3. ASSUME NEW args \in Args, GameParams(args)
      PROVE  ScriptInv'
  <2>1. args \in Seq(Object) /\ Len(args) \in Nat
    BY ArgsType, LenProperties
  <2>2. /\ vm.stack = <<>> /\ vm' = Stack(args, 0, Len(args)) /\ refs' = Referred(args)
        /\ UNCHANGED <<owned, held, fields, calls, g_script_error_level, unheld>>
    BY <1>3 DEF GameParams
  <2>3. PICK n : n = Stack(args, 0, Len(args))
    OBVIOUS
  <2>4. n.stack = args /\ n.in = 0 /\ n \in Machine /\ Counted(n) /\ vm' = n
    BY <2>1, <2>2, <2>3 DEF Stack, Machine, Counted
  <2>5. refs' \in [Object -> Int] /\ \A o \in Object : refs'[o] = refs[o] + Times(o, args)
    BY <1>1, <2>1, <2>2, Referring
  <2>6. \A o : Times(o, vm.stack) = 0
    BY <2>2, TimesNone
  <2>7. \A o \in Object : refs'[o] = refs[o] + Times(o, n.stack) - Times(o, vm.stack)
    <3> TAKE o \in Object
    <3>1. Times(o, args) \in Nat /\ refs[o] \in Int
      BY <1>1, <2>1, PlacesFinite
    <3> QED BY <2>4, <2>5, <2>6, <3>1
  <2>8. Alone(n, Over(calls, Len(calls) + 1))
    BY <2>4 DEF Alone
  <2> QED BY <2>2, <2>4, <2>5, <2>7, <2>8, StackStep
<1>4. CASE GameClears
  <2>1. /\ calls = <<>> /\ vm' = Cleared(vm) /\ refs' = Released(refs, OutParams(vm))
        /\ UNCHANGED <<owned, held, fields, calls, g_script_error_level, unheld>>
    BY <1>4 DEF GameClears
  <2>2. PICK m \in Machine : m = vm
    BY <1>1
  <2>3. /\ Cleared(m) \in Machine /\ Counted(Cleared(m)) /\ Cleared(m).in = m.in
        /\ OutParams(m) \in Seq(Object)
        /\ \A o : Times(o, m.stack) = Times(o, Cleared(m).stack) + Times(o, OutParams(m))
    BY <1>1, <2>2, ClearedOut
  <2>4. PICK n \in Machine, out \in Seq(Object) : n = Cleared(m) /\ out = OutParams(m)
    BY <2>3
  <2>5. vm' = n /\ Counted(n) /\ Alone(n, Over(calls, Len(calls) + 1))
    <3>1. m.in = 0
      BY <1>1, <1>2, <2>1, <2>2 DEF Alone
    <3> QED BY <2>1, <2>2, <2>3, <2>4, <3>1 DEF Alone
  <2>6. PICK counted \in [Object -> Int] : counted = refs
    BY <1>1
  <2>7. refs' \in [Object -> Int] /\ \A o \in Object : refs'[o] = counted[o] - Times(o, out)
    BY <2>1, <2>2, <2>4, <2>6, Counting
  <2>8. \A o \in Object : refs'[o] = refs[o] + Times(o, n.stack) - Times(o, vm.stack)
    <3> TAKE o \in Object
    <3>1. Times(o, out) \in Nat /\ refs[o] \in Int
      BY <1>1, PlacesFinite
    <3>2. Times(o, n.stack) \in Nat
      BY PlacesFinite DEF Machine
    <3>3. Times(o, vm.stack) = Times(o, n.stack) + Times(o, out)
      BY <2>2, <2>3, <2>4
    <3> QED BY <2>6, <2>7, <3>1, <3>2, <3>3
  <2> QED BY <2>1, <2>5, <2>7, <2>8, StackStep
<1> QED BY <1>3, <1>4

-----------------------------------------------------------------------------
(* The theorems.                                                           *)

LEMMA StepScript ==
  ASSUME ScriptInv, [VMNext]_vmVars
  PROVE  ScriptInv'
<1>1. CASE UNCHANGED vmVars
  <2>1. /\ UNCHANGED <<refs, owned, held, variable, custom, vm, calls, g_script_error_level, unheld, events>>
    BY <1>1 DEF vmVars, counts, fields, machine
  <2>2. ScriptTypeOK' /\ Shape(vm, calls)' /\ (g_script_error_level = Cardinality(LongJumps(calls)))'
    BY <2>1 DEF ScriptInv, ScriptTypeOK
  <2>3. (~unheld => Balanced)'
    <3>1. Kept' = Kept /\ \A o \in Object : Own(o)' = Own(o)
      BY <2>1 DEF Own, Kept
    <3> QED BY <2>1, <3>1 DEF ScriptInv, Balanced
  <2> QED BY <2>2, <2>3 DEF ScriptInv
<1>2. ASSUME NEW event \in Object, ~unheld, notify(event)
      PROVE  ScriptInv'
  BY <1>2, NotifyStep
<1>3. CASE VMNext /\ UNCHANGED events /\ ~\E event \in Object : notify(event)
  <2>1. ~unheld
    BY <1>3 DEF VMNext
  <2>2. ASSUME NEW o \in Object,
               Wrap(o) \/ Release(o) \/ GameRefers(o) \/ GameReleases(o) \/ get_entity_field(o)
        PROVE  ScriptInv'
    BY <1>3, <2>1, <2>2, WrapStep, ReleaseStep, GameStep DEF get_entity_field
  <2>3. ASSUME NEW o \in Object, SetStructField(o) \/ SetArrayField(o) \/ SetCustomField(o)
        PROVE  ScriptInv'
    BY <1>3, <2>1, <2>3, FieldStep
  <2>4. CASE GetCustomField
    <3>1. custom \in Object /\ Wrap(custom)
      BY <2>4 DEF GetCustomField, ScriptInv, ScriptTypeOK
    <3>2. PICK o \in Object : o = custom
      BY <3>1
    <3>3. Wrap(o)
      BY <3>1, <3>2, Zenon
    <3> QED BY <1>3, <2>1, <3>3, WrapStep
  <2>5. CASE ClearEntityFields
    BY <1>3, <2>1, <2>5, ClearStep
  <2>6. ASSUME NEW args \in Args, call_function(args) \/ GameParams(args)
        PROVE  ScriptInv'
    BY <1>3, <2>1, <2>6, BeginStep, ParamsStep
  <2>7. CASE exec_ent_thread
    BY <1>3, <2>1, <2>7, BeginStep
  <2>8. CASE Return \/ Fail
    BY <1>3, <2>1, <2>8, OverStep
  <2>9. CASE GameClears
    BY <1>3, <2>1, <2>9, ParamsStep
  <2>10. ASSUME NEW o \in Object, Result(o)
         PROVE  ScriptInv'
    BY <1>3, <2>1, <2>10, ResultStep
  <2> QED BY <1>3, <2>2, <2>3, <2>4, <2>5, <2>6, <2>7, <2>8, <2>9, <2>10 DEF VMNext
<1> QED BY <1>1, <1>2, <1>3 DEF VMNext

\* The machine's stack and the stacks that calls have saved stay stacks of
\* objects, and all counts numbers (stack_isolation.cpp, script_value.cpp).
THEOREM ScriptTypes == ScriptSpec => []ScriptTypeOK
<1>1. ScriptInv => ScriptTypeOK
  BY DEF ScriptInv
<1> QED BY <1>1, InitialScript, StepScript, PTL DEF ScriptSpec

\* However calls of the machine nest, fail by a long jump and return, for any
\* objects and bounds: every object's count is the number of its holders and of
\* the notifies that named it, which keep a reference each; the long jumps set
\* are those of the calls under way, and each stack has as many parameters as it
\* says, until a field is given an object without a reference of its own
\* (execution.cpp, safe_execution.cpp, variable_value.cpp).
THEOREM CountsAreHolders == ScriptSpec => []CountsMatchHolders
<1>1. ScriptInv => CountsMatchHolders
  <2> SUFFICES ASSUME ScriptInv, ~unheld
               PROVE  /\ \A o \in Object : refs[o] = Holders(o) + events[o]
                      /\ g_script_error_level = Cardinality(LongJumps(calls))
                      /\ Counted(vm) /\ \A k \in DOMAIN calls : Counted(calls[k].saved)
    BY DEF CountsMatchHolders
  <2>1. ASSUME NEW o \in Object
        PROVE  refs[o] = Holders(o) + events[o]
    <3>1. refs[o] - events[o] = Own(o) + Times(o, vm.stack) + Cardinality(Waiting(o, calls))
      BY DEF ScriptInv, Balanced, Kept
    <3>2. Own(o) + Times(o, vm.stack) + Cardinality(Waiting(o, calls)) = Holders(o)
      BY DEF Own, Holders
    <3>3. refs[o] \in Int /\ events[o] \in Int
      BY DEF ScriptInv, ScriptTypeOK
    <3> QED BY <3>1, <3>2, <3>3
  <2>2. DOMAIN calls = 1..Len(calls)
    BY LenProperties DEF ScriptInv, ScriptTypeOK
  <2>3. Counted(vm) /\ \A k \in DOMAIN calls : Counted(calls[k].saved)
    BY <2>2 DEF ScriptInv, Shape
  <2> QED BY <2>1, <2>3 DEF ScriptInv
<1> QED BY <1>1, InitialScript, StepScript, PTL DEF ScriptSpec

-----------------------------------------------------------------------------
(* LuaValues: hooks and the functions made into values.                    *)

\* A Lua function as a value of the machine.
Value == [pos : Nat, of : LuaFn]

\* What was hooked at positions that have no code.
Numbered == DOMAIN hooks \ Code

HookInv ==
  /\ hook_enabled = TRUE
  /\ IsFiniteSet(Numbered) /\ Cardinality(Numbered) <= Len(made)
  /\ made \in Seq(Value) /\ Len(made) <= MaxValues
  /\ dangling \in BOOLEAN
  /\ ~dangling => /\ Numbered \subseteq 1..Cardinality(DOMAIN hooks)
                  /\ \A i \in 1..Len(made) : /\ made[i].pos \in Numbered
                                             /\ hooks[made[i].pos] = LuaHook(made[i].of)
  /\ \A i \in DOMAIN entered :
       LET e == entered[i]
       IN /\ e.via = "invoke" => e.runs = Original
          /\ e.via # "invoke" => e.runs = e.hook

\* The hooks are few enough that no number reaches a position of code.
LEMMA HooksCounted ==
  ASSUME HookInv
  PROVE  /\ IsFiniteSet(DOMAIN hooks) /\ Cardinality(DOMAIN hooks) \in Nat
         /\ Cardinality(DOMAIN hooks) <= Cardinality(Code) + Len(made)
         /\ Cardinality(Code) \in Nat /\ Len(made) \in Nat
<1> DEFINE D == DOMAIN hooks
<1>1. IsFiniteSet(Code) /\ IsFiniteSet(D \ Code) /\ Cardinality(D \ Code) <= Len(made)
  BY LuaValuesAssumption DEF HookInv, Numbered
<1>2. /\ IsFiniteSet(Code \cup (D \ Code))
      /\ Cardinality(Code \cup (D \ Code)) = Cardinality(Code) + Cardinality(D \ Code) - Cardinality(Code \cap (D \ Code))
  BY <1>1, FS_Union
<1>3. Code \cap (D \ Code) = {} /\ D \subseteq Code \cup (D \ Code)
  OBVIOUS
<1>4. Cardinality(Code \cap (D \ Code)) = 0
  BY <1>3, FS_EmptySet, Zenon
<1>5. IsFiniteSet(D) /\ Cardinality(D) <= Cardinality(Code \cup (D \ Code))
  BY <1>2, <1>3, FS_Subset
<1>6. Cardinality(Code) \in Nat /\ Cardinality(D) \in Nat /\ Cardinality(D \ Code) \in Nat
  BY <1>1, <1>5, FS_CardinalityType
<1>7. Len(made) \in Nat
  BY LenProperties DEF HookInv
<1> HIDE DEF D
<1>8. Cardinality(D) <= Cardinality(Code) + Len(made)
  BY <1>1, <1>2, <1>4, <1>5, <1>6, <1>7
<1> QED BY <1>5, <1>6, <1>7, <1>8 DEF D

LEMMA HooksInitially == ValuesInit => HookInv
<1> SUFFICES ASSUME ValuesInit PROVE HookInv
  OBVIOUS
<1>1. hooks = << >> /\ hook_enabled = TRUE /\ made = <<>> /\ entered = <<>> /\ dangling = FALSE
  BY DEF ValuesInit
<1>2. DOMAIN hooks = {} /\ Numbered = {} /\ DOMAIN entered = {}
  BY <1>1 DEF Numbered
<1>3. IsFiniteSet(Numbered) /\ Cardinality(Numbered) = 0
  BY <1>2, FS_EmptySet, Zenon
<1>4. made \in Seq(Value) /\ Len(made) = 0 /\ MaxValues \in Nat
  BY <1>1, LuaValuesAssumption
<1>5. Numbered \subseteq 1..Cardinality(DOMAIN hooks)
  BY <1>2
<1>6. \A i : i \notin 1..Len(made) /\ i \notin DOMAIN entered
  BY <1>2, <1>4
<1>7. hook_enabled = TRUE /\ dangling = FALSE /\ Cardinality(Numbered) <= Len(made) /\ Len(made) <= MaxValues
  BY <1>1, <1>3, <1>4
<1> QED BY ONLY <1>3, <1>4, <1>5, <1>6, <1>7 DEF HookInv

\* A function is entered: the hooks are on afterwards, and what runs is what the
\* call asks for.
LEMMA EnterStep ==
  ASSUME HookInv, NEW pos, NEW via, NEW enabled \in BOOLEAN, Enter(pos, via, enabled),
         via = "invoke" => pos \in Code /\ ~enabled, via # "invoke" => enabled
  PROVE  HookInv'
<1> DEFINE result == vm_hook(pos, enabled)
           hook == IF pos \in DOMAIN hooks THEN hooks[pos] ELSE Original
<1>1. /\ hook_enabled' = result.enabled
      /\ entered' = <<[pos |-> pos, via |-> via, runs |-> result.runs, hook |-> hook]>>
      /\ hooks' = hooks /\ made' = made /\ dangling' = dangling
  BY DEF Enter
<1>2. CASE via = "invoke"
  <2>1. pos \in Code /\ pos \in Nat /\ pos > Cardinality(Code) + MaxValues
    BY <1>2, LuaValuesAssumption
  <2>2. pos > Cardinality(DOMAIN hooks)
    BY <2>1, HooksCounted, LuaValuesAssumption DEF HookInv
  <2>3. result = [runs |-> Original, enabled |-> TRUE]
    BY <1>2, <2>2 DEF vm_hook
  <2>4. \A i \in DOMAIN entered' : entered'[i].via = via /\ entered'[i].runs = Original
    BY <1>1, <2>3
  <2> QED BY <1>1, <1>2, <2>3, <2>4 DEF HookInv, Numbered
<1>3. CASE via # "invoke"
  <2>1. result = [runs |-> hook, enabled |-> TRUE]
    BY <1>3 DEF vm_hook
  <2>2. \A i \in DOMAIN entered' : entered'[i].via = via /\ entered'[i].runs = entered'[i].hook
    BY <1>1, <2>1
  <2> QED BY <1>1, <1>3, <2>1, <2>2 DEF HookInv, Numbered
<1> QED BY <1>2, <1>3

\* A hook at a position of code.
LEMMA DetourStep ==
  ASSUME HookInv, NEW pos \in Code, NEW hook, Sets(Set(pos, hook)), made' = made,
         dangling' \in BOOLEAN, dangling => dangling'
  PROVE  HookInv'
<1>1. /\ hooks' = [p \in DOMAIN hooks \cup {pos} |-> IF p = pos THEN hook ELSE hooks[p]]
      /\ hook_enabled' = hook_enabled /\ entered' = entered
  BY DEF Sets, Set
<1>2. DOMAIN hooks' = DOMAIN hooks \cup {pos}
  BY <1>1
<1>3. Numbered' = Numbered /\ \A p \in Numbered : hooks'[p] = hooks[p]
  BY <1>1, <1>2 DEF Numbered
<1>4. IsFiniteSet(DOMAIN hooks \cup {pos}) /\ Cardinality(DOMAIN hooks) <= Cardinality(DOMAIN hooks \cup {pos})
      /\ Cardinality(DOMAIN hooks \cup {pos}) \in Nat
  <2>1. IsFiniteSet(DOMAIN hooks)
    BY HooksCounted
  <2>2. IsFiniteSet(DOMAIN hooks \cup {pos})
    BY <2>1, FS_AddElement
  <2> QED BY <2>2, FS_Subset, FS_CardinalityType
<1>5. ~dangling' => Numbered' \subseteq 1..Cardinality(DOMAIN hooks')
  BY <1>2, <1>3, <1>4, HooksCounted DEF HookInv
<1> QED BY <1>1, <1>3, <1>5 DEF HookInv

\* A Lua function gets a number that no hook and no code has.
LEMMA ConvertStep ==
  ASSUME HookInv, NEW f \in LuaFn, convert_lua_function(f)
  PROVE  HookInv'
<1> DEFINE index == Cardinality(DOMAIN hooks) + 1
           v == [pos |-> index, of |-> f]
<1>1. /\ made' = Append(made, v)
      /\ hooks' = [p \in DOMAIN hooks \cup {index} |-> IF p = index THEN LuaHook(f) ELSE hooks[p]]
      /\ hook_enabled' = hook_enabled /\ entered' = entered /\ dangling' = dangling
      /\ Len(made) < MaxValues
  BY DEF convert_lua_function, Sets, Set
<1>2. index \in Nat /\ index <= Cardinality(Code) + MaxValues
  BY <1>1, HooksCounted, LuaValuesAssumption
<1>3. index \notin Code
  BY <1>2, LuaValuesAssumption, HooksCounted
<1>4. /\ made' \in Seq(Value) /\ Len(made') = Len(made) + 1 /\ made'[Len(made) + 1] = v
      /\ \A k \in 1..Len(made) : made'[k] = made[k]
  <2>1. v \in Value /\ made \in Seq(Value)
    BY <1>2 DEF Value, HookInv
  <2> QED BY <1>1, <2>1, AppendElements
<1> HIDE DEF index
<1>5. DOMAIN hooks' = DOMAIN hooks \cup {index} /\ Numbered' = Numbered \cup {index}
  BY <1>1, <1>3 DEF Numbered
<1>6. IsFiniteSet(Numbered') /\ Cardinality(Numbered') <= Cardinality(Numbered) + 1
  <2>1. IsFiniteSet(Numbered) /\ Cardinality(Numbered) \in Nat
    BY FS_CardinalityType DEF HookInv
  <2>2. IsFiniteSet(Numbered \cup {index}) /\ Cardinality(Numbered \cup {index})
          = IF index \in Numbered THEN Cardinality(Numbered) ELSE Cardinality(Numbered) + 1
    BY <2>1, FS_AddElement
  <2> QED BY <1>5, <2>1, <2>2
<1>7. Cardinality(Numbered') <= Len(made')
  <2>1. Cardinality(Numbered) \in Nat /\ Cardinality(Numbered') \in Nat /\ Cardinality(Numbered) <= Len(made)
    BY <1>6, FS_CardinalityType DEF HookInv
  <2> QED BY <1>4, <1>6, <2>1, HooksCounted
<1>8. ASSUME ~dangling' PROVE /\ Numbered' \subseteq 1..Cardinality(DOMAIN hooks)'
                              /\ \A i \in 1..Len(made') : /\ made'[i].pos \in Numbered'
                                                          /\ hooks'[made'[i].pos] = LuaHook(made'[i].of)
  <2>1. /\ Numbered \subseteq 1..Cardinality(DOMAIN hooks)
        /\ \A i \in 1..Len(made) : made[i].pos \in Numbered /\ hooks[made[i].pos] = LuaHook(made[i].of)
    BY <1>1, <1>8 DEF HookInv
  <2>2. index \notin Numbered /\ index \notin DOMAIN hooks
    BY <2>1, <1>3, HooksCounted DEF index, Numbered
  <2>3. Cardinality(DOMAIN hooks \cup {index}) = index
    BY <2>2, HooksCounted, FS_AddElement DEF index
  <2>4. Numbered' \subseteq 1..Cardinality(DOMAIN hooks)'
    <3>1. \A n \in Numbered' : n \in 1..index
      BY <1>2, <1>5, <2>1, HooksCounted DEF index
    <3>2. Cardinality(DOMAIN hooks)' = index
      BY <1>5, <2>3
    <3> QED BY <3>1, <3>2
  <2>5. ASSUME NEW i \in 1..Len(made') PROVE made'[i].pos \in Numbered' /\ hooks'[made'[i].pos] = LuaHook(made'[i].of)
    <3>1. CASE i = Len(made) + 1
      BY <1>1, <1>4, <1>5, <3>1
    <3>2. CASE i # Len(made) + 1
      <4>1. i \in 1..Len(made) /\ made'[i] = made[i]
        BY <1>4, <3>2, HooksCounted
      <4>2. made[i].pos \in Numbered /\ made[i].pos # index /\ made[i].pos \in DOMAIN hooks
        BY <2>1, <2>2, <4>1 DEF Numbered
      <4> QED BY <1>1, <1>5, <2>1, <4>1, <4>2
    <3> QED BY <3>1, <3>2
  <2> QED BY <2>4, <2>5
<1>9. Len(made') <= MaxValues
  BY <1>1, <1>4, HooksCounted, LuaValuesAssumption
<1> QED BY <1>1, <1>4, <1>6, <1>7, <1>8, <1>9 DEF HookInv

LEMMA HookStep ==
  ASSUME HookInv, HookNext
  PROVE  HookInv'
<1>1. ASSUME NEW pos \in Code, ScriptCalls(pos) \/ LuaCalls(pos) PROVE HookInv'
  <2>1. Enter(pos, "call", TRUE)
    BY <1>1 DEF ScriptCalls, LuaCalls, HookInv
  <2> QED BY <2>1, EnterStep
<1>2. ASSUME NEW pos \in Code, LuaInvokes(pos) PROVE HookInv'
  <2>1. Enter(pos, "invoke", FALSE)
    BY <1>2 DEF LuaInvokes
  <2> QED BY <2>1, EnterStep
<1>3. ASSUME NEW pos \in Code, NEW f \in LuaFn, detour(pos, f) PROVE HookInv'
  <2>1. Sets(Set(pos, LuaHook(f))) /\ made' = made /\ dangling' = dangling
    BY <1>3 DEF detour
  <2> QED BY <2>1, DetourStep DEF HookInv
<1>4. ASSUME NEW pos \in Code, NEW with \in Code, replacefunc(pos, with) PROVE HookInv'
  <2>1. Sets(Set(pos, GscHook(with))) /\ made' = made /\ dangling' = dangling
    BY <1>4 DEF replacefunc
  <2> QED BY <2>1, DetourStep DEF HookInv
<1>5. ASSUME NEW v \in ToSet(made), CallsValue(v) PROVE HookInv'
  <2>1. Enter(v.pos, "value", TRUE)
    BY <1>5 DEF CallsValue, HookInv
  <2> QED BY <2>1, EnterStep
<1>6. ASSUME NEW f \in LuaFn, convert_lua_function(f) PROVE HookInv'
  BY <1>6, ConvertStep
<1>7. CASE FunctionEnds
  <2>1. hook_enabled' = TRUE /\ UNCHANGED <<hooks, made, entered, dangling>>
    BY <1>7 DEF FunctionEnds, HookInv
  <2> QED BY <2>1 DEF HookInv, Numbered
<1>8. CASE disable
  <2>1. PICK pos \in DOMAIN hooks : Sets(Clear(pos)) /\ dangling' = TRUE /\ made' = made
    BY <1>8 DEF disable
  <2>2. hooks' = [p \in DOMAIN hooks \ {pos} |-> hooks[p]] /\ hook_enabled' = hook_enabled /\ entered' = entered
    BY <2>1 DEF Sets, Clear
  <2>3. Numbered' \subseteq Numbered
    BY <2>2 DEF Numbered
  <2>4. IsFiniteSet(Numbered') /\ Cardinality(Numbered') <= Cardinality(Numbered)
    BY <2>3, FS_Subset DEF HookInv
  <2>5. Cardinality(Numbered') \in Nat /\ Cardinality(Numbered) \in Nat
    BY <2>4, FS_CardinalityType DEF HookInv
  <2> QED BY <2>1, <2>2, <2>4, <2>5, HooksCounted DEF HookInv
<1>9. CASE enable
  <2>1. PICK pos \in Code, f \in LuaFn : Sets(Set(pos, LuaHook(f))) /\ dangling' = TRUE /\ made' = made
    BY <1>9 DEF enable
  <2> QED BY <2>1, DetourStep
<1>10. CASE clear_callbacks
  <2>1. hooks' = << >> /\ made' = <<>> /\ entered' = <<>> /\ dangling' = FALSE /\ hook_enabled' = hook_enabled
    BY <1>10 DEF clear_callbacks
  <2>2. DOMAIN hooks' = {} /\ Numbered' = {} /\ DOMAIN entered' = {}
    BY <2>1 DEF Numbered
  <2>3. IsFiniteSet(Numbered') /\ Cardinality(Numbered') = 0
    BY <2>2, FS_EmptySet, Zenon
  <2>4. made' \in Seq(Value) /\ Len(made') = 0 /\ MaxValues \in Nat
    BY <2>1, LuaValuesAssumption
  <2>5. (Numbered \subseteq 1..Cardinality(DOMAIN hooks))'
    BY <2>2
  <2>6. \A i : i \notin 1..Len(made') /\ i \notin DOMAIN entered'
    BY <2>2, <2>4
  <2>7. /\ hook_enabled' = TRUE /\ dangling' = FALSE
        /\ Cardinality(Numbered') <= Len(made') /\ Len(made') <= MaxValues
    BY <2>1, <2>3, <2>4 DEF HookInv
  <2> QED BY ONLY <2>3, <2>4, <2>5, <2>6, <2>7 DEF HookInv
<1> QED BY <1>1, <1>2, <1>3, <1>4, <1>5, <1>6, <1>7, <1>8, <1>9, <1>10 DEF HookNext

-----------------------------------------------------------------------------
(* LuaValues: values that cross, and the damage on its way.                *)

\* A number within the limit is one of the machine's, and stays.
LEMMA AsIntKeeps ==
  ASSUME NEW n \in -IntLimit..IntLimit - 1
  PROVE  AsInt(n) = n
<1>1. IntLimit \in Nat /\ IntLimit # 0 /\ n \in Int /\ 2 * IntLimit \in Nat /\ 2 * IntLimit # 0
  BY LuaValuesAssumption
<1>2. CASE n >= 0
  <2>1. n % (2 * IntLimit) = n
    BY <1>1, <1>2
  <2> QED BY <1>1, <1>2, <2>1 DEF AsInt
<1>3. CASE n < 0
  <2>1. n % (2 * IntLimit) = n + 2 * IntLimit
    BY <1>1, <1>3
  <2> QED BY <1>1, <1>3, <2>1 DEF AsInt
<1> QED BY <1>1, <1>2, <1>3

CrossInv == Lasting(crossed[1])

LEMMA CrossStep ==
  ASSUME NEW value \in LuaValue, Cross(value)
  PROVE  CrossInv'
<1>1. crossed' = <<value, to_lua(to_script(value))>>
  BY DEF Cross
<1>2. crossed'[1] = value /\ crossed'[2] = to_lua(to_script(value))
  BY <1>1
<1>3. CASE value.type = "integer"
  <2>1. to_lua(to_script(value)) = [type |-> "integer", of |-> AsInt(value.of)]
    BY <1>3 DEF to_lua, to_script, ScriptValue
  <2>2. value = [type |-> "integer", of |-> value.of]
    BY <1>3 DEF LuaValue
  <2>3. value.of \in -IntLimit..IntLimit - 1 => AsInt(value.of) = value.of
    BY AsIntKeeps
  <2> QED BY <1>2, <1>3, <2>1, <2>2, <2>3 DEF CrossInv, Lasting
<1>4. CASE value.type = "boolean"
  BY <1>2, <1>4 DEF CrossInv, Lasting, to_lua, to_script, ScriptValue
<1>5. CASE value.type = "float"
  BY <1>2, <1>5 DEF CrossInv, Lasting, to_lua, to_script, ScriptValue
<1>6. CASE value.type \in {"string", "entity", "vector", "table", "nil"}
  <2>1. value = [type |-> value.type, of |-> Opaque]
    BY <1>6 DEF LuaValue
  <2> QED BY <1>2, <1>6, <2>1 DEF CrossInv, Lasting, to_lua, to_script, ScriptValue, Nil
<1> QED BY <1>3, <1>4, <1>5, <1>6 DEF LuaValue

\* The number given last by the callbacks that were called, or the damage given.
LastGiven(n) ==
  LET numbers == {i \in 1..n : hit.callbacks[i] # NoNumber}
  IN IF numbers = {} THEN hit.given ELSE hit.callbacks[Max(numbers)]

Hit == [given : Nat, damage : Int, called : Nat, game : Int, callbacks : Seq(Effect)]

DamageInv ==
  /\ damage_callbacks \in Seq(Effect)
  /\ hit \in Hit
  /\ hit.called <= Len(hit.callbacks)
  /\ hit.damage = LastGiven(hit.called)
  /\ UnderWay => hit.callbacks = damage_callbacks
  /\ ~UnderWay => /\ hit.called = Len(hit.callbacks)
                  /\ hit.game = IF hit.damage = 0 THEN NoNumber ELSE hit.damage

LEMMA LastGivenNext ==
  ASSUME hit \in Hit, NEW n \in Nat, n < Len(hit.callbacks)
  PROVE  LastGiven(n + 1) = IF hit.callbacks[n + 1] = NoNumber THEN LastGiven(n) ELSE hit.callbacks[n + 1]
<1> DEFINE A == {i \in 1..n : hit.callbacks[i] # NoNumber}
           B == {i \in 1..n + 1 : hit.callbacks[i] # NoNumber}
<1>1. CASE hit.callbacks[n + 1] = NoNumber
  <2>1. A = B
    BY <1>1
  <2> QED BY <1>1, <2>1 DEF LastGiven
<1>2. CASE hit.callbacks[n + 1] # NoNumber
  <2>1. B \subseteq 0..n + 1 /\ n + 1 \in B /\ B # {}
    BY <1>2
  <2>2. Max(B) \in B /\ \A y \in B : y <= Max(B)
    <3>1. n + 1 \in Nat
      OBVIOUS
    <3> HIDE DEF B
    <3> QED BY <2>1, <3>1, MaxOfBounded
  <2>3. Max(B) = n + 1
    BY <2>1, <2>2
  <2> QED BY <1>2, <2>1, <2>3 DEF LastGiven
<1> QED BY <1>1, <1>2

LEMMA DamageInitially == ValuesInit => DamageInv
<1> SUFFICES ASSUME ValuesInit PROVE DamageInv
  OBVIOUS
<1>1. damage_callbacks = <<>> /\ hit = [given |-> 1, damage |-> 1, called |-> 0, game |-> 1, callbacks |-> <<>>]
  BY DEF ValuesInit
<1>2. {i \in 1..0 : hit.callbacks[i] # NoNumber} = {}
  OBVIOUS
<1>3. LastGiven(0) = 1
  BY <1>1, <1>2 DEF LastGiven
<1> QED BY <1>1, <1>3 DEF DamageInv, Hit, UnderWay, NotYet

LEMMA DamageStep ==
  ASSUME DamageInv, DamageNext
  PROVE  DamageInv'
<1>0. damage_callbacks \in Seq(Effect) /\ hit \in Hit /\ Effect \subseteq Int /\ Len(damage_callbacks) \in Nat
      /\ Len(hit.callbacks) \in Nat
  BY DEF DamageInv, Effect, NoNumber, Hit
<1>1. ASSUME NEW effect \in Effect, add_player_damage_callback(effect) PROVE DamageInv'
  <2>1. damage_callbacks' = Append(damage_callbacks, effect) /\ hit' = hit /\ ~UnderWay
    BY <1>1 DEF add_player_damage_callback
  <2>2. damage_callbacks' \in Seq(Effect)
    BY <1>0, <2>1, AppendProperties
  <2>3. \A n : LastGiven(n)' = LastGiven(n)
    BY <2>1 DEF LastGiven
  <2> QED BY <2>1, <2>2, <2>3 DEF DamageInv, UnderWay
<1>2. ASSUME NEW damage \in {1, 3}, scr_player_damage_stub(damage) PROVE DamageInv'
  <2>1. /\ hit' = [given |-> damage, damage |-> damage, called |-> 0, game |-> NotYet, callbacks |-> damage_callbacks]
        /\ damage_callbacks' = damage_callbacks
    BY <1>2 DEF scr_player_damage_stub
  <2>2. {i \in 1..0 : hit'.callbacks[i] # NoNumber} = {}
    OBVIOUS
  <2>3. LastGiven(0)' = damage
    BY <2>1, <2>2 DEF LastGiven
  <2> QED BY <1>0, <2>1, <2>3 DEF DamageInv, UnderWay, NotYet, Hit
<1>3. CASE CallsBack
  <2>1. PICK result \in Effect :
          /\ result = damage_callbacks[hit.called + 1]
          /\ hit' = [hit EXCEPT !.called = @ + 1, !.damage = IF result = NoNumber THEN @ ELSE result]
    <3>1. hit.called + 1 \in 1..Len(damage_callbacks)
      BY <1>0, <1>3 DEF CallsBack, Hit
    <3>2. damage_callbacks[hit.called + 1] \in Effect
      BY <1>0, <3>1, ElementOfSeq
    <3> QED BY <1>3, <3>2 DEF CallsBack
  <2>2. damage_callbacks' = damage_callbacks /\ UnderWay /\ hit.callbacks = damage_callbacks
        /\ hit.called < Len(hit.callbacks) /\ hit.called \in Nat
    BY <1>3, <1>0 DEF CallsBack, DamageInv, Hit
  <2>3. /\ hit' \in Hit /\ hit'.called = hit.called + 1 /\ hit'.callbacks = hit.callbacks /\ hit'.given = hit.given
        /\ hit'.game = hit.game /\ hit'.damage = IF result = NoNumber THEN hit.damage ELSE result
    <3>1. result \in Int
      BY DEF Effect, NoNumber
    <3>2. /\ hit'.called = hit.called + 1 /\ hit'.callbacks = hit.callbacks /\ hit'.given = hit.given
          /\ hit'.game = hit.game /\ hit'.damage = IF result = NoNumber THEN hit.damage ELSE result
      BY <1>0, <2>1 DEF Hit
    <3>3. hit' = [given |-> hit'.given, damage |-> hit'.damage, called |-> hit'.called, game |-> hit'.game,
                  callbacks |-> hit'.callbacks]
      BY <1>0, <2>1 DEF Hit
    <3>4. /\ hit'.given \in Nat /\ hit'.damage \in Int /\ hit'.called \in Nat /\ hit'.game \in Int
          /\ hit'.callbacks \in Seq(Effect)
      BY <1>0, <2>2, <3>1, <3>2 DEF Hit
    <3>5. hit' \in Hit
      BY ONLY <3>3, <3>4 DEF Hit
    <3> QED BY <3>2, <3>5
  <2>4. \A n : LastGiven(n)' = LastGiven(n)
    BY <2>3 DEF LastGiven
  <2>5. LastGiven(hit.called + 1) = IF result = NoNumber THEN LastGiven(hit.called) ELSE result
    BY <1>0, <2>1, <2>2, LastGivenNext
  <2>6. (hit.damage = LastGiven(hit.called))'
    BY <2>3, <2>4, <2>5 DEF DamageInv
  <2> QED BY <1>0, <2>2, <2>3, <2>6 DEF DamageInv, UnderWay
<1>4. CASE Damages
  <2>1. /\ hit' = [hit EXCEPT !.game = IF hit.damage = 0 THEN NoNumber ELSE hit.damage]
        /\ damage_callbacks' = damage_callbacks /\ UnderWay /\ hit.called = Len(damage_callbacks)
    BY <1>4 DEF Damages
  <2>2. /\ hit' \in Hit /\ hit'.called = hit.called /\ hit'.callbacks = hit.callbacks /\ hit'.given = hit.given
        /\ hit'.damage = hit.damage /\ hit'.game = IF hit.damage = 0 THEN NoNumber ELSE hit.damage
    BY <1>0, <2>1 DEF Hit, NoNumber
  <2>3. \A n : LastGiven(n)' = LastGiven(n)
    BY <2>2 DEF LastGiven
  <2> QED BY <1>0, <2>1, <2>2, <2>3 DEF DamageInv, UnderWay
<1>5. CASE clear_callbacks
  <2>1. damage_callbacks' = <<>> /\ hit' = hit /\ ~UnderWay
    BY <1>5 DEF clear_callbacks
  <2>2. \A n : LastGiven(n)' = LastGiven(n)
    BY <2>1 DEF LastGiven
  <2> QED BY <2>1, <2>2 DEF DamageInv, UnderWay
<1> QED BY <1>1, <1>2, <1>3, <1>4, <1>5 DEF DamageNext

-----------------------------------------------------------------------------
(* LuaValues: arrays.  Nothing moves under a table unless outlived says so. *)

\* A child variable, with the field "none" where it is free.
Child == [field : Field \cup {"none"}, value : 0..2]

ArrayInv ==
  /\ child \in [Store -> Child]
  /\ table \subseteq [field : Field \cup {"none"}, index : Store]
  /\ wrote \in [Field -> 0..2]
  /\ outlived \in BOOLEAN
  /\ ~outlived =>
       /\ \A f \in Field : \A s, t \in At(f) : s = t
       /\ \A f \in Field : \A s \in At(f) : child[s].value = wrote[f]

LEMMA ArrayInitially == ValuesInit => ArrayInv
<1> SUFFICES ASSUME ValuesInit PROVE ArrayInv
  OBVIOUS
<1>1. Empty0 \in Child
  BY DEF Empty0, Child
<1>2. child = [s \in Store |-> Empty0] /\ table = {} /\ outlived = FALSE /\ wrote = [f \in Field |-> 0]
  BY DEF ValuesInit
<1>3. \A f \in Field : At(f) = {}
  BY <1>2, LuaValuesAssumption DEF At, Empty0
<1>4. child \in [Store -> Child] /\ wrote \in [Field -> 0..2]
  BY <1>1, <1>2
<1> QED BY <1>2, <1>3, <1>4 DEF ArrayInv

\* The game's own steps, while the table's places may be stale.
LEMMA GameStepArray ==
  ASSUME ArrayInv, NEW field \in Field, NEW value \in 1..2,
         GameSets(field, value) \/ GameRemoves(field)
  PROVE  ArrayInv'
<1>0. /\ child \in [Store -> Child] /\ table \subseteq [field : Field \cup {"none"}, index : Store]
      /\ wrote \in [Field -> 0..2] /\ outlived \in BOOLEAN /\ field # "none"
  BY LuaValuesAssumption DEF ArrayInv
<1>1. CASE GameSets(field, value)
  <2>1. PICK s \in Store : Put0(s, field, value) /\ (s \in At(field) \/ (At(field) = {} /\ child[s] = Empty0))
    BY <1>1 DEF GameSets, At
  <2>2. /\ child' = [child EXCEPT ![s] = [field |-> field, value |-> value]]
        /\ wrote' = [wrote EXCEPT ![field] = value] /\ table' = table /\ outlived' = outlived
    BY <1>1, <2>1 DEF GameSets, Put0
  <2>3. [field |-> field, value |-> value] \in Child
    BY DEF Child
  <2>4. child' \in [Store -> Child] /\ wrote' \in [Field -> 0..2]
    BY <1>0, <2>2, <2>3
  <2>5. ASSUME ~outlived', NEW f \in Field, NEW t \in At(f)' PROVE child'[t].value = wrote'[f] /\ \A u \in At(f)' : t = u
    <3>1. \A x \in Store : child'[x] = IF x = s THEN [field |-> field, value |-> value] ELSE child[x]
      BY <1>0, <2>2
    <3>2. \A g \in Field : \A x, y \in At(g) : x = y
      BY <2>5, <2>2 DEF ArrayInv
    <3>3. \A g \in Field : \A x \in At(g) : child[x].value = wrote[g]
      BY <2>5, <2>2 DEF ArrayInv
    <3>4. \A x \in Store : x \in At(f) <=> child[x].field = f
      BY DEF At
    <3>5. \A x : x \in At(f)' <=> x \in Store /\ child'[x].field = f
      BY DEF At
    <3>6. child[s].field = field \/ child[s].field = "none"
      BY <2>1 DEF At, Empty0
    <3>7. CASE f = field
      <4>1. \A x \in At(f)' : x = s
        BY <3>1, <3>2, <3>4, <3>5, <3>7, <2>1
      <4> QED BY <4>1, <2>5, <3>1, <3>5, <3>7, <2>2, <1>0
    <3>8. CASE f # field
      <4>1. \A x \in At(f)' : x # s /\ x \in At(f) /\ child'[x] = child[x]
        BY <3>1, <3>4, <3>5, <3>8
      <4>2. wrote'[f] = wrote[f]
        BY <2>2, <3>8, <1>0
      <4> QED BY <4>1, <4>2, <3>2, <3>3, <2>5
    <3> QED BY <3>7, <3>8
  <2> QED BY <2>2, <2>4, <2>5, <1>0 DEF ArrayInv
<1>2. CASE GameRemoves(field)
  <2>1. /\ child' = [s \in Store |-> IF s \in At(field) THEN Empty0 ELSE child[s]]
        /\ wrote' = [wrote EXCEPT ![field] = 0] /\ table' = table /\ outlived' = outlived
    BY <1>2 DEF GameRemoves
  <2>2. child' \in [Store -> Child] /\ wrote' \in [Field -> 0..2]
    BY <1>0, <2>1 DEF Empty0, Child
  <2>3. ASSUME ~outlived', NEW f \in Field, NEW t \in At(f)' PROVE child'[t].value = wrote'[f] /\ \A u \in At(f)' : t = u
    <3>1. \A x \in Store : child'[x] = IF child[x].field = field THEN Empty0 ELSE child[x]
      BY <2>1 DEF At
    <3>2. \A x : x \in At(f)' <=> x \in Store /\ child'[x].field = f
      BY DEF At
    <3>3. Empty0.field = "none" /\ f # "none"
      BY LuaValuesAssumption DEF Empty0
    <3>4. \A x \in At(f)' : child[x].field = f /\ f # field /\ x \in At(f) /\ child'[x] = child[x]
      BY <3>1, <3>2, <3>3 DEF At
    <3>5. wrote'[f] = wrote[f]
      BY <2>1, <2>3, <3>4, <1>0
    <3> QED BY <2>3, <3>4, <3>5, <2>1 DEF ArrayInv
  <2> QED BY <2>1, <2>2, <2>3, <1>0 DEF ArrayInv
<1> QED BY <1>1, <1>2

\* Lua's steps: what is written through the table is written to the field unless
\* the element has moved, and then outlived says so.
LEMMA LuaStepArray ==
  ASSUME ArrayInv, NEW field \in Field, NEW value \in 1..2,
         entity_to_array \/ array_new_index(field, value) \/ struct_new_index(field, value)
  PROVE  ArrayInv'
<1>0. /\ child \in [Store -> Child] /\ table \subseteq [field : Field \cup {"none"}, index : Store]
      /\ wrote \in [Field -> 0..2] /\ outlived \in BOOLEAN /\ field # "none"
  BY LuaValuesAssumption DEF ArrayInv
<1>1. CASE entity_to_array
  <2>1. table' \subseteq [field : Field \cup {"none"}, index : Store]
    <3>1. table' = {[field |-> child[s].field, index |-> s] : s \in {s \in Store : child[s] # Empty0}}
      BY <1>1 DEF entity_to_array
    <3> QED BY <3>1, <1>0 DEF Child
  <2>2. child' = child /\ wrote' = wrote /\ outlived' = outlived /\ \A f : At(f)' = At(f)
    BY <1>1 DEF entity_to_array, At
  <2> QED BY <1>0, <2>1, <2>2 DEF ArrayInv
<1>2. CASE array_new_index(field, value) \/ struct_new_index(field, value)
  <2>1. PICK s \in Store :
          /\ child' = [child EXCEPT ![s].value = value]
          /\ outlived' = (outlived \/ child[s].field # field)
    <3>1. CASE array_new_index(field, value)
      BY <1>0, <3>1 DEF array_new_index
    <3>2. CASE struct_new_index(field, value)
      <4>1. PICK s \in At(field) : child' = [child EXCEPT ![s] = [field |-> field, value |-> value]] /\ outlived' = outlived
        BY <3>2 DEF struct_new_index, Put0
      <4>2. s \in Store /\ child[s].field = field /\ child[s] \in Child
        BY <4>1, <1>0 DEF At
      <4>3. [child[s] EXCEPT !.value = value] = [field |-> field, value |-> value]
        BY <4>2 DEF Child
      <4> QED BY <4>1, <4>2, <4>3, <1>0
    <3> QED BY <1>2, <3>1, <3>2
  <2>2. wrote' = [wrote EXCEPT ![field] = value] /\ table' = table
    BY <1>2 DEF array_new_index, struct_new_index
  <2>3. /\ child' \in [Store -> Child]
        /\ \A x \in Store : /\ child'[x].field = child[x].field
                            /\ child'[x].value = IF x = s THEN value ELSE child[x].value
    <3>1. child[s] \in Child /\ [child[s] EXCEPT !.value = value] \in Child
      BY <1>0 DEF Child
    <3> QED BY <1>0, <2>1, <3>1 DEF Child
  <2>4. wrote' \in [Field -> 0..2] /\ \A f \in Field : wrote'[f] = IF f = field THEN value ELSE wrote[f]
    BY <1>0, <2>2
  <2>5. ASSUME ~outlived', NEW f \in Field, NEW t \in At(f)' PROVE child'[t].value = wrote'[f] /\ \A u \in At(f)' : t = u
    <3>1. At(f)' = At(f)
      BY <2>3 DEF At
    <3>2. ~outlived /\ child[s].field = field
      BY <2>1, <2>5
    <3>3. /\ \A g \in Field : \A x, y \in At(g) : x = y
          /\ \A g \in Field : \A x \in At(g) : child[x].value = wrote[g]
      BY <3>2 DEF ArrayInv
    <3>4. t \in Store /\ child[t].field = f /\ s \in At(field)
      BY <3>1, <3>2, <2>5 DEF At
    <3>5. f = field <=> t = s
      BY <3>1, <3>2, <3>3, <3>4, <2>5
    <3> QED BY <3>1, <3>3, <3>4, <3>5, <2>3, <2>4, <2>5
  <2> QED BY <1>0, <2>1, <2>2, <2>3, <2>4, <2>5 DEF ArrayInv
<1> QED BY <1>1, <1>2

-----------------------------------------------------------------------------
(* LuaValues as a whole.  Its parts change nothing of each other but for    *)
(* clear_callbacks, which belongs to two of them.                          *)

ValuesNext == HookNext \/ DamageNext \/ ArrayNext \/ CrossNext
ValuesInv == HookInv /\ DamageInv /\ ArrayInv /\ CrossInv

LEMMA HookFrame ==
  ASSUME UNCHANGED hookVars
  PROVE  HookInv' = HookInv
BY DEF hookVars, HookInv, Numbered

LEMMA DamageFrame ==
  ASSUME UNCHANGED damageVars, DamageInv
  PROVE  DamageInv'
BY DEF damageVars, DamageInv, UnderWay, LastGiven

LEMMA ArrayFrame ==
  ASSUME UNCHANGED arrayVars, ArrayInv
  PROVE  ArrayInv'
BY DEF arrayVars, ArrayInv, At

LEMMA HookLeaves ==
  ASSUME HookNext
  PROVE  UNCHANGED <<arrayVars, crossed>> /\ (UNCHANGED damageVars \/ clear_callbacks)
<1>1. CASE clear_callbacks
  BY <1>1 DEF clear_callbacks
<1>2. ASSUME NEW pos, NEW via, NEW enabled, Enter(pos, via, enabled)
      PROVE  UNCHANGED <<arrayVars, crossed, damageVars>>
  BY <1>2 DEF Enter
<1>3. ASSUME NEW new, Sets(new) PROVE UNCHANGED <<arrayVars, crossed, damageVars>>
  BY <1>3 DEF Sets
<1>4. CASE FunctionEnds
  BY <1>4 DEF FunctionEnds
<1> QED BY <1>1, <1>2, <1>3, <1>4 DEF HookNext, ScriptCalls, CallsValue, LuaCalls, LuaInvokes,
          convert_lua_function, detour, replacefunc, disable, enable

LEMMA DamageLeaves ==
  ASSUME DamageNext
  PROVE  UNCHANGED <<arrayVars, crossed>> /\ (UNCHANGED hookVars \/ clear_callbacks)
BY DEF DamageNext, add_player_damage_callback, scr_player_damage_stub, CallsBack, Damages, clear_callbacks

LEMMA ArrayLeaves ==
  ASSUME ArrayNext
  PROVE  UNCHANGED <<hookVars, damageVars, crossed>>
BY DEF ArrayNext, entity_to_array, GameRemoves, GameSets, array_new_index, struct_new_index

LEMMA ArrayStep ==
  ASSUME ArrayInv, ArrayNext
  PROVE  ArrayInv'
<1>1. {1, 2} = 1..2
  OBVIOUS
<1>2. ASSUME NEW field \in Field, GameRemoves(field) PROVE ArrayInv'
  <2>1. GameSets(field, 1) \/ GameRemoves(field)
    BY <1>2
  <2> QED BY <2>1, GameStepArray
<1>3. CASE entity_to_array
  <2>1. CASE Field = {}
    <3>1. \A f \in Field : FALSE
      BY <2>1
    <3>2. child' = child /\ wrote' = wrote /\ outlived' = outlived
          /\ table' = {[field |-> child[s].field, index |-> s] : s \in {s \in Store : child[s] # Empty0}}
      BY <1>3 DEF entity_to_array
    <3> QED BY <3>1, <3>2 DEF ArrayInv, Child, At
  <2>2. ASSUME NEW field \in Field PROVE ArrayInv'
    <3>1. entity_to_array \/ array_new_index(field, 1) \/ struct_new_index(field, 1)
      BY <1>3
    <3> QED BY <3>1, LuaStepArray
  <2> QED BY <2>1, <2>2
<1>4. ASSUME NEW field \in Field, NEW value \in 1..2, GameSets(field, value) PROVE ArrayInv'
  BY <1>4, GameStepArray
<1>5. ASSUME NEW field \in Field, NEW value \in 1..2,
             array_new_index(field, value) \/ struct_new_index(field, value)
      PROVE  ArrayInv'
  BY <1>5, LuaStepArray
<1> QED BY <1>1, <1>2, <1>3, <1>4, <1>5 DEF ArrayNext

LEMMA ValuesInitially == ValuesInit => ValuesInv
<1>1. ValuesInit => CrossInv
  BY DEF ValuesInit, CrossInv, Lasting, Nil
<1> QED BY <1>1, HooksInitially, DamageInitially, ArrayInitially DEF ValuesInv

LEMMA ValuesStep ==
  ASSUME ValuesInv, [ValuesNext]_valuesVars
  PROVE  ValuesInv'
<1>0. HookInv /\ DamageInv /\ ArrayInv /\ CrossInv
  BY DEF ValuesInv
<1>1. crossed' = crossed => CrossInv'
  BY <1>0 DEF CrossInv, Lasting
<1>2. CASE HookNext
  <2>1. HookInv'
    BY <1>0, <1>2, HookStep
  <2>2. clear_callbacks => DamageInv'
    BY <1>0, DamageStep DEF DamageNext
  <2> QED BY <1>0, <1>1, <1>2, <2>1, <2>2, HookLeaves, DamageFrame, ArrayFrame DEF ValuesInv
<1>3. CASE DamageNext
  <2>1. DamageInv'
    BY <1>0, <1>3, DamageStep
  <2>2. clear_callbacks => HookInv'
    BY <1>0, HookStep DEF HookNext
  <2> QED BY <1>0, <1>1, <1>3, <2>1, <2>2, DamageLeaves, HookFrame, ArrayFrame DEF ValuesInv
<1>4. CASE ArrayNext
  <2>1. ArrayInv'
    BY <1>0, <1>4, ArrayStep
  <2> QED BY <1>0, <1>1, <1>4, <2>1, ArrayLeaves, HookFrame, DamageFrame DEF ValuesInv
<1>5. CASE CrossNext
  <2>1. PICK value \in LuaValue : Cross(value)
    BY <1>5 DEF CrossNext
  <2>2. CrossInv' /\ UNCHANGED <<hookVars, damageVars, arrayVars>>
    BY <2>1, CrossStep DEF Cross
  <2> QED BY <1>0, <2>2, HookFrame, DamageFrame, ArrayFrame DEF ValuesInv
<1>6. CASE UNCHANGED valuesVars
  BY <1>0, <1>1, <1>6, HookFrame, DamageFrame, ArrayFrame DEF ValuesInv, valuesVars
<1> QED BY <1>2, <1>3, <1>4, <1>5, <1>6 DEF ValuesNext

LEMMA ValuesBridged == ValuesInv => LuaBridged
<1> SUFFICES ASSUME ValuesInv PROVE LuaBridged
  OBVIOUS
<1>0. HookInv /\ DamageInv /\ ArrayInv /\ CrossInv
  BY DEF ValuesInv
<1>1. ValuesReadBack
  BY <1>0 DEF ArrayInv, CrossInv, ValuesReadBack
<1>2. ASSUME ~dangling, NEW v \in ToSet(made) PROVE v.pos \in DOMAIN hooks /\ hooks[v.pos] = LuaHook(v.of)
  <2>1. made \in Seq(Value)
    BY <1>0 DEF HookInv
  <2>2. PICK i \in 1..Len(made) : v = made[i]
    BY <2>1, ToSetMember
  <2> QED BY <1>0, <1>2, <2>2 DEF HookInv, Numbered
<1>3. ASSUME ~UnderWay
      PROVE  LET numbers == {i \in DOMAIN hit.callbacks : hit.callbacks[i] # NoNumber}
                 expected == IF numbers = {} THEN hit.given ELSE hit.callbacks[Max(numbers)]
             IN hit.game = IF expected = 0 THEN NoNumber ELSE expected
  <2>1. hit.callbacks \in Seq(Effect) /\ DOMAIN hit.callbacks = 1..Len(hit.callbacks)
    BY <1>0, LenProperties DEF DamageInv, Hit
  <2> QED BY <1>0, <1>3, <2>1 DEF DamageInv, LastGiven
<1>4. \A i \in DOMAIN entered :
        LET e == entered[i]
        IN /\ e.via = "invoke" => e.runs = Original
           /\ e.via # "invoke" => e.runs = e.hook
  BY <1>0 DEF HookInv
<1>5. DetoursRun
  BY <1>2, <1>3, <1>4, Zenon DEF DetoursRun
<1> QED BY <1>1, <1>5 DEF LuaBridged

\* However Lua and scripts call each other, whatever is hooked, made into a value,
\* given as damage or stored in arrays: a call reaches the function it is to
\* reach, and values arrive as they were (LuaBridged), for any code and functions,
\* any fields and child variables, and any width of the machine's integers
\* (context.cpp, notifies.cpp, value_conversion.cpp).
THEOREM LuaStaysBridged == Spec => []LuaBridged
<1>1. Init => ValuesInv
  BY ValuesInitially DEF Init
<1>2. ValuesInv /\ [Next]_vars => ValuesInv'
  <2>1. [Next]_vars => [ValuesNext]_valuesVars
    BY Zenon DEF Next, ValuesNext, vars
  <2> QED BY <2>1, ValuesStep
<1> QED BY <1>1, <1>2, ValuesBridged, PTL DEF Spec

-----------------------------------------------------------------------------
(* Gsc: functions and their positions.  A file has Width positions, so that *)
(* files do not overlap and neither do the functions of one of them.       *)

Width == Functions * Length
CodeName == {"main", "init", "other"}
TableRow == [name : CodeName \cup {EndMark}, pos : Nat]

\* The tables of a file are those of some code it was compiled to.
Tabled(f, code) ==
  /\ script_function_table_sort[f] = IF code = <<>> THEN <<>> ELSE Sorted(f, code)
  /\ \A row \in script_function_table :
       row[1] = f => \E k \in 1..Len(code) : row[2] = Row(f, code[k], k)

GscInv ==
  /\ live \subseteq File
  /\ main_handles \cup init_handles \cup loaded_scripts \subseteq live
  /\ \A row \in script_function_table : row[1] \in live
  /\ script_function_table_sort \in [File -> Seq(TableRow)]
  /\ \A f \in File \ live : script_function_table_sort[f] = <<>>
  /\ \A f \in live : \E code \in Compiled : Tabled(f, code)
  /\ vm_execute_hooks \in [Hookable -> Hookable \cup {NoHook, LuaFunction}]
  /\ \A p \in Hookable :
       vm_execute_hooks[p] # NoHook => {p, Target(p)} \subseteq Names \cup {LuaFunction}

LEMMA Widths ==
  /\ Functions \in Nat /\ Functions # 0 /\ Length \in Nat /\ Length # 0 /\ Files \in Nat
  /\ Width \in Nat
  /\ \A f \in File : f \in Nat /\ Start(f) = f * Width /\ Start(f) \in Nat
<1>1. Functions \in Nat /\ Functions # 0 /\ Length \in Nat /\ Length # 0 /\ Files \in Nat
  BY GscAssumption
<1>2. Width \in Nat
  BY <1>1 DEF Width
<1>3. ASSUME NEW f \in File PROVE f \in Nat /\ Start(f) = f * Width /\ Start(f) \in Nat
  <2>1. f \in Nat
    BY <1>1 DEF File
  <2>2. f * Width \in Nat
    BY <2>1, <1>2
  <2> QED BY <2>1, <2>2 DEF Start, Width
<1> QED BY <1>1, <1>2, <1>3

\* Where a function begins: after those before it, and within its file.
LEMMA Positions ==
  ASSUME NEW f \in File, NEW k \in 1..Functions + 1
  PROVE  /\ Position(f, k) \in Nat
         /\ Position(f, k) = Start(f) + (k - 1) * Length
         /\ Start(f) <= Position(f, k) /\ Position(f, k) <= Start(f) + Width
<1>1. Functions \in Nat /\ Length \in Nat /\ k \in Nat /\ k >= 1 /\ Start(f) \in Nat
  BY Widths
<1>2. k - 1 \in Nat /\ k - 1 <= Functions
  BY <1>1
<1>3. (k - 1) * Length \in Nat
  BY <1>1, <1>2
<1>4. (k - 1) * Length <= Functions * Length
  BY <1>1, <1>2
<1>5. Functions * Length \in Nat
  BY <1>1
<1> QED BY <1>1, <1>3, <1>4, <1>5 DEF Position, Width

\* A later function begins where the one before it has ended.
LEMMA PositionsApart ==
  ASSUME NEW f \in File, NEW j \in 1..Functions + 1, NEW k \in 1..Functions + 1, j < k
  PROVE  Position(f, j) + Length <= Position(f, k)
<1>1. Functions \in Nat /\ Length \in Nat /\ Start(f) \in Nat /\ j \in Nat /\ k \in Nat /\ j >= 1
  BY Widths
<1>2. j - 1 \in Nat /\ k - 1 \in Nat /\ j <= k - 1
  BY <1>1
<1>3. j * Length <= (k - 1) * Length
  BY <1>1, <1>2
<1>4. (j - 1) * Length + Length = j * Length
  BY <1>1, <1>2
<1>5. (j - 1) * Length \in Nat /\ (k - 1) * Length \in Nat
  BY <1>1, <1>2
<1> QED BY <1>1, <1>3, <1>4, <1>5, Positions

LEMMA FilesApart ==
  ASSUME NEW f \in File, NEW g \in File, f < g
  PROVE  Start(f) + Width <= Start(g)
<1>1. f \in Nat /\ g \in Nat /\ Width \in Nat /\ f + 1 <= g
  BY Widths
<1>2. (f + 1) * Width <= g * Width
  BY <1>1
<1>3. (f + 1) * Width = f * Width + Width
  BY <1>1
<1> QED BY <1>1, <1>2, <1>3, Widths

LEMMA CodeType ==
  ASSUME NEW code \in Compiled
  PROVE  /\ code \in Seq(CodeName) /\ Len(code) \in 0..Functions /\ DOMAIN code = 1..Len(code)
         /\ \A k \in 1..Len(code) : code[k] \in CodeName
<1>1. code \in BoundedSeq(CodeName, Functions)
  BY DEF Compiled, CodeName
<1>2. PICK n \in 0..Functions : code \in [1..n -> CodeName]
  BY <1>1 DEF BoundedSeq, SeqOf
<1>3. n \in Nat /\ code \in Seq(CodeName) /\ Len(code) = n
  BY <1>2, FunctionIsSeq, Widths
<1> QED BY <1>2, <1>3

\* The rows of a table, in the order of the code.
LEMMA SortedRows ==
  ASSUME NEW f \in File, NEW code \in Compiled
  PROVE  /\ Sorted(f, code) \in Seq(TableRow)
         /\ Len(Sorted(f, code)) = Len(code) + 1
         /\ \A k \in 1..Len(code) + 1 : Sorted(f, code)[k].pos = Position(f, k)
         /\ \A k \in 1..Len(code) : Sorted(f, code)[k] = Row(f, code[k], k)
<1>1. Len(code) \in Nat /\ Len(code) <= Functions /\ \A k \in 1..Len(code) : code[k] \in CodeName
  BY CodeType, Widths
<1>2. \A k \in 1..Len(code) + 1 : Position(f, k) \in Nat
  BY <1>1, Positions, Widths
<1>3. Sorted(f, code) \in [1..Len(code) + 1 -> TableRow]
  BY <1>1, <1>2 DEF Sorted, Row, TableRow
<1>4. Len(code) + 1 \in Nat
  BY <1>1
<1>5. Sorted(f, code) \in Seq(TableRow) /\ Len(Sorted(f, code)) = Len(code) + 1
  BY <1>3, <1>4, FunctionIsSeq
<1>6. \A k \in 1..Len(code) + 1 : Sorted(f, code)[k] = Row(f, IF k = Len(code) + 1 THEN EndMark ELSE code[k], k)
  BY DEF Sorted
<1>7. \A k \in 1..Len(code) : k # Len(code) + 1 /\ k \in 1..Len(code) + 1
  BY <1>1
<1> QED BY <1>5, <1>6, <1>7 DEF Row

LEMMA Found ==
  ASSUME NEW pos, NEW x
  PROVE  x \in find_function(pos) <=>
           \E f \in File : \E k \in 1..Len(script_function_table_sort[f]) - 1 :
             /\ pos >= script_function_table_sort[f][k].pos
             /\ pos < script_function_table_sort[f][k + 1].pos
             /\ x = <<f, script_function_table_sort[f][k].name>>
<1> DEFINE sort == script_function_table_sort
           Rows(f) == {k \in 1..Len(sort[f]) - 1 : pos >= sort[f][k].pos /\ pos < sort[f][k + 1].pos}
           Of(f) == {<<f, sort[f][k].name>> : k \in Rows(f)}
<1>1. find_function(pos) = UNION {Of(f) : f \in File}
  BY DEF find_function
<1>2. x \in find_function(pos) <=> \E f \in File : x \in Of(f)
  BY <1>1
<1> QED BY <1>2

\* Only the function itself holds a position of it.
LEMMA FoundOnce ==
  ASSUME GscInv, NEW f \in File, NEW code \in Compiled, Tabled(f, code), NEW k \in 1..Len(code),
         NEW d \in 0..Length - 1
  PROVE  find_function(Position(f, k) + d) = {<<f, code[k]>>}
<1> DEFINE pos == Position(f, k) + d
           sort == script_function_table_sort
<1>1. /\ Len(code) \in Nat /\ Len(code) <= Functions /\ code # <<>> /\ k \in Nat
      /\ k \in 1..Functions + 1 /\ k + 1 \in 1..Functions + 1
      /\ Length \in Nat /\ d \in Nat /\ d < Length /\ Functions \in Nat
  BY CodeType, Widths
<1>2. sort[f] = Sorted(f, code)
  BY <1>1 DEF Tabled
<1>3. Position(f, k) \in Nat /\ Position(f, k) + Length <= Position(f, k + 1) /\ Position(f, k + 1) \in Nat
      /\ Start(f) <= Position(f, k) /\ Position(f, k + 1) <= Start(f) + Width
  BY <1>1, Positions, PositionsApart
<1>4. pos \in Nat /\ pos >= Position(f, k) /\ pos < Position(f, k + 1)
  BY <1>1, <1>3
<1> HIDE DEF pos
<1>5. <<f, code[k]>> \in find_function(pos)
  <2>1. k \in 1..Len(sort[f]) - 1 /\ sort[f][k].pos = Position(f, k) /\ sort[f][k + 1].pos = Position(f, k + 1)
        /\ sort[f][k].name = code[k]
    <3>1. k \in 1..Len(code) + 1 /\ k + 1 \in 1..Len(code) + 1 /\ Len(sort[f]) - 1 = Len(code)
      BY <1>1, <1>2, SortedRows
    <3>2. sort[f][k] = Row(f, code[k], k)
      BY <1>2, SortedRows
    <3> QED BY <1>2, <3>1, <3>2, SortedRows DEF Row
  <2> QED BY <1>4, <2>1, Found
<1>6. ASSUME NEW x \in find_function(pos) PROVE x = <<f, code[k]>>
  <2>1. PICK g, j :
          /\ g \in File /\ j \in 1..Len(sort[g]) - 1
          /\ pos >= sort[g][j].pos /\ pos < sort[g][j + 1].pos /\ x = <<g, sort[g][j].name>>
    BY Found
  <2>2. sort[g] # <<>>
    <3>1. Len(<<>>) = 0
      OBVIOUS
    <3> QED BY <2>1, <3>1
  <2>3. g \in live
    BY <2>1, <2>2 DEF GscInv
  <2>4. PICK other \in Compiled : Tabled(g, other)
    BY <2>3 DEF GscInv
  <2>5. sort[g] = Sorted(g, other)
    BY <2>2, <2>4 DEF Tabled
  <2>6. Len(other) \in Nat /\ Len(other) <= Functions /\ Len(sort[g]) = Len(other) + 1
    BY <2>1, <2>5, SortedRows, CodeType, Widths
  <2>7. j \in 1..Len(other) /\ j \in Nat /\ j \in 1..Functions + 1 /\ j + 1 \in 1..Functions + 1
    BY <1>1, <2>1, <2>6
  <2>8. sort[g][j].pos = Position(g, j) /\ sort[g][j + 1].pos = Position(g, j + 1) /\ sort[g][j].name = other[j]
    <3>1. j \in 1..Len(other) + 1 /\ j + 1 \in 1..Len(other) + 1
      BY <2>6, <2>7
    <3>2. sort[g][j] = Row(g, other[j], j)
      BY <2>1, <2>5, <2>7, SortedRows
    <3> QED BY <2>1, <2>5, <3>1, <3>2, SortedRows DEF Row
  <2>9. /\ Position(g, j) \in Nat /\ Position(g, j + 1) \in Nat
        /\ Start(g) <= Position(g, j) /\ Position(g, j + 1) <= Start(g) + Width
    BY <2>1, <2>7, Positions
  <2>10. pos >= Position(g, j) /\ pos < Position(g, j + 1)
    BY <2>1, <2>8
  <2>11. Start(f) \in Nat /\ Start(g) \in Nat /\ Width \in Nat /\ f \in Nat /\ g \in Nat
    BY <2>1, Widths
  <2>12. g = f
    <3>1. ~(g < f)
      BY <1>3, <1>4, <2>1, <2>9, <2>10, <2>11, FilesApart
    <3>2. ~(f < g)
      BY <1>3, <1>4, <2>1, <2>9, <2>10, <2>11, FilesApart
    <3> QED BY <3>1, <3>2, <2>11
  <2>13. j = k
    <3>1. ASSUME j < k PROVE FALSE
      <4>1. j + 1 \in Nat /\ (j + 1 < k \/ j + 1 = k)
        BY <1>1, <2>7, <3>1
      <4>2. Position(f, j + 1) <= Position(f, k)
        BY <4>1, <1>1, <1>3, <2>7, <2>9, <2>12, PositionsApart
      <4> QED BY <4>2, <1>3, <1>4, <2>9, <2>10, <2>12
    <3>2. ASSUME k < j PROVE FALSE
      <4>1. k + 1 \in Nat /\ (k + 1 < j \/ k + 1 = j)
        BY <1>1, <2>7, <3>2
      <4>2. Position(f, k + 1) <= Position(f, j)
        BY <4>1, <1>1, <1>3, <2>7, <2>9, <2>12, PositionsApart
      <4> QED BY <4>2, <1>3, <1>4, <2>9, <2>10, <2>12
    <3> QED BY <3>1, <3>2, <1>1, <2>7
  <2>14. sort[f][k].name = code[k]
    <3>1. sort[f][k] = Row(f, code[k], k)
      BY <1>2, SortedRows
    <3> QED BY <3>1 DEF Row
  <2> QED BY <2>1, <2>12, <2>13, <2>14
<1> QED BY <1>5, <1>6 DEF pos

LEMMA TablesMatch == GscInv => TablesMatchScripts
<1> SUFFICES ASSUME GscInv PROVE TablesMatchScripts
  OBVIOUS
<1>1. ASSUME NEW row \in script_function_table, NEW d \in 0..Length - 1
      PROVE  find_function(row[2].pos + d) = {<<row[1], row[2].name>>}
  <2>1. row[1] \in live /\ row[1] \in File
    BY DEF GscInv
  <2>2. PICK code \in Compiled : Tabled(row[1], code)
    BY <2>1 DEF GscInv
  <2>3. PICK k \in 1..Len(code) : row[2] = Row(row[1], code[k], k)
    BY <2>2 DEF Tabled
  <2>4. row[2].pos = Position(row[1], k) /\ row[2].name = code[k]
    BY <2>3 DEF Row
  <2> QED BY <2>1, <2>2, <2>4, FoundOnce
<1> QED BY <1>1 DEF TablesMatchScripts, GscInv

LEMMA GscInitially == GscInit => GscInv
<1> SUFFICES ASSUME GscInit PROVE GscInv
  OBVIOUS
<1>1. /\ live = {} /\ loaded_scripts = {} /\ main_handles = {} /\ init_handles = {}
      /\ script_function_table_sort = [f \in File |-> <<>>] /\ script_function_table = {}
      /\ vm_execute_hooks = [p \in Hookable |-> NoHook]
  BY DEF GscInit, NoTable, NoHooks
<1>2. script_function_table_sort \in [File -> Seq(TableRow)]
  BY <1>1
<1> QED BY <1>1, <1>2 DEF GscInv

\* A script is loaded: its tables are made, those of others stay.
LEMMA ProcessStep ==
  ASSUME GscInv, NEW f \in File, NEW replaced \in BOOLEAN, NEW code \in Compiled,
         ProcessScript(f, replaced, code)
  PROVE  /\ live' = live \cup {f}
         /\ loaded_scripts' \subseteq live'
         /\ script_function_table \subseteq script_function_table'
         /\ \A row \in script_function_table' : row[1] \in live'
         /\ script_function_table_sort' \in [File -> Seq(TableRow)]
         /\ \A g \in File \ live' : script_function_table_sort'[g] = <<>>
         /\ \A g \in live' : \E c \in Compiled : Tabled(g, c)'
<1> DEFINE new == {<<f, Row(f, code[k], k)>> : k \in 1..Len(code)}
           sort == script_function_table_sort
<1>1. /\ f \notin live /\ live' = live \cup {f}
      /\ loaded_scripts' \subseteq loaded_scripts \cup {f}
      /\ sort' = [sort EXCEPT ![f] = IF code = <<>> THEN sort[f] ELSE Sorted(f, code)]
      /\ script_function_table' = script_function_table \cup new
  BY DEF ProcessScript, Emit
<1>2. loaded_scripts' \subseteq live' /\ live \subseteq File
  BY <1>1 DEF GscInv
<1>3. \A row \in new : row[1] = f /\ \E k \in 1..Len(code) : row[2] = Row(f, code[k], k)
  OBVIOUS
<1> HIDE DEF new
<1>4. sort \in [File -> Seq(TableRow)] /\ sort[f] = <<>> /\ Sorted(f, code) \in Seq(TableRow)
  BY <1>1, SortedRows DEF GscInv
<1>5. /\ sort' \in [File -> Seq(TableRow)]
      /\ sort'[f] = IF code = <<>> THEN <<>> ELSE Sorted(f, code)
      /\ \A g \in File \ {f} : sort'[g] = sort[g]
  BY <1>1, <1>4
<1>6. \A row \in script_function_table' : row[1] \in live'
  BY <1>1, <1>3 DEF GscInv
<1>7. Tabled(f, code)'
  <2>1. ASSUME NEW row \in script_function_table', row[1] = f
        PROVE  \E k \in 1..Len(code) : row[2] = Row(f, code[k], k)
    <3>1. row \notin script_function_table
      BY <1>1, <2>1 DEF GscInv
    <3> QED BY <1>1, <1>3, <3>1
  <2> QED BY <1>5, <2>1 DEF Tabled
<1>8. ASSUME NEW g \in live PROVE \E c \in Compiled : Tabled(g, c)'
  <2>1. PICK c \in Compiled : Tabled(g, c)
    BY DEF GscInv
  <2>2. g # f /\ sort'[g] = sort[g]
    BY <1>1, <1>2, <1>5
  <2>3. \A row \in script_function_table' : row[1] = g => row \in script_function_table
    BY <1>1, <1>3, <2>2
  <2>4. Tabled(g, c)'
    BY <2>1, <2>2, <2>3 DEF Tabled
  <2> QED BY <2>4
<1>9. \A g \in File \ live' : sort'[g] = <<>>
  BY <1>1, <1>5 DEF GscInv
<1>10. script_function_table \subseteq script_function_table'
  BY <1>1
<1> QED BY <1>1, <1>2, <1>5, <1>6, <1>7, <1>8, <1>9, <1>10

LEMMA GscStep ==
  ASSUME GscInv, [GscNext]_gscVars
  PROVE  GscInv'
<1>1. ASSUME UNCHANGED <<live, handles, tables, vm_execute_hooks>> PROVE GscInv'
  <2>1. /\ live' = live /\ main_handles' = main_handles /\ init_handles' = init_handles
        /\ loaded_scripts' = loaded_scripts /\ script_function_table_sort' = script_function_table_sort
        /\ script_function_table' = script_function_table /\ vm_execute_hooks' = vm_execute_hooks
    BY <1>1 DEF handles, tables
  <2>2. \A f, c : Tabled(f, c)' <=> Tabled(f, c)
    BY <2>1 DEF Tabled
  <2>3. Names' = Names /\ \A p : Target(p)' = Target(p)
    BY <2>1 DEF Names, Target
  <2> QED BY <2>1, <2>2, <2>3 DEF GscInv
<1>2. ASSUME NEW f \in File, NEW replaced \in BOOLEAN, NEW code \in Compiled,
             GameLoads(f, replaced, code) \/ load_script(f, replaced, code)
      PROVE  GscInv'
  <2>1. CASE f \in live /\ load_script(f, replaced, code)
    <3>1. UNCHANGED <<live, loaded_scripts, tables, vm_execute_hooks>>
      BY <2>1 DEF load_script, ProcessScript
    <3>2. main_handles' \subseteq main_handles \cup {f} /\ init_handles' \subseteq init_handles \cup {f}
      BY <2>1 DEF load_script
    <3>3. main_handles' \cup init_handles' \cup loaded_scripts' \subseteq live'
      BY <2>1, <3>1, <3>2 DEF GscInv
    <3>4. /\ live' = live /\ script_function_table_sort' = script_function_table_sort
          /\ script_function_table' = script_function_table /\ vm_execute_hooks' = vm_execute_hooks
      BY <3>1 DEF tables
    <3>5. \A g, c : Tabled(g, c)' <=> Tabled(g, c)
      BY <3>4 DEF Tabled
    <3>6. Names' = Names /\ \A p : Target(p)' = Target(p)
      BY <3>4 DEF Names, Target
    <3> QED BY <3>3, <3>4, <3>5, <3>6 DEF GscInv
  <2>2. CASE ProcessScript(f, replaced, code)
    <3>1. /\ live' = live \cup {f} /\ loaded_scripts' \subseteq live'
          /\ script_function_table \subseteq script_function_table'
          /\ \A row \in script_function_table' : row[1] \in live'
          /\ script_function_table_sort' \in [File -> Seq(TableRow)]
          /\ \A g \in File \ live' : script_function_table_sort'[g] = <<>>
          /\ \A g \in live' : \E c \in Compiled : Tabled(g, c)'
      BY <2>2, ProcessStep
    <3>2. main_handles' \subseteq main_handles \cup {f} /\ init_handles' \subseteq init_handles \cup {f}
          /\ vm_execute_hooks' = vm_execute_hooks
      BY <1>2 DEF GameLoads, load_script
    <3>3. main_handles' \cup init_handles' \cup loaded_scripts' \subseteq live' /\ live' \subseteq File
      BY <3>1, <3>2 DEF GscInv
    <3>4. Names \subseteq Names' /\ \A p : Target(p)' = Target(p)
      BY <3>1, <3>2 DEF Names, Target
    <3>5. \A p \in Hookable : vm_execute_hooks'[p] # NoHook => {p, Target(p)'} \subseteq Names' \cup {LuaFunction}
      BY <3>2, <3>4 DEF GscInv
    <3>6. vm_execute_hooks' \in [Hookable -> Hookable \cup {NoHook, LuaFunction}]
      BY <3>2 DEF GscInv
    <3> QED BY <3>1, <3>3, <3>5, <3>6 DEF GscInv
  <2> QED BY <1>2, <2>1, <2>2 DEF GameLoads, load_script
<1>3. CASE gscr_load_game_type_script_stub
  <2>1. /\ loaded_scripts' = {} /\ main_handles' = {} /\ init_handles' = {}
        /\ live' = live /\ script_function_table_sort' = script_function_table_sort
        /\ script_function_table' = script_function_table /\ vm_execute_hooks' = vm_execute_hooks
    BY <1>3 DEF gscr_load_game_type_script_stub, Forget, tables
  <2>2. \A f, c : Tabled(f, c)' <=> Tabled(f, c)
    BY <2>1 DEF Tabled
  <2>3. Names' = Names /\ \A p : Target(p)' = Target(p)
    BY <2>1 DEF Names, Target
  <2> QED BY <2>1, <2>2, <2>3 DEF GscInv
<1>4. ASSUME NEW free_scripts \in BOOLEAN, ShutdownGame(free_scripts) PROVE GscInv'
  <2>1. vm_execute_hooks' = [p \in Hookable |-> NoHook]
    BY <1>4 DEF ShutdownGame, NoHooks
  <2>2. /\ vm_execute_hooks' \in [Hookable -> Hookable \cup {NoHook, LuaFunction}]
        /\ \A p \in Hookable : vm_execute_hooks'[p] = NoHook
    BY <2>1
  <2>3. CASE free_scripts
    <3>1. /\ live' = {} /\ loaded_scripts' = {} /\ main_handles' = {} /\ init_handles' = {}
          /\ script_function_table_sort' = [f \in File |-> <<>>] /\ script_function_table' = {}
      BY <1>4, <2>3 DEF ShutdownGame, NoTable, Forget
    <3>2. script_function_table_sort' \in [File -> Seq(TableRow)]
      BY <3>1
    <3> QED BY <2>2, <3>1, <3>2 DEF GscInv
  <2>4. CASE ~free_scripts
    <3>1. /\ live' = live /\ main_handles' = main_handles /\ init_handles' = init_handles
          /\ loaded_scripts' = loaded_scripts /\ script_function_table_sort' = script_function_table_sort
          /\ script_function_table' = script_function_table
      BY <1>4, <2>4 DEF ShutdownGame, handles, tables
    <3>2. \A f, c : Tabled(f, c)' <=> Tabled(f, c)
      BY <3>1 DEF Tabled
    <3> QED BY <2>2, <3>1, <3>2 DEF GscInv
  <2> QED BY <2>3, <2>4
<1>5. ASSUME NEW what \in Hookable, NEW with \in Hookable \cup {LuaFunction, NoHook},
             vm_execute_hooks' = [vm_execute_hooks EXCEPT ![what] = with],
             with = NoHook \/ {what, with} \subseteq Names \cup {LuaFunction},
             UNCHANGED <<live, handles, tables>>
      PROVE  GscInv'
  <2>1. /\ live' = live /\ main_handles' = main_handles /\ init_handles' = init_handles
        /\ loaded_scripts' = loaded_scripts /\ script_function_table_sort' = script_function_table_sort
        /\ script_function_table' = script_function_table
    BY <1>5 DEF handles, tables
  <2>2. \A f, c : Tabled(f, c)' <=> Tabled(f, c)
    BY <2>1 DEF Tabled
  <2>3. Names' = Names
    BY <2>1 DEF Names
  <2>4. vm_execute_hooks \in [Hookable -> Hookable \cup {NoHook, LuaFunction}]
    BY DEF GscInv
  <2>5. /\ vm_execute_hooks' \in [Hookable -> Hookable \cup {NoHook, LuaFunction}]
        /\ \A p \in Hookable : vm_execute_hooks'[p] = IF p = what THEN with ELSE vm_execute_hooks[p]
    BY <1>5, <2>4
  <2>6. ASSUME NEW p \in Hookable, vm_execute_hooks'[p] # NoHook
        PROVE  {p, Target(p)'} \subseteq Names' \cup {LuaFunction}
    <3>1. CASE p = what
      BY <1>5, <2>3, <2>5, <2>6, <3>1 DEF Target
    <3>2. CASE p # what
      <4>1. Target(p)' = Target(p) /\ vm_execute_hooks[p] # NoHook
        BY <2>5, <2>6, <3>2 DEF Target
      <4> QED BY <4>1, <2>3 DEF GscInv
    <3> QED BY <3>1, <3>2
  <2> QED BY <2>1, <2>2, <2>5, <2>6 DEF GscInv
<1>6. ASSUME NEW what \in Hookable, NEW with \in Hookable \cup {LuaFunction}, set_hook(what, with) PROVE GscInv'
  BY <1>5, <1>6 DEF set_hook
<1>7. ASSUME NEW what \in Hookable, clear_hook(what) PROVE GscInv'
  BY <1>5, <1>7 DEF clear_hook
<1>8. CASE scr_begin_load_scripts_stub \/ scr_end_load_scripts_stub \/ g_load_structs_stub \/ scr_load_level_stub
  BY <1>1, <1>8 DEF scr_begin_load_scripts_stub, scr_end_load_scripts_stub, g_load_structs_stub, scr_load_level_stub
<1>9. ASSUME NEW given, NEW wanted, CustomError(given, wanted) PROVE GscInv'
  BY <1>1, <1>9 DEF CustomError
<1>10. ASSUME NEW developer_script, CustomErrorFromLua \/ OtherError(developer_script) PROVE GscInv'
  BY <1>1, <1>10 DEF CustomErrorFromLua, OtherError
<1>11. CASE UNCHANGED gscVars
  BY <1>1, <1>11 DEF gscVars
<1> QED BY <1>2, <1>3, <1>4, <1>6, <1>7, <1>8, <1>9, <1>10, <1>11 DEF GscNext

-----------------------------------------------------------------------------
(* UiScripting: which script was loaded for which folder.                  *)

AnyScript == UiScript \cup {NoScript}
Globals ==
  [in_require_script : AnyScript,
   loaded_scripts : UNION {[D -> UiScript] : D \in SUBSET UiScript},
   load_raw_script : BOOLEAN,
   raw_script_name : AnyScript]

RootInv ==
  /\ uiGlobals \in Globals
  /\ RootsLoaded
  /\ requiring # Nothing /\ is_loaded_script(uiGlobals.in_require_script) =>
       /\ requiring \in DOMAIN uiGlobals.loaded_scripts
       /\ uiGlobals.loaded_scripts[requiring] = uiGlobals.in_require_script
  /\ uiGlobals.load_raw_script => uiGlobals.raw_script_name \in UiScript

LEMMA GlobalsType ==
  ASSUME NEW g \in Globals
  PROVE  /\ DOMAIN g.loaded_scripts \subseteq UiScript
         /\ g.loaded_scripts \in [DOMAIN g.loaded_scripts -> UiScript]
         /\ NoScript \notin DOMAIN g.loaded_scripts
         /\ g.in_require_script \in AnyScript /\ g.raw_script_name \in AnyScript
         /\ g.load_raw_script \in BOOLEAN
<1>1. PICK D \in SUBSET UiScript : g.loaded_scripts \in [D -> UiScript]
  BY DEF Globals
<1>2. NoScript \notin UiScript
  BY UiScriptingAssumption DEF NoScript
<1> QED BY <1>1, <1>2 DEF Globals

\* A script more, of a folder that has a script.
LEMMA LoadedType ==
  ASSUME NEW g \in Globals, NEW name \in UiScript, NEW root \in UiScript
  PROVE  /\ Loaded(g.loaded_scripts, name, root) \in UNION {[D -> UiScript] : D \in SUBSET UiScript}
         /\ DOMAIN Loaded(g.loaded_scripts, name, root) = DOMAIN g.loaded_scripts \cup {name}
         /\ Loaded(g.loaded_scripts, name, root)[name] = root
         /\ \A f \in DOMAIN g.loaded_scripts \ {name} :
              Loaded(g.loaded_scripts, name, root)[f] = g.loaded_scripts[f]
<1> DEFINE D == DOMAIN g.loaded_scripts \cup {name}
           new == Loaded(g.loaded_scripts, name, root)
<1>1. new = [f \in D |-> IF f = name THEN root ELSE g.loaded_scripts[f]]
  BY DEF Loaded
<1>2. D \in SUBSET UiScript /\ \A f \in DOMAIN g.loaded_scripts : g.loaded_scripts[f] \in UiScript
  BY GlobalsType
<1>3. new \in [D -> UiScript]
  BY <1>1, <1>2
<1> QED BY <1>1, <1>2, <1>3

LEMMA NoGlobalsInv ==
  ASSUME uiGlobals' = NoGlobals
  PROVE  /\ uiGlobals' \in Globals
         /\ RootsLoaded'
         /\ ~uiGlobals'.load_raw_script
         /\ \A f : f \notin DOMAIN uiGlobals'.loaded_scripts
<1>1. /\ uiGlobals' = [in_require_script |-> NoScript, loaded_scripts |-> <<>>,
                       load_raw_script |-> FALSE, raw_script_name |-> NoScript]
  BY DEF NoGlobals
<1>2. DOMAIN <<>> = {} /\ <<>> \in [{} -> UiScript]
  OBVIOUS
<1>3. <<>> \in UNION {[D -> UiScript] : D \in SUBSET UiScript}
  BY <1>2
<1> QED BY <1>1, <1>2, <1>3 DEF Globals, AnyScript, RootsLoaded

LEMMA RootInitially == UiInit => RootInv
<1> SUFFICES ASSUME UiInit PROVE RootInv
  OBVIOUS
<1>1. /\ uiGlobals = [in_require_script |-> NoScript, loaded_scripts |-> <<>>,
                      load_raw_script |-> FALSE, raw_script_name |-> NoScript]
      /\ requiring = Nothing
  BY DEF UiInit, NoGlobals
<1>2. DOMAIN <<>> = {} /\ <<>> \in [{} -> UiScript]
  OBVIOUS
<1>3. <<>> \in UNION {[D -> UiScript] : D \in SUBSET UiScript}
  BY <1>2
<1> QED BY <1>1, <1>2, <1>3 DEF Globals, AnyScript, RootsLoaded, RootInv

LEMMA RootStep ==
  ASSUME RootInv, [UiNext]_uiVars
  PROVE  RootInv'
<1> DEFINE scripts == uiGlobals.loaded_scripts
           root == uiGlobals.in_require_script
<1>0. /\ uiGlobals \in Globals /\ DOMAIN scripts \subseteq UiScript /\ NoScript \notin DOMAIN scripts
      /\ root \in AnyScript /\ \A f \in DOMAIN scripts : scripts[f] \in DOMAIN scripts
      /\ uiGlobals.load_raw_script \in BOOLEAN /\ scripts \in UNION {[D -> UiScript] : D \in SUBSET UiScript}
      /\ uiGlobals.raw_script_name \in AnyScript
  BY GlobalsType DEF RootInv, RootsLoaded, Globals
<1>1. CASE UNCHANGED <<uiGlobals, requiring>>
  BY <1>1 DEF RootInv, RootsLoaded, is_loaded_script
<1>2. CASE start \/ hks_shutdown_stub
  <2>1. uiGlobals' = NoGlobals /\ requiring' = Nothing
    BY <1>2 DEF start, hks_shutdown_stub
  <2> QED BY <2>1, NoGlobalsInv DEF RootInv
<1>3. ASSUME NEW name \in UiScript, load_scripts(name) PROVE RootInv'
  <2>1. /\ uiGlobals' = [uiGlobals EXCEPT !.loaded_scripts = Loaded(scripts, name, name)]
        /\ requiring' = Nothing /\ ~uiGlobals.load_raw_script
    BY <1>3 DEF load_scripts
  <2>2. /\ uiGlobals' \in Globals /\ uiGlobals'.loaded_scripts = Loaded(scripts, name, name)
        /\ ~uiGlobals'.load_raw_script
    BY <1>0, <2>1, LoadedType DEF Globals
  <2>3. \A f \in DOMAIN uiGlobals'.loaded_scripts :
          uiGlobals'.loaded_scripts[f] \in DOMAIN uiGlobals'.loaded_scripts
    <3>1. /\ DOMAIN uiGlobals'.loaded_scripts = DOMAIN scripts \cup {name}
          /\ uiGlobals'.loaded_scripts[name] = name
          /\ \A f \in DOMAIN scripts \ {name} : uiGlobals'.loaded_scripts[f] = scripts[f]
      <4>1. /\ DOMAIN Loaded(scripts, name, name) = DOMAIN scripts \cup {name}
            /\ Loaded(scripts, name, name)[name] = name
            /\ \A f \in DOMAIN scripts \ {name} : Loaded(scripts, name, name)[f] = scripts[f]
        BY DEF Loaded
      <4> QED BY <2>2, <4>1
    <3> QED BY <1>0, <3>1
  <2> QED BY <2>1, <2>2, <2>3 DEF RootInv, RootsLoaded
<1>4. ASSUME NEW script \in AnyScript, hks_package_require_stub(script) PROVE RootInv'
  <2>1. /\ uiGlobals' = [uiGlobals EXCEPT !.in_require_script = get_root_script(script)]
        /\ requiring' = script /\ ~uiGlobals.load_raw_script
    BY <1>4 DEF hks_package_require_stub
  <2>2. get_root_script(script) \in AnyScript
    BY <1>0 DEF get_root_script, AnyScript
  <2>3. /\ uiGlobals' \in Globals /\ uiGlobals'.loaded_scripts = scripts
        /\ uiGlobals'.in_require_script = get_root_script(script) /\ ~uiGlobals'.load_raw_script
    BY <1>0, <2>1, <2>2 DEF Globals
  <2>4. get_root_script(script) \in DOMAIN scripts => script \in DOMAIN scripts /\ scripts[script] = get_root_script(script)
    BY <1>0 DEF get_root_script
  <2> QED BY <1>0, <2>1, <2>3, <2>4 DEF RootInv, RootsLoaded, is_loaded_script
<1>5. ASSUME NEW target \in UiScript, db_find_x_asset_header_stub(target) PROVE RootInv'
  <2>1. /\ uiGlobals' = [uiGlobals EXCEPT !.load_raw_script = TRUE, !.raw_script_name = target]
        /\ requiring' = requiring /\ requiring # Nothing /\ is_loaded_script(root)
    BY <1>5 DEF db_find_x_asset_header_stub
  <2>2. /\ uiGlobals' \in Globals /\ uiGlobals'.loaded_scripts = scripts
        /\ uiGlobals'.in_require_script = root /\ uiGlobals'.raw_script_name = target
    BY <1>0, <2>1 DEF Globals, AnyScript
  <2>3. requiring \in DOMAIN scripts /\ scripts[requiring] = root
    BY <2>1 DEF RootInv
  <2> QED BY <1>0, <2>1, <2>2, <2>3 DEF RootInv, RootsLoaded, is_loaded_script
<1>6. CASE hks_load_stub
  <2>1. /\ uiGlobals' = [uiGlobals EXCEPT !.load_raw_script = FALSE,
                           !.loaded_scripts = Loaded(scripts, uiGlobals.raw_script_name, root)]
        /\ requiring' = Nothing /\ uiGlobals.load_raw_script
    BY <1>6 DEF hks_load_stub
  <2>2. root \in DOMAIN scripts /\ root \in UiScript /\ uiGlobals.raw_script_name \in UiScript
    BY <1>0, <2>1 DEF RootInv, RootsLoaded
  <2>3. /\ uiGlobals' \in Globals
        /\ uiGlobals'.loaded_scripts = Loaded(scripts, uiGlobals.raw_script_name, root)
        /\ ~uiGlobals'.load_raw_script
    BY <1>0, <2>1, <2>2, LoadedType DEF Globals
  <2>4. \A f \in DOMAIN uiGlobals'.loaded_scripts :
          uiGlobals'.loaded_scripts[f] \in DOMAIN uiGlobals'.loaded_scripts
    <3> DEFINE name == uiGlobals.raw_script_name
    <3>1. /\ DOMAIN uiGlobals'.loaded_scripts = DOMAIN scripts \cup {name}
          /\ uiGlobals'.loaded_scripts[name] = root
          /\ \A f \in DOMAIN scripts \ {name} : uiGlobals'.loaded_scripts[f] = scripts[f]
      <4>1. /\ DOMAIN Loaded(scripts, name, root) = DOMAIN scripts \cup {name}
            /\ Loaded(scripts, name, root)[name] = root
            /\ \A f \in DOMAIN scripts \ {name} : Loaded(scripts, name, root)[f] = scripts[f]
        BY DEF Loaded
      <4> QED BY <2>3, <4>1
    <3> HIDE DEF name
    <3> QED BY <1>0, <2>2, <3>1
  <2> QED BY <2>1, <2>3, <2>4 DEF RootInv, RootsLoaded
<1>7. ASSUME NEW s \in Slot, NEW from \in Slot, NEW class, NEW value,
             \/ Construct(s, class, value) \/ ConstructValue(s, value)
             \/ CopyAssign(s, from) \/ MoveAssign(s, from) \/ MoveAssignObject(s, from)
             \/ Destroy(s) \/ convert_function(s)
      PROVE  UNCHANGED <<uiGlobals, requiring>>
  BY <1>7 DEF Construct, ConstructValue, CopyAssign, MoveAssign, MoveAssignObject, Destroy, convert_function, Put
<1>8. CASE hks_start_stub \/ Started \/ UNCHANGED uiVars
  BY <1>1, <1>8 DEF hks_start_stub, Started, uiVars
<1> QED BY <1>1, <1>2, <1>3, <1>4, <1>5, <1>6, <1>7, <1>8 DEF UiNext, AnyScript

-----------------------------------------------------------------------------
(* UiScripting: references in the registry.                                *)

HksAny == HksValue \cup {Nothing}
HksVariable == [class : {"none", "handle", "object"}, value : HksAny, ref : Ref \cup {0}, owns : BOOLEAN]
Registries == [Ref -> HksAny]
Variables == [Slot -> HksVariable]

\* Every handle with a reference owns it and finds its value there; references
\* that are taken have one owner each.
Rooted(reg, obs) ==
  /\ \A s \in Slot : obs[s].class = "none" => obs[s].ref = 0
  /\ \A s \in Slot : obs[s].class = "handle" /\ obs[s].ref # 0 =>
       obs[s].owns /\ reg[obs[s].ref] = obs[s].value
  /\ \A s \in Slot : obs[s].owns /\ obs[s].ref # 0 => reg[obs[s].ref] # Nothing
  /\ \A r \in Ref : reg[r] # Nothing => \E s \in Slot : obs[s].owns /\ obs[s].ref = r
  /\ \A s, t \in Slot : obs[s].owns /\ obs[t].owns /\ obs[s].ref # 0 /\ obs[s].ref = obs[t].ref => s = t

LEMMA SlotSize == IsFiniteSet(Slot) /\ Cardinality(Slot) \in Nat /\ 0 \notin Ref /\ Ref \subseteq Nat
<1>1. IsFiniteSet(Slot)
  BY UiScriptingAssumption
<1>2. Cardinality(Slot) \in Nat
  BY <1>1, FS_CardinalityType
<1> QED BY <1>1, <1>2 DEF Ref

\* There are more references than variables.
LEMMA FreeReference ==
  ASSUME NEW reg \in Registries, NEW obs \in Variables, Rooted(reg, obs)
  PROVE  \E r \in Ref : reg[r] = Nothing
<1> SUFFICES ASSUME \A r \in Ref : reg[r] # Nothing PROVE FALSE
  OBVIOUS
<1> DEFINE f == [r \in Ref |-> CHOOSE s \in Slot : obs[s].owns /\ obs[s].ref = r]
<1>1. \A r \in Ref : f[r] \in Slot /\ obs[f[r]].ref = r
  BY DEF Rooted
<1>2. f \in [Ref -> Slot]
  BY <1>1
<1>3. IsFiniteSet(Ref) /\ Cardinality(Ref) = Cardinality(Slot) + 1
  BY SlotSize, FS_Interval DEF Ref
<1>4. Cardinality(Slot) < Cardinality(Ref)
  BY <1>3, SlotSize
<1> HIDE DEF f
<1>5. \E x, y \in Ref : x # y /\ f[x] = f[y]
  BY <1>2, <1>3, <1>4, SlotSize, FS_PigeonHole
<1> QED BY <1>1, <1>5

\* luaL_ref takes a free one.
LEMMA TakeFree ==
  ASSUME NEW reg \in Registries, NEW obs \in Variables, Rooted(reg, obs)
  PROVE  LET r == Min({x \in Ref : reg[x] = Nothing}) IN r \in Ref /\ reg[r] = Nothing
<1> DEFINE T == {x \in Ref : reg[x] = Nothing}
<1>1. T # {} /\ T \subseteq Nat
  BY FreeReference, SlotSize
<1> HIDE DEF T
<1>2. \E m \in T : \A k \in T : m <= k
  BY <1>1, LeastNatural
<1>3. Min(T) \in T
  BY <1>2 DEF Min
<1> QED BY <1>3 DEF T

\* What a variable owned is given back, and it has no reference to give any more.
LEMMA GiveKeeps ==
  ASSUME NEW reg \in Registries, NEW obs \in Variables, Rooted(reg, obs), NEW s \in Slot, ~Wrong(obs[s]),
         NEW o1 \in HksVariable, ~o1.owns, o1.class # "object" => o1.ref = 0
  PROVE  /\ GiveRef(reg, obs[s]) \in Registries
         /\ [obs EXCEPT ![s] = o1] \in Variables
         /\ Rooted(GiveRef(reg, obs[s]), [obs EXCEPT ![s] = o1])
         /\ \A r \in Ref : reg[r] = Nothing => GiveRef(reg, obs[s])[r] = Nothing
<1> DEFINE obs1 == [obs EXCEPT ![s] = o1]
           reg1 == GiveRef(reg, obs[s])
<1>1. obs[s] \in HksVariable /\ obs[s].ref \in Ref \cup {0} /\ (obs[s].ref = 0 \/ obs[s].owns)
  BY DEF Variables, HksVariable, Wrong
<1>2. reg1 \in Registries /\ \A r \in Ref : reg1[r] = IF r = obs[s].ref THEN Nothing ELSE reg[r]
  BY <1>1, SlotSize DEF GiveRef, Registries, HksAny
<1>3. obs1 \in Variables /\ \A t \in Slot : obs1[t] = IF t = s THEN o1 ELSE obs[t]
  BY DEF Variables
<1> HIDE DEF obs1, reg1
<1>4. \A t \in Slot : t # s /\ obs[t].owns /\ obs[t].ref # 0 => obs[t].ref # obs[s].ref
  BY <1>1 DEF Rooted
<1>5. \A t \in Slot : obs[t].ref \in Ref \cup {0}
  BY DEF Variables, HksVariable
<1>6. \A t \in Slot : obs1[t].class = "handle" /\ obs1[t].ref # 0 =>
        obs1[t].owns /\ reg1[obs1[t].ref] = obs1[t].value
  BY <1>2, <1>3, <1>4, <1>5 DEF Rooted
<1>7. \A t \in Slot : obs1[t].owns /\ obs1[t].ref # 0 => reg1[obs1[t].ref] # Nothing
  BY <1>2, <1>3, <1>4, <1>5 DEF Rooted
<1>8. \A r \in Ref : reg1[r] # Nothing => \E t \in Slot : obs1[t].owns /\ obs1[t].ref = r
  BY <1>2, <1>3 DEF Rooted
<1>9. \A t, u \in Slot : obs1[t].owns /\ obs1[u].owns /\ obs1[t].ref # 0 /\ obs1[t].ref = obs1[u].ref => t = u
  BY <1>3 DEF Rooted
<1>10. \A t \in Slot : obs1[t].class = "none" => obs1[t].ref = 0
  BY <1>3 DEF Rooted
<1>11. Rooted(reg1, obs1)
  BY <1>10, <1>6, <1>7, <1>8, <1>9 DEF Rooted
<1> QED BY <1>2, <1>3, <1>11 DEF obs1, reg1

\* A variable without a reference takes one, unless it is nothing.
LEMMA TakeKeeps ==
  ASSUME NEW reg \in Registries, NEW obs \in Variables, Rooted(reg, obs), NEW s \in Slot,
         obs[s].ref = 0, ~obs[s].owns, obs[s].class # "none"
  PROVE  LET new == TakeRef(reg, obs[s])
         IN /\ new.registry \in Registries
            /\ [obs EXCEPT ![s] = new.object] \in Variables
            /\ Rooted(new.registry, [obs EXCEPT ![s] = new.object])
<1> DEFINE new == TakeRef(reg, obs[s])
           r == Min({x \in Ref : reg[x] = Nothing})
<1>1. r \in Ref /\ reg[r] = Nothing /\ r # 0
  BY TakeFree, SlotSize
<1> HIDE DEF r
<1>2. CASE obs[s].value = Nothing
  <2>1. new.registry = reg /\ new.object = obs[s]
    BY <1>2 DEF TakeRef
  <2>2. [obs EXCEPT ![s] = obs[s]] = obs
    BY DEF Variables
  <2> QED BY <2>1, <2>2
<1>3. CASE obs[s].value # Nothing
  <2> DEFINE obj == [obs[s] EXCEPT !.ref = r, !.owns = TRUE]
             reg1 == [reg EXCEPT ![r] = obs[s].value]
             obs1 == [obs EXCEPT ![s] = obj]
  <2>1. new.registry = reg1 /\ new.object = obj
    BY <1>3 DEF TakeRef, r
  <2>2. obj \in HksVariable /\ obj.ref = r /\ obj.owns = TRUE /\ obj.value = obs[s].value /\ obj.class = obs[s].class
        /\ obs[s].value \in HksAny
    BY <1>1 DEF Variables, HksVariable
  <2> HIDE DEF obj
  <2>3. reg1 \in Registries /\ \A x \in Ref : reg1[x] = IF x = r THEN obs[s].value ELSE reg[x]
    BY <1>1, <2>2 DEF Registries
  <2>4. obs1 \in Variables /\ \A t \in Slot : obs1[t] = IF t = s THEN obj ELSE obs[t]
    BY <2>2 DEF Variables
  <2> HIDE DEF obs1, reg1
  <2>5. \A t \in Slot : obs[t].owns /\ obs[t].ref # 0 => obs[t].ref # r /\ obs[t].ref \in Ref
    BY <1>1 DEF Rooted, Variables, HksVariable
  <2>6. \A t \in Slot : obs1[t].class = "handle" /\ obs1[t].ref # 0 =>
          obs1[t].owns /\ reg1[obs1[t].ref] = obs1[t].value
    BY <1>1, <2>2, <2>3, <2>4, <2>5 DEF Rooted
  <2>7. \A t \in Slot : obs1[t].owns /\ obs1[t].ref # 0 => reg1[obs1[t].ref] # Nothing
    BY <1>1, <1>3, <2>2, <2>3, <2>4, <2>5 DEF Rooted
  <2>8. \A x \in Ref : reg1[x] # Nothing => \E t \in Slot : obs1[t].owns /\ obs1[t].ref = x
    BY <2>2, <2>3, <2>4 DEF Rooted
  <2>9. \A t, u \in Slot : obs1[t].owns /\ obs1[u].owns /\ obs1[t].ref # 0 /\ obs1[t].ref = obs1[u].ref => t = u
    BY <1>1, <2>2, <2>4, <2>5 DEF Rooted
  <2>10. \A t \in Slot : obs1[t].class = "none" => obs1[t].ref = 0
    BY <2>2, <2>4 DEF Rooted
  <2>11. Rooted(reg1, obs1)
    BY <2>10, <2>6, <2>7, <2>8, <2>9 DEF Rooted
  <2> QED BY <2>1, <2>3, <2>4, <2>11 DEF obs1
<1> QED BY <1>2, <1>3

\* A reference is passed on from one handle to another that has none.
LEMMA MoveKeeps ==
  ASSUME NEW reg \in Registries, NEW obs \in Variables, Rooted(reg, obs), NEW s \in Slot, NEW from \in Slot,
         s # from, obs[s].ref = 0
  PROVE  LET moved == [obs EXCEPT ![s] = obs[from], ![from].ref = 0, ![from].owns = FALSE]
         IN moved \in Variables /\ Rooted(reg, moved)
<1> DEFINE moved == [obs EXCEPT ![s] = obs[from], ![from].ref = 0, ![from].owns = FALSE]
           left == [obs[from] EXCEPT !.ref = 0, !.owns = FALSE]
<1>1. left \in HksVariable /\ left.ref = 0 /\ left.owns = FALSE
  BY DEF Variables, HksVariable
<1>2. moved = [t \in Slot |-> IF t = s THEN obs[from] ELSE IF t = from THEN left ELSE obs[t]]
  BY DEF Variables
<1> HIDE DEF left, moved
<1>3. moved \in Variables /\ moved[s] = obs[from] /\ moved[from] = left
      /\ \A t \in Slot \ {s, from} : moved[t] = obs[t]
  BY <1>1, <1>2 DEF Variables
<1>4. \A t \in Slot : moved[t].class = "handle" /\ moved[t].ref # 0 =>
        moved[t].owns /\ reg[moved[t].ref] = moved[t].value
  BY <1>1, <1>3 DEF Rooted
<1>5. \A t \in Slot : moved[t].owns /\ moved[t].ref # 0 => reg[moved[t].ref] # Nothing
  BY <1>1, <1>3 DEF Rooted
<1>6. ASSUME NEW r \in Ref, reg[r] # Nothing PROVE \E t \in Slot : moved[t].owns /\ moved[t].ref = r
  <2>1. PICK t \in Slot : obs[t].owns /\ obs[t].ref = r
    BY <1>6 DEF Rooted
  <2>2. t # s
    BY <2>1, SlotSize
  <2> QED BY <2>1, <2>2, <1>3
<1>7. \A t, u \in Slot : moved[t].owns /\ moved[u].owns /\ moved[t].ref # 0 /\ moved[t].ref = moved[u].ref => t = u
  BY <1>1, <1>3 DEF Rooted
<1>8. \A t \in Slot : moved[t].class = "none" => moved[t].ref = 0
  BY <1>1, <1>3 DEF Rooted
<1> QED BY <1>3, <1>4, <1>5, <1>6, <1>7, <1>8 DEF Rooted, moved

HandleInv ==
  /\ unowned \in BOOLEAN
  /\ ~unowned => /\ registry \in Registries /\ objects \in Variables
                 /\ Rooted(registry, objects)
                 /\ hks = "none" => \A r \in Ref : registry[r] = Nothing

LEMMA HandleInitially == UiInit => HandleInv
<1> SUFFICES ASSUME UiInit PROVE HandleInv
  OBVIOUS
<1>1. registry = [r \in Ref |-> Nothing] /\ objects = [s \in Slot |-> Unused] /\ unowned = FALSE
  BY DEF UiInit
<1>2. Unused \in HksVariable /\ Unused.class = "none" /\ Unused.ref = 0 /\ Unused.owns = FALSE
  BY DEF Unused, HksVariable, HksAny
<1> HIDE DEF Unused
<1>3. registry \in Registries /\ objects \in Variables
  BY <1>1, <1>2 DEF Registries, Variables, HksAny
<1>4. Rooted(registry, objects)
  BY <1>1, <1>2 DEF Rooted
<1> QED BY <1>1, <1>3, <1>4 DEF HandleInv

\* A variable is constructed, assigned or destroyed.
LEMMA PutStep ==
  ASSUME HandleInv, ~unowned, NEW s \in Slot, NEW obj \in HksVariable, obj.ref = 0, ~obj.owns,
         NEW taken \in BOOLEAN, taken => hks # "none" /\ obj.class # "none", obj.class # "object" => obj.ref = 0, hks' = hks,
         LET reg == GiveRef(registry, objects[s])
             new == TakeRef(reg, obj)
         IN /\ registry' = IF taken THEN new.registry ELSE reg
            /\ objects' = [objects EXCEPT ![s] = IF taken THEN new.object ELSE obj],
         unowned' = (unowned \/ Wrong(objects[s]))
  PROVE  HandleInv'
<1> DEFINE reg == GiveRef(registry, objects[s])
           new == TakeRef(reg, obj)
           given == [objects EXCEPT ![s] = obj]
<1>1. registry \in Registries /\ objects \in Variables /\ Rooted(registry, objects)
  BY DEF HandleInv
<1>2. unowned' \in BOOLEAN /\ unowned' = Wrong(objects[s])
  BY DEF Wrong, HandleInv
<1>3. CASE ~Wrong(objects[s])
  <2>1. /\ reg \in Registries /\ given \in Variables /\ Rooted(reg, given)
        /\ \A r \in Ref : registry[r] = Nothing => reg[r] = Nothing
    BY <1>1, <1>3, GiveKeeps
  <2>2. given[s] = obj /\ \A x : [given EXCEPT ![s] = x] = [objects EXCEPT ![s] = x]
    BY <1>1 DEF Variables
  <2> HIDE DEF reg, given
  <2>3. CASE taken
    <3>1. /\ new.registry \in Registries /\ [given EXCEPT ![s] = new.object] \in Variables
          /\ Rooted(new.registry, [given EXCEPT ![s] = new.object])
      BY <2>1, <2>2, <2>3, TakeKeeps
    <3>2. registry' = new.registry /\ objects' = [given EXCEPT ![s] = new.object]
      BY <2>2, <2>3 DEF reg
    <3> QED BY <1>2, <2>3, <3>1, <3>2 DEF HandleInv
  <2>4. CASE ~taken
    <3>1. registry' = reg /\ objects' = given
      BY <2>4 DEF reg, given
    <3> QED BY <1>2, <2>1, <3>1 DEF HandleInv
  <2> QED BY <2>3, <2>4
<1>4. CASE Wrong(objects[s])
  BY <1>2, <1>4 DEF HandleInv
<1> QED BY <1>3, <1>4

\* One script_value moved onto another, each keeping its reference.
LEMMA MoveObjectStep ==
  ASSUME HandleInv, ~unowned, NEW s \in Slot, NEW from \in Slot, MoveAssignObject(s, from)
  PROVE  HandleInv'
<1> DEFINE left == [objects[s] EXCEPT !.value = objects[from].value, !.owns = FALSE]
           emptied == [objects[from] EXCEPT !.value = Nothing]
           reg == GiveRef(registry, objects[s])
           obs == [objects EXCEPT ![s] = left]
           new == [obs EXCEPT ![from] = emptied]
<1>1. registry \in Registries /\ objects \in Variables /\ Rooted(registry, objects)
  BY DEF HandleInv
<1>2. /\ s # from /\ objects[s].class = "object" /\ objects[from].class = "object"
      /\ unowned' = (unowned \/ Wrong(objects[s])) /\ registry' = reg /\ hks' = hks
      /\ objects' = [objects EXCEPT ![s].value = objects[from].value, ![s].owns = FALSE, ![from].value = Nothing]
  BY DEF MoveAssignObject
<1>3. unowned' \in BOOLEAN /\ unowned' = Wrong(objects[s])
  BY <1>2 DEF Wrong, HandleInv
<1>4. /\ left \in HksVariable /\ left.owns = FALSE /\ left.class = "object"
      /\ emptied \in HksVariable /\ emptied.class = "object" /\ emptied.ref = objects[from].ref
      /\ emptied.owns = objects[from].owns
  BY <1>1, <1>2 DEF Variables, HksVariable, HksAny
<1>5. objects' = new
  BY <1>1, <1>2 DEF Variables
<1> HIDE DEF left, emptied
<1>6. CASE ~Wrong(objects[s])
  <2>1. /\ reg \in Registries /\ obs \in Variables /\ Rooted(reg, obs)
        /\ \A r \in Ref : registry[r] = Nothing => reg[r] = Nothing
    BY <1>1, <1>4, <1>6, GiveKeeps
  <2>2. obs[from] = objects[from]
    BY <1>1, <1>2 DEF Variables
  <2> HIDE DEF reg, obs
  <2>3. new \in Variables /\ new[from] = emptied /\ \A t \in Slot \ {from} : new[t] = obs[t]
    BY <1>4, <2>1 DEF Variables
  <2> HIDE DEF new
  <2>4. Rooted(reg, new)
    BY <1>4, <2>1, <2>2, <2>3 DEF Rooted
  <2> QED BY <1>2, <1>3, <1>5, <2>1, <2>3, <2>4 DEF HandleInv
<1>7. CASE Wrong(objects[s])
  BY <1>3, <1>7 DEF HandleInv
<1> QED BY <1>6, <1>7

LEMMA MoveStep ==
  ASSUME HandleInv, ~unowned, NEW s \in Slot, NEW from \in Slot, MoveAssign(s, from)
  PROVE  HandleInv'
<1> DEFINE reg == GiveRef(registry, objects[s])
           obs == [objects EXCEPT ![s] = Unused]
           new == [obs EXCEPT ![s] = obs[from], ![from].ref = 0, ![from].owns = FALSE]
<1>1. registry \in Registries /\ objects \in Variables /\ Rooted(registry, objects)
  BY DEF HandleInv
<1>2. /\ s # from /\ unowned' = (unowned \/ Wrong(objects[s])) /\ registry' = reg /\ hks' = hks
      /\ objects' = [objects EXCEPT ![s] = objects[from], ![from].ref = 0, ![from].owns = FALSE]
  BY DEF MoveAssign
<1>3. unowned' \in BOOLEAN /\ unowned' = Wrong(objects[s])
  BY <1>2 DEF Wrong, HandleInv
<1>4. Unused \in HksVariable /\ Unused.class = "none" /\ Unused.ref = 0 /\ Unused.owns = FALSE
  BY DEF Unused, HksVariable, HksAny
<1> HIDE DEF Unused
<1>5. objects' = new
  BY <1>1, <1>2, <1>4 DEF Variables
<1>6. CASE ~Wrong(objects[s])
  <2>1. /\ reg \in Registries /\ obs \in Variables /\ Rooted(reg, obs)
        /\ \A r \in Ref : registry[r] = Nothing => reg[r] = Nothing
    BY <1>1, <1>4, <1>6, GiveKeeps
  <2>2. obs[s].ref = 0
    BY <1>1, <1>4 DEF Variables
  <2> HIDE DEF reg, obs
  <2>3. new \in Variables /\ Rooted(reg, new)
    BY <1>2, <2>1, <2>2, MoveKeeps
  <2> QED BY <1>2, <1>3, <1>5, <2>1, <2>3 DEF HandleInv
<1>7. CASE Wrong(objects[s])
  BY <1>3, <1>7 DEF HandleInv
<1> QED BY <1>6, <1>7

\* A variable that is not used has nothing to give back.
LEMMA UnusedGives ==
  ASSUME HandleInv, ~unowned, NEW s \in Slot, ~Used(s)
  PROVE  GiveRef(registry, objects[s]) = registry /\ ~Wrong(objects[s])
BY DEF HandleInv, Rooted, Used, GiveRef, Wrong

LEMMA VariableType ==
  ASSUME NEW class \in {"handle", "object"}, NEW value \in HksAny
  PROVE  /\ Variable(class, value) \in HksVariable /\ Variable(class, value).class = class
         /\ Variable(class, value).ref = 0 /\ Variable(class, value).owns = FALSE
BY SlotSize DEF Variable, HksVariable

LEMMA HandleStep ==
  ASSUME HandleInv, [UiNext]_uiVars
  PROVE  HandleInv'
<1>1. CASE UNCHANGED <<registry, objects, unowned>> /\ (hks' = hks \/ hks' # "none")
  BY <1>1 DEF HandleInv, Rooted
<1>2. ASSUME ~unowned, NEW s \in Slot, NEW class \in {"handle", "object"}, NEW value \in HksAny,
             Construct(s, class, value)
      PROVE  HandleInv'
  <2> DEFINE obj == Variable(class, value)
  <2>1. obj \in HksVariable /\ obj.class = class /\ obj.ref = 0 /\ obj.owns = FALSE
    BY VariableType
  <2>2. GiveRef(registry, objects[s]) = registry /\ ~Wrong(objects[s])
    BY <1>2, UnusedGives DEF Construct
  <2>3. /\ registry' = TakeRef(registry, obj).registry
        /\ objects' = [objects EXCEPT ![s] = TakeRef(registry, obj).object]
        /\ unowned' = (unowned \/ FALSE) /\ hks' = hks /\ hks # "none"
    BY <1>2 DEF Construct, Put, Ready
  <2>4. unowned' = (unowned \/ Wrong(objects[s]))
    BY <2>2, <2>3
  <2> HIDE DEF obj
  <2> QED BY <1>2, <2>1, <2>2, <2>3, <2>4, PutStep
<1>3. ASSUME ~unowned, NEW s \in Slot, NEW value \in HksAny, ConstructValue(s, value)
      PROVE  HandleInv'
  <2> DEFINE obj == Variable("object", value)
  <2>1. obj \in HksVariable /\ obj.class = "object" /\ obj.ref = 0 /\ obj.owns = FALSE
    BY VariableType
  <2>2. GiveRef(registry, objects[s]) = registry /\ ~Wrong(objects[s])
    BY <1>3, UnusedGives DEF ConstructValue
  <2>3. /\ registry' = registry /\ objects' = [objects EXCEPT ![s] = obj]
        /\ unowned' = (unowned \/ FALSE) /\ hks' = hks
    BY <1>3 DEF ConstructValue, Put
  <2>4. unowned' = (unowned \/ Wrong(objects[s]))
    BY <2>2, <2>3
  <2> HIDE DEF obj
  <2> QED BY <1>3, <2>1, <2>2, <2>3, <2>4, PutStep
<1>4. ASSUME ~unowned, NEW s \in Slot, NEW from \in Slot, CopyAssign(s, from)
      PROVE  HandleInv'
  <2> DEFINE obj == Variable(objects[from].class, objects[from].value)
             reg == GiveRef(registry, objects[s])
  <2>1. objects[from] \in HksVariable /\ objects[from].class # "none"
    BY <1>4 DEF HandleInv, Variables, CopyAssign, Used
  <2>2. objects[from].class \in {"handle", "object"} /\ objects[from].value \in HksAny
    BY <2>1 DEF HksVariable
  <2>3. obj \in HksVariable /\ obj.class # "none" /\ obj.ref = 0 /\ obj.owns = FALSE
    BY <2>1, <2>2, VariableType
  <2>4. /\ registry' = TakeRef(reg, obj).registry
        /\ objects' = [objects EXCEPT ![s] = TakeRef(reg, obj).object]
        /\ unowned' = (unowned \/ Wrong(objects[s])) /\ hks' = hks /\ hks # "none"
    BY <1>4 DEF CopyAssign, Put, Ready
  <2> HIDE DEF obj
  <2> QED BY <1>4, <2>3, <2>4, PutStep
<1>5. ASSUME ~unowned, NEW s \in Slot, NEW from \in Slot, MoveAssign(s, from) \/ MoveAssignObject(s, from)
      PROVE  HandleInv'
  BY <1>5, MoveStep, MoveObjectStep
<1>6. ASSUME ~unowned, NEW s \in Slot, Destroy(s)
      PROVE  HandleInv'
  <2>1. Unused \in HksVariable /\ Unused.class = "none" /\ Unused.ref = 0 /\ Unused.owns = FALSE
    BY DEF Unused, HksVariable, HksAny
  <2>2. /\ registry' = GiveRef(registry, objects[s]) /\ objects' = [objects EXCEPT ![s] = Unused]
        /\ unowned' = (unowned \/ Wrong(objects[s])) /\ hks' = hks
    BY <1>6 DEF Destroy, Put
  <2> HIDE DEF Unused
  <2> QED BY <1>6, <2>1, <2>2, PutStep
<1>7. CASE ~unowned /\ hks_shutdown_stub
  <2>1. /\ registry' = [r \in Ref |-> Nothing] /\ objects' = [s \in Slot |-> Unused]
        /\ unowned' \in BOOLEAN
    BY <1>7 DEF hks_shutdown_stub, ClearAndShutdown
  <2>2. Unused \in HksVariable /\ Unused.class = "none" /\ Unused.ref = 0 /\ Unused.owns = FALSE
    BY DEF Unused, HksVariable, HksAny
  <2> HIDE DEF Unused
  <2>3. registry' \in Registries /\ objects' \in Variables
    BY <2>1, <2>2 DEF Registries, Variables, HksAny
  <2>4. Rooted(registry, objects)'
    BY <2>1, <2>2 DEF Rooted
  <2> QED BY <2>1, <2>3, <2>4 DEF HandleInv
<1>8. CASE hks_start_stub \/ start \/ Started \/ hks_load_stub \/ UNCHANGED uiVars
  BY <1>1, <1>8 DEF hks_start_stub, start, Started, hks_load_stub, uiVars
<1>9. ASSUME NEW name, load_scripts(name) \/ hks_package_require_stub(name) \/ db_find_x_asset_header_stub(name)
      PROVE  HandleInv'
  BY <1>1, <1>9 DEF load_scripts, hks_package_require_stub, db_find_x_asset_header_stub
<1>10. ASSUME NEW s, convert_function(s) PROVE HandleInv'
  BY <1>1, <1>10 DEF convert_function
<1>11. HksValue \subseteq HksAny /\ Nothing \in HksAny
  BY DEF HksAny
<1> QED BY <1>2, <1>3, <1>4, <1>5, <1>6, <1>7, <1>8, <1>9, <1>10, <1>11 DEF UiNext

LEMMA HandlesAreRooted == HandleInv => HandlesRooted
<1> SUFFICES ASSUME HandleInv, ~unowned PROVE HandlesRooted
  BY DEF HandlesRooted
<1>1. registry \in Registries /\ objects \in Variables /\ Rooted(registry, objects)
  BY DEF HandleInv
<1>2. ASSUME NEW r \in Ref
      PROVE  Cardinality(Owners(r)) = IF registry[r] = Nothing THEN 0 ELSE 1
  <2>1. r # 0
    BY SlotSize
  <2>2. CASE registry[r] = Nothing
    <3>1. Owners(r) = {}
      BY <1>1, <2>1, <2>2 DEF Owners, Rooted
    <3> QED BY <2>2, <3>1, FS_EmptySet
  <2>3. CASE registry[r] # Nothing
    <3>1. PICK s \in Slot : objects[s].owns /\ objects[s].ref = r
      BY <1>1, <2>3 DEF Rooted
    <3>2. Owners(r) = {s}
      BY <1>1, <2>1, <3>1 DEF Owners, Rooted
    <3> QED BY <2>3, <3>2, FS_Singleton
  <2> QED BY <2>2, <2>3
<1> QED BY <1>1, <1>2 DEF HandlesRooted, HandleInv, Rooted

-----------------------------------------------------------------------------
\* However levels come and go and scripts are hooked, and however the menus'
\* scripts require each other, copy, move and capture values and restart: tables,
\* handles and hooks are of scripts the machine has, a position is found to be of
\* its function, a file is loaded for a script of its folder only, and every
\* reference has one owner (ScriptsKept), for any files, functions, lengths,
\* variables and values (script_loading.cpp, ui_scripting.cpp, types.cpp).
THEOREM ScriptsStayKept == Spec => []ScriptsKept
<1> DEFINE Inv == GscInv /\ RootInv /\ HandleInv
<1>1. Init => Inv
  BY GscInitially, RootInitially, HandleInitially DEF Init
<1>2. Inv /\ [Next]_vars => Inv'
  <2>1. [Next]_vars => [GscNext]_gscVars /\ [UiNext]_uiVars
    BY Zenon DEF Next, vars
  <2> QED BY <2>1, GscStep, RootStep, HandleStep
<1>3. Inv => ScriptsKept
  BY TablesMatch, HandlesAreRooted DEF RootInv, ScriptsKept
<1> HIDE DEF Inv
<1> QED BY <1>1, <1>2, <1>3, PTL DEF Spec
=============================================================================

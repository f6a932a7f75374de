--------------------------- MODULE SchedulerProofs ---------------------------
(***************************************************************************)
(* Proofs about Scheduler, for every number of pipelines, tasks, delays    *)
(* and requests: type correctness, the order and integrity of the queues,  *)
(* what follows from them for once tasks, immediate tasks and the shutdown *)
(* of the async thread, and that the scheduler implements DeferredCalls.   *)
(***************************************************************************)
EXTENDS Scheduler, SequenceLemmas

-----------------------------------------------------------------------------
(* Sequences of task identities.                                           *)

\* Appending an element above all others keeps the order.
LEMMA AppendAscending ==
  ASSUME NEW s \in Seq(Nat), NEW n \in Nat,
         StrictlyAscending(s), \A e \in ToSet(s) : e < n
  PROVE  /\ StrictlyAscending(Append(s, n))
         /\ ToSet(Append(s, n)) = ToSet(s) \cup {n}
<1> DEFINE t == Append(s, n)
<1>1. t \in Seq(Nat) /\ Len(t) = Len(s) + 1 /\ t[Len(s) + 1] = n
  BY AppendProperties
<1>2. \A k \in 1..Len(s) : t[k] = s[k]
  BY AppendProperties
<1>3. Len(s) \in Nat /\ \A k \in 1..Len(s) : s[k] \in Nat /\ s[k] < n
  BY ElementOfSeq, LenProperties, ToSetMember
<1>4. StrictlyAscending(t)
  BY <1>1, <1>2, <1>3 DEF StrictlyAscending
<1>5. \A e : e \in ToSet(t) <=> e \in ToSet(s) \/ e = n
  <2> TAKE e
  <2>1. e \in ToSet(t) <=> \E k \in 1..Len(t) : t[k] = e
    BY <1>1, ToSetMember
  <2>2. e \in ToSet(s) <=> \E k \in 1..Len(s) : s[k] = e
    BY ToSetMember
  <2> QED BY <2>1, <2>2, <1>1, <1>2, <1>3
<1> HIDE DEF t
<1> QED BY <1>4, <1>5 DEF t

\* Joining two ascending sequences, the second one above the first.
LEMMA ConcatAscending ==
  ASSUME NEW s \in Seq(Nat), NEW t \in Seq(Nat),
         StrictlyAscending(s), StrictlyAscending(t),
         \A d \in ToSet(s), e \in ToSet(t) : d < e
  PROVE  /\ StrictlyAscending(s \o t)
         /\ ToSet(s \o t) = ToSet(s) \cup ToSet(t)
<1> DEFINE u == s \o t
<1>1. u \in Seq(Nat) /\ Len(u) = Len(s) + Len(t)
  BY ConcatProperties
<1>2. \A k \in 1..Len(s) + Len(t) : u[k] = IF k <= Len(s) THEN s[k] ELSE t[k - Len(s)]
  BY ConcatProperties
<1>3. Len(s) \in Nat /\ Len(t) \in Nat
  BY LenProperties
<1> HIDE DEF u
<1>4. \A k \in 1..Len(s), l \in 1..Len(t) : s[k] < t[l]
  BY ToSetMember
<1>5. StrictlyAscending(u)
  <2> SUFFICES ASSUME NEW k \in 1..Len(u), NEW l \in 1..Len(u), k < l
               PROVE  u[k] < u[l]
    BY DEF StrictlyAscending
  <2> k \in 1..Len(s) + Len(t) /\ l \in 1..Len(s) + Len(t) /\ k \in Nat /\ l \in Nat
    BY <1>1, <1>3
  <2>1. CASE l <= Len(s)
    <3>1. k \in 1..Len(s) /\ l \in 1..Len(s)
      BY <2>1, <1>3
    <3>2. \A m \in 1..Len(s) : m \in 1..Len(s) + Len(t) /\ m <= Len(s)
      BY <1>3
    <3>3. \A m \in 1..Len(s) : u[m] = s[m]
      BY <3>2, <1>2
    <3>4. u[k] = s[k] /\ u[l] = s[l]
      BY <3>1, <3>3
    <3> QED BY <2>1, <3>1, <3>4 DEF StrictlyAscending
  <2>2. CASE k > Len(s)
    <3>1. k - Len(s) \in 1..Len(t) /\ l - Len(s) \in 1..Len(t) /\ k - Len(s) < l - Len(s)
      BY <2>2, <1>1, <1>3
    <3>2. t[k - Len(s)] < t[l - Len(s)]
      BY <3>1 DEF StrictlyAscending
    <3> QED BY <2>2, <3>2, <1>1, <1>2, <1>3
  <2>3. CASE k <= Len(s) /\ l > Len(s)
    <3>1. k \in 1..Len(s) /\ l - Len(s) \in 1..Len(t)
      BY <2>3, <1>3
    <3>2. u[k] = s[k] /\ u[l] = t[l - Len(s)]
      BY <2>3, <1>2, <1>3
    <3> QED BY <3>1, <3>2, <1>4
  <2> QED BY <2>1, <2>2, <2>3, <1>3
<1>6. \A e : e \in ToSet(u) <=> e \in ToSet(s) \/ e \in ToSet(t)
  <2> TAKE e
  <2>1. e \in ToSet(u) <=> \E k \in 1..Len(u) : u[k] = e
    BY <1>1, ToSetMember
  <2>2. e \in ToSet(s) <=> \E k \in 1..Len(s) : s[k] = e
    BY ToSetMember
  <2>3. e \in ToSet(t) <=> \E k \in 1..Len(t) : t[k] = e
    BY ToSetMember
  <2>4. ASSUME NEW k \in 1..Len(t)
        PROVE  u[k + Len(s)] = t[k] /\ k + Len(s) \in 1..Len(u)
    <3>1. /\ k + Len(s) \in 1..Len(s) + Len(t)
          /\ ~(k + Len(s) <= Len(s))
          /\ (k + Len(s)) - Len(s) = k
      BY <1>3
    <3>2. u[k + Len(s)] = t[(k + Len(s)) - Len(s)]
      BY <3>1, <1>2
    <3> QED BY <3>1, <3>2, <1>1
  <2>5. \A k \in 1..Len(s) : u[k] = s[k] /\ k \in 1..Len(u)
    BY <1>1, <1>2, <1>3
  <2>6. ASSUME NEW k \in 1..Len(u)
        PROVE  (\E l \in 1..Len(s) : s[l] = u[k]) \/ (\E l \in 1..Len(t) : t[l] = u[k])
    <3>1. k \in 1..Len(s) + Len(t)
      BY <1>1
    <3>2. CASE k <= Len(s)
      <4>1. k \in 1..Len(s) /\ u[k] = s[k]
        BY <3>1, <3>2, <1>2, <1>3
      <4> QED BY <4>1
    <3>3. CASE k > Len(s)
      <4>1. k - Len(s) \in 1..Len(t) /\ u[k] = t[k - Len(s)]
        BY <3>1, <3>3, <1>2, <1>3
      <4> QED BY <4>1
    <3> QED BY <3>1, <3>2, <3>3, <1>3
  <2> QED BY <2>1, <2>2, <2>3, <2>4, <2>5, <2>6
<1> QED BY <1>5, <1>6 DEF u

\* Erasing one element of an ascending sequence removes it for good and moves
\* those behind it one place to the front.
LEMMA RemoveAscending ==
  ASSUME NEW S \in SUBSET Nat, NEW s \in Seq(S), NEW c \in 1..Len(s), StrictlyAscending(s)
  PROVE  /\ RemoveAt(s, c) \in Seq(S)
         /\ Len(RemoveAt(s, c)) = Len(s) - 1
         /\ \A k \in 1..Len(s) - 1 :
              RemoveAt(s, c)[k] = IF k < c THEN s[k] ELSE s[k + 1]
         /\ StrictlyAscending(RemoveAt(s, c))
         /\ ToSet(RemoveAt(s, c)) = ToSet(s) \ {s[c]}
<1> DEFINE r == RemoveAt(s, c)
<1>1. Len(s) \in Nat /\ c \in Nat /\ c >= 1 /\ c <= Len(s) /\ \A k \in 1..Len(s) : s[k] \in S
  BY LenProperties, ElementOfSeq
<1>5. r \in Seq(S) /\ Len(r) = Len(s) - 1
  BY RemoveElements
<1>6. \A k \in 1..Len(s) - 1 : r[k] = IF k < c THEN s[k] ELSE s[k + 1]
  BY RemoveElements
<1> HIDE DEF r
<1>7. StrictlyAscending(r)
  <2> SUFFICES ASSUME NEW k \in 1..Len(r), NEW l \in 1..Len(r), k < l
               PROVE  r[k] < r[l]
    BY DEF StrictlyAscending
  <2>1. k \in 1..Len(s) - 1 /\ l \in 1..Len(s) - 1
    BY <1>5
  <2>2. /\ k \in 1..Len(s) /\ k + 1 \in 1..Len(s) /\ l \in 1..Len(s) /\ l + 1 \in 1..Len(s)
        /\ k < l + 1 /\ k + 1 < l + 1 /\ (l >= c => l + 1 > k) /\ ~(k >= c /\ l < c)
    BY <2>1, <1>1
  <2> QED BY <2>1, <2>2, <1>6 DEF StrictlyAscending
<1>8. \A e : e \in ToSet(r) <=> e \in ToSet(s) /\ e # s[c]
  <2> TAKE e
  <2>1. e \in ToSet(r) <=> \E k \in 1..Len(s) - 1 : r[k] = e
    BY <1>5, ToSetMember
  <2>2. e \in ToSet(s) <=> \E k \in 1..Len(s) : s[k] = e
    BY ToSetMember
  <2>3. ASSUME NEW k \in 1..Len(s) - 1, r[k] = e
        PROVE  e \in ToSet(s) /\ e # s[c]
    <3>1. CASE k < c
      <4>1. k \in 1..Len(s)
        BY <1>1
      <4>2. s[k] = e
        BY <3>1, <2>3, <1>6
      <4>3. s[k] < s[c]
        BY <3>1, <4>1 DEF StrictlyAscending
      <4>4. s[k] \in Nat /\ s[c] \in Nat
        BY <4>1, <1>1
      <4> QED BY <4>1, <4>2, <4>3, <4>4, <2>2
    <3>2. CASE k >= c
      <4>1. k + 1 \in 1..Len(s) /\ c < k + 1 /\ ~(k < c)
        BY <3>2, <1>1
      <4>2. s[k + 1] = e
        BY <4>1, <2>3, <1>6
      <4>3. s[c] < s[k + 1]
        BY <4>1 DEF StrictlyAscending
      <4>4. s[k + 1] \in Nat /\ s[c] \in Nat
        BY <4>1, <1>1
      <4> QED BY <4>1, <4>2, <4>3, <4>4, <2>2
    <3> QED BY <3>1, <3>2, <1>1
  <2>4. ASSUME NEW k \in 1..Len(s), s[k] = e, e # s[c]
        PROVE  \E l \in 1..Len(s) - 1 : r[l] = e
    <3>1. CASE k < c
      <4>1. k \in 1..Len(s) - 1 /\ r[k] = s[k]
        BY <3>1, <1>1, <1>6
      <4> QED BY <4>1, <2>4
    <3>2. CASE k > c
      <4>1. k - 1 \in 1..Len(s) - 1 /\ r[k - 1] = s[k - 1 + 1] /\ k - 1 + 1 = k
        BY <3>2, <1>1, <1>6
      <4> QED BY <4>1, <2>4
    <3>3. CASE k = c
      BY <3>3, <2>4
    <3> QED BY <3>1, <3>2, <3>3, <1>1
  <2> QED BY <2>1, <2>2, <2>3, <2>4
<1> QED BY <1>5, <1>6, <1>7, <1>8 DEF r
-----------------------------------------------------------------------------
(* The inductive invariant.                                                *)

\* A running handler is the one the iterator of the pass points to.
CursorInv ==
  \A p \in Pipeline : running[p] => AtTask(p) /\ Current(p) \in begun

\* What the pass has behind it and need not wait has been called.
Visited ==
  \A p \in Pipeline : \A k \in 1..Len(callbacks[p]) :
    k < cursor[p] /\ Wait(call[callbacks[p][k]]) = 0 => callbacks[p][k] \in begun

ThreadInv ==
  /\ thread = "executing" <=> InPass(Async)
  /\ joined => kill /\ thread \in {"none", "exited"}

QInv ==
  /\ CursorInv
  /\ QueueIntegrity
  /\ begun \subseteq Added
  /\ OnceAtMostOnce
  /\ NothingLost
  /\ Visited

IInv == TypeOK /\ QInv /\ ThreadInv

LEMMA HomeType == \A c \in Call : Home(c) \in Pipeline
BY PipelineAssumption DEF Call, Home

\* Sequences of task identities are sequences of numbers.
LEMMA IdSeq == \A s \in Seq(Id) : s \in Seq(Nat)
<1>1. Id \subseteq Nat
  BY BoundAssumption DEF Id
<1> QED BY <1>1, SeqMonotonic

-----------------------------------------------------------------------------
(* How the three operations on the vectors change what they hold.          *)

\* add: the new task comes last in new_callbacks_ of its pipeline.
LEMMA AddEffect ==
  ASSUME TypeOK, QueueIntegrity, NEW c \in Call, NEW a \in 0..MaxAge, schedule(c, a)
  PROVE  /\ new_callbacks' \in [Pipeline -> Seq(Id)]
         /\ \A q \in Pipeline :
              /\ StrictlyAscending(new_callbacks'[q])
              /\ ToSet(new_callbacks'[q]) =
                   ToSet(new_callbacks[q]) \cup (IF q = Home(c) THEN {nextId} ELSE {})
<1> DEFINE h == Home(c)
<1>1. h \in Pipeline /\ nextId \in Id /\ nextId \in Nat
  BY HomeType, BoundAssumption DEF schedule, Id
<1>2. new_callbacks' = [new_callbacks EXCEPT ![h] = Append(new_callbacks[h], nextId)]
  BY DEF schedule, add
<1> HIDE DEF h
<1>3. new_callbacks \in [Pipeline -> Seq(Id)] /\ new_callbacks[h] \in Seq(Id)
  BY <1>1 DEF TypeOK
<1>4. Append(new_callbacks[h], nextId) \in Seq(Id)
  BY <1>1, <1>3, AppendProperties
<1>5. \A e \in ToSet(new_callbacks[h]) : e < nextId
  BY <1>1 DEF QueueIntegrity, Added
<1>6. /\ StrictlyAscending(Append(new_callbacks[h], nextId))
      /\ ToSet(Append(new_callbacks[h], nextId)) = ToSet(new_callbacks[h]) \cup {nextId}
  BY <1>1, <1>3, <1>5, IdSeq, AppendAscending DEF QueueIntegrity
<1>7. new_callbacks' \in [Pipeline -> Seq(Id)]
  BY <1>2, <1>3, <1>4
<1>8. ASSUME NEW q \in Pipeline
      PROVE  /\ StrictlyAscending(new_callbacks'[q])
             /\ ToSet(new_callbacks'[q]) =
                  ToSet(new_callbacks[q]) \cup (IF q = h THEN {nextId} ELSE {})
  <2>1. CASE q = h
    BY <2>1, <1>1, <1>2, <1>3, <1>6
  <2>2. CASE q # h
    <3>1. new_callbacks'[q] = new_callbacks[q]
      BY <2>2, <1>2, <1>3
    <3> QED BY <2>2, <3>1 DEF QueueIntegrity
  <2> QED BY <2>1, <2>2
<1> QED BY <1>7, <1>8 DEF h

\* erase: the current task leaves, those behind it move up.
LEMMA EraseEffect ==
  ASSUME TypeOK, QueueIntegrity, CursorInv, NEW p \in Pipeline, running[p], Erase(p)
  PROVE  /\ callbacks' \in [Pipeline -> Seq(Id)]
         /\ running' \in [Pipeline -> BOOLEAN]
         /\ \A q \in Pipeline :
              /\ StrictlyAscending(callbacks'[q])
              /\ ToSet(callbacks'[q]) =
                   ToSet(callbacks[q]) \ (IF q = p THEN {Current(p)} ELSE {})
         /\ \A q \in Pipeline : running'[q] = IF q = p THEN FALSE ELSE running[q]
         /\ \A q \in Pipeline : q # p => callbacks'[q] = callbacks[q]
         /\ Len(callbacks'[p]) = Len(callbacks[p]) - 1
         /\ \A k \in 1..Len(callbacks'[p]) : k < cursor[p] => callbacks'[p][k] = callbacks[p][k]
<1> DEFINE s == callbacks[p]
           r == RemoveAt(s, cursor[p])
<1>1. cursor[p] \in 1..Len(s) /\ s \in Seq(Id) /\ Id \in SUBSET Nat
  BY BoundAssumption DEF CursorInv, AtTask, TypeOK, Id
<1>2. StrictlyAscending(s)
  BY DEF QueueIntegrity
<1> HIDE DEF s
<1>3. /\ r \in Seq(Id)
      /\ Len(r) = Len(s) - 1
      /\ \A k \in 1..Len(s) - 1 : r[k] = IF k < cursor[p] THEN s[k] ELSE s[k + 1]
      /\ StrictlyAscending(r)
      /\ ToSet(r) = ToSet(s) \ {s[cursor[p]]}
  BY <1>1, <1>2, RemoveAscending
<1> HIDE DEF r
<1>4. callbacks' = [callbacks EXCEPT ![p] = r] /\ callbacks \in [Pipeline -> Seq(Id)]
  BY DEF Erase, TypeOK, r, s
<1>5. running' = [running EXCEPT ![p] = FALSE] /\ running \in [Pipeline -> BOOLEAN]
  BY DEF Erase, TypeOK
<1>6. callbacks'[p] = r /\ \A q \in Pipeline : q # p => callbacks'[q] = callbacks[q]
  BY <1>4
<1>7. callbacks' \in [Pipeline -> Seq(Id)]
  BY <1>3, <1>4
<1>8. running' \in [Pipeline -> BOOLEAN]
      /\ \A q \in Pipeline : running'[q] = IF q = p THEN FALSE ELSE running[q]
  BY <1>5, Zenon
<1>9. ASSUME NEW q \in Pipeline
      PROVE  /\ StrictlyAscending(callbacks'[q])
             /\ ToSet(callbacks'[q]) =
                  ToSet(callbacks[q]) \ (IF q = p THEN {Current(p)} ELSE {})
  <2>1. CASE q = p
    BY <2>1, <1>3, <1>6 DEF Current, s
  <2>2. CASE q # p
    BY <2>2, <1>6 DEF QueueIntegrity
  <2> QED BY <2>1, <2>2
<1>10. \A k \in 1..Len(callbacks'[p]) : k < cursor[p] => callbacks'[p][k] = callbacks[p][k]
  BY <1>3, <1>6 DEF s
<1> QED BY <1>3, <1>6, <1>7, <1>8, <1>9, <1>10 DEF s

\* merge_callbacks: the new tasks follow those already there.
LEMMA MergeEffect ==
  ASSUME TypeOK, QueueIntegrity, NEW p \in Pipeline, BeginPass(p)
  PROVE  /\ callbacks' \in [Pipeline -> Seq(Id)]
         /\ new_callbacks' \in [Pipeline -> Seq(Id)]
         /\ \A q \in Pipeline :
              /\ StrictlyAscending(callbacks'[q]) /\ StrictlyAscending(new_callbacks'[q])
              /\ ToSet(new_callbacks'[q]) = IF q = p THEN {} ELSE ToSet(new_callbacks[q])
              /\ ToSet(callbacks'[q]) =
                   ToSet(callbacks[q]) \cup (IF q = p THEN ToSet(new_callbacks[q]) ELSE {})
         /\ \A q \in Pipeline : q # p => callbacks'[q] = callbacks[q]
<1>1. /\ callbacks[p] \in Seq(Id) /\ new_callbacks[p] \in Seq(Id)
      /\ callbacks \in [Pipeline -> Seq(Id)] /\ new_callbacks \in [Pipeline -> Seq(Id)]
  BY DEF TypeOK
<1>2. /\ callbacks' = [callbacks EXCEPT ![p] = callbacks[p] \o new_callbacks[p]]
      /\ new_callbacks' = [new_callbacks EXCEPT ![p] = <<>>]
  BY DEF BeginPass
<1>3. callbacks[p] \o new_callbacks[p] \in Seq(Id)
  BY <1>1, ConcatProperties
<1>4. /\ StrictlyAscending(callbacks[p] \o new_callbacks[p])
      /\ ToSet(callbacks[p] \o new_callbacks[p]) = ToSet(callbacks[p]) \cup ToSet(new_callbacks[p])
  BY <1>1, IdSeq, ConcatAscending DEF QueueIntegrity
<1>5. <<>> \in Seq(Id) /\ StrictlyAscending(<<>>) /\ ToSet(<<>>) = {}
  BY DEF StrictlyAscending, ToSet
<1>6. callbacks'[p] = callbacks[p] \o new_callbacks[p] /\ new_callbacks'[p] = <<>>
  BY <1>1, <1>2
<1>7. \A q \in Pipeline : q # p => callbacks'[q] = callbacks[q]
                                   /\ new_callbacks'[q] = new_callbacks[q]
  BY <1>1, <1>2
<1>8. callbacks' \in [Pipeline -> Seq(Id)] /\ new_callbacks' \in [Pipeline -> Seq(Id)]
  BY <1>1, <1>2, <1>3, <1>5
<1>9. ASSUME NEW q \in Pipeline
      PROVE  /\ StrictlyAscending(callbacks'[q]) /\ StrictlyAscending(new_callbacks'[q])
             /\ ToSet(new_callbacks'[q]) = IF q = p THEN {} ELSE ToSet(new_callbacks[q])
             /\ ToSet(callbacks'[q]) =
                  ToSet(callbacks[q]) \cup (IF q = p THEN ToSet(new_callbacks[q]) ELSE {})
  <2>1. CASE q = p
    BY <2>1, <1>4, <1>5, <1>6
  <2>2. CASE q # p
    BY <2>2, <1>7 DEF QueueIntegrity
  <2> QED BY <2>1, <2>2
<1> QED BY <1>7, <1>8, <1>9
-----------------------------------------------------------------------------
(* One lemma for each action that touches the queues.                      *)

LEMMA ScheduleStep ==
  ASSUME IInv, NEW c \in Requests, NEW a \in 0..MaxPreempt, Schedule(c, a)
  PROVE  IInv'
<1> USE DEF IInv, QInv
<1>0. c \in Call /\ a \in 0..MaxAge
  BY RequestsAssumption, DelayAssumption, BoundAssumption
<1>1. /\ nextId \in Id /\ nextId' = nextId + 1
      /\ call' = [call EXCEPT ![nextId] = c]
      /\ age' = [age EXCEPT ![nextId] = a]
      /\ UNCHANGED <<begun, callback_of, callbacks, cursor, running, thread, kill, joined, ready>>
  BY DEF Schedule, schedule, threadVars
<1>2. /\ new_callbacks' \in [Pipeline -> Seq(Id)]
      /\ \A q \in Pipeline :
           /\ StrictlyAscending(new_callbacks'[q])
           /\ ToSet(new_callbacks'[q]) =
                ToSet(new_callbacks[q]) \cup (IF q = Home(c) THEN {nextId} ELSE {})
  BY <1>0, AddEffect DEF Schedule
<1>3. Added' = Added \cup {nextId} /\ nextId \notin Added /\ \A i \in Added : i < nextId
  BY <1>1, BoundAssumption DEF Added, Id
<1>4. \A i \in Added : call'[i] = call[i]
  BY <1>1, <1>3 DEF TypeOK
<1>5. call'[nextId] = c
  BY <1>1 DEF TypeOK
<1>6. TypeOK'
  BY <1>0, <1>1, <1>2, BoundAssumption DEF TypeOK, Id
<1>7. CursorInv'
  BY <1>1 DEF CursorInv, AtTask, Current
<1>8. QueueIntegrity'
  <2> SUFFICES ASSUME NEW q \in Pipeline
               PROVE  /\ StrictlyAscending(callbacks'[q])
                      /\ StrictlyAscending(new_callbacks'[q])
                      /\ \A i \in ToSet(callbacks'[q]), j \in ToSet(new_callbacks'[q]) : i < j
                      /\ \A i \in ToSet(callbacks'[q]) \cup ToSet(new_callbacks'[q]) :
                           i \in Added' /\ Home(call'[i]) = q
    BY DEF QueueIntegrity
  <2>1. callbacks'[q] = callbacks[q]
    BY <1>1
  <2>2. \A i \in ToSet(callbacks[q]) \cup ToSet(new_callbacks[q]) :
          i \in Added /\ Home(call[i]) = q
    BY DEF QueueIntegrity
  <2>3. \A i \in ToSet(callbacks[q]), j \in ToSet(new_callbacks[q]) : i < j
    BY DEF QueueIntegrity
  <2>4. StrictlyAscending(callbacks[q])
    BY DEF QueueIntegrity
  <2> QED BY <2>1, <2>2, <2>3, <2>4, <1>2, <1>3, <1>4, <1>5
<1>9. (begun \subseteq Added)'
  BY <1>1, <1>3
<1>10. \A i \in Added : Queued(i)' <=> Queued(i)
  BY <1>1, <1>2, <1>3 DEF Queued
<1>11. OnceAtMostOnce'
  BY <1>1, <1>4, <1>10 DEF OnceAtMostOnce, AtTask, Current
<1>12. NothingLost'
  <2>1. Home(c) \in Pipeline
    BY <1>0, HomeType
  <2>2. nextId \in ToSet(new_callbacks'[Home(c)])
    BY <2>1, <1>2
  <2>3. \A n : n = nextId => Queued(n)'
    BY <2>1, <2>2 DEF Queued
  <2> QED BY <2>3, <1>1, <1>3, <1>10 DEF NothingLost
<1>13. Visited'
  <2> SUFFICES ASSUME NEW q \in Pipeline, NEW k \in 1..Len(callbacks[q]),
                      k < cursor[q], Wait(call'[callbacks[q][k]]) = 0
               PROVE  callbacks[q][k] \in begun
    BY <1>1 DEF Visited
  <2>1. callbacks[q][k] \in Added
    BY ToSetMember DEF QueueIntegrity, TypeOK
  <2> QED BY <2>1, <1>4 DEF Visited
<1>14. ThreadInv'
  BY <1>1 DEF ThreadInv, InPass
<1> QED BY <1>6, <1>7, <1>8, <1>9, <1>11, <1>12, <1>13, <1>14

LEMMA BeginPassStep ==
  ASSUME IInv, NEW p \in Pipeline, BeginPass(p),
         thread' \in Thread, UNCHANGED <<kill, joined>>
  PROVE  TypeOK' /\ QInv'
<1> USE DEF IInv, QInv
<1>1. /\ cursor' = [cursor EXCEPT ![p] = 1] /\ cursor \in [Pipeline -> Nat]
      /\ UNCHANGED <<running, call, nextId, age, begun, callback_of, ready>>
      /\ ~InPass(p)
  BY DEF BeginPass, taskVars, TypeOK
<1>2. /\ callbacks' \in [Pipeline -> Seq(Id)]
      /\ new_callbacks' \in [Pipeline -> Seq(Id)]
      /\ \A q \in Pipeline :
           /\ StrictlyAscending(callbacks'[q]) /\ StrictlyAscending(new_callbacks'[q])
           /\ ToSet(new_callbacks'[q]) = IF q = p THEN {} ELSE ToSet(new_callbacks[q])
           /\ ToSet(callbacks'[q]) =
                ToSet(callbacks[q]) \cup (IF q = p THEN ToSet(new_callbacks[q]) ELSE {})
      /\ \A q \in Pipeline : q # p => callbacks'[q] = callbacks[q]
  BY MergeEffect
<1>3. ~running[p]
  BY <1>1 DEF CursorInv, AtTask, InPass
<1>4. Added' = Added /\ \A q \in Pipeline : q # p => cursor'[q] = cursor[q]
  BY <1>1 DEF Added
<1>5. cursor'[p] = 1
  BY <1>1
<1>6. TypeOK'
  BY <1>1, <1>2 DEF TypeOK
<1>7. CursorInv'
  BY <1>1, <1>2, <1>3, <1>4 DEF CursorInv, AtTask, Current
<1>8. QueueIntegrity'
  BY <1>1, <1>2, <1>4 DEF QueueIntegrity
<1>9. \A i : Queued(i)' <=> Queued(i)
  BY <1>2 DEF Queued
<1>10. OnceAtMostOnce'
  <2> SUFFICES ASSUME NEW i \in begun, call[i].form = "once", Queued(i)
               PROVE  /\ running[Home(call[i])]
                      /\ AtTask(Home(call[i]))' /\ Current(Home(call[i]))' = i
    BY <1>1, <1>9 DEF OnceAtMostOnce
  <2> DEFINE q == Home(call[i])
  <2>1. running[q] /\ AtTask(q) /\ Current(q) = i
    BY DEF OnceAtMostOnce
  <2>2. q # p
    BY <2>1, <1>3
  <2>3. q \in Pipeline
    BY HomeType DEF TypeOK
  <2> HIDE DEF q
  <2>4. callbacks'[q] = callbacks[q] /\ cursor'[q] = cursor[q]
    BY <2>2, <2>3, <1>2, <1>4
  <2>5. q' = q
    BY <1>1 DEF q
  <2> QED BY <2>1, <2>4, <2>5 DEF AtTask, Current, q
<1>11. NothingLost'
  BY <1>1, <1>4, <1>9 DEF NothingLost
<1>12. Visited'
  <2> SUFFICES ASSUME NEW q \in Pipeline, NEW k \in 1..Len(callbacks'[q]),
                      k < cursor'[q], Wait(call[callbacks'[q][k]]) = 0
               PROVE  callbacks'[q][k] \in begun
    BY <1>1 DEF Visited
  <2>1. q # p
    BY <1>5
  <2> QED BY <2>1, <1>2, <1>4 DEF Visited
<1> QED BY <1>1, <1>4, <1>6, <1>7, <1>8, <1>10, <1>11, <1>12

LEMMA EndPassStep ==
  ASSUME IInv, NEW p \in Pipeline, EndPass(p),
         thread' \in Thread, UNCHANGED <<kill, joined>>
  PROVE  TypeOK' /\ QInv'
<1> USE DEF IInv, QInv
<1>1. /\ cursor' = [cursor EXCEPT ![p] = 0] /\ cursor \in [Pipeline -> Nat]
      /\ UNCHANGED <<new_callbacks, callbacks, running, call, nextId, age, begun,
                     callback_of, ready>>
      /\ ~AtTask(p)
  BY DEF EndPass, taskVars, TypeOK
<1>2. ~running[p]
  BY <1>1 DEF CursorInv
<1>3. Added' = Added /\ \A q \in Pipeline : q # p => cursor'[q] = cursor[q]
  BY <1>1 DEF Added
<1>4. TypeOK'
  BY <1>1 DEF TypeOK
<1>5. CursorInv'
  BY <1>1, <1>2, <1>3 DEF CursorInv, AtTask, Current
<1>6. QueueIntegrity'
  BY <1>1, <1>3 DEF QueueIntegrity
<1>7. OnceAtMostOnce'
  BY <1>1, <1>2, <1>3 DEF OnceAtMostOnce, AtTask, Current, Queued
<1>8. NothingLost'
  BY <1>1, <1>3 DEF NothingLost, Queued
<1>9. Visited'
  <2> SUFFICES ASSUME NEW q \in Pipeline, NEW k \in 1..Len(callbacks[q]),
                      k < cursor'[q], Wait(call[callbacks[q][k]]) = 0
               PROVE  callbacks[q][k] \in begun
    BY <1>1 DEF Visited
  <2>1. q # p
    BY <1>1
  <2> QED BY <2>1, <1>3 DEF Visited
<1> QED BY <1>1, <1>3, <1>4, <1>5, <1>6, <1>7, <1>8, <1>9

LEMMA SkipStep ==
  ASSUME IInv, NEW p \in Pipeline, Skip(p)
  PROVE  IInv'
<1> USE DEF IInv, QInv
<1>1. /\ cursor' = [cursor EXCEPT ![p] = cursor[p] + 1] /\ cursor \in [Pipeline -> Nat]
      /\ UNCHANGED <<new_callbacks, callbacks, running, call, nextId, age, begun,
                     callback_of, thread, kill, joined, ready>>
      /\ AtTask(p) /\ ~running[p] /\ ~Due(Current(p))
  BY DEF Skip, taskVars, threadVars, TypeOK
<1>2. Added' = Added /\ \A q \in Pipeline : q # p => cursor'[q] = cursor[q]
  BY <1>1 DEF Added
<1>3. cursor[p] \in Nat /\ cursor'[p] = cursor[p] + 1
  BY <1>1
<1>4. TypeOK'
  BY <1>1 DEF TypeOK
<1>5. CursorInv'
  BY <1>1, <1>2 DEF CursorInv, AtTask, Current
<1>6. QueueIntegrity'
  BY <1>1, <1>2 DEF QueueIntegrity
<1>7. OnceAtMostOnce'
  BY <1>1, <1>2 DEF OnceAtMostOnce, AtTask, Current, Queued
<1>8. NothingLost'
  BY <1>1, <1>2 DEF NothingLost, Queued
<1>9. Visited'
  <2> SUFFICES ASSUME NEW q \in Pipeline, NEW k \in 1..Len(callbacks[q]),
                      k < cursor'[q], Wait(call[callbacks[q][k]]) = 0
               PROVE  callbacks[q][k] \in begun
    BY <1>1 DEF Visited
  <2>1. CASE q = p /\ k = cursor[p]
    <3>1. Current(p) \in Id /\ age[Current(p)] \in 0..MaxAge
      BY <1>1, ElementOfSeq DEF AtTask, Current, TypeOK
    <3>2. Wait(call[Current(p)]) = 0
      BY <2>1 DEF Current
    <3>3. Due(Current(p))
      BY <3>1, <3>2, BoundAssumption DEF Due
    <3> QED BY <3>3, <1>1
  <2>2. CASE q # p
    BY <2>2, <1>2 DEF Visited
  <2>3. CASE q = p /\ k # cursor[p]
    <3>1. k \in Nat /\ k < cursor[p]
      BY <2>3, <1>3
    <3> QED BY <3>1, <2>3 DEF Visited
  <2> QED BY <2>1, <2>2, <2>3
<1>10. ThreadInv'
  <2>1. InPass(Async)' <=> InPass(Async)
    BY <1>1, <1>2, <1>3, PipelineAssumption DEF InPass, AtTask
  <2> QED BY <2>1, <1>1 DEF ThreadInv
<1> QED BY <1>1, <1>2, <1>4, <1>5, <1>6, <1>7, <1>8, <1>9, <1>10

LEMMA CallHandlerStep ==
  ASSUME IInv, NEW p \in Pipeline, CallHandler(p)
  PROVE  IInv'
<1> USE DEF IInv, QInv
<1> DEFINE x == Current(p)
<1>1. /\ running' = [running EXCEPT ![p] = TRUE] /\ running \in [Pipeline -> BOOLEAN]
      /\ age' = [age EXCEPT ![x] = 0]
      /\ begun' = begun \cup {x}
      /\ UNCHANGED <<new_callbacks, callbacks, cursor, call, nextId,
                     callback_of, thread, kill, joined, ready>>
      /\ AtTask(p) /\ ~running[p]
  BY DEF CallHandler, threadVars, TypeOK
<1>2. Added' = Added /\ \A i : Queued(i)' <=> Queued(i)
  BY <1>1 DEF Added, Queued
<1>3. x \in ToSet(callbacks[p])
  BY <1>1, ToSetMember DEF TypeOK, AtTask, Current
<1>4. x \in Added /\ x \in Id /\ Home(call[x]) = p
  BY <1>3 DEF QueueIntegrity, Added
<1>5. running'[p] = TRUE /\ \A q \in Pipeline : q # p => running'[q] = running[q]
  BY <1>1, Zenon
<1>6. TypeOK'
  <2>1. running' \in [Pipeline -> BOOLEAN]
    BY <1>1, Zenon
  <2>2. 0 \in 0..MaxAge
    BY BoundAssumption
  <2> QED BY <2>1, <2>2, <1>1, <1>4 DEF TypeOK
<1>7. CursorInv'
  BY <1>1, <1>5 DEF CursorInv, AtTask, Current
<1>8. QueueIntegrity'
  BY <1>1, <1>2 DEF QueueIntegrity
<1>9. (begun \subseteq Added)'
  BY <1>1, <1>2, <1>4
<1>10. OnceAtMostOnce'
  <2> SUFFICES ASSUME NEW i \in begun', call[i].form = "once", Queued(i)
               PROVE  /\ running'[Home(call[i])]
                      /\ AtTask(Home(call[i]))' /\ Current(Home(call[i]))' = i
    BY <1>1, <1>2 DEF OnceAtMostOnce
  <2>1. CASE i = x
    BY <2>1, <1>1, <1>4, <1>5 DEF AtTask, Current
  <2>2. CASE i # x
    <3>1. i \in begun /\ Home(call[i]) \in Pipeline
      BY <2>2, <1>1, HomeType DEF TypeOK
    <3>2. running[Home(call[i])] /\ AtTask(Home(call[i])) /\ Current(Home(call[i])) = i
      BY <3>1 DEF OnceAtMostOnce
    <3> QED BY <3>1, <3>2, <1>1, <1>5 DEF AtTask, Current
  <2> QED BY <2>1, <2>2
<1>11. NothingLost'
  BY <1>1, <1>2 DEF NothingLost
<1>12. Visited'
  BY <1>1 DEF Visited
<1>13. ThreadInv'
  BY <1>1 DEF ThreadInv, InPass
<1> QED BY <1>6, <1>7, <1>8, <1>9, <1>10, <1>11, <1>12, <1>13

LEMMA ContinueStep ==
  ASSUME IInv, NEW p \in Pipeline, Continue(p)
  PROVE  IInv'
<1> USE DEF IInv, QInv
<1>1. /\ running' = [running EXCEPT ![p] = FALSE] /\ running \in [Pipeline -> BOOLEAN]
      /\ cursor' = [cursor EXCEPT ![p] = cursor[p] + 1] /\ cursor \in [Pipeline -> Nat]
      /\ UNCHANGED <<new_callbacks, callbacks, call, nextId, age, begun,
                     callback_of, thread, kill, joined, ready>>
      /\ running[p] /\ call[Current(p)].form # "once"
  BY DEF Continue, taskVars, threadVars, TypeOK
<1>2. Added' = Added /\ \A i : Queued(i)' <=> Queued(i)
  BY <1>1 DEF Added, Queued
<1>3. running'[p] = FALSE /\ \A q \in Pipeline : q # p => running'[q] = running[q]
  BY <1>1, Zenon
<1>4. /\ cursor[p] \in Nat /\ cursor'[p] = cursor[p] + 1
      /\ \A q \in Pipeline : q # p => cursor'[q] = cursor[q]
  BY <1>1
<1>5. AtTask(p) /\ Current(p) \in begun
  BY <1>1 DEF CursorInv
<1>6. TypeOK'
  <2>1. running' \in [Pipeline -> BOOLEAN]
    BY <1>1, Zenon
  <2> QED BY <2>1, <1>1 DEF TypeOK
<1>7. CursorInv'
  BY <1>1, <1>3, <1>4 DEF CursorInv, AtTask, Current
<1>8. QueueIntegrity'
  BY <1>1, <1>2 DEF QueueIntegrity
<1>9. OnceAtMostOnce'
  <2> SUFFICES ASSUME NEW i \in begun, call[i].form = "once", Queued(i)
               PROVE  /\ running'[Home(call[i])]
                      /\ AtTask(Home(call[i]))' /\ Current(Home(call[i]))' = i
    BY <1>1, <1>2 DEF OnceAtMostOnce
  <2>1. running[Home(call[i])] /\ AtTask(Home(call[i])) /\ Current(Home(call[i])) = i
    BY DEF OnceAtMostOnce
  <2>2. Home(call[i]) # p /\ Home(call[i]) \in Pipeline
    BY <2>1, <1>1, HomeType DEF TypeOK
  <2> QED BY <2>1, <2>2, <1>1, <1>3, <1>4 DEF AtTask, Current
<1>10. NothingLost'
  BY <1>1, <1>2 DEF NothingLost
<1>11. Visited'
  <2> SUFFICES ASSUME NEW q \in Pipeline, NEW k \in 1..Len(callbacks[q]),
                      k < cursor'[q], Wait(call[callbacks[q][k]]) = 0
               PROVE  callbacks[q][k] \in begun
    BY <1>1 DEF Visited
  <2>1. CASE q = p /\ k = cursor[p]
    BY <2>1, <1>5 DEF Current
  <2>2. CASE q # p
    BY <2>2, <1>4 DEF Visited
  <2>3. CASE q = p /\ k # cursor[p]
    <3>1. k \in Nat /\ k < cursor[p]
      BY <2>3, <1>4
    <3> QED BY <3>1, <2>3 DEF Visited
  <2> QED BY <2>1, <2>2, <2>3
<1>12. ThreadInv'
  <2>1. InPass(Async)' <=> InPass(Async)
    BY <1>4, <1>5, PipelineAssumption DEF InPass, AtTask
  <2> QED BY <2>1, <1>1 DEF ThreadInv
<1> QED BY <1>1, <1>2, <1>6, <1>7, <1>8, <1>9, <1>10, <1>11, <1>12

LEMMA EndStep ==
  ASSUME IInv, NEW p \in Pipeline, End(p)
  PROVE  IInv'
<1> USE DEF IInv, QInv
<1>1. /\ running[p] /\ Erase(p)
      /\ UNCHANGED <<new_callbacks, cursor, call, nextId, age, begun,
                     callback_of, thread, kill, joined, ready>>
  BY DEF End, Erase, taskVars, threadVars
<1>2. /\ callbacks' \in [Pipeline -> Seq(Id)]
      /\ running' \in [Pipeline -> BOOLEAN]
      /\ \A q \in Pipeline :
           /\ StrictlyAscending(callbacks'[q])
           /\ ToSet(callbacks'[q]) =
                ToSet(callbacks[q]) \ (IF q = p THEN {Current(p)} ELSE {})
      /\ \A q \in Pipeline : running'[q] = IF q = p THEN FALSE ELSE running[q]
      /\ \A q \in Pipeline : q # p => callbacks'[q] = callbacks[q]
      /\ Len(callbacks'[p]) = Len(callbacks[p]) - 1
      /\ \A k \in 1..Len(callbacks'[p]) : k < cursor[p] => callbacks'[p][k] = callbacks[p][k]
  BY <1>1, EraseEffect
<1>3. AtTask(p) /\ Current(p) \in begun
  BY <1>1 DEF CursorInv
<1>4. Added' = Added
  BY <1>1 DEF Added
<1>5. TypeOK'
  BY <1>1, <1>2 DEF TypeOK
<1>6. CursorInv'
  BY <1>1, <1>2 DEF CursorInv, AtTask, Current
<1>7. QueueIntegrity'
  BY <1>1, <1>2, <1>4 DEF QueueIntegrity
<1>8. \A i : Queued(i)' => Queued(i)
  BY <1>1, <1>2 DEF Queued
<1>9. \A i : Queued(i) /\ i # Current(p) => Queued(i)'
  BY <1>1, <1>2 DEF Queued
<1>10. Current(p) \in ToSet(callbacks[p])
  BY <1>3, ToSetMember DEF TypeOK, AtTask, Current
<1>11. ~\E q \in Pipeline : Current(p) \in ToSet(callbacks'[q]) \cup ToSet(new_callbacks'[q])
  <2> SUFFICES ASSUME NEW q \in Pipeline,
                      Current(p) \in ToSet(callbacks'[q]) \cup ToSet(new_callbacks'[q])
               PROVE  FALSE
    OBVIOUS
  <2>1. Home(call[Current(p)]) = p /\ Home(call[Current(p)]) = q
    BY <1>1, <1>2, <1>10 DEF QueueIntegrity
  <2>2. Current(p) \in ToSet(new_callbacks[p])
    BY <2>1, <1>1, <1>2
  <2>3. Current(p) < Current(p) /\ Current(p) \in Nat
    BY <2>2, <1>10, BoundAssumption DEF QueueIntegrity, Added, Id
  <2> QED BY <2>3
<1>12. OnceAtMostOnce'
  <2> SUFFICES ASSUME NEW i \in begun, call[i].form = "once", Queued(i)'
               PROVE  /\ running'[Home(call[i])]
                      /\ AtTask(Home(call[i]))' /\ Current(Home(call[i]))' = i
    BY <1>1 DEF OnceAtMostOnce
  <2>1. running[Home(call[i])] /\ AtTask(Home(call[i])) /\ Current(Home(call[i])) = i
    BY <1>8 DEF OnceAtMostOnce
  <2>2. i # Current(p)
    BY <1>11 DEF Queued
  <2>3. Home(call[i]) # p /\ Home(call[i]) \in Pipeline
    BY <2>1, <2>2, HomeType DEF TypeOK
  <2> QED BY <2>1, <2>3, <1>1, <1>2 DEF AtTask, Current
<1>13. NothingLost'
  BY <1>1, <1>3, <1>4, <1>9 DEF NothingLost
<1>14. Visited'
  <2> SUFFICES ASSUME NEW q \in Pipeline, NEW k \in 1..Len(callbacks'[q]),
                      k < cursor[q], Wait(call[callbacks'[q][k]]) = 0
               PROVE  callbacks'[q][k] \in begun
    BY <1>1 DEF Visited
  <2>1. CASE q = p
    <3>1. callbacks'[p][k] = callbacks[p][k]
      BY <2>1, <1>2
    <3>2. k \in 1..Len(callbacks[p])
      BY <2>1, <1>2, LenProperties DEF TypeOK
    <3> QED BY <2>1, <3>1, <3>2 DEF Visited
  <2>2. CASE q # p
    BY <2>2, <1>2 DEF Visited
  <2> QED BY <2>1, <2>2
<1>15. ThreadInv'
  BY <1>1 DEF ThreadInv, InPass
<1> QED BY <1>1, <1>4, <1>5, <1>6, <1>7, <1>12, <1>13, <1>14, <1>15

\* The callback of on_game_initialized enters its pipeline while the polling
\* task leaves the main one.
LEMMA GameInitializedStep ==
  ASSUME IInv, GameInitialized
  PROVE  IInv'
<1> USE DEF IInv, QInv
<1> DEFINE x == Current(Main)
           c == [call[x] EXCEPT !.form = "once"]
<1>0. Main \in Pipeline /\ running[Main] /\ Erase(Main) /\ schedule(c, 0)
  BY PipelineAssumption DEF GameInitialized
<1>1. AtTask(Main) /\ x \in begun /\ x \in Added /\ x \in Id
  BY <1>0 DEF CursorInv, Added
<1>2. c \in Call /\ c.form = "once" /\ 0 \in 0..MaxAge
  <2>1. call[x] \in Call
    BY <1>1 DEF TypeOK
  <2>2. \A r \in Call : [r EXCEPT !.form = "once"] \in Call
                         /\ [r EXCEPT !.form = "once"].form = "once"
    BY DEF Call, Form
  <2> QED BY <2>1, <2>2, BoundAssumption
<1>3. /\ nextId \in Id /\ nextId' = nextId + 1
      /\ call' = [call EXCEPT ![nextId] = c]
      /\ age' = [age EXCEPT ![nextId] = 0]
      /\ callback_of' = [callback_of EXCEPT ![x] = nextId]
      /\ UNCHANGED <<begun, cursor, thread, kill, joined, ready>>
  BY DEF GameInitialized, schedule, Erase, threadVars
<1>4. /\ new_callbacks' \in [Pipeline -> Seq(Id)]
      /\ \A q \in Pipeline :
           /\ StrictlyAscending(new_callbacks'[q])
           /\ ToSet(new_callbacks'[q]) =
                ToSet(new_callbacks[q]) \cup (IF q = Home(c) THEN {nextId} ELSE {})
  BY <1>0, <1>2, AddEffect
<1>5. /\ callbacks' \in [Pipeline -> Seq(Id)]
      /\ running' \in [Pipeline -> BOOLEAN]
      /\ \A q \in Pipeline :
           /\ StrictlyAscending(callbacks'[q])
           /\ ToSet(callbacks'[q]) =
                ToSet(callbacks[q]) \ (IF q = Main THEN {x} ELSE {})
      /\ \A q \in Pipeline : running'[q] = IF q = Main THEN FALSE ELSE running[q]
      /\ \A q \in Pipeline : q # Main => callbacks'[q] = callbacks[q]
      /\ Len(callbacks'[Main]) = Len(callbacks[Main]) - 1
      /\ \A k \in 1..Len(callbacks'[Main]) :
           k < cursor[Main] => callbacks'[Main][k] = callbacks[Main][k]
  BY <1>0, EraseEffect
<1> HIDE DEF x, c
<1>6. Added' = Added \cup {nextId} /\ nextId \notin Added /\ \A i \in Added : i < nextId
  BY <1>3, BoundAssumption DEF Added, Id
<1>7. (\A i \in Added : call'[i] = call[i]) /\ call'[nextId] = c
  BY <1>3, <1>6 DEF TypeOK
<1>8. TypeOK'
  <2>1. call' \in [Id -> Call] /\ age' \in [Id -> 0..MaxAge]
    BY <1>2, <1>3 DEF TypeOK
  <2>2. nextId' \in 1..MaxTasks + 1 /\ nextId \in 0..MaxTasks
    BY <1>3, BoundAssumption DEF Id
  <2>3. callback_of' \in [Id -> 0..MaxTasks]
    BY <2>2, <1>3 DEF TypeOK
  <2> QED BY <2>1, <2>2, <2>3, <1>3, <1>4, <1>5 DEF TypeOK
<1>9. CursorInv'
  BY <1>3, <1>5 DEF CursorInv, AtTask, Current
<1>10. \A q \in Pipeline : \A i \in ToSet(callbacks[q]) \cup ToSet(new_callbacks[q]) :
         i \in Added /\ Home(call[i]) = q
  BY DEF QueueIntegrity
<1>11. QueueIntegrity'
  <2> SUFFICES ASSUME NEW q \in Pipeline
               PROVE  /\ StrictlyAscending(callbacks'[q])
                      /\ StrictlyAscending(new_callbacks'[q])
                      /\ \A i \in ToSet(callbacks'[q]), j \in ToSet(new_callbacks'[q]) : i < j
                      /\ \A i \in ToSet(callbacks'[q]) \cup ToSet(new_callbacks'[q]) :
                           i \in Added' /\ Home(call'[i]) = q
    BY DEF QueueIntegrity
  <2>1. \A i \in ToSet(callbacks[q]), j \in ToSet(new_callbacks[q]) : i < j
    BY DEF QueueIntegrity
  <2>2. ToSet(callbacks'[q]) \subseteq ToSet(callbacks[q])
    BY <1>5
  <2> QED BY <2>1, <2>2, <1>4, <1>5, <1>6, <1>7, <1>10
<1>12. \A i \in Added : i # x => (Queued(i)' <=> Queued(i))
  BY <1>4, <1>5, <1>6 DEF Queued
<1>13. \A n : n = nextId => Queued(n)'
  <2>1. Home(c) \in Pipeline
    BY <1>2, HomeType
  <2>2. nextId \in ToSet(new_callbacks'[Home(c)])
    BY <2>1, <1>4
  <2> QED BY <2>1, <2>2 DEF Queued
<1>14. ~\E q \in Pipeline : x \in ToSet(callbacks'[q]) \cup ToSet(new_callbacks'[q])
  <2> SUFFICES ASSUME NEW q \in Pipeline,
                      x \in ToSet(callbacks'[q]) \cup ToSet(new_callbacks'[q])
               PROVE  FALSE
    OBVIOUS
  <2>1. x \in ToSet(callbacks[Main])
    BY <1>0, <1>1, ToSetMember DEF TypeOK, AtTask, Current, x
  <2>2. x # nextId
    BY <1>1, <1>6
  <2>3. x \in ToSet(callbacks[q]) \cup ToSet(new_callbacks[q])
    BY <2>2, <1>4, <1>5
  <2>4. q = Main
    BY <2>1, <2>3, <1>0, <1>10
  <2>5. x \in ToSet(new_callbacks[Main])
    BY <2>2, <2>4, <1>4, <1>5
  <2>6. x < x /\ x \in Nat
    BY <2>1, <2>5, <1>0, <1>1, BoundAssumption DEF QueueIntegrity, Id
  <2> QED BY <2>6
<1>15. OnceAtMostOnce'
  <2> SUFFICES ASSUME NEW i \in begun, call[i].form = "once", Queued(i)'
               PROVE  /\ running'[Home(call[i])]
                      /\ AtTask(Home(call[i]))' /\ Current(Home(call[i]))' = i
    BY <1>3, <1>7 DEF OnceAtMostOnce
  <2>1. i # x
    BY <1>14 DEF Queued
  <2>2. running[Home(call[i])] /\ AtTask(Home(call[i])) /\ Current(Home(call[i])) = i
    BY <2>1, <1>12 DEF OnceAtMostOnce
  <2>3. Home(call[i]) # Main /\ Home(call[i]) \in Pipeline
    BY <2>1, <2>2, HomeType DEF TypeOK, x
  <2>4. call'[i] = call[i]
    BY <1>7
  <2> QED BY <2>2, <2>3, <2>4, <1>3, <1>5 DEF AtTask, Current
<1>16. NothingLost'
  BY <1>1, <1>3, <1>6, <1>12, <1>13 DEF NothingLost
<1>17. Visited'
  <2> SUFFICES ASSUME NEW q \in Pipeline, NEW k \in 1..Len(callbacks'[q]),
                      k < cursor[q], Wait(call'[callbacks'[q][k]]) = 0
               PROVE  callbacks'[q][k] \in begun
    BY <1>3 DEF Visited
  <2>1. k \in 1..Len(callbacks[q]) /\ callbacks'[q][k] = callbacks[q][k]
    <3>1. CASE q = Main
      <4>1. Len(callbacks[Main]) \in Nat
        BY <1>0, LenProperties DEF TypeOK
      <4> QED BY <3>1, <4>1, <1>5
    <3>2. CASE q # Main
      BY <3>2, <1>5
    <3> QED BY <3>1, <3>2
  <2>2. callbacks[q][k] \in Added
    BY <2>1, <1>10, ToSetMember DEF TypeOK
  <2> QED BY <2>1, <2>2, <1>7 DEF Visited
<1>18. ThreadInv'
  BY <1>3 DEF ThreadInv, InPass
<1> QED BY <1>1, <1>3, <1>6, <1>8, <1>9, <1>11, <1>15, <1>16, <1>17, <1>18

\* A step that leaves the vectors, the tasks and the history alone.
LEMMA QueuesUntouched ==
  ASSUME QInv,
         UNCHANGED <<queueVars, call, nextId, begun>>
  PROVE  QInv'
BY DEF QInv, queueVars, CursorInv, QueueIntegrity, Added, OnceAtMostOnce, NothingLost,
       Visited, AtTask, Current, Queued

-----------------------------------------------------------------------------
(* The invariant holds initially and is preserved by every step.           *)

LEMMA InitInv == Init => IInv
<1> SUFFICES ASSUME Init PROVE IInv
  OBVIOUS
<1>1. /\ [form |-> "once", pipeline |-> Main, delay |-> 0] \in Call
      /\ <<>> \in Seq(Id) /\ 0 \in 0..MaxAge /\ 0 \in 0..MaxTasks
      /\ 1 \in 1..MaxTasks + 1
  BY PipelineAssumption, BoundAssumption, DelayAssumption DEF Call, Form
<1>2. TypeOK
  BY <1>1 DEF Init, TypeOK, Thread
<1>3. Added = {}
  BY BoundAssumption DEF Init, Added, Id
<1>4. \A p \in Pipeline : /\ callbacks[p] = <<>> /\ new_callbacks[p] = <<>>
                          /\ cursor[p] = 0 /\ running[p] = FALSE
  BY DEF Init
<1>5. StrictlyAscending(<<>>) /\ ToSet(<<>>) = {}
  BY DEF StrictlyAscending, ToSet
<1>6. begun = {}
  BY DEF Init
<1>7. QInv
  BY <1>3, <1>4, <1>5, <1>6 DEF QInv, CursorInv, QueueIntegrity, OnceAtMostOnce, NothingLost,
     Visited
<1>8. ThreadInv
  BY <1>4, PipelineAssumption DEF Init, ThreadInv, InPass
<1> QED BY <1>2, <1>7, <1>8 DEF IInv

LEMMA StepInv ==
  ASSUME IInv, [Next]_vars
  PROVE  IInv'
<1>1. ASSUME NEW c \in Requests, NEW a \in 0..MaxPreempt, Schedule(c, a)
      PROVE  IInv'
  BY <1>1, ScheduleStep
<1>2. ASSUME NEW p \in Pipeline, BeginFrame(p)
      PROVE  IInv'
  <2>1. BeginPass(p) /\ p # Async /\ UNCHANGED <<thread, kill, joined>>
    BY <1>2 DEF BeginFrame, threadVars
  <2>2. TypeOK' /\ QInv'
    BY <2>1, BeginPassStep DEF IInv, TypeOK
  <2>3. cursor'[Async] = cursor[Async]
    BY <2>1, PipelineAssumption DEF BeginPass, IInv, TypeOK
  <2>4. ThreadInv'
    BY <2>1, <2>3 DEF ThreadInv, InPass, IInv
  <2> QED BY <2>2, <2>4 DEF IInv
<1>3. ASSUME NEW p \in Pipeline, EndFrame(p)
      PROVE  IInv'
  <2>1. EndPass(p) /\ p # Async /\ UNCHANGED <<thread, kill, joined>>
    BY <1>3 DEF EndFrame, threadVars
  <2>2. TypeOK' /\ QInv'
    BY <2>1, EndPassStep DEF IInv, TypeOK
  <2>3. cursor'[Async] = cursor[Async]
    BY <2>1, PipelineAssumption DEF EndPass, IInv, TypeOK
  <2>4. ThreadInv'
    BY <2>1, <2>3 DEF ThreadInv, InPass, IInv
  <2> QED BY <2>2, <2>4 DEF IInv
<1>4. CASE AsyncBegin
  <2>1. /\ BeginPass(Async) /\ thread' = "executing" /\ thread' \in Thread
        /\ thread = "admitted" /\ UNCHANGED <<kill, joined>>
    BY <1>4 DEF AsyncBegin, Thread
  <2>2. TypeOK' /\ QInv'
    BY <2>1, BeginPassStep, PipelineAssumption
  <2>3. cursor'[Async] = 1
    BY <2>1, PipelineAssumption DEF BeginPass, IInv, TypeOK
  <2>4. ThreadInv'
    BY <2>1, <2>3 DEF ThreadInv, InPass, IInv
  <2> QED BY <2>2, <2>4 DEF IInv
<1>5. CASE AsyncEnd
  <2>1. /\ EndPass(Async) /\ thread' = "sleeping" /\ thread' \in Thread
        /\ thread = "executing" /\ UNCHANGED <<kill, joined>>
    BY <1>5 DEF AsyncEnd, Thread
  <2>2. TypeOK' /\ QInv'
    BY <2>1, EndPassStep, PipelineAssumption
  <2>3. cursor'[Async] = 0
    BY <2>1, PipelineAssumption DEF EndPass, IInv, TypeOK
  <2>4. ThreadInv'
    BY <2>1, <2>3 DEF ThreadInv, InPass, IInv
  <2> QED BY <2>2, <2>4 DEF IInv
<1>6. CASE PostStart \/ TestKill \/ Wake \/ PreDestroy \/ Join
  <2>1. UNCHANGED <<queueVars, call, nextId, begun, age, callback_of, ready>>
    BY <1>6 DEF PostStart, TestKill, Wake, PreDestroy, Join, taskVars
  <2>2. QInv'
    BY <2>1, QueuesUntouched DEF IInv
  <2>3. thread' \in Thread /\ kill' \in BOOLEAN /\ joined' \in BOOLEAN
    BY <1>6 DEF PostStart, TestKill, Wake, PreDestroy, Join, IInv, TypeOK, Thread
  <2>4. TypeOK'
    BY <2>1, <2>3 DEF IInv, TypeOK, queueVars
  <2>5. ThreadInv'
    BY <1>6, <2>1 DEF PostStart, TestKill, Wake, PreDestroy, Join, IInv, ThreadInv, InPass,
       queueVars
  <2> QED BY <2>2, <2>4, <2>5 DEF IInv
<1>7. CASE Tick
  <2>1. /\ UNCHANGED <<queueVars, call, nextId, begun, callback_of, thread, kill, joined, ready>>
        /\ age' = [i \in Id |-> IF Queued(i) THEN Older(age[i]) ELSE age[i]]
    BY <1>7 DEF Tick, threadVars
  <2>2. age' \in [Id -> 0..MaxAge]
    <3>1. \A a \in 0..MaxAge : Older(a) \in 0..MaxAge
      BY BoundAssumption DEF Older
    <3> QED BY <2>1, <3>1 DEF IInv, TypeOK
  <2>3. TypeOK'
    BY <2>1, <2>2 DEF IInv, TypeOK, queueVars
  <2>4. QInv' /\ ThreadInv'
    BY <2>1, QueuesUntouched DEF IInv, ThreadInv, InPass, queueVars
  <2> QED BY <2>3, <2>4 DEF IInv
<1>8. CASE GameReadiness
  <2>1. UNCHANGED <<queueVars, call, nextId, begun, age, callback_of, thread, kill, joined>>
    BY <1>8 DEF GameReadiness, taskVars, threadVars
  <2>2. ready' \in BOOLEAN
    BY <1>8 DEF GameReadiness
  <2>3. TypeOK'
    BY <2>1, <2>2 DEF IInv, TypeOK, queueVars
  <2>4. QInv' /\ ThreadInv'
    BY <2>1, QueuesUntouched DEF IInv, ThreadInv, InPass, queueVars
  <2> QED BY <2>3, <2>4 DEF IInv
<1>9. CASE UNCHANGED vars
  <2>1. UNCHANGED <<queueVars, call, nextId, begun, age, callback_of, thread, kill, joined, ready>>
    BY <1>9 DEF vars, taskVars, threadVars
  <2>2. TypeOK'
    BY <2>1 DEF IInv, TypeOK, queueVars
  <2>3. QInv' /\ ThreadInv'
    BY <2>1, QueuesUntouched DEF IInv, ThreadInv, InPass, queueVars
  <2> QED BY <2>2, <2>3 DEF IInv
<1>10. ASSUME NEW p \in Pipeline, Advance(p)
       PROVE  IInv'
  BY <1>2, <1>3, <1>10, SkipStep, CallHandlerStep, ContinueStep, EndStep DEF Advance
<1> QED
  BY <1>1, <1>4, <1>5, <1>6, <1>7, <1>8, <1>9, <1>10, GameInitializedStep
  DEF Next, AsyncThread

THEOREM Invariance == Spec => []IInv
<1>1. Init => IInv
  BY InitInv
<1>2. IInv /\ [Next]_vars => IInv'
  BY StepInv
<1> QED BY <1>1, <1>2, PTL DEF Spec

-----------------------------------------------------------------------------
(* What follows from the invariant.                                        *)

\* Every variable keeps its type.
THEOREM TypeCorrect == Spec => []TypeOK
BY Invariance, PTL DEF IInv

\* The vectors hold each live task once, in the order of the add calls.
THEOREM QueuesIntact == Spec => []QueueIntegrity
<1>1. IInv => QueueIntegrity
  BY DEF IInv, QInv
<1> QED BY <1>1, Invariance, PTL

\* A once handler is never called twice.
THEOREM OnceMeansOnce == Spec => []OnceAtMostOnce
<1>1. IInv => OnceAtMostOnce
  BY DEF IInv, QInv
<1> QED BY <1>1, Invariance, PTL

\* No task leaves the scheduler uncalled.
THEOREM NoTaskLost == Spec => []NothingLost
<1>1. IInv => NothingLost
  BY DEF IInv, QInv
<1> QED BY <1>1, Invariance, PTL

\* Tasks without delay are called in the order in which they were added.
THEOREM ImmediateTasksInOrder == Spec => []ImmediateInOrder
<1>1. IInv => ImmediateInOrder
  <2> SUFFICES ASSUME IInv, NEW p \in Pipeline, running[p], NEW i \in Added,
                      i < Current(p), Home(call[i]) = p, Wait(call[i]) = 0,
                      i \notin begun
               PROVE  FALSE
    BY DEF ImmediateInOrder
  <2> USE DEF IInv, QInv
  <2>1. cursor[p] \in 1..Len(callbacks[p]) /\ callbacks[p] \in Seq(Id)
    BY DEF CursorInv, AtTask, TypeOK
  <2>2. Current(p) \in ToSet(callbacks[p])
    BY <2>1, ToSetMember DEF Current
  <2>3. i \in Nat /\ Current(p) \in Nat
    BY <2>2, BoundAssumption DEF Added, Id, QueueIntegrity
  <2>4. i \in ToSet(callbacks[p]) \cup ToSet(new_callbacks[p])
    BY DEF NothingLost, Queued, QueueIntegrity
  <2>5. i \notin ToSet(new_callbacks[p])
    BY <2>2, <2>3 DEF QueueIntegrity
  <2>6. PICK k \in 1..Len(callbacks[p]) : callbacks[p][k] = i
    BY <2>1, <2>4, <2>5, ToSetMember
  <2>7. ~(cursor[p] < k) /\ k # cursor[p]
    BY <2>1, <2>3, <2>6 DEF QueueIntegrity, StrictlyAscending, Current
  <2>8. k < cursor[p]
    BY <2>1, <2>7, LenProperties
  <2> QED BY <2>6, <2>8 DEF Visited
<1> QED BY <1>1, Invariance, PTL

\* Nothing runs on the async pipeline once pre_destroy has returned.
THEOREM NoAsyncAfterJoin == Spec => []QuietAfterJoin
<1>1. IInv => QuietAfterJoin
  <2> SUFFICES ASSUME IInv, joined PROVE QuietAfterJoin
    BY DEF QuietAfterJoin
  <2>1. thread \in {"none", "exited"} /\ ~InPass(Async) /\ cursor[Async] \in Nat
    BY PipelineAssumption DEF IInv, ThreadInv, TypeOK
  <2>2. cursor[Async] = 0
    BY <2>1 DEF InPass
  <2>3. ~running[Async]
    BY <2>2, PipelineAssumption DEF IInv, QInv, CursorInv, AtTask
  <2> QED BY <2>1, <2>2, <2>3 DEF QuietAfterJoin
<1> QED BY <1>1, Invariance, PTL

-----------------------------------------------------------------------------
(* The scheduler implements DeferredCalls: each step of Scheduler, seen    *)
(* through the status of the tasks, is a step of the promise or leaves it  *)
(* unchanged.  The proof uses the inductive invariant before and after the *)
(* step.                                                                   *)

status == [i \in Id |-> Status(i)]

\* The promise reads requests as the scheduler does.
LEMMA SameReading ==
  /\ \A c : Promise!Home(c) = Home(c) /\ Promise!Wait(c) = Wait(c)
  /\ \A a : Promise!Older(a) = Older(a)
  /\ Promise!Call = Call
BY DEF Promise!Home, Home, Promise!Wait, Wait, Promise!Older, Older, Promise!Call, Call,
       Promise!Form, Form

\* A running task is queued on its own pipeline, and runs there only.
LEMMA ExecutingQueued ==
  ASSUME IInv, NEW i, Executing(i)
  PROVE  /\ Queued(i) /\ i \in Added /\ i \in begun
         /\ Home(call[i]) \in Pipeline /\ running[Home(call[i])]
         /\ AtTask(Home(call[i])) /\ Current(Home(call[i])) = i
<1> USE DEF IInv, QInv
<1>1. PICK p \in Pipeline : running[p] /\ AtTask(p) /\ Current(p) = i
  BY DEF Executing
<1>2. i \in ToSet(callbacks[p])
  BY <1>1, ToSetMember DEF TypeOK, AtTask, Current
<1>3. i \in Added /\ Home(call[i]) = p
  BY <1>2 DEF QueueIntegrity
<1> QED BY <1>1, <1>2, <1>3 DEF Queued, CursorInv

\* Queued tasks have been added.
LEMMA QueuedAdded ==
  ASSUME IInv, NEW i, Queued(i)
  PROVE  i \in Added
BY DEF IInv, QInv, QueueIntegrity, Queued

\* A step that changes neither the tasks nor who is queued and running.
LEMMA Stutter ==
  ASSUME UNCHANGED <<call, age, nextId>>,
         \A i \in Id : (Queued(i)' <=> Queued(i)) /\ (Executing(i)' <=> Executing(i))
  PROVE  UNCHANGED Promise!vars
<1>1. Added' = Added
  BY DEF Added
<1>2. \A i \in Id : Status(i)' = Status(i)
  BY <1>1 DEF Status
<1>3. [i \in Id |-> Status(i)]' = [i \in Id |-> Status(i)]
  BY <1>2
<1> QED BY <1>3 DEF Promise!vars

LEMMA RefInit == Init => Promise!Init
<1> SUFFICES ASSUME Init PROVE Promise!Init
  OBVIOUS
<1>1. \A i \in Id : Status(i) = "unused"
  BY BoundAssumption DEF Init, Status, Added, Id
<1>2. call \in [Id -> Call]
  BY InitInv DEF IInv, TypeOK
<1> QED BY <1>1, <1>2, SameReading DEF Promise!Init, Init

LEMMA RefSchedule ==
  ASSUME IInv, IInv', NEW c \in Requests, NEW a \in 0..MaxPreempt, Schedule(c, a)
  PROVE  Promise!Next
<1>0. c \in Call /\ a \in 0..MaxAge
  BY RequestsAssumption, DelayAssumption, BoundAssumption
<1>1. /\ nextId \in Id /\ nextId' = nextId + 1
      /\ call' = [call EXCEPT ![nextId] = c]
      /\ age' = [age EXCEPT ![nextId] = a]
      /\ UNCHANGED <<begun, callbacks, cursor, running>>
  BY DEF Schedule, schedule
<1>2. \A q \in Pipeline : ToSet(new_callbacks'[q]) =
                ToSet(new_callbacks[q]) \cup (IF q = Home(c) THEN {nextId} ELSE {})
  BY <1>0, AddEffect DEF Schedule, IInv, QInv
<1>3. Added' = Added \cup {nextId} /\ nextId \notin Added
  BY <1>1, BoundAssumption DEF Added, Id
<1>4. \A i \in Id : i # nextId => (Queued(i)' <=> Queued(i))
  BY <1>1, <1>2 DEF Queued
<1>5. \A i \in Id : Executing(i)' <=> Executing(i)
  BY <1>1 DEF Executing, AtTask, Current
<1>6. \A i \in Id : i # nextId => Status(i)' = Status(i)
  BY <1>3, <1>4, <1>5 DEF Status
<1>7. \A i \in Id : i = nextId => Status(i) = "unused" /\ Status(i)' = "pending"
  <2> SUFFICES ASSUME NEW i \in Id, i = nextId
               PROVE  Status(i) = "unused" /\ Status(i)' = "pending"
    OBVIOUS
  <2>1. i \notin Added /\ i \in Added' /\ i \notin begun'
    BY <1>1, <1>3 DEF IInv, QInv
  <2>2. Queued(i)'
    BY <2>1 DEF IInv, QInv, NothingLost
  <2>3. ~Executing(i)'
    BY <2>1, <1>5, ExecutingQueued
  <2> QED BY <2>1, <2>2, <2>3 DEF Status
<1>8. status[nextId] = "unused" /\ status' = [status EXCEPT ![nextId] = "pending"]
  BY <1>1, <1>6, <1>7 DEF status
<1>9. Promise!Submit(nextId)
  BY <1>0, <1>1, <1>8, SameReading DEF Promise!Submit, status
<1> QED BY <1>1, <1>9 DEF Promise!Next

LEMMA RefBeginPass ==
  ASSUME IInv, NEW p \in Pipeline, BeginPass(p)
  PROVE  UNCHANGED Promise!vars
<1>1. /\ UNCHANGED <<call, age, nextId, running>> /\ ~InPass(p)
      /\ cursor' = [cursor EXCEPT ![p] = 1] /\ cursor \in [Pipeline -> Nat]
  BY DEF BeginPass, taskVars, IInv, TypeOK
<1>2. /\ \A q \in Pipeline :
           /\ ToSet(new_callbacks'[q]) = IF q = p THEN {} ELSE ToSet(new_callbacks[q])
           /\ ToSet(callbacks'[q]) =
                ToSet(callbacks[q]) \cup (IF q = p THEN ToSet(new_callbacks[q]) ELSE {})
      /\ \A q \in Pipeline : q # p => callbacks'[q] = callbacks[q]
  BY MergeEffect DEF IInv, QInv
<1>3. ~running[p]
  BY <1>1 DEF IInv, QInv, CursorInv, AtTask, InPass
<1>4. \A q \in Pipeline : q # p => cursor'[q] = cursor[q]
  BY <1>1
<1>5. \A i \in Id : Queued(i)' <=> Queued(i)
  BY <1>2 DEF Queued
<1>6. \A i \in Id : Executing(i)' <=> Executing(i)
  BY <1>1, <1>2, <1>3, <1>4 DEF Executing, AtTask, Current
<1> QED BY <1>1, <1>5, <1>6, Stutter

\* Moving the iterator of a pipeline that runs no handler.
LEMMA RefMove ==
  ASSUME IInv, NEW p \in Pipeline, Skip(p) \/ EndPass(p)
  PROVE  UNCHANGED Promise!vars
<1>1. /\ UNCHANGED <<call, age, nextId, running, callbacks, new_callbacks>>
      /\ \A q \in Pipeline : q # p => cursor'[q] = cursor[q]
      /\ ~running[p]
  BY DEF Skip, EndPass, taskVars, IInv, TypeOK, QInv, CursorInv
<1>2. \A i \in Id : Queued(i)' <=> Queued(i)
  BY <1>1 DEF Queued
<1>3. \A i \in Id : Executing(i)' <=> Executing(i)
  BY <1>1 DEF Executing, AtTask, Current
<1> QED BY <1>1, <1>2, <1>3, Stutter

LEMMA RefCallHandler ==
  ASSUME IInv, IInv', NEW p \in Pipeline, CallHandler(p)
  PROVE  Promise!Next
<1> DEFINE x == Current(p)
<1>1. /\ UNCHANGED <<call, nextId, cursor, callbacks, new_callbacks>>
      /\ running' = [running EXCEPT ![p] = TRUE] /\ running \in [Pipeline -> BOOLEAN]
      /\ age' = [age EXCEPT ![x] = 0]
      /\ AtTask(p) /\ ~running[p] /\ Due(x)
  BY DEF CallHandler, IInv, TypeOK
<1>2. running'[p] = TRUE /\ \A q \in Pipeline : q # p => running'[q] = running[q]
  BY <1>1, Zenon
<1>3. x \in ToSet(callbacks[p])
  BY <1>1, ToSetMember DEF IInv, TypeOK, AtTask, Current
<1>4. x \in Added /\ x \in Id /\ Home(call[x]) = p /\ Queued(x)
  BY <1>3 DEF IInv, QInv, QueueIntegrity, Added, Queued
<1> HIDE DEF x
<1>5. Added' = Added /\ \A i \in Id : Queued(i)' <=> Queued(i)
  BY <1>1 DEF Added, Queued
<1>6. ~Executing(x)
  BY <1>1, <1>4, ExecutingQueued
<1>7. \A i \in Id : i = x => Executing(i)'
  BY <1>1, <1>2 DEF Executing, AtTask, Current, x
<1>8. \A i \in Id : i # x => (Executing(i)' <=> Executing(i))
  BY <1>1, <1>2 DEF Executing, AtTask, Current, x
<1>9. \A i \in Id : i # x => Status(i)' = Status(i)
  BY <1>5, <1>8 DEF Status
<1>10. \A i \in Id : i = x => Status(i) = "pending" /\ Status(i)' = "running"
  BY <1>4, <1>5, <1>6, <1>7 DEF Status
<1>11. status[x] = "pending" /\ status' = [status EXCEPT ![x] = "running"]
  BY <1>4, <1>9, <1>10 DEF status
<1>12. \A j \in Id : status[j] = "running" => Home(call[j]) # Home(call[x])
  <2> SUFFICES ASSUME NEW j \in Id, status[j] = "running", Home(call[j]) = p
               PROVE  FALSE
    BY <1>4
  <2>1. Executing(j)
    BY DEF status, Status
  <2> QED BY <2>1, <1>1, ExecutingQueued
<1>13. Promise!Fire(x)
  BY <1>1, <1>11, <1>12, SameReading DEF Promise!Fire, status, Due
<1> QED BY <1>4, <1>13 DEF Promise!Next

LEMMA RefContinue ==
  ASSUME IInv, IInv', NEW p \in Pipeline, Continue(p)
  PROVE  Promise!Next
<1> DEFINE x == Current(p)
<1>1. /\ UNCHANGED <<call, nextId, age, callbacks, new_callbacks>>
      /\ running' = [running EXCEPT ![p] = FALSE] /\ running \in [Pipeline -> BOOLEAN]
      /\ cursor' = [cursor EXCEPT ![p] = cursor[p] + 1] /\ cursor \in [Pipeline -> Nat]
      /\ running[p] /\ call[x].form # "once"
  BY DEF Continue, taskVars, IInv, TypeOK
<1>2. /\ running'[p] = FALSE
      /\ \A q \in Pipeline : q # p => running'[q] = running[q] /\ cursor'[q] = cursor[q]
  BY <1>1, Zenon
<1>3. AtTask(p) /\ x \in begun
  BY <1>1 DEF IInv, QInv, CursorInv
<1>4. Executing(x)
  BY <1>1, <1>3 DEF Executing
<1> HIDE DEF x
<1>5. x \in Added /\ x \in Id /\ Queued(x) /\ Home(call[x]) \in Pipeline
      /\ running[Home(call[x])] /\ Current(Home(call[x])) = x
  BY <1>4, ExecutingQueued DEF Added
<1>6. Added' = Added /\ \A i \in Id : Queued(i)' <=> Queued(i)
  BY <1>1 DEF Added, Queued
<1>7. Home(call[x]) = p
  <2>1. x \in ToSet(callbacks[p])
    BY <1>3, ToSetMember DEF IInv, TypeOK, AtTask, Current, x
  <2> QED BY <2>1 DEF IInv, QInv, QueueIntegrity
<1>8. \A i \in Id : i # x => (Executing(i)' <=> Executing(i))
  BY <1>1, <1>2 DEF Executing, AtTask, Current, x
<1>9. \A i \in Id : i = x => ~Executing(i)'
  <2> SUFFICES ASSUME NEW q \in Pipeline, running'[q], AtTask(q)', callbacks'[q][cursor'[q]] = x
               PROVE  FALSE
    BY DEF Executing, Current
  <2>1. q # p
    BY <1>2
  <2>2. x \in ToSet(callbacks[q])
    BY <2>1, <1>1, <1>2, ToSetMember DEF IInv, TypeOK, AtTask
  <2>3. Home(call[x]) = q
    BY <2>2 DEF IInv, QInv, QueueIntegrity
  <2> QED BY <2>1, <2>3, <1>7
<1>10. \A i \in Id : i # x => Status(i)' = Status(i)
  BY <1>6, <1>8 DEF Status
<1>11. \A i \in Id : i = x => Status(i) = "running" /\ Status(i)' = "pending"
  BY <1>4, <1>5, <1>6, <1>9 DEF Status
<1>12. status[x] = "running" /\ status' = [status EXCEPT ![x] = "pending"]
  BY <1>5, <1>10, <1>11 DEF status
<1>13. Promise!Repeat(x)
  BY <1>1, <1>12 DEF Promise!Repeat, status, x
<1> QED BY <1>5, <1>13 DEF Promise!Next

\* Erasing the task that runs: it is finished, nobody else is concerned.
LEMMA EraseStatus ==
  ASSUME IInv, NEW p \in Pipeline, running[p], Erase(p)
  PROVE  LET x == Current(p) IN
         /\ x \in Added /\ x \in Id /\ Executing(x)
         /\ ~\E q \in Pipeline : x \in ToSet(callbacks'[q]) \cup ToSet(new_callbacks[q])
         /\ \A i \in Id : i # x =>
              \A q \in Pipeline : i \in ToSet(callbacks'[q]) <=> i \in ToSet(callbacks[q])
         /\ \A i \in Id : Executing(i)' <=> Executing(i) /\ i # x
<1> DEFINE x == Current(p)
<1>1. /\ \A q \in Pipeline : ToSet(callbacks'[q]) =
           ToSet(callbacks[q]) \ (IF q = p THEN {x} ELSE {})
      /\ \A q \in Pipeline : running'[q] = IF q = p THEN FALSE ELSE running[q]
      /\ \A q \in Pipeline : q # p => callbacks'[q] = callbacks[q]
      /\ cursor' = cursor
  BY EraseEffect DEF IInv, QInv, Erase
<1>2. AtTask(p) /\ x \in begun
  BY DEF IInv, QInv, CursorInv
<1>3. Executing(x)
  BY <1>2 DEF Executing
<1>4. x \in Added /\ x \in Id
  BY <1>3, ExecutingQueued DEF Added
<1>5. x \in ToSet(callbacks[p])
  BY <1>2, ToSetMember DEF IInv, TypeOK, AtTask, Current
<1>6. Home(call[x]) = p
  BY <1>5 DEF IInv, QInv, QueueIntegrity
<1> HIDE DEF x
<1>7. ~\E q \in Pipeline : x \in ToSet(callbacks'[q]) \cup ToSet(new_callbacks[q])
  <2> SUFFICES ASSUME NEW q \in Pipeline, x \in ToSet(callbacks'[q]) \cup ToSet(new_callbacks[q])
               PROVE  FALSE
    OBVIOUS
  <2>1. q = p
    BY <1>1, <1>6 DEF IInv, QInv, QueueIntegrity
  <2>2. x \in ToSet(new_callbacks[p])
    BY <2>1, <1>1
  <2>3. x < x /\ x \in Nat
    BY <2>2, <1>4, <1>5, BoundAssumption DEF IInv, QInv, QueueIntegrity, Id
  <2> QED BY <2>3
<1>8. \A i \in Id : i # x =>
        \A q \in Pipeline : i \in ToSet(callbacks'[q]) <=> i \in ToSet(callbacks[q])
  BY <1>1
<1>9. ASSUME NEW i \in Id
      PROVE  Executing(i)' <=> Executing(i) /\ i # x
  <2>1. ASSUME Executing(i)'
        PROVE  Executing(i) /\ i # x
    <3>1. PICK q \in Pipeline : running'[q] /\ AtTask(q)' /\ callbacks'[q][cursor'[q]] = i
      BY <2>1 DEF Executing, Current
    <3>2. q # p /\ running[q]
      BY <3>1, <1>1
    <3>3. AtTask(q) /\ Current(q) = i
      BY <3>1, <3>2, <1>1 DEF AtTask, Current
    <3>4. i \in ToSet(callbacks[q])
      BY <3>3, ToSetMember DEF IInv, TypeOK, AtTask, Current
    <3>5. Home(call[i]) = q
      BY <3>4 DEF IInv, QInv, QueueIntegrity
    <3> QED BY <3>2, <3>3, <3>5, <1>6 DEF Executing
  <2>2. ASSUME Executing(i), i # x
        PROVE  Executing(i)'
    <3>1. PICK q \in Pipeline : running[q] /\ AtTask(q) /\ Current(q) = i
      BY <2>2 DEF Executing
    <3>2. q # p
      BY <2>2, <3>1 DEF x
    <3> QED BY <3>1, <3>2, <1>1 DEF Executing, AtTask, Current
  <2> QED BY <2>1, <2>2
<1> QED BY <1>3, <1>4, <1>7, <1>8, <1>9 DEF x

LEMMA RefEnd ==
  ASSUME IInv, IInv', NEW p \in Pipeline, End(p)
  PROVE  Promise!Next
<1> DEFINE x == Current(p)
<1>1. /\ UNCHANGED <<call, nextId, age, new_callbacks>>
      /\ running[p] /\ Erase(p) /\ call[x].form \in {"once", "schedule"}
  BY DEF End, taskVars
<1>2. /\ x \in Added /\ x \in Id /\ Executing(x)
      /\ ~\E q \in Pipeline : x \in ToSet(callbacks'[q]) \cup ToSet(new_callbacks[q])
      /\ \A i \in Id : i # x =>
           \A q \in Pipeline : i \in ToSet(callbacks'[q]) <=> i \in ToSet(callbacks[q])
      /\ \A i \in Id : Executing(i)' <=> Executing(i) /\ i # x
  BY <1>1, EraseStatus
<1> HIDE DEF x
<1>3. Added' = Added
  BY <1>1 DEF Added
<1>4. \A i \in Id : i # x => Status(i)' = Status(i)
  BY <1>1, <1>2, <1>3 DEF Status, Queued
<1>5. \A i \in Id : i = x => Status(i) = "running" /\ Status(i)' = "finished"
  BY <1>1, <1>2, <1>3 DEF Status, Queued
<1>6. status[x] = "running" /\ status' = [status EXCEPT ![x] = "finished"]
  BY <1>2, <1>4, <1>5 DEF status
<1>7. Promise!Finish(x)
  BY <1>1, <1>6 DEF Promise!Finish, status, x
<1> QED BY <1>2, <1>7 DEF Promise!Next

LEMMA RefGameInitialized ==
  ASSUME IInv, IInv', GameInitialized
  PROVE  Promise!Next
<1> DEFINE x == Current(Main)
           c == [call[x] EXCEPT !.form = "once"]
<1>0. Main \in Pipeline /\ running[Main] /\ Erase(Main) /\ schedule(c, 0)
      /\ call[x].form = "on_game_initialized" /\ begun' = begun
  BY PipelineAssumption DEF GameInitialized
<1>1. /\ x \in Added /\ x \in Id /\ Executing(x)
      /\ ~\E q \in Pipeline : x \in ToSet(callbacks'[q]) \cup ToSet(new_callbacks[q])
      /\ \A i \in Id : i # x =>
           \A q \in Pipeline : i \in ToSet(callbacks'[q]) <=> i \in ToSet(callbacks[q])
      /\ \A i \in Id : Executing(i)' <=> Executing(i) /\ i # x
  BY <1>0, EraseStatus
<1>2. c \in Call /\ 0 \in 0..MaxAge
  <2>1. call[x] \in Call
    BY <1>1 DEF IInv, TypeOK
  <2>2. \A r \in Call : [r EXCEPT !.form = "once"] \in Call
    BY DEF Call, Form
  <2> QED BY <2>1, <2>2, BoundAssumption
<1>3. /\ nextId \in Id /\ nextId' = nextId + 1
      /\ call' = [call EXCEPT ![nextId] = c]
      /\ age' = [age EXCEPT ![nextId] = 0]
  BY <1>0 DEF schedule
<1>4. \A q \in Pipeline : ToSet(new_callbacks'[q]) =
                ToSet(new_callbacks[q]) \cup (IF q = Home(c) THEN {nextId} ELSE {})
  BY <1>0, <1>2, AddEffect DEF IInv, QInv
<1> HIDE DEF x
<1>5. Added' = Added \cup {nextId} /\ nextId \notin Added /\ nextId # x
  BY <1>1, <1>3, BoundAssumption DEF Added, Id
<1>6. \A i \in Id : i # x /\ i # nextId => Status(i)' = Status(i)
  BY <1>1, <1>4, <1>5 DEF Status, Queued
<1>7. \A i \in Id : i = x => Status(i) = "running" /\ Status(i)' = "finished"
  BY <1>1, <1>4, <1>5 DEF Status, Queued
<1>8. \A i \in Id : i = nextId => Status(i) = "unused" /\ Status(i)' = "pending"
  <2> SUFFICES ASSUME NEW i \in Id, i = nextId
               PROVE  Status(i) = "unused" /\ Status(i)' = "pending"
    OBVIOUS
  <2>1. i \notin Added /\ i \in Added' /\ i \notin begun'
    BY <1>0, <1>5 DEF IInv, QInv
  <2>2. Queued(i)'
    BY <2>1 DEF IInv, QInv, NothingLost
  <2>3. ~Executing(i)'
    BY <2>1, <1>1, ExecutingQueued
  <2> QED BY <2>1, <2>2, <2>3 DEF Status
<1>9. /\ status[x] = "running" /\ status[nextId] = "unused"
      /\ status' = [status EXCEPT ![x] = "finished", ![nextId] = "pending"]
  <2>1. status' = [i \in Id |-> Status(i)'] /\ status = [i \in Id |-> Status(i)]
    BY DEF status
  <2> QED BY <2>1, <1>1, <1>3, <1>5, <1>6, <1>7, <1>8
<1>10. Promise!HandOver(x, nextId)
  BY <1>0, <1>3, <1>9 DEF Promise!HandOver, status, x
<1> QED BY <1>1, <1>3, <1>10 DEF Promise!Next

LEMMA RefTick ==
  ASSUME IInv, Tick
  PROVE  Promise!Next
<1>1. /\ UNCHANGED <<call, nextId, callbacks, new_callbacks, cursor, running>>
      /\ age' = [i \in Id |-> IF Queued(i) THEN Older(age[i]) ELSE age[i]]
  BY DEF Tick, queueVars
<1>2. Added' = Added /\ \A i \in Id : /\ Queued(i)' <=> Queued(i)
                                      /\ Executing(i)' <=> Executing(i)
  BY <1>1 DEF Added, Queued, Executing, AtTask, Current
<1>3. \A i \in Id : Status(i)' = Status(i)
  BY <1>2 DEF Status
<1>4. [i \in Id |-> Status(i)]' = [i \in Id |-> Status(i)]
  BY <1>3
<1>5. \A i \in Id : Queued(i) <=> Status(i) \in {"pending", "running"}
  BY ExecutingQueued, QueuedAdded DEF Status
<1>6. Promise!Tick
  BY <1>1, <1>4, <1>5, SameReading DEF Promise!Tick
<1> QED BY <1>6 DEF Promise!Next

\* Steps of the thread, the shutdown and the game do not touch the tasks.
LEMMA RefElse ==
  ASSUME UNCHANGED <<queueVars, taskVars>>
  PROVE  UNCHANGED Promise!vars
<1>1. \A i \in Id : (Queued(i)' <=> Queued(i)) /\ (Executing(i)' <=> Executing(i))
  BY DEF queueVars, Queued, Executing, AtTask, Current
<1> QED BY <1>1, Stutter DEF taskVars

LEMMA RefNext ==
  ASSUME IInv, IInv', [Next]_vars
  PROVE  [Promise!Next]_(Promise!vars)
<1>1. ASSUME NEW c \in Requests, NEW a \in 0..MaxPreempt, Schedule(c, a)
      PROVE  Promise!Next
  BY <1>1, RefSchedule
<1>2. ASSUME NEW p \in Pipeline, Advance(p)
      PROVE  Promise!Next \/ UNCHANGED Promise!vars
  <2>1. CASE BeginFrame(p)
    BY <2>1, RefBeginPass DEF BeginFrame
  <2>2. CASE Skip(p) \/ EndFrame(p)
    BY <2>2, RefMove DEF EndFrame
  <2>3. CASE CallHandler(p)
    BY <2>3, RefCallHandler
  <2>4. CASE Continue(p)
    BY <2>4, RefContinue
  <2>5. CASE End(p)
    BY <2>5, RefEnd
  <2> QED BY <1>2, <2>1, <2>2, <2>3, <2>4, <2>5 DEF Advance
<1>3. CASE AsyncBegin
  BY <1>3, RefBeginPass, PipelineAssumption DEF AsyncBegin
<1>4. CASE AsyncEnd
  BY <1>4, RefMove, PipelineAssumption DEF AsyncEnd
<1>5. CASE PostStart \/ TestKill \/ Wake \/ PreDestroy \/ Join \/ GameReadiness \/ UNCHANGED vars
  <2>1. UNCHANGED <<queueVars, taskVars>>
    BY <1>5 DEF PostStart, TestKill, Wake, PreDestroy, Join, GameReadiness, vars
  <2> QED BY <2>1, RefElse
<1> QED
  BY <1>1, <1>2, <1>3, <1>4, <1>5, RefGameInitialized, RefTick DEF Next, AsyncThread

\* The scheduler keeps the promise of DeferredCalls.
THEOREM Refinement == Spec => ImplementsPromise
<1>1. Init => Promise!Init
  BY RefInit
<1>2. IInv /\ IInv' /\ [Next]_vars => [Promise!Next]_(Promise!vars)
  BY RefNext
<1> QED BY <1>1, <1>2, Invariance, PTL DEF Spec, ImplementsPromise, Promise!Spec
=============================================================================

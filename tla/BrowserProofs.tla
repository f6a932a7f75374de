--------------------------- MODULE BrowserProofs ---------------------------
(***************************************************************************)
(* Theorems of Browser: the server list takes every server once between    *)
(* two refreshes, what a frame draws exists and is sorted, and only answers *)
(* to the newest connect() call connect, once each.                        *)
(***************************************************************************)
EXTENDS Browser, SequenceLemmas, FiniteSetTheorems

-----------------------------------------------------------------------------
(* sort_serverlist sorts: the order of the lines is total, so ranks are    *)
(* positions.                                                              *)

\* Line j comes before line k in the sorted list, or is line k.
Ahead(list, j, k) ==
  \/ Before(list[j], list[k])
  \/ j <= k /\ ~Before(list[k], list[j])

\* More players, then the shorter ping, then the older line: a total order.
LEMMA AheadTotal ==
  ASSUME NEW list \in Seq(Server)
  PROVE  /\ \A k \in DOMAIN list : Ahead(list, k, k)
         /\ \A j, k \in DOMAIN list : Ahead(list, j, k) \/ Ahead(list, k, j)
         /\ \A j, k \in DOMAIN list :
              Ahead(list, j, k) /\ Ahead(list, k, j) => j = k
         /\ \A i, j, k \in DOMAIN list :
              Ahead(list, i, j) /\ Ahead(list, j, k) => Ahead(list, i, k)
<1>1. ASSUME NEW k \in DOMAIN list
      PROVE  list[k].players \in Int /\ list[k].ping \in Int /\ k \in Int
  <2>1. list[k] \in Server /\ k \in 1..Len(list)
    OBVIOUS
  <2>2. list[k].players \in Nat /\ list[k].ping \in 0..Timeout + 1
    BY <2>1 DEF Server
  <2>3. Timeout + 1 \in Int
    BY ServerListAssumption
  <2> QED
    BY <2>1, <2>2, <2>3
<1>2. \A k \in DOMAIN list : Ahead(list, k, k)
  BY <1>1 DEF Ahead, Before
<1>3. \A j, k \in DOMAIN list : Ahead(list, j, k) \/ Ahead(list, k, j)
  BY <1>1 DEF Ahead, Before
<1>4. \A j, k \in DOMAIN list : Ahead(list, j, k) /\ Ahead(list, k, j) => j = k
  BY <1>1 DEF Ahead, Before
<1>5. \A i, j, k \in DOMAIN list :
        Ahead(list, i, j) /\ Ahead(list, j, k) => Ahead(list, i, k)
  BY <1>1 DEF Ahead, Before
<1> QED
  BY <1>2, <1>3, <1>4, <1>5

\* The first n numbers are n numbers.
LEMMA FirstNumbers ==
  ASSUME NEW n \in Nat
  PROVE  IsFiniteSet(1..n) /\ Cardinality(1..n) = n
<1>1. IsFiniteSet(1..n) /\ Cardinality(1..n) = IF 1 > n THEN 0 ELSE n - 1 + 1
  BY FS_Interval
<1>2. (IF 1 > n THEN 0 ELSE n - 1 + 1) = n
  OBVIOUS
<1> QED
  BY <1>1, <1>2

\* The lines ahead of a line; their number is its rank.
LinesAhead(list, k) == {j \in DOMAIN list : Ahead(list, j, k)}

LEMMA RankCounts ==
  ASSUME NEW list \in Seq(Server), NEW k \in DOMAIN list
  PROVE  /\ Rank(list, k) = Cardinality(LinesAhead(list, k))
         /\ IsFiniteSet(LinesAhead(list, k))
         /\ Rank(list, k) \in 1..Len(list)
<1> DEFINE L == LinesAhead(list, k)
<1>1. Rank(list, k) = Cardinality(L)
  BY DEF Rank, LinesAhead, Ahead
<1>2. DOMAIN list = 1..Len(list) /\ Len(list) \in Nat
  OBVIOUS
<1>3. IsFiniteSet(1..Len(list)) /\ Cardinality(1..Len(list)) = Len(list)
  BY <1>2, FirstNumbers
<1>4. L \in SUBSET (1..Len(list))
  BY <1>2 DEF LinesAhead
<1>5. IsFiniteSet(L) /\ Cardinality(L) <= Len(list)
  BY <1>3, <1>4, FS_Subset
<1>6. k \in L
  BY AheadTotal DEF LinesAhead
<1>7. Cardinality(L) \in Nat /\ Cardinality(L) # 0
  BY <1>5, <1>6, FS_CardinalityType, FS_EmptySet
<1> QED
  BY <1>1, <1>2, <1>5, <1>7

\* The line that comes first has the lower rank.
LEMMA RankOrders ==
  ASSUME NEW list \in Seq(Server), NEW j \in DOMAIN list, NEW k \in DOMAIN list,
         Ahead(list, j, k), j # k
  PROVE  Rank(list, j) < Rank(list, k)
<1>1. LinesAhead(list, j) \in SUBSET LinesAhead(list, k)
  BY AheadTotal DEF LinesAhead
<1>2. k \in LinesAhead(list, k) /\ k \notin LinesAhead(list, j)
  BY AheadTotal DEF LinesAhead
<1>3. Cardinality(LinesAhead(list, j)) <= Cardinality(LinesAhead(list, k))
  BY <1>1, RankCounts, FS_Subset
<1>4. Cardinality(LinesAhead(list, j)) # Cardinality(LinesAhead(list, k))
  BY <1>1, <1>2, RankCounts, FS_Subset
<1>5. /\ Rank(list, j) = Cardinality(LinesAhead(list, j))
      /\ Rank(list, k) = Cardinality(LinesAhead(list, k))
      /\ Rank(list, j) \in 1..Len(list)
      /\ Rank(list, k) \in 1..Len(list)
  BY RankCounts
<1>6. Len(list) \in Nat
  OBVIOUS
<1> QED
  BY <1>3, <1>4, <1>5, <1>6

\* Every position is the rank of one line.
LEMMA RankOnto ==
  ASSUME NEW list \in Seq(Server), NEW n \in DOMAIN list
  PROVE  \E k \in DOMAIN list : Rank(list, k) = n
<1> DEFINE D == 1..Len(list)
           f == [k \in D |-> Rank(list, k)]
<1>1. DOMAIN list = D /\ Len(list) \in Nat
  OBVIOUS
<1>2. f \in [D -> D]
  BY <1>1, RankCounts
<1>3. ASSUME NEW j \in D, NEW k \in D, f[j] = f[k]
      PROVE  j = k
  <2>1. Rank(list, j) = Rank(list, k) /\ Rank(list, j) \in D /\ Rank(list, k) \in D
    BY <1>1, <1>3, RankCounts
  <2>2. ~(Rank(list, j) < Rank(list, k)) /\ ~(Rank(list, k) < Rank(list, j))
    BY <1>1, <2>1
  <2>3. Ahead(list, j, k) \/ Ahead(list, k, j)
    BY <1>1, AheadTotal
  <2> QED
    BY <1>1, <2>2, <2>3, RankOrders
<1>4. f \in Injection(D, D)
  BY <1>2, <1>3 DEF Injection, IsInjective
<1>5. IsFiniteSet(D)
  BY <1>1, FirstNumbers
<1>6. f \in Surjection(D, D)
  BY <1>4, <1>5, FS_Injection
<1>7. \E k \in D : f[k] = n
  BY <1>1, <1>6 DEF Surjection
<1> QED
  BY <1>1, <1>7

\* p lists every line of list once.
Rearranges(p, list) ==
  /\ p \in [DOMAIN list -> DOMAIN list]
  /\ \A m, n \in DOMAIN list : p[m] = p[n] => m = n
  /\ \A k \in DOMAIN list : \E n \in DOMAIN list : p[n] = k

\* sort_serverlist loses and doubles no line, and leaves none before one that
\* belongs ahead of it.
LEMMA Sorting ==
  ASSUME NEW list \in Seq(Server)
  PROVE  /\ sort_serverlist(list) \in Seq(Server)
         /\ Len(sort_serverlist(list)) = Len(list)
         /\ \E p : /\ Rearranges(p, list)
                   /\ \A n \in DOMAIN list : sort_serverlist(list)[n] = list[p[n]]
         /\ \A m, n \in 1..Len(list) : m < n =>
              ~Before(sort_serverlist(list)[n], sort_serverlist(list)[m])
<1> DEFINE D == DOMAIN list
           At(n) == CHOOSE k \in D : Rank(list, k) = n
           p == [n \in D |-> At(n)]
           s == sort_serverlist(list)
<1>1. D = 1..Len(list) /\ Len(list) \in Nat
  OBVIOUS
<1>2. \A n \in D : At(n) \in D /\ Rank(list, At(n)) = n
  BY RankOnto
<1>3. p \in [D -> D]
  BY <1>2
<1>4. \A m, n \in D : p[m] = p[n] => m = n
  BY <1>2
<1>5. ASSUME NEW k \in D
      PROVE  \E n \in D : p[n] = k
  <2> DEFINE n == Rank(list, k)
  <2>1. n \in D
    BY <1>1, RankCounts
  <2>2. At(n) \in D /\ Rank(list, At(n)) = Rank(list, k)
    BY <1>2, <2>1
  <2>3. CASE At(n) = k
    BY <2>1, <2>3
  <2>4. CASE At(n) # k
    <3>1. Ahead(list, At(n), k) \/ Ahead(list, k, At(n))
      BY <2>2, AheadTotal
    <3>2. Rank(list, At(n)) < Rank(list, k) \/ Rank(list, k) < Rank(list, At(n))
      BY <2>2, <2>4, <3>1, RankOrders
    <3> QED
      BY <1>1, <2>1, <2>2, <3>2
  <2> QED
    BY <2>3, <2>4
<1>6. s = [n \in D |-> list[At(n)]]
  BY DEF sort_serverlist
<1>7. \A n \in D : s[n] = list[p[n]] /\ s[n] \in Server
  BY <1>1, <1>2, <1>6
<1>8. s \in Seq(Server) /\ Len(s) = Len(list)
  <2>1. s \in [1..Len(list) -> Server]
    BY <1>1, <1>6, <1>7
  <2> QED
    BY <1>1, <2>1, FunctionIsSeq
<1>9. ASSUME NEW m \in D, NEW n \in D, m < n
      PROVE  ~Before(s[n], s[m])
  <2>1. /\ At(m) \in D /\ Rank(list, At(m)) = m
        /\ At(n) \in D /\ Rank(list, At(n)) = n
    BY <1>2
  <2>2. At(m) # At(n)
    BY <1>1, <1>9, <2>1
  <2>3. ~(Rank(list, At(n)) < Rank(list, At(m)))
    BY <1>1, <1>9, <2>1
  <2>4. ~Ahead(list, At(n), At(m))
    BY <2>1, <2>2, <2>3, RankOrders
  <2>5. ~Before(list[At(n)], list[At(m)])
    BY <2>4 DEF Ahead
  <2> QED
    BY <1>7, <2>5
<1>10. Rearranges(p, list)
  BY <1>3, <1>4, <1>5 DEF Rearranges
<1> QED
  BY <1>1, <1>7, <1>8, <1>9, <1>10
-----------------------------------------------------------------------------
(* What every step keeps.                                                  *)

\* Only game servers are asked: a response comes from one.
QuestionsTyped == \A q \in getInfo : q[1] \in Address /\ q[2] # 0

\* While the master server's answer is awaited nothing has been queued since
\* the refresh: what it will list has not been asked.
FreshWhileRequesting ==
  requesting =>
    /\ servers = <<>>
    /\ \A a \in Address : queued_servers[a] = Absent /\ asked[a] = 0

\* The invariant behind OncePerRefresh.
ListInv ==
  /\ ServerListTypeOK
  /\ FreshWhileRequesting
  /\ ListedOnce
  /\ AskedOnce

\* Challenges are numbers given one after another; the connection remembered is
\* the newest call, and no refresh has come since.  If none is remembered, the
\* challenge is one that no question carries.
PartyInv ==
  /\ IsFiniteSet(challenges)
  /\ \A q \in challenges : q[2] \in 1..Cardinality(challenges)
  /\ forgotten \in Nat
  /\ connect_state.hostDefined =>
       /\ connect_state.host \in Host
       /\ <<connect_state.host, connect_state.challenge>> \in challenges
       /\ connect_state.challenge = Cardinality(challenges)
       /\ connect_state.challenge > forgotten
  /\ ~connect_state.hostDefined => connect_state.challenge = 0
  /\ forgotten <= Cardinality(challenges)

\* Every answer accepted has made its connection, or waits with it.
CountInv ==
  /\ deferred \in [Host -> Nat]
  /\ connects \in [Host -> Nat]
  /\ accepted \in Seq(Host \X Nat)
  /\ ConnectsOnce

-----------------------------------------------------------------------------
(* JoinsAsAsked.                                                           *)

LEMMA PartyStarts ==
  Init => PartyInv /\ QuestionsTyped
<1> SUFFICES ASSUME Init
             PROVE  PartyInv /\ QuestionsTyped
  OBVIOUS
<1>1. challenges = {} /\ getInfo = {} /\ forgotten = 0 /\ connect_state = NoState
  BY DEF Init, PartyInit
<1>2. IsFiniteSet(challenges) /\ Cardinality(challenges) = 0
  BY <1>1, FS_EmptySet
<1>3. ~connect_state.hostDefined /\ connect_state.challenge = 0
  BY <1>1 DEF NoState
<1> QED
  BY <1>1, <1>2, <1>3 DEF PartyInv, QuestionsTyped

\* A new call has a challenge that no call before it had.
LEMMA AskedPartyInv ==
  ASSUME PartyInv, QuestionsTyped, NEW target \in Host,
         remember(target), Ask(target)
  PROVE  PartyInv' /\ QuestionsTyped'
<1> DEFINE n == Cardinality(challenges)
<1>1. n \in Nat /\ NextChallenge = n + 1
  BY FS_CardinalityType DEF PartyInv, NextChallenge
<1>2. <<target, n + 1>> \notin challenges
  BY <1>1 DEF PartyInv
<1>3. challenges' = challenges \cup {<<target, n + 1>>}
  BY <1>1 DEF remember
<1>4. IsFiniteSet(challenges') /\ Cardinality(challenges') = n + 1
  BY <1>2, <1>3, FS_AddElement DEF PartyInv
<1>5. connect_state' = [host |-> target, challenge |-> n + 1, hostDefined |-> TRUE]
  BY <1>1 DEF remember
<1>6. forgotten' = forgotten /\ getInfo' = getInfo \cup {<<target, n + 1>>}
  BY <1>1 DEF Ask
<1>7. connect_state'.hostDefined /\ connect_state'.host = target
        /\ connect_state'.challenge = n + 1
  BY <1>5
<1>8. QuestionsTyped'
  BY <1>1, <1>6, BrowserAssumption DEF QuestionsTyped
<1>9. \A q \in challenges' : q[2] \in 1..Cardinality(challenges')
  BY <1>1, <1>3, <1>4 DEF PartyInv
<1>10. forgotten' \in Nat /\ forgotten' <= n
  BY <1>6 DEF PartyInv
<1>11. PartyInv'
  BY <1>1, <1>3, <1>4, <1>7, <1>9, <1>10 DEF PartyInv
<1> QED
  BY <1>8, <1>11

\* Steps that leave the connection asked for and the questions alone.
LEMMA SamePartyInv ==
  ASSUME PartyInv, QuestionsTyped,
         UNCHANGED <<connect_state, challenges, forgotten, getInfo>>
  PROVE  PartyInv' /\ QuestionsTyped'
BY DEF PartyInv, QuestionsTyped

LEMMA PartyStep ==
  ASSUME PartyInv, QuestionsTyped, [Next]_vars
  PROVE  PartyInv' /\ QuestionsTyped'
<1>1. ASSUME NEW resolved \in BOOLEAN, Refresh(resolved)
      PROVE  PartyInv' /\ QuestionsTyped'
  <2>1. challenges' = challenges /\ getInfo' = getInfo /\ forgotten' = Cardinality(challenges)
    BY <1>1 DEF Refresh, reset_connect_state
  <2>2. ~connect_state'.hostDefined /\ connect_state'.challenge = 0
    BY <1>1 DEF Refresh, reset_connect_state, NoState
  <2>3. Cardinality(challenges) \in Nat
    BY FS_CardinalityType DEF PartyInv
  <2> QED
    BY <2>1, <2>2, <2>3 DEF PartyInv, QuestionsTyped
<1>2. ASSUME NEW target \in Host, Connect(target)
      PROVE  PartyInv' /\ QuestionsTyped'
  BY <1>2, AskedPartyInv DEF Connect, connect
<1>3. ASSUME Reconnect
      PROVE  PartyInv' /\ QuestionsTyped'
  <2>1. connect_state.host \in Host
    BY <1>3 DEF Reconnect, reconnect, PartyInv
  <2> QED
    BY <1>3, <2>1, AskedPartyInv DEF Reconnect, reconnect
<1>4. ASSUME Disconnect
      PROVE  PartyInv' /\ QuestionsTyped'
  BY <1>4, SamePartyInv DEF Disconnect, disconnect
<1>5. ASSUME NEW index \in 0..Page - 1, Select(index)
      PROVE  PartyInv' /\ QuestionsTyped'
  BY <1>5, SamePartyInv DEF Select, partyVars
<1>6. ASSUME NEW index \in 0..Page - 1, Join(index)
      PROVE  PartyInv' /\ QuestionsTyped'
  BY <1>6, <1>2 DEF Join
<1>7. ASSUME Scroll
      PROVE  PartyInv' /\ QuestionsTyped'
  BY <1>7, SamePartyInv DEF Scroll, partyVars
<1>8. ASSUME NEW list \in SUBSET Address, NEW from \in Address \cup {Master},
             GetServersResponse(from, list)
      PROVE  PartyInv' /\ QuestionsTyped'
  BY <1>8, SamePartyInv DEF GetServersResponse, partyVars
<1>9. ASSUME NEW question \in getInfo, NEW info \in Info,
             InfoResponse(question[1], question[2], info)
      PROVE  PartyInv' /\ QuestionsTyped'
  BY <1>9, SamePartyInv DEF InfoResponse, infoResponse, partyVars
<1>10. ASSUME Frame
       PROVE  PartyInv' /\ QuestionsTyped'
  <2>1. PICK chosen \in SUBSET Waiting :
          getInfo' = getInfo \cup {<<a, ListChallenge>> : a \in chosen}
    BY <1>10 DEF Frame
  <2>2. QuestionsTyped'
    BY <2>1 DEF QuestionsTyped, Waiting, ListChallenge
  <2>3. PartyInv'
    BY <1>10 DEF Frame, partyVars, PartyInv
  <2> QED
    BY <2>2, <2>3
<1>11. ASSUME ConnectLater
       PROVE  PartyInv' /\ QuestionsTyped'
  BY <1>11, SamePartyInv DEF ConnectLater, connectLater
<1>12. ASSUME Tick
       PROVE  PartyInv' /\ QuestionsTyped'
  BY <1>12, SamePartyInv DEF Tick, partyVars
<1>13. ASSUME Game
       PROVE  PartyInv' /\ QuestionsTyped'
  BY <1>13, SamePartyInv DEF Game, cgameStarts, onlineDataFlags
<1>14. ASSUME UNCHANGED vars
       PROVE  PartyInv' /\ QuestionsTyped'
  BY <1>14, SamePartyInv DEF vars, partyVars
<1> QED
  BY <1>1, <1>2, <1>3, <1>4, <1>5, <1>6, <1>7, <1>8, <1>9, <1>10, <1>11, <1>12, <1>13, <1>14
     DEF Next, Player, Network

\* Only the handler of info responses accepts anything, and what it accepts
\* answers the newest call.
LEMMA AcceptStep ==
  ASSUME PartyInv, QuestionsTyped, NEW question \in getInfo, NEW info \in Info,
         InfoResponse(question[1], question[2], info), accepted' # accepted
  PROVE  /\ question[1] \in Host
         /\ accepted' = Append(accepted, <<question[1], question[2]>>)
         /\ connect_to_party(question[1])
         /\ <<question[1], question[2]>> \in challenges
         /\ question[2] = Cardinality(challenges) /\ question[2] > forgotten
<1>1. infoResponse(question[1], question[2], info.joinable)
  BY DEF InfoResponse
<1>2. /\ Answers(question[1], question[2])
      /\ connect_to_party(question[1])
      /\ accepted' = Append(accepted, <<question[1], question[2]>>)
  BY <1>1 DEF infoResponse, partyVars
<1>3. connect_state.host = question[1] /\ connect_state.challenge = question[2]
  BY <1>2 DEF Answers
<1>4. connect_state.hostDefined
  BY <1>3 DEF PartyInv, QuestionsTyped
<1> QED
  BY <1>2, <1>3, <1>4 DEF PartyInv

\* One answer more is one more of its host's.
LEMMA TimesNext ==
  ASSUME accepted \in Seq(Host \X Nat), NEW q \in Host \X Nat,
         accepted' = Append(accepted, q), NEW h
  PROVE  /\ accepted' \in Seq(Host \X Nat)
         /\ Times(h) \in Nat
         /\ Times(h)' = Times(h) + (IF q[1] = h THEN 1 ELSE 0)
<1> DEFINE n == Len(accepted)
           S == {i \in DOMAIN accepted : accepted[i][1] = h}
           T == {i \in DOMAIN accepted' : accepted'[i][1] = h}
<1>1. n \in Nat /\ DOMAIN accepted = 1..n
  OBVIOUS
<1>2. accepted' \in Seq(Host \X Nat)
  OBVIOUS
<1>3. /\ Len(accepted') = n + 1 /\ DOMAIN accepted' = 1..n + 1
      /\ accepted'[n + 1] = q
      /\ \A i \in 1..n : accepted'[i] = accepted[i]
  BY <1>1, <1>2
<1>4. IsFiniteSet(S) /\ Cardinality(S) \in Nat
  <2>1. S \in SUBSET (1..n)
    BY <1>1
  <2>2. IsFiniteSet(1..n)
    BY <1>1, FS_Interval
  <2> HIDE DEF S
  <2>3. IsFiniteSet(S)
    BY <2>1, <2>2, FS_Subset
  <2> QED
    BY <2>3, FS_CardinalityType
<1>5. q[1] = h => T = S \cup {n + 1} /\ n + 1 \notin S
  BY <1>1, <1>3
<1>6. q[1] # h => T = S
  BY <1>1, <1>3
<1>7. Times(h) = Cardinality(S) /\ Times(h)' = Cardinality(T)
  BY DEF Times
<1> HIDE DEF S, T
<1>8. Cardinality(T) = Cardinality(S) + (IF q[1] = h THEN 1 ELSE 0)
  <2>1. CASE q[1] = h
    BY <1>4, <1>5, <2>1, FS_AddElement
  <2>2. CASE q[1] # h
    BY <1>4, <1>6, <2>2
  <2> QED
    BY <2>1, <2>2
<1> QED
  BY <1>2, <1>4, <1>7, <1>8

\* A task put off is a connection or a task again.
LEMMA LaterStep ==
  ASSUME CountInv, NEW target \in Host, connectLater(target)
  PROVE  CountInv'
<1>1. UNCHANGED accepted
  BY DEF connectLater
<1>2. \A h \in Host : Times(h)' = Times(h)
  BY <1>1 DEF Times
<1>3. /\ deferred' = [deferred EXCEPT ![target] = @ - 1] /\ deferred[target] > 0
      /\ connects' = [connects EXCEPT ![target] = @ + 1]
  BY DEF connectLater, CL_ConnectFromParty
<1>4. deferred' \in [Host -> Nat] /\ connects' \in [Host -> Nat]
  BY <1>3 DEF CountInv, ConnectsOnce
<1>5. \A h \in Host : connects'[h] + deferred'[h] = connects[h] + deferred[h]
  BY <1>3 DEF CountInv, ConnectsOnce
<1> QED
  BY <1>1, <1>2, <1>4, <1>5 DEF CountInv, ConnectsOnce

LEMMA AnswerCounted ==
  ASSUME CountInv, NEW target \in Host, NEW c \in Nat, connect_to_party(target),
         accepted' = Append(accepted, <<target, c>>)
  PROVE  CountInv'
<1>1. accepted \in Seq(Host \X Nat) /\ <<target, c>> \in Host \X Nat
  BY DEF CountInv, ConnectsOnce
<1>2. \A h \in Host : /\ Times(h) \in Nat
                      /\ Times(h)' = Times(h) + (IF target = h THEN 1 ELSE 0)
  BY <1>1, TimesNext
<1>3. accepted' \in Seq(Host \X Nat)
  BY <1>1
<1>4. \/ deferred' = [deferred EXCEPT ![target] = @ + 1] /\ connects' = connects
      \/ connects' = [connects EXCEPT ![target] = @ + 1] /\ deferred' = deferred
  BY DEF connect_to_party, CL_ConnectFromParty
<1>5. deferred' \in [Host -> Nat] /\ connects' \in [Host -> Nat]
  <2>1. deferred \in [Host -> Nat] /\ connects \in [Host -> Nat]
    BY DEF CountInv
  <2>2. CASE deferred' = [deferred EXCEPT ![target] = @ + 1] /\ connects' = connects
    BY <2>1, <2>2
  <2>3. CASE connects' = [connects EXCEPT ![target] = @ + 1] /\ deferred' = deferred
    BY <2>1, <2>3
  <2> QED
    BY <1>4, <2>2, <2>3
<1>6. \A h \in Host : connects'[h] + deferred'[h] =
                        connects[h] + deferred[h] + (IF target = h THEN 1 ELSE 0)
  <2> SUFFICES ASSUME NEW h \in Host
               PROVE  connects'[h] + deferred'[h] =
                        connects[h] + deferred[h] + (IF target = h THEN 1 ELSE 0)
    OBVIOUS
  <2>1. connects[h] \in Nat /\ deferred[h] \in Nat
    BY DEF CountInv, ConnectsOnce
  <2> QED
    BY <1>4, <2>1 DEF CountInv, ConnectsOnce
<1>7. \A h \in Host : connects'[h] + deferred'[h] = Times(h)'
  BY <1>2, <1>6 DEF CountInv, ConnectsOnce
<1> QED
  BY <1>3, <1>5, <1>7 DEF CountInv, ConnectsOnce

LEMMA SameCount ==
  ASSUME CountInv, UNCHANGED <<deferred, connects, accepted>>
  PROVE  CountInv'
BY DEF CountInv, ConnectsOnce, Times

\* Nothing else accepts, connects or puts off.
LEMMA OthersDoNot ==
  ASSUME Next,
         ~\E question \in getInfo, info \in Info : InfoResponse(question[1], question[2], info),
         ~ConnectLater
  PROVE  UNCHANGED <<deferred, connects, accepted>>
<1>1. ASSUME Player
      PROVE  UNCHANGED <<deferred, connects, accepted>>
  <2>1. ASSUME NEW resolved \in BOOLEAN, Refresh(resolved)
        PROVE  UNCHANGED <<deferred, connects, accepted>>
    BY <2>1 DEF Refresh, reset_connect_state
  <2>2. ASSUME NEW target \in Host, Connect(target)
        PROVE  UNCHANGED <<deferred, connects, accepted>>
    BY <2>2 DEF Connect, connect
  <2>3. CASE Reconnect
    BY <2>3 DEF Reconnect, reconnect
  <2>4. CASE Disconnect
    BY <2>4 DEF Disconnect, disconnect
  <2>5. ASSUME NEW index \in 0..Page - 1, Select(index) \/ Join(index)
        PROVE  UNCHANGED <<deferred, connects, accepted>>
    BY <2>5 DEF Select, Join, partyVars, Connect, connect
  <2>6. CASE Scroll
    BY <2>6 DEF Scroll, partyVars
  <2> QED
    BY <1>1, <2>1, <2>2, <2>3, <2>4, <2>5, <2>6 DEF Player
<1>2. ASSUME \E list \in SUBSET Address, from \in Address \cup {Master} :
               GetServersResponse(from, list)
      PROVE  UNCHANGED <<deferred, connects, accepted>>
  BY <1>2 DEF GetServersResponse, partyVars
<1>3. ASSUME Frame \/ Tick \/ Game
      PROVE  UNCHANGED <<deferred, connects, accepted>>
  BY <1>3 DEF Frame, Tick, Game, cgameStarts, onlineDataFlags, partyVars
<1> QED
  BY <1>1, <1>2, <1>3 DEF Next, Network

LEMMA CountStarts ==
  Init => CountInv
<1> SUFFICES ASSUME Init
             PROVE  CountInv
  OBVIOUS
<1>1. /\ deferred = [h \in Host |-> 0] /\ connects = [h \in Host |-> 0]
      /\ accepted = <<>>
  BY DEF Init, PartyInit
<1>2. \A h \in Host : Times(h) = 0
  <2>1. \A h \in Host : {i \in DOMAIN accepted : accepted[i][1] = h} = {}
    BY <1>1
  <2> QED
    BY <2>1, FS_EmptySet DEF Times
<1>3. accepted \in Seq(Host \X Nat)
  BY <1>1
<1> QED
  BY <1>1, <1>2, <1>3 DEF CountInv, ConnectsOnce

LEMMA CountStep ==
  ASSUME PartyInv, QuestionsTyped, CountInv, [Next]_vars
  PROVE  CountInv'
<1>1. ASSUME NEW question \in getInfo, NEW info \in Info,
             InfoResponse(question[1], question[2], info)
      PROVE  CountInv'
  <2>1. CASE accepted' = accepted
    <3>1. infoResponse(question[1], question[2], info.joinable)
      BY <1>1 DEF InfoResponse
    <3>2. CASE UNCHANGED partyVars
      BY <3>2, SameCount DEF partyVars
    <3>3. CASE accepted' = Append(accepted, <<question[1], question[2]>>)
      <4>1. Len(accepted') = Len(accepted) + 1 /\ Len(accepted) \in Nat
        <5>1. accepted \in Seq(Host \X Nat)
          BY DEF CountInv
        <5>2. \A e : Len(Append(accepted, e)) = Len(accepted) + 1
          BY <5>1
        <5> QED
          BY <3>3, <5>1, <5>2
      <4> QED
        BY <2>1, <4>1
    <3> QED
      BY <3>1, <3>2, <3>3 DEF infoResponse
  <2>2. CASE accepted' # accepted
    <3>1. Cardinality(challenges) \in Nat
      BY FS_CardinalityType DEF PartyInv
    <3> QED
      BY <1>1, <2>2, <3>1, AcceptStep, AnswerCounted
  <2> QED
    BY <2>1, <2>2
<1>2. ASSUME ConnectLater
      PROVE  CountInv'
  BY <1>2, LaterStep DEF ConnectLater
<1>3. ASSUME UNCHANGED vars
      PROVE  CountInv'
  BY <1>3, SameCount DEF vars, partyVars
<1> QED
  BY <1>1, <1>2, <1>3, OthersDoNot, SameCount

\* An answer that leads to a connection is one to the newest call, which no
\* refresh has forgotten, and leads to one connection, whatever is lost, doubled
\* or late and whatever the player and the online data do meanwhile.
THEOREM JoinedAsAsked == Spec => JoinsAsAsked
<1> DEFINE IInv == PartyInv /\ QuestionsTyped /\ CountInv
<1>1. Init => IInv
  BY PartyStarts, CountStarts
<1>2. IInv /\ [Next]_vars => IInv'
  BY PartyStep, CountStep
<1>3. ASSUME IInv, [Next]_vars
      PROVE  AnswersNewest /\ ConnectsOnce'
  <2>1. ConnectsOnce'
    BY <1>2, <1>3 DEF CountInv
  <2>2. ASSUME accepted' # accepted
        PROVE  LET answered == accepted'[Len(accepted')]
               IN /\ answered \in challenges
                  /\ answered[2] = Cardinality(challenges) /\ answered[2] > forgotten
    <3>1. \E question \in getInfo, info \in Info : InfoResponse(question[1], question[2], info)
      BY <1>3, <2>2, OthersDoNot DEF ConnectLater, connectLater, vars, partyVars
    <3>2. PICK question \in getInfo, info \in Info : InfoResponse(question[1], question[2], info)
      BY <3>1
    <3>3. /\ accepted' = Append(accepted, <<question[1], question[2]>>)
          /\ <<question[1], question[2]>> \in challenges
          /\ question[2] = Cardinality(challenges) /\ question[2] > forgotten
      BY <1>3, <2>2, <3>2, AcceptStep
    <3>4. accepted \in Seq(Host \X Nat) /\ accepted' \in Seq(Host \X Nat)
      BY <1>2, <1>3 DEF CountInv
    <3>5. accepted'[Len(accepted')] = <<question[1], question[2]>>
      BY <3>3, <3>4
    <3> QED
      BY <3>3, <3>5
  <2> QED
    BY <2>1, <2>2 DEF AnswersNewest
<1>4. IInv /\ [Next]_vars => [AnswersNewest /\ ConnectsOnce']_vars
  BY <1>3
<1> QED
  BY <1>1, <1>2, <1>4, PTL DEF Spec, JoinsAsAsked

-----------------------------------------------------------------------------
(* OncePerRefresh.                                                         *)

LEMMA ListStarts ==
  Init => ListInv
<1> SUFFICES ASSUME Init PROVE ListInv
  OBVIOUS
<1> USE DEF Init, ServerListInit
<1>1. servers \in Seq(Server) /\ Len(servers) = 0 /\ DOMAIN servers = {}
  OBVIOUS
<1>2. ServerListTypeOK
  <2>1. queued_servers \in [Address -> Queue]
    BY DEF Queue
  <2>2. asked \in [Address -> Nat]
    OBVIOUS
  <2>3. requesting \in BOOLEAN
    BY Zenon
  <2>4. server_list_index \in Nat
    OBVIOUS
  <2>5. last_index \in Int
    OBVIOUS
  <2> QED
    BY <1>1, <2>1, <2>2, <2>3, <2>4, <2>5 DEF ServerListTypeOK
<1>3. FreshWhileRequesting
  BY DEF FreshWhileRequesting
<1>4. ListedOnce
  BY <1>1 DEF ListedOnce, Listed
<1>5. AskedOnce
  BY <1>1 DEF AskedOnce, Waiting, Awaited, Listed, Absent, Unasked
<1> QED
  BY <1>2, <1>3, <1>4, <1>5 DEF ListInv

\* A refresh forgets what was listed, queued and asked.
LEMMA RefreshListInv ==
  ASSUME ListInv, NEW resolved \in BOOLEAN, refresh(resolved)
  PROVE  ListInv'
<1> USE DEF refresh
<1>1. servers' \in Seq(Server) /\ DOMAIN servers' = {}
  OBVIOUS
<1>2. ServerListTypeOK'
  <2>1. queued_servers' \in [Address -> Queue]
    BY DEF Queue
  <2>2. asked' \in [Address -> Nat]
    OBVIOUS
  <2>3. requesting' \in BOOLEAN
    OBVIOUS
  <2>4. server_list_index' \in Nat /\ last_index' \in Int
    BY DEF ListInv, ServerListTypeOK
  <2> QED
    BY <1>1, <2>1, <2>2, <2>3, <2>4 DEF ServerListTypeOK
<1>3. FreshWhileRequesting'
  BY DEF FreshWhileRequesting
<1>4. ListedOnce'
  BY <1>1 DEF ListedOnce, Listed
<1>5. AskedOnce'
  BY <1>1 DEF AskedOnce, Waiting, Awaited, Listed, Absent, Unasked
<1> QED
  BY <1>2, <1>3, <1>4, <1>5 DEF ListInv

\* The master server's answer comes once, and what it lists is neither in the
\* list nor asked.
LEMMA ResponseListInv ==
  ASSUME ListInv, NEW from, NEW list \in SUBSET Address, getServersResponse(from, list)
  PROVE  ListInv'
<1> USE DEF getServersResponse
<1>1. servers = <<>> /\ servers' = <<>>
  BY DEF ListInv, FreshWhileRequesting
<1>2. servers' \in Seq(Server) /\ DOMAIN servers' = {}
  BY <1>1
<1>3. \A a \in Address : asked'[a] = 0 /\ queued_servers'[a] \in {Absent, Unasked}
  BY DEF ListInv, FreshWhileRequesting
<1>4. ServerListTypeOK'
  <2>1. queued_servers' \in [Address -> Queue]
    BY DEF ListInv, ServerListTypeOK, Queue
  <2> QED
    BY <1>2, <2>1 DEF ListInv, ServerListTypeOK
<1>5. FreshWhileRequesting'
  BY DEF FreshWhileRequesting
<1>6. ListedOnce'
  BY <1>2 DEF ListedOnce, Listed
<1>7. AskedOnce'
  BY <1>2, <1>3 DEF AskedOnce, Waiting, Awaited, Listed
<1> QED
  BY <1>4, <1>5, <1>6, <1>7 DEF ListInv

\* A frame asks servers that wait to be asked, and drops silent ones.
LEMMA FrameListInv ==
  ASSUME ListInv, NEW chosen, do_frame_work(chosen)
  PROVE  ListInv'
<1> USE DEF do_frame_work
<1>1. chosen \subseteq Waiting
  BY DEF ToAsk
<1>2. ASSUME NEW a \in Address
      PROVE  /\ queued_servers'[a] = IF a \in Expired THEN Absent
                                     ELSE IF a \in chosen THEN 0 ELSE queued_servers[a]
             /\ asked'[a] = asked[a] + (IF a \in chosen THEN 1 ELSE 0)
  OBVIOUS
<1>3. ServerListTypeOK'
  <2>1. queued_servers' \in [Address -> Queue]
    BY ServerListAssumption DEF ListInv, ServerListTypeOK, Queue
  <2>2. asked' \in [Address -> Nat]
    BY DEF ListInv, ServerListTypeOK
  <2> QED
    BY <2>1, <2>2 DEF ListInv, ServerListTypeOK
<1>4. FreshWhileRequesting'
  BY <1>1 DEF ListInv, FreshWhileRequesting, Queued
<1>5. Queued' \subseteq Queued /\ Listed' = Listed
  BY <1>1, <1>2 DEF Queued, Listed, Waiting, Absent, Unasked
<1>6. ListedOnce'
  BY <1>5 DEF ListInv, ListedOnce
<1>7. ASSUME NEW a \in Address
      PROVE  /\ asked'[a] <= 1
             /\ a \in Waiting' => asked'[a] = 0
             /\ a \in Listed' \/ Awaited(a)' => asked'[a] = 1
  <2>1. /\ asked[a] \in Nat /\ asked[a] <= 1
        /\ a \in Waiting => asked[a] = 0
        /\ a \in Listed \/ Awaited(a) => asked[a] = 1
    BY DEF ListInv, ServerListTypeOK, AskedOnce
  <2>2. CASE a \in chosen
    <3>1. queued_servers[a] = Unasked /\ a \in Waiting /\ a \notin Expired
      BY <1>1, <2>2, ServerListAssumption DEF Waiting, Expired, Unasked
    <3>2. queued_servers'[a] = 0 /\ asked'[a] = 1
      BY <1>2, <2>1, <2>2, <3>1
    <3> QED
      BY <3>2 DEF Waiting, Awaited, Absent, Unasked
  <2>3. CASE a \notin chosen
    <3>1. asked'[a] = asked[a] /\ queued_servers'[a] \in {Absent, queued_servers[a]}
      BY <1>2, <2>1, <2>3
    <3>2. a \in Waiting' => a \in Waiting
      BY <3>1 DEF Waiting, Absent, Unasked
    <3>3. Awaited(a)' => Awaited(a)
      BY <3>1 DEF Awaited
    <3> QED
      BY <1>5, <2>1, <3>1, <3>2, <3>3
  <2> QED
    BY <2>2, <2>3
<1>8. AskedOnce'
  BY <1>7 DEF AskedOnce
<1> QED
  BY <1>3, <1>4, <1>6, <1>8 DEF ListInv

\* What inserting a server does to the list: it has its old lines, the new
\* one, and no other.
LEMMA InsertedLines ==
  ASSUME servers \in Seq(Server), NEW s \in Server, insert_server(s)
  PROVE  /\ servers' \in Seq(Server)
         /\ Len(servers') = Len(servers) + 1
         /\ Listed' = Listed \cup {s.address}
         /\ /\ s.address \notin Listed
            /\ \A j, k \in DOMAIN servers : servers[j].address = servers[k].address => j = k
            => \A j, k \in DOMAIN servers' :
                 servers'[j].address = servers'[k].address => j = k
<1> DEFINE l == Append(servers, s)
           n == Len(servers)
           D == 1..n + 1
<1>1. /\ l \in Seq(Server) /\ Len(l) = n + 1 /\ l[n + 1] = s
      /\ \A k \in 1..n : l[k] = servers[k]
  BY AppendElements
<1>2. servers' = sort_serverlist(l)
  BY DEF insert_server
<1>3. n \in Nat /\ DOMAIN servers = 1..n
  OBVIOUS
<1> HIDE DEF l
<1>4. /\ servers' \in Seq(Server) /\ Len(servers') = n + 1
      /\ \E p : Rearranges(p, l) /\ \A k \in DOMAIN l : servers'[k] = l[p[k]]
  BY <1>1, <1>2, Sorting
<1>5. PICK p : Rearranges(p, l) /\ \A k \in DOMAIN l : servers'[k] = l[p[k]]
  BY <1>4
<1>6. DOMAIN l = D /\ DOMAIN servers' = D
  BY <1>1, <1>3, <1>4
<1>7. /\ \A k \in D : p[k] \in D /\ servers'[k] = l[p[k]]
      /\ \A j, k \in D : p[j] = p[k] => j = k
      /\ \A k \in D : \E j \in D : p[j] = k
  <2> HIDE DEF D
  <2>1. p \in [D -> D]
    BY <1>5, <1>6 DEF Rearranges
  <2> QED
    BY <1>5, <1>6, <2>1 DEF Rearranges
<1>8. ASSUME NEW e
      PROVE  e \in Listed' <=> \E k \in D : l[k].address = e
  <2> HIDE DEF D
  <2>1. e \in Listed' <=> \E k \in D : servers'[k].address = e
    BY <1>6 DEF Listed
  <2>2. ASSUME NEW k \in D, servers'[k].address = e
        PROVE  \E j \in D : l[j].address = e
    BY <1>7, <2>2, Zenon
  <2>3. ASSUME NEW k \in D, l[k].address = e
        PROVE  \E j \in D : servers'[j].address = e
    <3>1. PICK j \in D : p[j] = k
      BY <1>7
    <3>2. servers'[j] = l[k]
      BY <1>7, <3>1
    <3> QED
      BY <2>3, <3>2
  <2> QED
    BY <2>1, <2>2, <2>3
<1>9. \A e : (\E k \in D : l[k].address = e) <=> e \in Listed \cup {s.address}
  BY <1>1, <1>3 DEF Listed
<1>10. ASSUME s.address \notin Listed,
              \A j, k \in DOMAIN servers : servers[j].address = servers[k].address => j = k
       PROVE  \A j, k \in DOMAIN servers' :
                servers'[j].address = servers'[k].address => j = k
  <2>1. \A j, k \in D : l[j].address = l[k].address => j = k
    <3>1. \A k \in 1..n : servers[k].address # s.address
      BY <1>3, <1>10 DEF Listed
    <3> QED
      BY <1>1, <1>3, <1>10, <3>1
  <2> HIDE DEF D
  <2>2. ASSUME NEW j \in D, NEW k \in D, servers'[j].address = servers'[k].address
        PROVE  j = k
    <3>1. /\ p[j] \in D /\ servers'[j] = l[p[j]]
          /\ p[k] \in D /\ servers'[k] = l[p[k]]
      BY <1>7
    <3>2. l[p[j]].address = l[p[k]].address
      BY <2>2, <3>1
    <3>3. p[j] = p[k]
      BY <2>1, <3>1, <3>2
    <3> QED
      BY <1>7, <3>3
  <2> QED
    BY <1>6, <2>2
<1> QED
  BY <1>4, <1>8, <1>9, <1>10

\* A response is taken from a server that is awaited: it is asked, not listed,
\* and leaves the queue as it enters the list.
LEMMA InfoListInv ==
  ASSUME ListInv, NEW a \in Address, NEW info \in Info, handle_info_response(a, info)
  PROVE  ListInv'
<1>1. CASE ~Awaited(a)
  <2>1. UNCHANGED serverListVars
    BY <1>1 DEF handle_info_response
  <2> QED
    BY <2>1 DEF serverListVars, ListInv, ServerListTypeOK, FreshWhileRequesting, ListedOnce,
      AskedOnce, Listed, Queued, Waiting, Awaited
<1>2. CASE Awaited(a)
  <2> DEFINE s == [address |-> a, players |-> info.players, ping |-> queued_servers[a]]
  <2>1. /\ queued_servers' = [queued_servers EXCEPT ![a] = Absent]
        /\ IF info.listable THEN insert_server(s) ELSE UNCHANGED servers
        /\ UNCHANGED <<requesting, server_list_index, last_index, asked>>
    BY <1>2 DEF handle_info_response
  <2>2. /\ servers \in Seq(Server) /\ queued_servers \in [Address -> Queue]
        /\ requesting \in BOOLEAN /\ server_list_index \in Nat /\ last_index \in Int
        /\ asked \in [Address -> Nat]
    BY DEF ListInv, ServerListTypeOK
  <2>3. s \in Server
    <3>1. queued_servers[a] \in 0..Timeout + 1
      BY <1>2, <2>2 DEF Awaited, Queue
    <3>2. info.players \in Nat
      BY ServerListAssumption
    <3> QED
      BY <3>1, <3>2 DEF Server
  <2>4. a \in Queued /\ a \notin Listed /\ asked[a] = 1 /\ ~requesting
    BY <1>2 DEF ListInv, ListedOnce, AskedOnce, FreshWhileRequesting, Awaited, Queued
  <2>5. Queued' = Queued \ {a} /\ Waiting' \subseteq Waiting
    BY <2>1, <2>2 DEF Queued, Waiting, Absent, Unasked
  <2>6. \A b \in Address : Awaited(b)' => Awaited(b)
    BY <2>1, <2>2 DEF Awaited
  <2> HIDE DEF s
  <2>7. /\ servers' \in Seq(Server)
        /\ Listed' \subseteq Listed \cup {a}
        /\ \A j, k \in DOMAIN servers' : servers'[j].address = servers'[k].address => j = k
    <3>1. CASE info.listable
      <4>1. s.address = a
        BY DEF s
      <4>2. \A j, k \in DOMAIN servers : servers[j].address = servers[k].address => j = k
        BY DEF ListInv, ListedOnce
      <4>3. insert_server(s)
        BY <2>1, <3>1
      <4> QED
        BY <2>2, <2>3, <2>4, <4>1, <4>2, <4>3, InsertedLines
    <3>2. CASE ~info.listable
      <4>1. UNCHANGED servers
        BY <2>1, <3>2
      <4> QED
        BY <2>2, <4>1 DEF ListInv, ListedOnce, Listed
    <3> QED
      BY <3>1, <3>2
  <2>8. ServerListTypeOK'
    <3>1. queued_servers' \in [Address -> Queue]
      BY <2>1, <2>2 DEF Queue
    <3> QED
      BY <2>1, <2>2, <2>7, <3>1 DEF ServerListTypeOK
  <2>9. FreshWhileRequesting'
    BY <2>1, <2>4 DEF FreshWhileRequesting
  <2>10. ListedOnce'
    BY <2>5, <2>7 DEF ListInv, ListedOnce
  <2>11. AskedOnce'
    BY <2>1, <2>4, <2>5, <2>6, <2>7 DEF ListInv, AskedOnce
  <2> QED
    BY <2>8, <2>9, <2>10, <2>11 DEF ListInv
<1> QED
  BY <1>1, <1>2

\* The clock only makes questions older.
LEMMA TickListInv ==
  ASSUME ListInv, ServerListTick
  PROVE  ListInv'
<1> USE DEF ServerListTick
<1>1. ASSUME NEW a \in Address
      PROVE  /\ queued_servers'[a] \in Queue
             /\ queued_servers'[a] = Absent <=> queued_servers[a] = Absent
             /\ queued_servers'[a] = Unasked <=> queued_servers[a] = Unasked
  BY ServerListAssumption
     DEF ListInv, ServerListTypeOK, Awaited, Queue, Absent, Unasked
<1>2. ServerListTypeOK'
  <2>1. queued_servers' \in [Address -> Queue]
    BY <1>1
  <2> QED
    BY <2>1 DEF ListInv, ServerListTypeOK
<1>3. FreshWhileRequesting'
  BY <1>1 DEF ListInv, FreshWhileRequesting
<1>4. Queued' = Queued /\ Waiting' = Waiting /\ Listed' = Listed
  BY <1>1 DEF Queued, Waiting, Listed
<1>5. \A a \in Address : Awaited(a)' <=> Awaited(a)
  BY <1>1 DEF Awaited
<1>6. ListedOnce'
  BY <1>4 DEF ListInv, ListedOnce
<1>7. AskedOnce'
  BY <1>4, <1>5 DEF ListInv, AskedOnce
<1> QED
  BY <1>2, <1>3, <1>6, <1>7 DEF ListInv

\* Steps that leave the list, the queue and the questions' count alone.
LEMMA SameListInv ==
  ASSUME ListInv, UNCHANGED <<servers, queued_servers, requesting, asked>>,
         server_list_index' \in Nat, last_index' \in Int
  PROVE  ListInv'
BY DEF ListInv, ServerListTypeOK, FreshWhileRequesting, ListedOnce, AskedOnce,
   Listed, Queued, Waiting, Awaited

LEMMA ListStep ==
  ASSUME ListInv, QuestionsTyped, [Next]_vars
  PROVE  ListInv'
<1> USE DEF vars, serverListVars
<1>0. server_list_index \in Nat /\ last_index \in Int
  BY DEF ListInv, ServerListTypeOK
<1>1. ASSUME NEW resolved \in BOOLEAN, Refresh(resolved)
      PROVE  ListInv'
  BY <1>1, RefreshListInv DEF Refresh
<1>2. ASSUME UNCHANGED serverListVars
      PROVE  ListInv'
  BY <1>0, <1>2, SameListInv
<1>3. ASSUME NEW index \in 0..Page - 1, Select(index)
      PROVE  ListInv'
  <2>1. last_index' \in Int
    BY <1>0, <1>3, ServerListAssumption DEF Select, select, Line
  <2> QED
    BY <1>0, <1>3, <2>1, SameListInv DEF Select, select
<1>4. CASE Scroll
  <2>1. server_list_index' \in Nat
    BY <1>0, <1>4 DEF Scroll, scroll_down, scroll_up
  <2> QED
    BY <1>0, <1>4, <2>1, SameListInv DEF Scroll, scroll_down, scroll_up
<1>5. ASSUME NEW list \in SUBSET Address, NEW from \in Address \cup {Master},
             GetServersResponse(from, list)
      PROVE  ListInv'
  BY <1>5, ResponseListInv DEF GetServersResponse
<1>6. ASSUME NEW question \in getInfo, NEW info \in Info,
             InfoResponse(question[1], question[2], info)
      PROVE  ListInv'
  <2>1. question[1] \in Address
    BY DEF QuestionsTyped
  <2> QED
    BY <1>6, <2>1, InfoListInv DEF InfoResponse
<1>7. CASE Frame
  BY <1>7, FrameListInv DEF Frame
<1>8. CASE Tick
  BY <1>8, TickListInv DEF Tick
<1>9. CASE Player
  <2>1. ASSUME NEW index \in 0..Page - 1, Join(index)
        PROVE  ListInv'
    BY <2>1, <1>2 DEF Join, Connect
  <2>2. ASSUME NEW target \in Host, Connect(target)
        PROVE  ListInv'
    BY <2>2, <1>2 DEF Connect
  <2>3. CASE Reconnect \/ Disconnect
    BY <2>3, <1>2 DEF Reconnect, Disconnect
  <2> QED
    BY <1>9, <1>1, <1>3, <1>4, <2>1, <2>2, <2>3 DEF Player
<1>10. CASE ConnectLater \/ Game \/ UNCHANGED vars
  BY <1>10, <1>2 DEF ConnectLater, Game
<1> QED
  BY <1>5, <1>6, <1>7, <1>8, <1>9, <1>10 DEF Next, Network

\* Between two refreshes a server takes part once: one question and one line,
\* whatever the network does to questions and answers.
THEOREM ListedAndAskedOnce == Spec => []OncePerRefresh
<1> DEFINE IInv == ListInv /\ PartyInv /\ QuestionsTyped
<1>1. Init => IInv
  BY ListStarts, PartyStarts
<1>2. IInv /\ [Next]_vars => IInv'
  BY ListStep, PartyStep
<1>3. IInv => OncePerRefresh
  BY DEF ListInv, OncePerRefresh
<1> QED
  BY <1>1, <1>2, <1>3, PTL DEF Spec

-----------------------------------------------------------------------------
(* DrawnRight.                                                             *)

LEMMA DrawnStarts ==
  Init => DrawnRight
<1> SUFFICES ASSUME Init PROVE DrawnRight
  OBVIOUS
<1>1. servers = <<>> /\ Len(servers) = 0 /\ DOMAIN servers = {} /\ server_list_index = 0
  BY DEF Init, ServerListInit
<1> QED
  BY <1>1 DEF DrawnRight, Sorted, ScrolledWithinList, ui_feeder_count

LEMMA SameDrawn ==
  ASSUME DrawnRight, UNCHANGED <<servers, server_list_index>>
  PROVE  DrawnRight'
BY DEF DrawnRight, Sorted, ScrolledWithinList, ui_feeder_count

\* A new line: the list is sorted anew and grows below a scrolled menu.
LEMMA InfoDrawn ==
  ASSUME ListInv, DrawnRight, NEW a \in Address, NEW info \in Info,
         handle_info_response(a, info)
  PROVE  DrawnRight'
<1>1. CASE UNCHANGED servers
  BY <1>1, SameDrawn DEF handle_info_response, serverListVars
<1>2. CASE Awaited(a) /\ info.listable
  <2> DEFINE s == [address |-> a, players |-> info.players, ping |-> queued_servers[a]]
             l == Append(servers, s)
  <2>1. insert_server(s) /\ UNCHANGED server_list_index
    BY <1>2 DEF handle_info_response
  <2>2. servers \in Seq(Server) /\ queued_servers \in [Address -> Queue]
          /\ server_list_index \in Nat
    BY DEF ListInv, ServerListTypeOK
  <2>3. s \in Server
    <3>1. queued_servers[a] \in 0..Timeout + 1
      BY <1>2, <2>2 DEF Awaited, Queue
    <3>2. info.players \in Nat
      BY ServerListAssumption
    <3> QED
      BY <3>1, <3>2 DEF Server
  <2> HIDE DEF s
  <2>4. l \in Seq(Server) /\ Len(l) = Len(servers) + 1
    BY <2>2, <2>3, AppendElements
  <2>5. servers' = sort_serverlist(l)
    BY <2>1 DEF insert_server
  <2> HIDE DEF l
  <2>6. /\ servers' \in Seq(Server) /\ Len(servers') = Len(l)
        /\ \A m, n \in 1..Len(l) : m < n => ~Before(servers'[n], servers'[m])
    BY <2>4, <2>5, Sorting
  <2>7. Sorted'
    BY <2>6 DEF Sorted
  <2>8. ScrolledWithinList'
    BY <2>1, <2>2, <2>4, <2>6, ServerListAssumption
       DEF DrawnRight, ScrolledWithinList, ui_feeder_count
  <2> QED
    BY <2>7, <2>8 DEF DrawnRight
<1> QED
  BY <1>1, <1>2 DEF handle_info_response, serverListVars

LEMMA DrawnStep ==
  ASSUME ListInv, QuestionsTyped, DrawnRight, [Next]_vars
  PROVE  DrawnRight'
<1>0. servers \in Seq(Server) /\ Len(servers) \in Nat /\ server_list_index \in Nat
  BY DEF ListInv, ServerListTypeOK
<1>1. ASSUME NEW resolved \in BOOLEAN, Refresh(resolved)
      PROVE  DrawnRight'
  <2>1. servers' = <<>> /\ server_list_index' = 0
    BY <1>1 DEF Refresh, refresh
  <2>2. Len(servers') = 0 /\ DOMAIN servers' = {}
    BY <2>1
  <2> QED
    BY <2>1, <2>2 DEF DrawnRight, Sorted, ScrolledWithinList, ui_feeder_count
<1>2. CASE Scroll
  <2>1. Sorted'
    BY <1>2 DEF Scroll, scroll_down, scroll_up, DrawnRight, Sorted
  <2>2. ScrolledWithinList'
    BY <1>0, <1>2, ServerListAssumption
       DEF Scroll, scroll_down, scroll_up, DrawnRight, ScrolledWithinList, ui_feeder_count
  <2> QED
    BY <2>1, <2>2 DEF DrawnRight
<1>3. ASSUME NEW question \in getInfo, NEW info \in Info,
             InfoResponse(question[1], question[2], info)
      PROVE  DrawnRight'
  <2>1. question[1] \in Address
    BY DEF QuestionsTyped
  <2> QED
    BY <1>3, <2>1, InfoDrawn DEF InfoResponse
<1>4. CASE UNCHANGED <<servers, server_list_index>>
  BY <1>4, SameDrawn
<1>5. ASSUME NEW index \in 0..Page - 1, Select(index) \/ Join(index)
      PROVE  UNCHANGED <<servers, server_list_index>>
  BY <1>5 DEF Select, select, Join, Connect, serverListVars
<1>6. ASSUME \/ \E target \in Host : Connect(target)
             \/ Reconnect \/ Disconnect
      PROVE  UNCHANGED <<servers, server_list_index>>
  BY <1>6 DEF Connect, Reconnect, Disconnect, serverListVars
<1>7. ASSUME NEW list \in SUBSET Address, NEW from \in Address \cup {Master},
             GetServersResponse(from, list)
      PROVE  UNCHANGED <<servers, server_list_index>>
  BY <1>7 DEF GetServersResponse, getServersResponse
<1>8. ASSUME Frame \/ Tick \/ ConnectLater \/ Game \/ UNCHANGED vars
      PROVE  UNCHANGED <<servers, server_list_index>>
  BY <1>8 DEF Frame, do_frame_work, Tick, ServerListTick, ConnectLater, Game, vars,
     serverListVars
<1> QED
  BY <1>1, <1>2, <1>3, <1>4, <1>5, <1>6, <1>7, <1>8 DEF Next, Player, Network

\* What a frame draws are lines that exist, in the order of the list.
THEOREM LinesDrawnRight == Spec => []DrawnRight
<1> DEFINE IInv == ListInv /\ PartyInv /\ QuestionsTyped /\ DrawnRight
<1>1. Init => IInv
  BY ListStarts, PartyStarts, DrawnStarts
<1>2. IInv /\ [Next]_vars => IInv'
  BY ListStep, PartyStep, DrawnStep
<1>3. IInv => DrawnRight
  OBVIOUS
<1> QED
  BY <1>1, <1>2, <1>3, PTL DEF Spec
=============================================================================

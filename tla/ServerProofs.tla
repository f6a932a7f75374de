---------------------------- MODULE ServerProofs ----------------------------
(***************************************************************************)
(* Proofs about what the game is given to run with: about MapRotation,     *)
(* whatever a rotation says, its maps come in the order they are written;  *)
(* about Bots, however many are added, leave and have others in their      *)
(* slots, each of them is looked after; about Stats, what is set of the    *)
(* statistics sticks; about Commands, each message of a player is notified *)
(* once, in order and as it was meant; about Hooks, that components which  *)
(* do not overlap two by two do not undo each other's work in any number   *)
(* and in any order; and about Services and Files, that what is served     *)
(* under a name is what was stored under it last.                          *)
(***************************************************************************)
EXTENDS MCServer, SequenceLemmas

-----------------------------------------------------------------------------
(* Map rotation: the position in the rotation (MapRotation).               *)

\* What parse makes of a key and a value.
RotationEntry == [key : Name, value : Name]

\* The position index after the k-th map, or before the first round.
Position(e, k, index) ==
  \/ k = 0 /\ index = 0
  \/ \E p \in Maps(e) : MapNumber(e, p) = k /\ index = p % Len(e)

\* The same entries in another order.
Shuffled(e, f) == Len(e) = Len(f) /\ ToSet(e) = ToSet(f)

-----------------------------------------------------------------------------
\* The places of the maps are among those of the rotation.
LEMMA MapPlaces ==
  ASSUME NEW e \in Seq(RotationEntry)
  PROVE  /\ Len(e) \in Nat /\ DOMAIN e = 1..Len(e) /\ Maps(e) \subseteq 1..Len(e)
         /\ IsFiniteSet(Maps(e)) /\ Cardinality(Maps(e)) \in Nat
<1>1. Len(e) \in Nat /\ DOMAIN e = 1..Len(e)
  BY LenProperties
<1>2. Maps(e) \subseteq 1..Len(e)
  BY <1>1 DEF Maps
<1>3. IsFiniteSet(1..Len(e))
  BY <1>1, FS_Interval
<1>4. IsFiniteSet(Maps(e))
  BY <1>2, <1>3, FS_Subset
<1> QED BY <1>1, <1>2, <1>4, FS_CardinalityType

\* The maps up to a place, and what their number is from one map to the next.
LEMMA MapNumberGrows ==
  ASSUME NEW e \in Seq(RotationEntry), NEW p \in Maps(e), NEW q \in Maps(e), p < q
  PROVE  /\ MapNumber(e, p) \in Nat /\ MapNumber(e, q) \in Nat /\ MapNumber(e, p) < MapNumber(e, q)
         /\ MapNumber(e, q) <= Cardinality(Maps(e))
         /\ (\A m \in Maps(e) : ~(p < m /\ m < q)) => MapNumber(e, q) = MapNumber(e, p) + 1
<1> DEFINE P == {j \in Maps(e) : j <= p}
           Q == {j \in Maps(e) : j <= q}
<1>1. Maps(e) \subseteq Nat /\ IsFiniteSet(Maps(e)) /\ p \in Nat /\ q \in Nat
  BY MapPlaces
<1>2. P \subseteq Q /\ q \in Q /\ q \notin P /\ Q \subseteq Maps(e)
  BY <1>1
<1>3. IsFiniteSet(P) /\ IsFiniteSet(Q) /\ Cardinality(Q) <= Cardinality(Maps(e))
  BY <1>1, <1>2, FS_Subset
<1>4. Cardinality(P) \in Nat /\ Cardinality(Q) \in Nat
  BY <1>3, FS_CardinalityType
<1>5. Cardinality(P \cup {q}) = Cardinality(P) + 1
  BY <1>2, <1>3, FS_AddElement
<1>6. Cardinality(P \cup {q}) <= Cardinality(Q)
  <2>1. P \cup {q} \subseteq Q
    BY <1>2
  <2> QED BY <2>1, <1>3, FS_Subset
<1>7. ASSUME \A m \in Maps(e) : ~(p < m /\ m < q)
      PROVE  Q = P \cup {q}
  <2>1. \A m \in Q : m \in P \cup {q}
    BY <1>1, <1>7
  <2> QED BY <2>1, <1>2
<1>8. MapNumber(e, p) = Cardinality(P) /\ MapNumber(e, q) = Cardinality(Q)
  BY DEF MapNumber
<1> HIDE DEF P, Q
<1>9. Cardinality(P) < Cardinality(Q)
  BY <1>4, <1>5, <1>6
<1> QED BY <1>3, <1>4, <1>5, <1>7, <1>8, <1>9

\* The first map has the number one.
LEMMA MapNumberFirst ==
  ASSUME NEW e \in Seq(RotationEntry), NEW q \in Maps(e), \A m \in Maps(e) : q <= m
  PROVE  MapNumber(e, q) = 1
<1>1. Maps(e) \subseteq Nat
  BY MapPlaces
<1>2. {j \in Maps(e) : j <= q} = {q}
  BY <1>1
<1> QED BY <1>2, FS_Singleton DEF MapNumber

\* The last map has the number of the maps.
LEMMA MapNumberLast ==
  ASSUME NEW e \in Seq(RotationEntry), NEW p \in Maps(e), \A m \in Maps(e) : m <= p
  PROVE  MapNumber(e, p) = Cardinality(Maps(e))
<1>1. {j \in Maps(e) : j <= p} = Maps(e)
  OBVIOUS
<1> QED BY <1>1 DEF MapNumber

\* A map is known by its number.
LEMMA MapNumberUnique ==
  ASSUME NEW e \in Seq(RotationEntry), NEW q \in Maps(e)
  PROVE  (CHOOSE i \in Maps(e) : MapNumber(e, i) = MapNumber(e, q)) = q
<1>1. ASSUME NEW i \in Maps(e), MapNumber(e, i) = MapNumber(e, q)
      PROVE  i = q
  <2>1. i \in Nat /\ q \in Nat
    BY MapPlaces
  <2>2. ~(i < q)
    <3> SUFFICES ASSUME i < q PROVE FALSE
      OBVIOUS
    <3>1. MapNumber(e, i) \in Nat /\ MapNumber(e, i) < MapNumber(e, q)
      BY MapNumberGrows
    <3> QED BY <3>1, <1>1
  <2>3. ~(q < i)
    <3> SUFFICES ASSUME q < i PROVE FALSE
      OBVIOUS
    <3>1. MapNumber(e, q) \in Nat /\ MapNumber(e, q) < MapNumber(e, i)
      BY MapNumberGrows
    <3> QED BY <3>1, <1>1
  <2> QED BY <2>1, <2>2, <2>3
<1> QED BY <1>1, Zenon

-----------------------------------------------------------------------------
\* get_next_entry from the position x: the place of the entry after i others.
Place(e, x, i) == ((x + i) % Len(e)) + 1
RotationAt(e, x) == [rotation_entries |-> e, index |-> x]

\* Going on from x, the index is moved up or, behind the end, once around.
LEMMA PlaceIs ==
  ASSUME NEW e \in Seq(RotationEntry), NEW x \in 0..Len(e) - 1, NEW i \in 0..Len(e) - 1
  PROVE  /\ Place(e, x, i) \in 1..Len(e)
         /\ x + i < Len(e) => Place(e, x, i) = x + i + 1
         /\ x + i >= Len(e) => Place(e, x, i) = x + i + 1 - Len(e)
<1>1. PICK n \in Nat : n = Len(e)
  BY LenProperties
<1>2. \A m \in Nat : \A y \in 0..m - 1 : \A j \in 0..m - 1 :
        /\ (y + j) % m \in 0..m - 1
        /\ y + j < m => (y + j) % m = y + j
        /\ y + j >= m => (y + j) % m = y + j - m
  OBVIOUS
<1>3. /\ (x + i) % n \in 0..n - 1
      /\ x + i < n => (x + i) % n = x + i
      /\ x + i >= n => (x + i) % n = x + i - n
  BY <1>1, <1>2
<1> QED BY <1>1, <1>3 DEF Place

\* The entries from x on to the first map.
LEMMA NextPlace ==
  ASSUME NEW e \in Seq(RotationEntry), NEW x \in 0..Len(e) - 1, Maps(e) # {},
         NEW s, s = Steps(RotationAt(e, x))
  PROVE  /\ s \in 0..Len(e) - 1 /\ Place(e, x, s) \in Maps(e)
         /\ \A i \in 0..s - 1 : Place(e, x, i) \notin Maps(e)
<1> DEFINE S == {i \in 0..Len(e) - 1 : Entry(RotationAt(e, x), i).key = "map"}
<1>1. Len(e) \in Nat /\ DOMAIN e = 1..Len(e) /\ Maps(e) \subseteq 1..Len(e) /\ x \in Nat
  BY MapPlaces
<1>2. \A i \in 0..Len(e) - 1 : i \in S <=> Place(e, x, i) \in Maps(e)
  <2>1. ASSUME NEW i \in 0..Len(e) - 1
        PROVE  i \in S <=> Place(e, x, i) \in Maps(e)
    <3>1. Place(e, x, i) \in DOMAIN e
      BY <1>1, PlaceIs
    <3>2. Entry(RotationAt(e, x), i) = e[Place(e, x, i)]
      BY DEF Entry, PlaceAt, RotationAt, Place
    <3> QED BY <3>1, <3>2 DEF Maps
  <2> QED BY <2>1
<1>3. S # {}
  <2>1. PICK m \in Maps(e) : TRUE
    OBVIOUS
  <2>2. m \in 1..Len(e)
    BY <1>1
  <2>3. CASE x < m
    <3>1. m - 1 - x \in 0..Len(e) - 1 /\ x + (m - 1 - x) < Len(e) /\ x + (m - 1 - x) + 1 = m
      BY <1>1, <2>2, <2>3
    <3>2. Place(e, x, m - 1 - x) = m
      BY <3>1, PlaceIs
    <3> QED BY <3>1, <3>2, <2>1, <1>2
  <2>4. CASE ~(x < m)
    <3>1. /\ m - 1 - x + Len(e) \in 0..Len(e) - 1 /\ x + (m - 1 - x + Len(e)) >= Len(e)
          /\ x + (m - 1 - x + Len(e)) + 1 - Len(e) = m
      BY <1>1, <2>2, <2>4
    <3>2. Place(e, x, m - 1 - x + Len(e)) = m
      BY <3>1, PlaceIs
    <3> QED BY <3>1, <3>2, <2>1, <1>2
  <2> QED BY <2>3, <2>4
<1>4. s = Min(S)
  <2>1. Len(RotationAt(e, x).rotation_entries) = Len(e)
    BY DEF RotationAt
  <2> HIDE DEF S
  <2>2. Steps(RotationAt(e, x)) = IF S = {} THEN Len(e) ELSE Min(S)
    BY <2>1, Zenon DEF Steps, S
  <2> QED BY <1>3, <2>2
<1>5. S \subseteq 0..Len(e) - 1
  OBVIOUS
<1> HIDE DEF S
<1>6. Min(S) \in S /\ \A y \in S : Min(S) <= y
  <2>1. S \subseteq Nat
    BY <1>1, <1>5
  <2>2. \E m \in S : \A y \in S : m <= y
    BY <1>3, <2>1, LeastNatural
  <2> QED BY <2>2, Zenon DEF Min
<1>7. s \in 0..Len(e) - 1
  BY <1>4, <1>5, <1>6
<1>8. ASSUME NEW i \in 0..s - 1
      PROVE  Place(e, x, i) \notin Maps(e)
  <2>1. i \in 0..Len(e) - 1 /\ ~(s <= i)
    BY <1>1, <1>7
  <2> QED BY <2>1, <1>2, <1>4, <1>6
<1> QED BY <1>2, <1>4, <1>6, <1>7, <1>8

\* The next map from x: it stands behind x with none between, or it is the first
\* and none stands behind x.
Onward(e, x, s, q) ==
  /\ x < q /\ s = q - 1 - x /\ \A m \in Maps(e) : ~(x < m /\ m < q)

Around(e, x, s, q) ==
  /\ q <= x /\ s = q - 1 - x + Len(e) /\ \A m \in Maps(e) : q <= m /\ m <= x

\* The next map, how far it is, and the index behind it.
LEMMA Walk ==
  ASSUME NEW e \in Seq(RotationEntry), NEW x \in 0..Len(e) - 1, Maps(e) # {},
         NEW s, s = Steps(RotationAt(e, x)), NEW q, q = Place(e, x, s)
  PROVE  /\ s \in 0..Len(e) - 1 /\ q \in Maps(e) /\ (x + (s + 1)) % Len(e) = q % Len(e)
         /\ Onward(e, x, s, q) \/ Around(e, x, s, q)
<1>1. /\ Len(e) \in Nat /\ Maps(e) \subseteq 1..Len(e) /\ x \in Nat
  BY MapPlaces
<1>2. /\ s \in 0..Len(e) - 1 /\ q \in Maps(e)
      /\ \A i \in 0..s - 1 : Place(e, x, i) \notin Maps(e)
  BY NextPlace
<1>3. CASE x + s < Len(e)
  <2>1. q = x + s + 1 /\ s \in Nat
    BY <1>2, <1>3, PlaceIs
  <2>2. ASSUME NEW m \in Maps(e), x < m, m < q
        PROVE  FALSE
    <3>1. m \in 1..Len(e)
      BY <1>1
    <3>2. /\ m - 1 - x \in 0..s - 1 /\ m - 1 - x \in 0..Len(e) - 1 /\ x + (m - 1 - x) < Len(e)
          /\ x + (m - 1 - x) + 1 = m
      BY <1>1, <1>2, <3>1, <2>1, <2>2
    <3>3. Place(e, x, m - 1 - x) = m
      BY <3>2, PlaceIs
    <3> QED BY <3>2, <3>3, <1>2, <2>2
  <2>3. x < q /\ s = q - 1 - x /\ x + (s + 1) = q
    BY <2>1, <1>1
  <2> QED BY <1>2, <2>2, <2>3 DEF Onward
<1>4. CASE ~(x + s < Len(e))
  <2>1. q = x + s + 1 - Len(e) /\ s \in Nat
    <3>1. x + s >= Len(e) /\ s \in Nat
      BY <1>1, <1>2, <1>4
    <3> QED BY <3>1, <1>2, PlaceIs
  <2>2. ASSUME NEW m \in Maps(e)
        PROVE  q <= m /\ m <= x
    <3>1. m \in 1..Len(e)
      BY <1>1
    <3>2. ~(x < m)
      <4> SUFFICES ASSUME x < m PROVE FALSE
        OBVIOUS
      <4>1. /\ m - 1 - x \in 0..s - 1 /\ m - 1 - x \in 0..Len(e) - 1 /\ x + (m - 1 - x) < Len(e)
            /\ x + (m - 1 - x) + 1 = m
        BY <1>1, <1>2, <1>4, <3>1
      <4>2. Place(e, x, m - 1 - x) = m
        BY <4>1, PlaceIs
      <4> QED BY <4>1, <4>2, <1>2, <2>2
    <3>3. ~(m < q)
      <4> SUFFICES ASSUME m < q PROVE FALSE
        OBVIOUS
      <4>1. /\ m - 1 - x + Len(e) \in 0..s - 1 /\ m - 1 - x + Len(e) \in 0..Len(e) - 1
            /\ x + (m - 1 - x + Len(e)) >= Len(e) /\ x + (m - 1 - x + Len(e)) + 1 - Len(e) = m
        BY <1>1, <1>2, <2>1, <3>1, <3>2
      <4>2. Place(e, x, m - 1 - x + Len(e)) = m
        BY <4>1, PlaceIs
      <4> QED BY <4>1, <4>2, <1>2, <2>2
    <3> QED BY <3>1, <3>2, <3>3, <2>1, <1>1
  <2>3. q <= x /\ s = q - 1 - x + Len(e) /\ q \in 0..Len(e) - 1 /\ x + (s + 1) = q + Len(e)
    <3>1. /\ x \in Nat /\ s \in Nat /\ Len(e) \in Nat /\ q \in 1..Len(e) /\ s <= Len(e) - 1
          /\ x <= Len(e) - 1
      BY <1>1, <1>2
    <3>2. \A n, y, t \in Nat : y <= n - 1 /\ t <= n - 1 /\ y + t + 1 - n \in 1..n =>
            /\ y + t + 1 - n <= y /\ t = (y + t + 1 - n) - 1 - y + n
            /\ y + t + 1 - n \in 0..n - 1 /\ y + (t + 1) = (y + t + 1 - n) + n
      OBVIOUS
    <3>3. x + s + 1 - Len(e) \in 1..Len(e)
      BY <3>1, <2>1, Zenon
    <3>4. /\ x + s + 1 - Len(e) <= x /\ s = (x + s + 1 - Len(e)) - 1 - x + Len(e)
          /\ x + s + 1 - Len(e) \in 0..Len(e) - 1 /\ x + (s + 1) = (x + s + 1 - Len(e)) + Len(e)
      BY <3>1, <3>2, <3>3, Zenon
    <3>5. x + s + 1 - Len(e) = q
      BY <2>1
    <3> QED BY <3>4, <3>5, Zenon
  <2>4. \A n \in Nat : \A y \in 0..n - 1 : (y + n) % n = y % n
    OBVIOUS
  <2>5. (q + Len(e)) % Len(e) = q % Len(e)
    BY <2>3, <2>4, <1>1
  <2> QED BY <1>2, <2>2, <2>3, <2>5 DEF Around
<1> QED BY <1>3, <1>4

\* The next map is the one after the map that was launched last, or the first one.
LEMMA NextNumber ==
  ASSUME NEW e \in Seq(RotationEntry), NEW x \in 0..Len(e) - 1, Maps(e) # {},
         NEW k, Position(e, k, x), NEW s, NEW q \in Maps(e),
         Onward(e, x, s, q) \/ Around(e, x, s, q)
  PROVE  MapNumber(e, q) = (k % Cardinality(Maps(e))) + 1
<1> DEFINE M == Cardinality(Maps(e))
<1>1. /\ Len(e) \in Nat /\ Maps(e) \subseteq 1..Len(e) /\ x \in Nat /\ IsFiniteSet(Maps(e))
      /\ q \in 1..Len(e)
  BY MapPlaces
<1>2. M \in Nat /\ M >= 1
  <2>1. M \in Nat
    BY MapPlaces
  <2>2. M # 0
    BY <1>1, FS_EmptySet
  <2> QED BY <2>1, <2>2
<1>3. ASSUME \A m \in Maps(e) : q <= m, k = 0 \/ k = M
      PROVE  MapNumber(e, q) = (k % M) + 1
  <2>1. MapNumber(e, q) = 1
    BY <1>3, MapNumberFirst
  <2>2. \A n \in Nat : n >= 1 => 0 % n = 0 /\ n % n = 0
    OBVIOUS
  <2>3. k % M = 0
    BY <2>2, <1>2, <1>3
  <2> HIDE DEF M
  <2> QED BY <2>1, <2>3
<1>4. ASSUME x = 0
      PROVE  \A m \in Maps(e) : q <= m
  <2>1. ~Around(e, x, s, q)
    BY <1>1, <1>4 DEF Around
  <2>2. \A m \in Maps(e) : m \in Nat /\ q \in Nat /\ x < m
    BY <1>1, <1>4
  <2>3. \A m \in Maps(e) : ~(x < m /\ m < q)
    BY <2>1 DEF Onward
  <2> QED BY <2>2, <2>3
<1>5. CASE k = 0 /\ x = 0
  BY <1>3, <1>4, <1>5
<1>6. ASSUME NEW p \in Maps(e), MapNumber(e, p) = k, x = p % Len(e)
      PROVE  MapNumber(e, q) = (k % M) + 1
  <2>1. p \in 1..Len(e)
    BY <1>1
  <2>2. CASE p = Len(e)
    <3>1. \A n \in Nat : n >= 1 => n % n = 0
      OBVIOUS
    <3>2. x = 0
      BY <3>1, <2>1, <2>2, <1>1, <1>6
    <3>3. \A m \in Maps(e) : m <= p
      BY <1>1, <2>2
    <3>4. k = M
      BY <3>3, <1>6, MapNumberLast
    <3> QED BY <3>2, <3>4, <1>3, <1>4
  <2>3. CASE p # Len(e)
    <3>1. \A n \in Nat : \A y \in 1..n : y # n => y % n = y
      OBVIOUS
    <3>2. x = p
      BY <3>1, <2>1, <2>3, <1>1, <1>6
    <3>3. CASE Onward(e, x, s, q)
      <4>1. /\ MapNumber(e, p) \in Nat /\ MapNumber(e, q) \in Nat
            /\ MapNumber(e, p) < MapNumber(e, q) /\ MapNumber(e, q) <= M
            /\ MapNumber(e, q) = MapNumber(e, p) + 1
        BY <3>2, <3>3, MapNumberGrows DEF Onward
      <4>2. \A n \in Nat : \A y \in Nat : y < n => y % n = y
        OBVIOUS
      <4> HIDE DEF M
      <4>3. k \in Nat /\ k < M
        BY <4>1, <1>2, <1>6
      <4>4. k % M = k
        BY <4>2, <4>3, <1>2
      <4> QED BY <4>1, <4>4, <1>6
    <3>4. CASE Around(e, x, s, q)
      <4>1. k = M
        BY <3>2, <3>4, <1>6, MapNumberLast DEF Around
      <4> QED BY <4>1, <3>4, <1>3 DEF Around
    <3> QED BY <3>3, <3>4
  <2> QED BY <2>2, <2>3
<1> QED BY <1>5, <1>6 DEF Position

-----------------------------------------------------------------------------
\* The game types of a rotation: those since the map before the place q, and
\* those behind the last map.
Types(e) == {j \in DOMAIN e : e[j].key = "gametype"}
Since(e, q) == {j \in Types(e) : j < q /\ \A b \in {m \in Maps(e) : m < q} : b < j}
Behind(e) == {j \in Types(e) : \A b \in Maps(e) : b < j}

GametypesAt(e, q, g) ==
  IF Since(e, q) # {} THEN {e[Max(Since(e, q))].value}
  ELSE IF {m \in Maps(e) : m < q} = {} /\ Behind(e) # {}
       THEN {e[Max(Behind(e))].value, g} ELSE {g}

\* The turn of the map at the place q, said of that place.
LEMMA TurnOf ==
  ASSUME NEW e \in Seq(RotationEntry), NEW q \in Maps(e), NEW g
  PROVE  /\ Turn(e, MapNumber(e, q), g).map = e[q].value
         /\ Turn(e, MapNumber(e, q), g).gametypes = GametypesAt(e, q, g)
<1>1. (CHOOSE i \in Maps(e) : MapNumber(e, i) = MapNumber(e, q)) = q
  BY MapNumberUnique
<1>2. Turn(e, MapNumber(e, q), g) = TurnAt(e, q, g)
  BY <1>1 DEF Turn
<1>3. TurnAt(e, q, g) = [map |-> e[q].value, gametypes |-> GametypesAt(e, q, g)]
  BY Zenon DEF TurnAt, GametypesAt, Since, Behind, Types
<1> QED BY <1>2, <1>3

\* The greatest of a set, moved by d.
LEMMA MovedMax ==
  ASSUME NEW b \in Nat, NEW S, S \subseteq 0..b, NEW T, T \subseteq 0..b, S # {}, NEW d \in Int,
         \A j \in S : j - d \in T, \A i \in T : i + d <= Max(S)
  PROVE  T # {} /\ Max(T) \in T /\ Max(T) + d = Max(S) /\ Max(S) \in S
<1>1. Max(S) \in S /\ \A y \in S : y <= Max(S)
  BY MaxOfBounded
<1>2. T # {}
  OBVIOUS
<1>3. Max(T) \in T /\ \A y \in T : y <= Max(T)
  BY <1>2, MaxOfBounded
<1>4. Max(S) - d <= Max(T) /\ Max(T) + d <= Max(S)
  <2>1. Max(S) - d \in T
    BY <1>1
  <2> QED BY <2>1, <1>3, Zenon
<1>5. Max(S) \in Nat /\ Max(T) \in Nat
  <2>1. S \subseteq Nat /\ T \subseteq Nat
    OBVIOUS
  <2> QED BY <2>1, <1>1, <1>3, Zenon
<1>6. Max(T) + d = Max(S)
  <2>1. \A a, c \in Nat : \A k \in Int : a - k <= c /\ c + k <= a => c + k = a
    OBVIOUS
  <2> QED BY <1>4, <1>5, <2>1, Zenon
<1> QED BY <1>1, <1>2, <1>3, <1>6

\* The game type in force when the next map is launched is the one of its turn.
LEMMA GametypeOfTurn ==
  ASSUME NEW e \in Seq(RotationEntry), NEW x \in 0..Len(e) - 1, x = 0 \/ x \in Maps(e),
         NEW s, s = Steps(RotationAt(e, x)), s \in 0..Len(e) - 1, NEW q \in Maps(e),
         Onward(e, x, s, q) \/ Around(e, x, s, q), NEW g
  PROVE  GametypeAfter(RotationAt(e, x), g) \in GametypesAt(e, q, g)
<1> DEFINE T == {i \in 0..s - 1 : Entry(RotationAt(e, x), i).key = "gametype"}
           n == Len(e)
<1>1. /\ n \in Nat /\ DOMAIN e = 1..n /\ Maps(e) \subseteq 1..n /\ x \in Nat /\ s \in Nat /\ q \in 1..n
  BY MapPlaces
<1>2. \A i \in 0..s - 1 : i \in 0..n - 1
  BY <1>1
<1>3. Types(e) \subseteq 1..n
  BY <1>1 DEF Types
<1>4. \A i : Entry(RotationAt(e, x), i) = e[Place(e, x, i)]
  BY DEF Entry, PlaceAt, RotationAt, Place
<1>5. \A i \in 0..s - 1 : i \in T <=> Place(e, x, i) \in Types(e)
  <2>1. ASSUME NEW i \in 0..s - 1
        PROVE  i \in T <=> Place(e, x, i) \in Types(e)
    <3>1. Place(e, x, i) \in DOMAIN e
      BY <1>1, <1>2, PlaceIs
    <3> QED BY <3>1, <1>4 DEF Types
  <2> QED BY <2>1
<1>6. GametypeAfter(RotationAt(e, x), g) = IF T = {} THEN g ELSE Entry(RotationAt(e, x), Max(T)).value
  BY Zenon DEF GametypeAfter
<1>7. T \subseteq 0..n /\ T \subseteq 0..s - 1
  BY <1>1
<1> HIDE DEF T, n
<1>8. \A i \in 0..s - 1 : /\ x + i < n => Place(e, x, i) = x + i + 1
                          /\ x + i >= n => Place(e, x, i) = x + i + 1 - n
  BY <1>2, PlaceIs DEF n
<1>9. Since(e, q) \subseteq 0..n /\ Behind(e) \subseteq 0..n /\ Types(e) \subseteq 0..n
  BY <1>1, <1>3 DEF Since, Behind
<1>10. GametypeAfter(RotationAt(e, x), g) = IF T = {} THEN g ELSE e[Place(e, x, Max(T))].value
  BY <1>4, <1>6
<1>11. T = {} /\ Since(e, q) = {} => GametypeAfter(RotationAt(e, x), g) \in GametypesAt(e, q, g)
  BY <1>10, Zenon DEF GametypesAt
<1>12. CASE Onward(e, x, s, q)
  <2>1. x < q /\ s = q - 1 - x /\ \A m \in Maps(e) : ~(x < m /\ m < q)
    BY <1>12 DEF Onward
  <2>2. ASSUME NEW j \in Since(e, q)
        PROVE  j - (x + 1) \in T
    <3>1. j \in Types(e) /\ j \in 1..n /\ j < q /\ (x \in Maps(e) => x < j)
      BY <1>3, <2>1 DEF Since
    <3>2. x < j
      BY <3>1, <1>1
    <3>3. j - (x + 1) \in 0..s - 1 /\ x + (j - (x + 1)) < n /\ x + (j - (x + 1)) + 1 = j
      BY <3>1, <3>2, <2>1, <1>1
    <3>4. Place(e, x, j - (x + 1)) = j
      BY <3>3, <1>8
    <3> QED BY <3>1, <3>3, <3>4, <1>5
  <2>3. ASSUME NEW i \in T
        PROVE  i + (x + 1) \in Since(e, q) /\ Place(e, x, i) = i + (x + 1)
    <3>1. i \in 0..s - 1 /\ x + i < n /\ i + (x + 1) = x + i + 1 /\ i + (x + 1) < q /\ x < i + (x + 1)
      BY <1>1, <1>7, <2>1
    <3>2. Place(e, x, i) = i + (x + 1)
      BY <3>1, <1>8
    <3>3. i + (x + 1) \in Types(e)
      BY <3>1, <3>2, <1>5
    <3>4. \A b \in {m \in Maps(e) : m < q} : b < i + (x + 1)
      BY <3>1, <2>1, <1>1
    <3> QED BY <3>1, <3>2, <3>3, <3>4 DEF Since
  <2>4. CASE Since(e, q) = {}
    <3>1. T = {}
      BY <2>3, <2>4
    <3> QED BY <3>1, <2>4, <1>11
  <2>5. CASE Since(e, q) # {}
    <3>1. \A j \in Since(e, q) : j <= Max(Since(e, q))
      BY <2>5, <1>1, <1>9, MaxOfBounded
    <3>2. \A i \in T : i + (x + 1) <= Max(Since(e, q))
      BY <3>1, <2>3
    <3>3. x + 1 \in Int
      BY <1>1
    <3>4. T # {} /\ Max(T) \in T /\ Max(T) + (x + 1) = Max(Since(e, q))
      BY <3>2, <3>3, <2>2, <2>5, <1>1, <1>7, <1>9, MovedMax
    <3>5. Place(e, x, Max(T)) = Max(Since(e, q))
      BY <3>4, <2>3
    <3> QED BY <3>4, <3>5, <2>5, <1>10, Zenon DEF GametypesAt
  <2> QED BY <2>4, <2>5
<1>13. CASE Around(e, x, s, q)
  <2>1. q <= x /\ s = q - 1 - x + n /\ \A m \in Maps(e) : q <= m /\ m <= x
    BY <1>13 DEF Around, n
  <2>2. x \in Maps(e) /\ x < n
    BY <2>1, <1>1 DEF n
  <2>3. {m \in Maps(e) : m < q} = {}
    BY <2>1, <1>1
  <2>4. \A j : j \in Since(e, q) <=> j \in Types(e) /\ j < q
    BY <2>3 DEF Since
  <2>5. \A j : j \in Behind(e) <=> j \in Types(e) /\ x < j
    <3>1. ASSUME NEW j \in Types(e), x < j
          PROVE  \A b \in Maps(e) : b < j
      BY <3>1, <2>1, <1>1, <1>3
    <3> QED BY <3>1, <2>2 DEF Behind
  <2>6. ASSUME NEW i \in T
        PROVE  \/ x + i < n /\ Place(e, x, i) = i + (x + 1) /\ i + (x + 1) \in Behind(e)
               \/ i + (x + 1 - n) \in Since(e, q) /\ Place(e, x, i) = i + (x + 1 - n)
    <3>1. i \in 0..s - 1 /\ Place(e, x, i) \in Types(e)
      BY <1>5, <1>7
    <3>2. CASE x + i < n
      <4>1. Place(e, x, i) = i + (x + 1) /\ x < i + (x + 1)
        BY <3>1, <3>2, <1>1, <1>8
      <4> QED BY <3>1, <3>2, <4>1, <2>5
    <3>3. CASE ~(x + i < n)
      <4>1. Place(e, x, i) = i + (x + 1 - n) /\ i + (x + 1 - n) < q
        BY <3>1, <3>3, <1>1, <1>8, <2>1
      <4> QED BY <3>1, <4>1, <2>4
    <3> QED BY <3>2, <3>3
  <2>7. CASE Since(e, q) # {}
    <3>1. Max(Since(e, q)) \in Since(e, q) /\ \A j \in Since(e, q) : j <= Max(Since(e, q))
      BY <2>7, <1>1, <1>9, MaxOfBounded
    <3>2. ASSUME NEW j \in Since(e, q)
          PROVE  j - (x + 1 - n) \in T
      <4>1. j \in Types(e) /\ j \in 1..n /\ j < q
        BY <1>3, <2>4
      <4>2. j - (x + 1 - n) \in 0..s - 1 /\ x + (j - (x + 1 - n)) >= n /\ x + (j - (x + 1 - n)) + 1 - n = j
        BY <4>1, <2>1, <2>2, <1>1
      <4>3. Place(e, x, j - (x + 1 - n)) = j
        BY <4>2, <1>8
      <4> QED BY <4>1, <4>2, <4>3, <1>5
    <3>3. ASSUME NEW i \in T
          PROVE  i + (x + 1 - n) <= Max(Since(e, q))
      <4>1. CASE i + (x + 1 - n) \in Since(e, q)
        BY <4>1, <3>1
      <4>2. CASE x + i < n
        <5>1. i \in Nat /\ Max(Since(e, q)) \in 1..n
          BY <3>1, <1>3, <1>7, <2>4
        <5> QED BY <5>1, <4>2, <1>1
      <4> QED BY <4>1, <4>2, <2>6
    <3>4. x + 1 - n \in Int
      BY <1>1
    <3>5. T # {} /\ Max(T) \in T /\ Max(T) + (x + 1 - n) = Max(Since(e, q))
      <4>1. \A d \in Int : (\A j \in Since(e, q) : j - d \in T) /\ (\A i \in T : i + d <= Max(Since(e, q)))
                          => T # {} /\ Max(T) \in T /\ Max(T) + d = Max(Since(e, q))
        BY <2>7, <1>1, <1>7, <1>9, MovedMax
      <4> QED BY <4>1, <3>2, <3>3, <3>4, Zenon
    <3>6. Place(e, x, Max(T)) = Max(Since(e, q))
      <4>1. Max(T) \in 0..s - 1 /\ Max(Since(e, q)) \in 1..n
        BY <3>1, <3>5, <1>3, <1>7, <2>4
      <4>2. x + Max(T) >= n /\ x + Max(T) + 1 - n = Max(Since(e, q))
        BY <4>1, <3>5, <1>1
      <4> QED BY <4>1, <4>2, <1>8
    <3> QED BY <3>5, <3>6, <2>7, <1>10, Zenon DEF GametypesAt
  <2>8. CASE Since(e, q) = {} /\ Behind(e) # {}
    <3>1. \A j \in Behind(e) : j <= Max(Behind(e))
      BY <2>8, <1>1, <1>9, MaxOfBounded
    <3>2. ASSUME NEW j \in Behind(e)
          PROVE  j - (x + 1) \in T
      <4>1. j \in Types(e) /\ j \in 1..n /\ x < j
        BY <1>3, <2>5
      <4>2. j - (x + 1) \in 0..s - 1 /\ x + (j - (x + 1)) < n /\ x + (j - (x + 1)) + 1 = j
        BY <4>1, <2>1, <2>2, <1>1
      <4>3. Place(e, x, j - (x + 1)) = j
        BY <4>2, <1>8
      <4> QED BY <4>1, <4>2, <4>3, <1>5
    <3>3. \A i \in T : i + (x + 1) <= Max(Behind(e)) /\ Place(e, x, i) = i + (x + 1)
      BY <2>6, <2>8, <3>1
    <3>4. x + 1 \in Int
      BY <1>1
    <3>5. T # {} /\ Max(T) \in T /\ Max(T) + (x + 1) = Max(Behind(e))
      <4>1. \A d \in Int : (\A j \in Behind(e) : j - d \in T) /\ (\A i \in T : i + d <= Max(Behind(e)))
                          => T # {} /\ Max(T) \in T /\ Max(T) + d = Max(Behind(e))
        BY <2>8, <1>1, <1>7, <1>9, MovedMax
      <4> QED BY <4>1, <3>2, <3>3, <3>4, Zenon
    <3>6. Place(e, x, Max(T)) = Max(Behind(e))
      BY <3>3, <3>5
    <3> QED BY <3>5, <3>6, <2>3, <2>8, <1>10, Zenon DEF GametypesAt
  <2>9. CASE Since(e, q) = {} /\ Behind(e) = {}
    <3>1. T = {}
      BY <2>6, <2>9
    <3> QED BY <3>1, <2>9, <1>11
  <2> QED BY <2>7, <2>8, <2>9
<1> QED BY <1>12, <1>13

-----------------------------------------------------------------------------
(* rotation_data::parse, and the step of apply_rotation.                   *)

\* parse: keys and values, whatever it leaves out.
LEMMA ParseType ==
  ASSUME NEW words \in Seq(Name)
  PROVE  parse(words) \in Seq(RotationEntry)
<1> DEFINE h == Len(words) \div 2
           pairs == [i \in 1..h |-> [key |-> words[2 * i - 1], value |-> words[2 * i]]]
           bad == {i \in DOMAIN pairs : pairs[i].key \notin Key}
<1>1. Len(words) \in Nat /\ h \in Nat /\ \A i \in 1..h : 2 * i - 1 \in 1..Len(words) /\ 2 * i \in 1..Len(words)
  <2>1. Len(words) \in Nat
    BY LenProperties
  <2> QED BY <2>1
<1> HIDE DEF h
<1>2. \A i \in 1..h : words[2 * i - 1] \in Name /\ words[2 * i] \in Name
  BY <1>1, ElementOfSeq
<1>3. pairs \in Seq(RotationEntry) /\ Len(pairs) = h
  <2>1. \A i \in 1..h : [key |-> words[2 * i - 1], value |-> words[2 * i]] \in RotationEntry
    BY <1>2 DEF RotationEntry
  <2>2. pairs \in [1..h -> RotationEntry]
    BY <2>1
  <2> HIDE DEF pairs
  <2> QED BY <2>2, <1>1, FunctionIsSeq
<1>4. bad \subseteq 1..h
  OBVIOUS
<1>5. parse(words) = IF bad = {} THEN pairs ELSE SubSeq(pairs, 1, Min(bad) - 1)
  BY Zenon DEF parse, h
<1> HIDE DEF pairs, bad
<1>6. CASE bad = {}
  BY <1>3, <1>5, <1>6
<1>7. CASE bad # {}
  <2>1. bad \subseteq Nat
    BY <1>1, <1>4
  <2>2. \E m \in bad : \A y \in bad : m <= y
    BY <1>7, <2>1, LeastNatural
  <2>3. Min(bad) \in bad
    BY <2>2, Zenon DEF Min
  <2>4. Min(bad) - 1 \in 0..Len(pairs)
    <3>1. Min(bad) \in 1..h
      BY <1>4, <2>3, Zenon
    <3> QED BY <3>1, <1>1, <1>3
  <2> QED BY <2>4, <1>3, <1>5, <1>7, SubSeqCut
<1> QED BY <1>6, <1>7

\* Nothing is parsed from nothing.
LEMMA ParseEmpty == parse(<<>>) = <<>>
<1> DEFINE pairs == [i \in 1..Len(<<>>) \div 2 |->
                       [key |-> <<>>[2 * i - 1], value |-> <<>>[2 * i]]]
           bad == {i \in DOMAIN pairs : pairs[i].key \notin Key}
<1>1. 1..(Len(<<>>) \div 2) = {}
  <2>1. Len(<<>>) = 0
    BY EmptySeq
  <2> QED BY <2>1
<1>2. pairs = <<>>
  BY <1>1
<1>3. bad = {}
  BY <1>1
<1> QED BY <1>2, <1>3, Zenon DEF parse

\* The entries as they stand: as written, or as the last random rotation left them.
Standing(e, o) == IF o = <<>> THEN e ELSE o

\* What is kept between two rotations: the entries that were parsed, in the order
\* they stand, and the position behind the map that was launched last.
Kept(r, e, k, o) ==
  /\ r \in [rotation_entries : Seq(RotationEntry), index : Nat] /\ k \in Nat
  /\ Shuffled(r.rotation_entries, e)
  /\ e # <<>> => r.index < Len(e)
  /\ r.rotation_entries = Standing(e, o)
  /\ Maps(r.rotation_entries) # {} => Position(r.rotation_entries, k, r.index)

\* A map of a rotation is one of it in any other order.
LEMMA ShuffledMaps ==
  ASSUME NEW e \in Seq(RotationEntry), NEW f \in Seq(RotationEntry), Shuffled(f, e), NEW m \in Maps(f)
  PROVE  \E i \in Maps(e) : e[i] = f[m]
<1>1. m \in 1..Len(f) /\ f[m].key = "map"
  BY MapPlaces DEF Maps
<1>2. f[m] \in ToSet(e)
  BY <1>1, ToSetMember DEF Shuffled
<1>3. PICK i \in 1..Len(e) : e[i] = f[m]
  BY <1>2, ToSetMember
<1>4. DOMAIN e = 1..Len(e)
  BY LenProperties
<1> QED BY <1>1, <1>3, <1>4 DEF Maps

\* The first order is another order of the second.
LEMMA ShuffledBack ==
  ASSUME NEW e, NEW f, Shuffled(f, e)
  PROVE  Shuffled(e, f)
BY DEF Shuffled

\* std::shuffle
LEMMA ShuffleKeeps ==
  ASSUME NEW e \in Seq(RotationEntry), NEW p \in Bijection(DOMAIN e, DOMAIN e)
  PROVE  /\ [i \in DOMAIN e |-> e[p[i]]] \in Seq(RotationEntry)
         /\ Shuffled([i \in DOMAIN e |-> e[p[i]]], e)
<1> DEFINE f == [i \in DOMAIN e |-> e[p[i]]]
<1>1. Len(e) \in Nat /\ DOMAIN e = 1..Len(e)
  BY LenProperties
<1>2. p \in [1..Len(e) -> 1..Len(e)] /\ \A w \in 1..Len(e) : \E v \in 1..Len(e) : p[v] = w
  BY <1>1 DEF Bijection, Injection, Surjection
<1>3. \A i \in 1..Len(e) : e[p[i]] \in RotationEntry
  BY <1>2, ElementOfSeq
<1>4. f \in [1..Len(e) -> RotationEntry]
  BY <1>1, <1>3
<1>5. \A i \in 1..Len(e) : f[i] = e[p[i]]
  BY <1>1
<1> HIDE DEF f
<1>6. f \in Seq(RotationEntry) /\ Len(f) = Len(e)
  BY <1>1, <1>4, FunctionIsSeq
<1>7. \A x : x \in ToSet(f) <=> x \in ToSet(e)
  <2>1. ASSUME NEW x \in ToSet(f) PROVE x \in ToSet(e)
    <3>1. PICK k \in 1..Len(e) : f[k] = x
      BY <1>6, ToSetMember
    <3>2. p[k] \in 1..Len(e) /\ e[p[k]] = x
      BY <3>1, <1>2, <1>5
    <3> QED BY <3>2, ToSetMember
  <2>2. ASSUME NEW x \in ToSet(e) PROVE x \in ToSet(f)
    <3>1. PICK k \in 1..Len(e) : e[k] = x
      BY ToSetMember
    <3>2. PICK v \in 1..Len(e) : p[v] = k
      BY <1>2
    <3>3. f[v] = x /\ v \in 1..Len(f)
      BY <3>1, <3>2, <1>5, <1>6
    <3> QED BY <3>3, <1>6, ToSetMember
  <2> QED BY <2>1, <2>2
<1>8. f \in Seq(RotationEntry) /\ Shuffled(f, e)
  BY <1>6, <1>7 DEF Shuffled
<1> QED BY <1>8 DEF f

\* apply_rotation finds a map if there is one; what it launches is a word of the
\* rotation or the game type in force, and the index stays in bounds.
LEMMA AppliedTypes ==
  ASSUME NEW f \in Seq(RotationEntry), f # <<>>, NEW x \in 0..Len(f) - 1, NEW g \in Name
  PROVE  /\ HasMap(RotationAt(f, x)) <=> Maps(f) # {}
         /\ \E y \in 0..Len(f) - 1 : apply_rotation(RotationAt(f, x)) = RotationAt(f, y)
         /\ HasMap(RotationAt(f, x)) =>
              Entry(RotationAt(f, x), Steps(RotationAt(f, x))).value \in Name
         /\ GametypeAfter(RotationAt(f, x), g) \in Name
<1> DEFINE t == RotationAt(f, x)
           s == Steps(t)
           n == Len(f)
<1>1. n \in Nat /\ x \in Nat /\ t.rotation_entries = f /\ t.index = x
  BY LenProperties DEF RotationAt
<1>2. \A i : Entry(t, i) = f[Place(f, x, i)]
  BY DEF Entry, PlaceAt, RotationAt, Place
<1>3. \A i \in 0..n - 1 : Entry(t, i) \in RotationEntry /\ Place(f, x, i) \in 1..n
  <2>1. ASSUME NEW i \in 0..n - 1
        PROVE  Entry(t, i) \in RotationEntry /\ Place(f, x, i) \in 1..n
    <3>1. Place(f, x, i) \in 1..n
      BY PlaceIs
    <3> QED BY <3>1, <1>2, ElementOfSeq
  <2> QED BY <2>1
<1>4. s \in 0..n /\ (s < n <=> Maps(f) # {})
  <2>1. CASE Maps(f) # {}
    <3>1. s \in 0..n - 1
      BY <2>1, NextPlace
    <3> QED BY <3>1, <2>1, <1>1
  <2>2. CASE Maps(f) = {}
    <3>1. {i \in 0..n - 1 : Entry(t, i).key = "map"} = {}
      <4>1. ASSUME NEW i \in 0..n - 1, Entry(t, i).key = "map"
            PROVE  FALSE
        <5>1. Place(f, x, i) \in DOMAIN f /\ f[Place(f, x, i)].key = "map"
          BY <4>1, <1>2, <1>3, LenProperties
        <5> QED BY <5>1, <2>2 DEF Maps
      <4> QED BY <4>1
    <3>2. s = n
      BY <3>1, <1>1, Zenon DEF Steps
    <3> QED BY <3>2, <2>2, <1>1
  <2> QED BY <2>1, <2>2
<1> HIDE DEF s, n
<1>5. HasMap(t) <=> Maps(f) # {}
  BY <1>1, <1>4 DEF HasMap, s, n
<1>6. \E y \in 0..n - 1 : apply_rotation(t) = RotationAt(f, y)
  <2>1. PICK d \in Nat : apply_rotation(t) = get_next_entry(t, d)
    <3>1. s + 1 \in Nat /\ s \in Nat
      BY <1>4
    <3> QED BY <3>1 DEF apply_rotation, s
  <2>2. get_next_entry(t, d) = RotationAt(f, (x + d) % n)
    BY DEF get_next_entry, RotationAt, n
  <2>3. n # 0
    BY <1>1, EmptySeq DEF n
  <2>4. (x + d) % n \in 0..n - 1
    <3>1. \A m \in Nat : m # 0 => \A v \in Nat : v % m \in 0..m - 1
      OBVIOUS
    <3>2. x + d \in Nat
      BY <1>1
    <3> QED BY <3>1, <3>2, <2>3, <1>1
  <2> QED BY <2>1, <2>2, <2>4
<1>7. HasMap(t) => Entry(t, s).value \in Name
  <2>1. HasMap(t) => s \in 0..n - 1
    BY <1>1, <1>4, <1>5
  <2> QED BY <2>1, <1>3 DEF RotationEntry
<1>8. GametypeAfter(t, g) \in Name
  <2> DEFINE T == {i \in 0..s - 1 : Entry(t, i).key = "gametype"}
  <2>1. GametypeAfter(t, g) = IF T = {} THEN g ELSE Entry(t, Max(T)).value
    BY Zenon DEF GametypeAfter, s
  <2>2. T \subseteq 0..n /\ T \subseteq 0..n - 1
    BY <1>1, <1>4
  <2> HIDE DEF T
  <2>3. CASE T = {}
    BY <2>1, <2>3
  <2>4. CASE T # {}
    <3>1. Max(T) \in T
      BY <2>2, <2>4, <1>1, MaxOfBounded
    <3>2. Entry(t, Max(T)) \in RotationEntry
      BY <3>1, <2>2, <1>3
    <3> QED BY <3>2, <2>1, <2>4 DEF RotationEntry
  <2> QED BY <2>3, <2>4
<1> QED BY <1>5, <1>6, <1>7, <1>8 DEF s, n

\* apply_rotation launches the map whose turn it is, and stands behind it.
LEMMA AppliedInOrder ==
  ASSUME NEW e \in Seq(RotationEntry), NEW x \in 0..Len(e) - 1, Maps(e) # {},
         NEW k, Position(e, k, x), NEW g
  PROVE  LET t == RotationAt(e, x)
             l == (k % Cardinality(Maps(e))) + 1
         IN /\ Position(e, l, apply_rotation(t).index)
            /\ Entry(t, Steps(t)).value = Turn(e, l, g).map
            /\ GametypeAfter(t, g) \in Turn(e, l, g).gametypes
<1> DEFINE t == RotationAt(e, x)
           l == (k % Cardinality(Maps(e))) + 1
<1>1. PICK s : s = Steps(t)
  OBVIOUS
<1>2. PICK q : q = Place(e, x, s)
  OBVIOUS
<1>3. /\ s \in 0..Len(e) - 1 /\ q \in Maps(e) /\ (x + (s + 1)) % Len(e) = q % Len(e)
      /\ Onward(e, x, s, q) \/ Around(e, x, s, q)
  BY <1>1, <1>2, Walk
<1>4. MapNumber(e, q) = l
  BY <1>3, NextNumber
<1>5. x = 0 \/ x \in Maps(e)
  <2>1. ASSUME NEW p \in Maps(e), x = p % Len(e)
        PROVE  x = 0 \/ x \in Maps(e)
    <3>1. \A n \in Nat : \A y \in 1..n : y % n = 0 \/ y % n = y
      OBVIOUS
    <3>2. p \in 1..Len(e) /\ Len(e) \in Nat
      BY MapPlaces
    <3>3. p % Len(e) = 0 \/ p % Len(e) = p
      BY <3>1, <3>2
    <3> QED BY <3>3, <2>1
  <2> QED BY <2>1 DEF Position
<1>6. apply_rotation(t).index = q % Len(e)
  <2>1. s < Len(e)
    BY <1>3, LenProperties
  <2>2. HasMap(t)
    BY <2>1, <1>1 DEF HasMap, RotationAt
  <2>3. apply_rotation(t) = get_next_entry(t, s + 1)
    BY <2>2, <1>1 DEF apply_rotation
  <2>4. get_next_entry(t, s + 1).index = (x + (s + 1)) % Len(e)
    BY DEF get_next_entry, RotationAt
  <2> QED BY <2>3, <2>4, <1>3
<1>7. Position(e, l, apply_rotation(t).index)
  BY <1>3, <1>4, <1>6 DEF Position
<1>8. Entry(t, s).value = Turn(e, l, g).map
  <2>1. Entry(t, s) = e[q]
    BY <1>2 DEF Entry, PlaceAt, RotationAt, Place
  <2>2. Turn(e, MapNumber(e, q), g).map = e[q].value
    BY <1>3, TurnOf
  <2> QED BY <2>1, <2>2, <1>4
<1>9. GametypeAfter(t, g) \in Turn(e, l, g).gametypes
  <2>1. GametypeAfter(t, g) \in GametypesAt(e, q, g)
    BY <1>1, <1>3, <1>5, GametypeOfTurn
  <2>2. Turn(e, MapNumber(e, q), g).gametypes = GametypesAt(e, q, g)
    BY <1>3, TurnOf
  <2> QED BY <2>1, <2>2, <1>4
<1> QED BY <1>1, <1>7, <1>8, <1>9

\* Wherever the position stands, it comes to stand behind the map launched.
LEMMA AppliedAnywhere ==
  ASSUME NEW e \in Seq(RotationEntry), NEW x \in 0..Len(e) - 1, Maps(e) # {},
         NEW t, t = RotationAt(e, x)
  PROVE  /\ PlaceAt(t, Steps(t)) \in Maps(e)
         /\ Position(e, MapNumber(e, PlaceAt(t, Steps(t))), apply_rotation(t).index)
<1>1. PICK s : s = Steps(t)
  OBVIOUS
<1>2. PICK q : q = Place(e, x, s)
  OBVIOUS
<1>3. s \in 0..Len(e) - 1 /\ q \in Maps(e) /\ (x + (s + 1)) % Len(e) = q % Len(e)
  BY <1>1, <1>2, Walk
<1>4. PlaceAt(t, s) = q
  BY <1>2 DEF PlaceAt, RotationAt, Place
<1>5. apply_rotation(t).index = q % Len(e)
  <2>1. s < Len(e)
    BY <1>3, LenProperties
  <2>2. HasMap(t)
    BY <2>1, <1>1 DEF HasMap, RotationAt
  <2>3. apply_rotation(t) = get_next_entry(t, s + 1)
    BY <2>2, <1>1 DEF apply_rotation
  <2>4. get_next_entry(t, s + 1).index = (x + (s + 1)) % Len(e)
    BY DEF get_next_entry, RotationAt
  <2> QED BY <2>3, <2>4, <1>3
<1> QED BY <1>1, <1>3, <1>4, <1>5 DEF Position

\* What is launched from a rotation e that stands in the order f: one of its maps,
\* and without chance the one whose turn it is.
Launched(l, e, f, k) ==
  Maps(e) # {} =>
    /\ l.from \in {"rotation", "random"} => \E i \in Maps(e) : e[i].value = l.map
    /\ l.from = "rotation" =>
         l.map = Turn(f, k, l.before).map /\ l.gametype \in Turn(f, k, l.before).gametypes

\* What the step does from t in the order f, the k-th map behind it, when the game
\* type g is in force and o is the order it leaves.
Applies(f, t, e, k, o, g) ==
  /\ Kept(apply_rotation(t), e, TurnAfter(f, t, k), o)
  /\ HasMap(t) => Entry(t, Steps(t)).value \in Name
  /\ GametypeAfter(t, g) \in Name
  /\ Maps(e) # {} =>
       /\ HasMap(t)
       /\ \E i \in Maps(e) : e[i].value = Entry(t, Steps(t)).value
       /\ ~sv_random_map_rotation =>
            /\ f = Standing(e, o)
            /\ Entry(t, Steps(t)).value = Turn(f, TurnAfter(f, t, k), g).map
            /\ GametypeAfter(t, g) \in Turn(f, TurnAfter(f, t, k), g).gametypes

\* The same for the entries as they stand or shuffled once more.
LEMMA Applied ==
  ASSUME sv_random_map_rotation \in BOOLEAN,
         NEW e \in Seq(RotationEntry), NEW r, NEW k, NEW o, Kept(r, e, k, o),
         r.rotation_entries # <<>>,
         NEW f \in IF sv_random_map_rotation THEN Shuffles(r.rotation_entries)
                   ELSE {r.rotation_entries},
         NEW g \in Name, NEW t, t = [r EXCEPT !.rotation_entries = f],
         NEW p, p = IF sv_random_map_rotation THEN f ELSE o
  PROVE  Applies(f, t, e, k, p, g)
<1>1. /\ r \in [rotation_entries : Seq(RotationEntry), index : Nat] /\ k \in Nat
      /\ Shuffled(r.rotation_entries, e)
      /\ e # <<>> => r.index < Len(e)
      /\ r.rotation_entries = Standing(e, o)
      /\ Maps(r.rotation_entries) # {} => Position(r.rotation_entries, k, r.index)
  BY DEF Kept
<1>2. f \in Seq(RotationEntry) /\ Shuffled(f, e)
  <2>1. CASE sv_random_map_rotation
    <3>1. PICK b \in Bijection(DOMAIN r.rotation_entries, DOMAIN r.rotation_entries) :
            f = [i \in DOMAIN r.rotation_entries |-> r.rotation_entries[b[i]]]
      BY <2>1 DEF Shuffles
    <3>2. f \in Seq(RotationEntry) /\ Shuffled(f, r.rotation_entries)
      BY <1>1, <3>1, ShuffleKeeps
    <3> QED BY <3>2, <1>1 DEF Shuffled
  <2>2. CASE ~sv_random_map_rotation
    BY <1>1, <2>2
  <2> QED BY <2>1, <2>2
<1>3. Len(e) \in Nat /\ Len(f) = Len(e) /\ f # <<>> /\ e # <<>>
  <2>1. Len(e) \in Nat /\ Len(f) = Len(e) /\ Len(r.rotation_entries) = Len(e)
    BY <1>1, <1>2, LenProperties DEF Shuffled
  <2>2. Len(r.rotation_entries) # 0
    BY <1>1, EmptySeq
  <2> QED BY <2>1, <2>2, <1>2, EmptySeq
<1>4. PICK x \in 0..Len(f) - 1 : x = r.index /\ t = RotationAt(f, x)
  <2>1. r.index \in 0..Len(f) - 1
    BY <1>1, <1>3
  <2>2. t = RotationAt(f, r.index)
    BY <1>1 DEF RotationAt
  <2> QED BY <2>1, <2>2
<1>5. /\ HasMap(t) <=> Maps(f) # {}
      /\ \E y \in 0..Len(f) - 1 : apply_rotation(t) = RotationAt(f, y)
      /\ HasMap(t) => Entry(t, Steps(t)).value \in Name
      /\ GametypeAfter(t, g) \in Name
  BY <1>2, <1>3, <1>4, AppliedTypes
<1>6. PICK y \in 0..Len(f) - 1 : apply_rotation(t) = RotationAt(f, y)
  BY <1>5
<1>7. Maps(f) # {} <=> Maps(e) # {}
  BY <1>2, ShuffledMaps, ShuffledBack
<1>8. ASSUME Maps(e) # {}
      PROVE  \E i \in Maps(e) : e[i].value = Entry(t, Steps(t)).value
  <2>1. PICK s : s = Steps(t)
    OBVIOUS
  <2>2. Place(f, x, s) \in Maps(f)
    BY <2>1, <1>2, <1>4, <1>7, <1>8, NextPlace
  <2>3. PICK i \in Maps(e) : e[i] = f[Place(f, x, s)]
    BY <2>2, <1>2, ShuffledMaps
  <2>4. Entry(t, s) = f[Place(f, x, s)]
    BY <1>4 DEF Entry, PlaceAt, RotationAt, Place
  <2> QED BY <2>1, <2>3, <2>4
<1>9. TurnAfter(f, t, k) \in Nat
  <2>1. \A c \in Nat : c # 0 => (k % c) + 1 \in Nat
    BY <1>1
  <2>2. Cardinality(Maps(f)) \in Nat /\ (Maps(f) # {} => Cardinality(Maps(f)) # 0)
    BY <1>2, MapPlaces, FS_EmptySet
  <2>3. \A i : MapNumber(f, i) \in Nat
    <3>1. ASSUME NEW i PROVE MapNumber(f, i) \in Nat
      <4>1. {j \in Maps(f) : j <= i} \subseteq Maps(f) /\ IsFiniteSet(Maps(f))
        BY <1>2, MapPlaces
      <4>2. IsFiniteSet({j \in Maps(f) : j <= i})
        BY <4>1, FS_Subset
      <4> QED BY <4>2, FS_CardinalityType DEF MapNumber
    <3> QED BY <3>1
  <2>4. CASE ~HasMap(t)
    BY <2>4 DEF TurnAfter
  <2>5. CASE HasMap(t) /\ sv_random_map_rotation
    BY <2>3, <2>5 DEF TurnAfter
  <2>6. CASE HasMap(t) /\ ~sv_random_map_rotation
    BY <2>1, <2>2, <2>6, <1>5 DEF TurnAfter
  <2> QED BY <2>4, <2>5, <2>6
<1>10. ASSUME Maps(f) # {}, ~sv_random_map_rotation
       PROVE  /\ f = Standing(e, p)
              /\ Position(f, TurnAfter(f, t, k), y)
              /\ Entry(t, Steps(t)).value = Turn(f, TurnAfter(f, t, k), g).map
              /\ GametypeAfter(t, g) \in Turn(f, TurnAfter(f, t, k), g).gametypes
  <2>1. f = r.rotation_entries /\ p = o /\ Position(f, k, x)
    BY <1>1, <1>4, <1>10
  <2>2. TurnAfter(f, t, k) = (k % Cardinality(Maps(f))) + 1
    BY <1>5, <1>10 DEF TurnAfter
  <2>3. apply_rotation(t).index = y
    BY <1>6 DEF RotationAt
  <2>4. /\ f \in Seq(RotationEntry) /\ x \in 0..Len(f) - 1 /\ Maps(f) # {}
        /\ Position(f, k, x)
    BY <2>1, <1>2, <1>10
  <2>5. LET l == (k % Cardinality(Maps(f))) + 1
            u == RotationAt(f, x)
        IN /\ Position(f, l, apply_rotation(u).index)
           /\ Entry(u, Steps(u)).value = Turn(f, l, g).map
           /\ GametypeAfter(u, g) \in Turn(f, l, g).gametypes
    BY <2>4, AppliedInOrder, Zenon
  <2> QED BY <2>1, <2>2, <2>3, <2>5, <1>1, <1>4
<1>11. ASSUME Maps(f) # {}
       PROVE  Position(f, TurnAfter(f, t, k), y)
  <2>1. CASE sv_random_map_rotation
    <3>1. TurnAfter(f, t, k) = MapNumber(f, PlaceAt(t, Steps(t)))
      BY <2>1, <1>5, <1>11 DEF TurnAfter
    <3>2. apply_rotation(t).index = y
      BY <1>6 DEF RotationAt
    <3> QED BY <3>1, <3>2, <1>2, <1>4, <1>11, AppliedAnywhere
  <2>2. CASE ~sv_random_map_rotation
    BY <2>2, <1>10, <1>11
  <2> QED BY <2>1, <2>2
<1>12. f = Standing(e, p)
  <2>1. CASE sv_random_map_rotation
    BY <2>1, <1>3 DEF Standing
  <2>2. CASE ~sv_random_map_rotation
    BY <2>2, <1>1
  <2> QED BY <2>1, <2>2
<1>13. Kept(apply_rotation(t), e, TurnAfter(f, t, k), p)
  <2>1. RotationAt(f, y) \in [rotation_entries : Seq(RotationEntry), index : Nat]
    BY <1>2, <1>3 DEF RotationAt
  <2>2. RotationAt(f, y).rotation_entries = f /\ RotationAt(f, y).index = y /\ y < Len(e)
    BY <1>3 DEF RotationAt
  <2> QED BY <2>1, <2>2, <1>2, <1>6, <1>9, <1>11, <1>12 DEF Kept
<1> QED BY <1>5, <1>7, <1>8, <1>10, <1>13 DEF Applies

-----------------------------------------------------------------------------
(* The inductive invariant.                                                *)

From == {"none", "current", "default", "rotation", "random"}
CommandName == Name \cup {"map_rotate"}

RotationTypeOK ==
  /\ sv_map_rotation \in Seq(Name) /\ sv_map_rotation_current \in Seq(Name)
  /\ sv_random_map_rotation \in BOOLEAN
  /\ g_gametype \in Name /\ mapname \in Name /\ loaded \in Seq(Name)
  /\ triggered \in Int /\ deferred \in Int /\ asked \in Int
  /\ commands \in Seq(CommandName)
  /\ last \in [from : From, map : Name, gametype : Name, before : Name]

\* Nothing is launched from a rotation before one is loaded; from then on the
\* position stands behind the map that was launched last.
Rotating ==
  /\ Kept(rotation, parse(loaded), turn, order)
  /\ loaded = <<>> => turn = 0 /\ order = <<>> /\ last.from \notin {"rotation", "random"}
  /\ Launched(last, parse(loaded), Standing(parse(loaded), order), turn)

\* No rotation is lost or done twice.
Rotations ==
  asked = triggered + deferred + Cardinality(Occurrences("map_rotate", commands))

RotationInv == RotationTypeOK /\ Rotating /\ Rotations

\* What is launched is not taken for the command map_rotate.
LEMMA RotationNames ==
  /\ "" \in Name /\ "war" \in Name /\ "mp_prisonbreak" \in Name /\ "map_rotate" \notin Name
  /\ Rotation \subseteq Seq(Name) /\ Current \subseteq Seq(Name)
<1>1. "" \in Name /\ "war" \in Name /\ "mp_prisonbreak" \in Name
  BY DEF Name
<1> QED BY <1>1, RotationAssumption

\* Nor is the map launched without a rotation.
LEMMA DefaultName ==
  ASSUME RotationTypeOK
  PROVE  DefaultMap \in Name
BY RotationNames DEF RotationTypeOK, DefaultMap

\* A rotation just loaded stands before its first round.
LEMMA KeptFirst ==
  ASSUME NEW e \in Seq(RotationEntry)
  PROVE  Kept(rotation_data(e), e, 0, <<>>)
<1>1. /\ rotation_data(e) \in [rotation_entries : Seq(RotationEntry), index : Nat]
      /\ rotation_data(e).rotation_entries = e /\ rotation_data(e).index = 0
  BY DEF rotation_data
<1>2. e # <<>> => 0 < Len(e)
  BY EmptySeq, LenProperties
<1>3. Position(e, 0, 0)
  BY DEF Position
<1> QED BY <1>1, <1>2, <1>3 DEF Kept, Shuffled, Standing

\* A command that is not map_rotate leaves their number as it is.
LEMMA CommandAdded ==
  ASSUME NEW rest \in Seq(CommandName), NEW n \in CommandName
  PROVE  /\ Append(rest, n) \in Seq(CommandName)
         /\ Cardinality(Occurrences("map_rotate", Append(rest, n))) =
              Cardinality(Occurrences("map_rotate", rest)) + (IF n = "map_rotate" THEN 1 ELSE 0)
         /\ Cardinality(Occurrences("map_rotate", rest)) \in Nat
<1>1. Append(rest, n) \in Seq(CommandName)
  BY AppendElements
<1>2. Cardinality(Occurrences("map_rotate", rest)) \in Nat
  BY OccurrencesFinite
<1>3. \A o : Cardinality(Occurrences(o, Append(rest, n))) =
              Cardinality(Occurrences(o, rest)) + (IF n = o THEN 1 ELSE 0)
  BY OccurrencesAppend
<1> QED BY <1>1, <1>2, <1>3, Zenon

\* The game takes the first command.
LEMMA CommandTaken ==
  ASSUME NEW cs \in Seq(CommandName), cs # <<>>
  PROVE  /\ Tail(cs) \in Seq(CommandName) /\ Head(cs) \in CommandName
         /\ Cardinality(Occurrences("map_rotate", cs)) =
              Cardinality(Occurrences("map_rotate", Tail(cs))) + (IF Head(cs) = "map_rotate" THEN 1 ELSE 0)
         /\ Cardinality(Occurrences("map_rotate", Tail(cs))) \in Nat
<1> DEFINE h == Head(cs)
           t == Tail(cs)
           o == Append(<<>>, h)
<1>1. h \in CommandName /\ t \in Seq(CommandName)
  BY HeadTailProperties
<1>2. o = <<h>> /\ o \in Seq(CommandName) /\ <<>> \in Seq(CommandName)
  BY <1>1
<1>3. cs = o \o t
  <2>1. cs = <<h>> \o t
    BY HeadFirst
  <2> QED BY <2>1, <1>2
<1>4. Cardinality(Occurrences("map_rotate", <<>>)) = 0
  <2>1. Occurrences("map_rotate", <<>>) = {}
    BY DEF Occurrences
  <2> QED BY <2>1, FS_EmptySet
<1> HIDE DEF h, t
<1>5. Cardinality(Occurrences("map_rotate", o)) = 0 + (IF h = "map_rotate" THEN 1 ELSE 0)
  <2>1. \A x : Cardinality(Occurrences(x, Append(<<>>, h))) =
                Cardinality(Occurrences(x, <<>>)) + (IF h = x THEN 1 ELSE 0)
    BY <1>1, <1>2, OccurrencesAppend
  <2> QED BY <2>1, <1>4, Zenon
<1> HIDE DEF o
<1>6. Cardinality(Occurrences("map_rotate", o \o t)) =
        Cardinality(Occurrences("map_rotate", o)) + Cardinality(Occurrences("map_rotate", t))
  BY <1>1, <1>2, OccurrencesConcat
<1>7. Cardinality(Occurrences("map_rotate", t)) \in Nat
  BY <1>1, OccurrencesFinite
<1>8. Cardinality(Occurrences("map_rotate", cs)) =
        Cardinality(Occurrences("map_rotate", t)) + (IF h = "map_rotate" THEN 1 ELSE 0)
  BY <1>3, <1>5, <1>6, <1>7
<1> QED BY <1>1, <1>7, <1>8 DEF h, t

-----------------------------------------------------------------------------
(* A rotation launches a map.                                              *)

\* What launch_map, with the entries loaded and the number of the map, comes to.
LaunchedTypes ==
  /\ sv_map_rotation_current \in Seq(Name) /\ g_gametype \in Name /\ loaded \in Seq(Name)
  /\ last \in [from : From, map : Name, gametype : Name, before : Name]

\* launch_map, with set_gametype before it.
LEMMA LaunchMap ==
  ASSUME RotationTypeOK, NEW rest \in Seq(CommandName), NEW from \in From, NEW map \in Name,
         NEW gametype \in Name, launch_map(from, map, gametype, rest)
  PROVE  /\ g_gametype' \in Name /\ asked' = asked - 1
         /\ last' = [from |-> from, map |-> map, gametype |-> gametype, before |-> g_gametype]
         /\ last' \in [from : From, map : Name, gametype : Name, before : Name]
         /\ \E m \in Name : commands' = Append(rest, m)
BY DEF RotationTypeOK, launch_map

\* A current rotation leaves the position in the rotation as it is.
LEMMA LaunchCurrent ==
  ASSUME RotationTypeOK, Rotating, NEW rest \in Seq(CommandName), apply_map_rotation_current(rest)
  PROVE  /\ LaunchedTypes' /\ Rotating' /\ asked' = asked - 1
         /\ \E m \in Name : commands' = Append(rest, m)
<1>1. /\ sv_map_rotation_current \in Seq(Name) /\ g_gametype \in Name /\ loaded \in Seq(Name)
  BY DEF RotationTypeOK
<1> DEFINE e == parse(sv_map_rotation_current)
           r == rotation_data(e)
<1>2. e \in Seq(RotationEntry) /\ r = RotationAt(e, 0) /\ r.rotation_entries = e
  BY <1>1, ParseType DEF rotation_data, RotationAt
<1>3. /\ sv_map_rotation_current' = <<>> /\ UNCHANGED <<rotation, loaded, order, turn>>
      /\ IF r.rotation_entries = <<>> THEN launch_default_map("current", rest)
         ELSE launch_map("current", NextMap(r), GametypeAfter(r, g_gametype), rest)
  BY DEF apply_map_rotation_current
<1> HIDE DEF e, r
<1>4. \E map \in Name : \E gametype \in Name : launch_map("current", map, gametype, rest)
  <2>1. CASE e = <<>>
    BY <2>1, <1>1, <1>2, <1>3, DefaultName DEF launch_default_map
  <2>2. CASE e # <<>>
    <3>1. 0 \in 0..Len(e) - 1
      BY <1>2, <2>2, EmptySeq, LenProperties
    <3>2. /\ HasMap(r) => Entry(r, Steps(r)).value \in Name
          /\ GametypeAfter(r, g_gametype) \in Name
      BY <3>1, <2>2, <1>1, <1>2, AppliedTypes
    <3>3. NextMap(r) \in Name
      BY <3>2, DefaultName DEF NextMap
    <3> QED BY <3>2, <3>3, <2>2, <1>2, <1>3
  <2> QED BY <2>1, <2>2
<1>5. PICK map \in Name : \E gametype \in Name : launch_map("current", map, gametype, rest)
  BY <1>4
<1>6. PICK gametype \in Name : launch_map("current", map, gametype, rest)
  BY <1>5
<1>7. /\ g_gametype' \in Name /\ asked' = asked - 1
      /\ last' = [from |-> "current", map |-> map, gametype |-> gametype, before |-> g_gametype]
      /\ last' \in [from : From, map : Name, gametype : Name, before : Name]
      /\ \E m \in Name : commands' = Append(rest, m)
  <2>1. "current" \in From
    BY DEF From
  <2> QED BY <2>1, <1>6, LaunchMap
<1>8. LaunchedTypes'
  <2>1. sv_map_rotation_current' \in Seq(Name)
    BY <1>3
  <2> QED BY <2>1, <1>1, <1>3, <1>7 DEF LaunchedTypes
<1>9. Rotating'
  <2>1. last'.from = "current"
    BY <1>7
  <2> QED BY <2>1, <1>3 DEF Rotating, Launched
<1> QED BY <1>7, <1>8, <1>9

\* load_map_rotation: a rotation is loaded at its start, or the one loaded stays.
LEMMA LoadedKept ==
  ASSUME RotationTypeOK, Rotating, load_map_rotation
  PROVE  /\ loaded' \in Seq(Name)
         /\ Kept(Loaded, parse(loaded'), turn, order)
         /\ loaded' = <<>> => Loaded.rotation_entries = <<>> /\ turn = 0 /\ order = <<>>
         /\ Loaded.rotation_entries = <<>> => parse(loaded') = <<>>
<1>1. /\ sv_map_rotation \in Seq(Name) /\ loaded \in Seq(Name)
      /\ Kept(rotation, parse(loaded), turn, order)
      /\ loaded = <<>> => turn = 0 /\ order = <<>>
  BY DEF RotationTypeOK, Rotating
<1>2. loaded' = IF loaded = <<>> THEN sv_map_rotation ELSE loaded
  BY DEF load_map_rotation
<1>3. loaded' \in Seq(Name) /\ Kept(Loaded, parse(loaded'), turn, order)
  <2>1. CASE loaded = <<>> /\ sv_map_rotation # <<>>
    <3>1. Loaded = rotation_data(parse(sv_map_rotation)) /\ loaded' = sv_map_rotation /\ turn = 0 /\ order = <<>>
      BY <2>1, <1>1, <1>2 DEF Loaded
    <3>2. parse(sv_map_rotation) \in Seq(RotationEntry)
      BY <1>1, ParseType
    <3>3. Kept(rotation_data(parse(sv_map_rotation)), parse(sv_map_rotation), 0, <<>>)
      BY <3>2, KeptFirst
    <3> QED BY <3>1, <3>3, <1>1
  <2>2. CASE ~(loaded = <<>> /\ sv_map_rotation # <<>>)
    <3>1. Loaded = rotation /\ loaded' = loaded
      BY <2>2, <1>2 DEF Loaded
    <3> QED BY <3>1, <1>1
  <2> QED BY <2>1, <2>2
<1>4. /\ Loaded.rotation_entries \in Seq(RotationEntry) /\ parse(loaded') \in Seq(RotationEntry)
      /\ Len(Loaded.rotation_entries) = Len(parse(loaded'))
  BY <1>3, ParseType DEF Kept, Shuffled
<1>5. ASSUME loaded' = <<>>
      PROVE  Loaded.rotation_entries = <<>> /\ turn = 0 /\ order = <<>>
  <2>1. parse(loaded') = <<>>
    BY <1>5, ParseEmpty
  <2>2. Len(Loaded.rotation_entries) = 0
    BY <2>1, <1>4, EmptySeq
  <2> QED BY <2>2, <1>1, <1>2, <1>4, <1>5, EmptySeq
<1>6. ASSUME Loaded.rotation_entries = <<>>
      PROVE  parse(loaded') = <<>>
  <2>1. Len(parse(loaded')) = 0
    BY <1>4, <1>6, EmptySeq
  <2> QED BY <2>1, <1>4, EmptySeq
<1> QED BY <1>3, <1>5, <1>6

\* The rotation launches its next map, or the default one if it has no entries.
LEMMA LaunchRotation ==
  ASSUME RotationTypeOK, Rotating, NEW rest \in Seq(CommandName), apply_map_rotation(rest)
  PROVE  /\ LaunchedTypes' /\ Rotating' /\ asked' = asked - 1
         /\ \E m \in Name : commands' = Append(rest, m)
<1>1. /\ sv_map_rotation_current \in Seq(Name) /\ g_gametype \in Name
      /\ sv_random_map_rotation \in BOOLEAN
  BY DEF RotationTypeOK
<1>2. sv_map_rotation_current' = sv_map_rotation_current /\ load_map_rotation
  BY DEF apply_map_rotation
<1>3. /\ loaded' \in Seq(Name) /\ parse(loaded') \in Seq(RotationEntry)
      /\ Kept(Loaded, parse(loaded'), turn, order)
      /\ loaded' = <<>> => Loaded.rotation_entries = <<>> /\ turn = 0 /\ order = <<>>
      /\ Loaded.rotation_entries = <<>> => parse(loaded') = <<>>
  BY <1>2, LoadedKept, ParseType
<1>4. CASE Loaded.rotation_entries = <<>>
  <2>1. /\ launch_map("default", DefaultMap, g_gametype, rest)
        /\ rotation' = Loaded /\ turn' = turn /\ order' = order
    BY <1>4 DEF apply_map_rotation, launch_default_map
  <2>2. "default" \in From /\ DefaultMap \in Name
    BY DefaultName DEF From
  <2>3. /\ g_gametype' \in Name /\ asked' = asked - 1
        /\ last' = [from |-> "default", map |-> DefaultMap, gametype |-> g_gametype,
                    before |-> g_gametype]
        /\ last' \in [from : From, map : Name, gametype : Name, before : Name]
        /\ \E m \in Name : commands' = Append(rest, m)
    BY <2>1, <2>2, <1>1, LaunchMap
  <2>4. Rotating'
    <3>1. last'.from = "default"
      BY <2>3
    <3> QED BY <3>1, <2>1, <1>3 DEF Rotating, Launched
  <2>5. LaunchedTypes'
    BY <2>3, <1>1, <1>2, <1>3 DEF LaunchedTypes
  <2> QED BY <2>3, <2>4, <2>5
<1>5. CASE Loaded.rotation_entries # <<>>
  <2>1. PICK f \in IF sv_random_map_rotation THEN Shuffles(Loaded.rotation_entries)
                   ELSE {Loaded.rotation_entries} :
          LET r == [Loaded EXCEPT !.rotation_entries = f]
          IN /\ launch_map(IF sv_random_map_rotation THEN "random" ELSE "rotation",
                           NextMap(r), GametypeAfter(r, g_gametype), rest)
             /\ rotation' = apply_rotation(r)
             /\ order' = IF sv_random_map_rotation THEN f ELSE order
             /\ turn' = TurnAfter(f, r, turn)
    BY <1>5, Zenon DEF apply_map_rotation
  <2>2. PICK r : r = [Loaded EXCEPT !.rotation_entries = f]
    OBVIOUS
  <2>3. PICK from : from = IF sv_random_map_rotation THEN "random" ELSE "rotation"
    OBVIOUS
  <2>4. /\ launch_map(from, NextMap(r), GametypeAfter(r, g_gametype), rest)
        /\ rotation' = apply_rotation(r) /\ turn' = TurnAfter(f, r, turn)
        /\ order' = IF sv_random_map_rotation THEN f ELSE order
    BY <2>1, <2>2, <2>3, Zenon
  <2>5. PICK e : e = parse(loaded')
    OBVIOUS
  <2>6. /\ Kept(apply_rotation(r), e, TurnAfter(f, r, turn), order')
        /\ HasMap(r) => Entry(r, Steps(r)).value \in Name
        /\ GametypeAfter(r, g_gametype) \in Name
        /\ Maps(e) # {} =>
             /\ HasMap(r)
             /\ \E i \in Maps(e) : e[i].value = Entry(r, Steps(r)).value
             /\ ~sv_random_map_rotation =>
                  /\ f = Standing(e, order')
                  /\ Entry(r, Steps(r)).value = Turn(f, TurnAfter(f, r, turn), g_gametype).map
                  /\ GametypeAfter(r, g_gametype)
                       \in Turn(f, TurnAfter(f, r, turn), g_gametype).gametypes
    <3>1. e \in Seq(RotationEntry) /\ Kept(Loaded, e, turn, order)
      BY <2>5, <1>3
    <3>2. Applies(f, r, e, turn, order', g_gametype)
      BY <3>1, <2>2, <2>4, <1>1, <1>5, Applied
    <3> QED BY <3>2 DEF Applies
  <2>7. NextMap(r) \in Name /\ from \in From
    BY <2>3, <2>6, DefaultName DEF NextMap, From
  <2>8. /\ g_gametype' \in Name /\ asked' = asked - 1
        /\ last' = [from |-> from, map |-> NextMap(r), gametype |-> GametypeAfter(r, g_gametype),
                    before |-> g_gametype]
        /\ last' \in [from : From, map : Name, gametype : Name, before : Name]
        /\ \E m \in Name : commands' = Append(rest, m)
    BY <2>4, <2>6, <2>7, LaunchMap
  <2>9. /\ last'.from = from /\ last'.map = NextMap(r) /\ last'.before = g_gametype
        /\ last'.gametype = GametypeAfter(r, g_gametype)
    BY <2>8
  <2>10. Launched(last', e, Standing(e, order'), turn')
    <3> SUFFICES ASSUME Maps(e) # {}
                 PROVE  /\ \E i \in Maps(e) : e[i].value = last'.map
                        /\ last'.from = "rotation" =>
                             LET u == Turn(Standing(e, order'), turn', last'.before)
                             IN last'.map = u.map /\ last'.gametype \in u.gametypes
      BY DEF Launched
    <3>1. NextMap(r) = Entry(r, Steps(r)).value
      BY <2>6 DEF NextMap
    <3> QED BY <3>1, <2>3, <2>4, <2>6, <2>9, <1>1
  <2>11. Rotating'
    <3>1. Kept(rotation', e, turn', order')
      BY <2>4, <2>6
    <3>2. loaded' # <<>>
      BY <1>3, <1>5
    <3> QED BY <3>1, <3>2, <2>5, <2>10 DEF Rotating
  <2>12. LaunchedTypes'
    BY <2>8, <1>1, <1>2, <1>3 DEF LaunchedTypes
  <2> QED BY <2>8, <2>11, <2>12
<1> QED BY <1>4, <1>5

-----------------------------------------------------------------------------
(* The steps.                                                              *)

\* apply_map_rotation_current or else apply_map_rotation, before the commands rest.
LEMMA Performs ==
  ASSUME RotationTypeOK, Rotating, NEW rest \in Seq(CommandName),
         apply_map_rotation_current(rest) \/ apply_map_rotation(rest),
         UNCHANGED <<sv_map_rotation, sv_random_map_rotation, mapname, triggered>>, deferred' \in Int,
         asked = triggered + deferred' + Cardinality(Occurrences("map_rotate", rest)) + 1
  PROVE  RotationInv'
<1>1. /\ LaunchedTypes' /\ Rotating' /\ asked' = asked - 1
      /\ \E m \in Name : commands' = Append(rest, m)
  BY LaunchCurrent, LaunchRotation
<1>2. PICK m \in Name : commands' = Append(rest, m)
  BY <1>1
<1>3. m \in CommandName /\ m # "map_rotate"
  BY RotationNames DEF CommandName
<1>4. /\ Append(rest, m) \in Seq(CommandName)
      /\ Cardinality(Occurrences("map_rotate", Append(rest, m))) =
           Cardinality(Occurrences("map_rotate", rest)) + (IF m = "map_rotate" THEN 1 ELSE 0)
      /\ Cardinality(Occurrences("map_rotate", rest)) \in Nat
  BY <1>3, CommandAdded
<1>5. Cardinality(Occurrences("map_rotate", commands))' = Cardinality(Occurrences("map_rotate", rest))
  <2>1. Cardinality(Occurrences("map_rotate", Append(rest, m))) = Cardinality(Occurrences("map_rotate", rest))
    BY <1>3, <1>4
  <2> QED BY <2>1, <1>2
<1>6. asked \in Int /\ triggered \in Int
  BY DEF RotationTypeOK
<1>7. Rotations'
  <2>1. asked' = triggered' + deferred' + Cardinality(Occurrences("map_rotate", rest))
    BY <1>1, <1>4, <1>6
  <2> QED BY <2>1, <1>5 DEF Rotations
<1>8. RotationTypeOK'
  <2>1. asked' \in Int /\ triggered' \in Int /\ commands' \in Seq(CommandName)
    BY <1>1, <1>2, <1>4, <1>6
  <2> QED BY <2>1, <1>1 DEF RotationTypeOK, LaunchedTypes
<1> QED BY <1>1, <1>7, <1>8 DEF RotationInv

\* Of the steps that launch no map: what the position depends on stays.
LEMMA SameRotation ==
  ASSUME Rotating, UNCHANGED <<rotation, loaded, order, turn, last>>
  PROVE  Rotating'
BY DEF Rotating

\* A command of the buffer: map_rotate rotates or is put off, another launches.
LEMMA ExecuteStep ==
  ASSUME RotationInv, ExecuteCommand
  PROVE  RotationInv'
<1>1. /\ RotationTypeOK /\ Rotating /\ Rotations /\ commands \in Seq(CommandName) /\ commands # <<>>
      /\ triggered \in Int /\ deferred \in Int /\ asked \in Int
  BY DEF RotationInv, RotationTypeOK, ExecuteCommand
<1>2. PICK rest : rest = Tail(commands)
  OBVIOUS
<1>3. PICK c : c = Head(commands)
  OBVIOUS
<1>4. /\ rest \in Seq(CommandName) /\ c \in CommandName
      /\ Cardinality(Occurrences("map_rotate", commands)) =
           Cardinality(Occurrences("map_rotate", rest)) + (IF c = "map_rotate" THEN 1 ELSE 0)
      /\ Cardinality(Occurrences("map_rotate", rest)) \in Nat
  BY <1>1, <1>2, <1>3, CommandTaken
<1>5. CASE c = "map_rotate"
  <2>1. perform_map_rotation(rest)
    BY <1>2, <1>3, <1>5 DEF ExecuteCommand
  <2>2. asked = triggered + deferred + Cardinality(Occurrences("map_rotate", rest)) + 1
    BY <1>1, <1>4, <1>5 DEF Rotations
  <2>3. CASE unsynced
    <3>1. /\ deferred' = deferred + 1 /\ commands' = rest
          /\ UNCHANGED <<sv_map_rotation_current, rotation, loaded, order, turn, g_gametype, last,
                          asked>>
          /\ UNCHANGED <<sv_map_rotation, sv_random_map_rotation, mapname, triggered>>
      BY <2>1, <2>3 DEF perform_map_rotation
    <3>2. RotationTypeOK'
      BY <3>1, <1>1, <1>4 DEF RotationTypeOK
    <3>3. Rotations'
      <4>1. Cardinality(Occurrences("map_rotate", commands))' = Cardinality(Occurrences("map_rotate", rest))
        BY <3>1
      <4>2. asked' = triggered' + deferred' + Cardinality(Occurrences("map_rotate", rest))
        BY <3>1, <2>2, <1>1, <1>4
      <4> QED BY <4>1, <4>2 DEF Rotations
    <3> QED BY <3>1, <3>2, <3>3, <1>1, SameRotation DEF RotationInv
  <2>4. CASE ~unsynced
    <3>1. /\ apply_map_rotation_current(rest) \/ apply_map_rotation(rest)
          /\ UNCHANGED <<sv_map_rotation, sv_random_map_rotation, mapname, triggered>>
          /\ deferred' = deferred
      BY <2>1, <2>4 DEF perform_map_rotation
    <3> QED BY <3>1, <2>2, <1>1, <1>4, Performs
  <2> QED BY <2>3, <2>4
<1>6. CASE c # "map_rotate"
  <2>1. /\ mapname' = c /\ commands' = rest
        /\ UNCHANGED <<sv_map_rotation, sv_map_rotation_current, sv_random_map_rotation, g_gametype,
                       rotation, loaded, triggered, deferred, last, order, turn, asked>>
    BY <1>2, <1>3, <1>6 DEF ExecuteCommand
  <2>2. c \in Name
    BY <1>4, <1>6 DEF CommandName
  <2>3. RotationTypeOK'
    BY <2>1, <2>2, <1>1, <1>4 DEF RotationTypeOK
  <2>4. Rotations'
    <3>1. Cardinality(Occurrences("map_rotate", commands))' = Cardinality(Occurrences("map_rotate", rest))
      BY <2>1
    <3>2. asked = triggered + deferred + Cardinality(Occurrences("map_rotate", rest))
      BY <1>1, <1>4, <1>6 DEF Rotations
    <3> QED BY <3>1, <3>2, <2>1 DEF Rotations
  <2> QED BY <2>1, <2>3, <2>4, <1>1, SameRotation DEF RotationInv
<1> QED BY <1>5, <1>6

\* A rotation put off takes place, or waits on.
LEMMA DeferredStep ==
  ASSUME RotationInv, RunDeferred
  PROVE  RotationInv'
<1>1. /\ RotationTypeOK /\ Rotating /\ Rotations /\ commands \in Seq(CommandName)
      /\ triggered \in Int /\ deferred \in Int /\ asked \in Int
  BY DEF RotationInv, RotationTypeOK
<1>2. CASE unsynced
  <2>1. UNCHANGED rotationVars
    BY <1>2 DEF RunDeferred
  <2> QED BY <2>1, <1>1, SameRotation DEF rotationVars, RotationInv, RotationTypeOK, Rotations
<1>3. CASE ~unsynced
  <2>1. /\ deferred' = deferred - 1
        /\ apply_map_rotation_current(commands) \/ apply_map_rotation(commands)
        /\ UNCHANGED <<sv_map_rotation, sv_random_map_rotation, mapname, triggered>>
    BY <1>3 DEF RunDeferred
  <2>2. Cardinality(Occurrences("map_rotate", commands)) \in Nat
    BY <1>1, OccurrencesFinite
  <2>3. deferred' \in Int
        /\ asked = triggered + deferred' + Cardinality(Occurrences("map_rotate", commands)) + 1
    BY <2>1, <2>2, <1>1 DEF Rotations
  <2> QED BY <2>1, <2>3, <1>1, Performs
<1> QED BY <1>2, <1>3

\* The command map_rotate, from a task or from the administrator.
LEMMA RotateAdded ==
  ASSUME RotationInv
  PROVE  /\ Append(commands, "map_rotate") \in Seq(CommandName)
         /\ Cardinality(Occurrences("map_rotate", Append(commands, "map_rotate"))) =
              Cardinality(Occurrences("map_rotate", commands)) + 1
         /\ Cardinality(Occurrences("map_rotate", commands)) \in Nat
<1>1. commands \in Seq(CommandName) /\ "map_rotate" \in CommandName
  BY DEF RotationInv, RotationTypeOK, CommandName
<1> QED BY <1>1, CommandAdded

\* Every step keeps the invariant.
LEMMA RotationStep ==
  ASSUME RotationInv, [RotationNext]_rotationVars
  PROVE  RotationInv'
<1>1. /\ RotationTypeOK /\ Rotating /\ Rotations
      /\ triggered \in Int /\ deferred \in Int /\ asked \in Int
      /\ Cardinality(Occurrences("map_rotate", commands)) \in Nat
  BY RotateAdded DEF RotationInv, RotationTypeOK
<1>2. CASE ExecuteCommand
  BY <1>2, ExecuteStep
<1>3. CASE RunDeferred
  BY <1>3, DeferredStep
<1>4. CASE trigger_map_rotation
  <2>1. /\ triggered' = triggered + 1 /\ asked' = asked + 1 /\ UNCHANGED <<Game, deferred, commands>>
    BY <1>4 DEF trigger_map_rotation
  <2>2. RotationTypeOK'
    BY <2>1, <1>1 DEF RotationTypeOK, Game
  <2>3. Rotations'
    BY <2>1, <1>1 DEF Rotations
  <2> QED BY <2>1, <2>2, <2>3, <1>1, SameRotation DEF RotationInv, Game
<1>5. CASE RunTriggered
  <2>1. /\ triggered' = triggered - 1 /\ commands' = Append(commands, "map_rotate")
        /\ UNCHANGED <<Game, deferred, asked>>
    BY <1>5 DEF RunTriggered
  <2>2. RotationTypeOK'
    BY <2>1, <1>1, RotateAdded DEF RotationTypeOK, Game
  <2>3. Rotations'
    <3>1. Cardinality(Occurrences("map_rotate", commands))' = Cardinality(Occurrences("map_rotate", commands)) + 1
      BY <2>1, RotateAdded
    <3> QED BY <3>1, <2>1, <1>1 DEF Rotations
  <2> QED BY <2>1, <2>2, <2>3, <1>1, SameRotation DEF RotationInv, Game
<1>6. CASE map_rotate
  <2>1. /\ asked' = asked + 1 /\ commands' = Append(commands, "map_rotate")
        /\ UNCHANGED <<Game, triggered, deferred>>
    BY <1>6 DEF map_rotate
  <2>2. RotationTypeOK'
    BY <2>1, <1>1, RotateAdded DEF RotationTypeOK, Game
  <2>3. Rotations'
    <3>1. Cardinality(Occurrences("map_rotate", commands))' = Cardinality(Occurrences("map_rotate", commands)) + 1
      BY <2>1, RotateAdded
    <3> QED BY <3>1, <2>1, <1>1 DEF Rotations
  <2> QED BY <2>1, <2>2, <2>3, <1>1, SameRotation DEF RotationInv, Game
<1>7. CASE SetCurrent
  <2>1. /\ sv_map_rotation_current' \in Current
        /\ UNCHANGED <<sv_map_rotation, sv_random_map_rotation, g_gametype, mapname, rotation, loaded,
                       triggered, deferred, commands, last, order, turn, asked>>
    BY <1>7 DEF SetCurrent
  <2>2. RotationTypeOK'
    BY <2>1, <1>1, RotationNames DEF RotationTypeOK
  <2>3. Rotations'
    BY <2>1, <1>1 DEF Rotations
  <2> QED BY <2>1, <2>2, <2>3, <1>1, SameRotation DEF RotationInv
<1>8. CASE SetRotation
  <2>1. /\ sv_map_rotation' \in Rotation
        /\ UNCHANGED <<sv_map_rotation_current, sv_random_map_rotation, g_gametype, mapname, rotation,
                       loaded, triggered, deferred, commands, last, order, turn, asked>>
    BY <1>8 DEF SetRotation
  <2>2. RotationTypeOK'
    BY <2>1, <1>1, RotationNames DEF RotationTypeOK
  <2>3. Rotations'
    BY <2>1, <1>1 DEF Rotations
  <2> QED BY <2>1, <2>2, <2>3, <1>1, SameRotation DEF RotationInv
<1>9. CASE GameChanges \/ UNCHANGED rotationVars
  <2>1. UNCHANGED <<Game, triggered, deferred, commands, asked>>
    BY <1>9 DEF GameChanges, rotationVars, Game
  <2>2. RotationTypeOK'
    BY <2>1, <1>1 DEF RotationTypeOK, Game
  <2>3. Rotations'
    BY <2>1, <1>1 DEF Rotations
  <2> QED BY <2>1, <2>2, <2>3, <1>1, SameRotation DEF RotationInv, Game
<1>10. CASE SetRandom
  <2>1. /\ sv_random_map_rotation' = ~sv_random_map_rotation
        /\ UNCHANGED <<sv_map_rotation, sv_map_rotation_current, g_gametype, mapname, rotation, loaded,
                       triggered, deferred, commands, last, order, turn, asked>>
    BY <1>10 DEF SetRandom
  <2>2. sv_random_map_rotation' \in BOOLEAN
    BY <2>1
  <2>3. RotationTypeOK'
    BY <2>1, <2>2, <1>1 DEF RotationTypeOK
  <2>4. Rotations'
    BY <2>1, <1>1 DEF Rotations
  <2> QED BY <2>1, <2>3, <2>4, <1>1, SameRotation DEF RotationInv
<1> QED BY <1>2, <1>3, <1>4, <1>5, <1>6, <1>7, <1>8, <1>9, <1>10 DEF RotationNext

\* It holds at the start.
LEMMA RotationInitially ==
  ASSUME RotationInit
  PROVE  RotationInv
<1>1. RotationTypeOK
  <2>1. "none" \in From
    BY DEF From
  <2>2. last \in [from : From, map : Name, gametype : Name, before : Name]
    BY <2>1, RotationNames DEF RotationInit
  <2>3. /\ sv_map_rotation \in Seq(Name) /\ sv_random_map_rotation \in BOOLEAN
        /\ g_gametype \in Name /\ mapname \in Name
    BY RotationNames DEF RotationInit
  <2>4. /\ sv_map_rotation_current = <<>> /\ loaded = <<>> /\ commands = <<>>
        /\ triggered = 0 /\ deferred = 0 /\ asked = 0
    BY DEF RotationInit
  <2> QED BY <2>2, <2>3, <2>4 DEF RotationTypeOK
<1>2. Rotating
  <2>1. <<>> \in Seq(RotationEntry)
    OBVIOUS
  <2>2. Kept(rotation, parse(loaded), turn, order)
    BY <2>1, ParseEmpty, KeptFirst DEF RotationInit
  <2> QED BY <2>2 DEF RotationInit, Rotating, Launched
<1>3. Rotations
  <2>1. Occurrences("map_rotate", <<>>) = {}
    BY DEF Occurrences
  <2>2. Cardinality(Occurrences("map_rotate", <<>>)) = 0
    BY <2>1, FS_EmptySet
  <2>3. commands = <<>> /\ asked = 0 /\ triggered = 0 /\ deferred = 0
    BY DEF RotationInit
  <2> QED BY <2>2, <2>3 DEF Rotations
<1> QED BY <1>1, <1>2, <1>3 DEF RotationInv

\* No rotation asked for is lost or done twice, and one that is not random plays the
\* next map with its game type, in the order written or, once there was a random
\* one, in the order the last of them left: whatever the rotation says, however
\* rotations are asked for, put off and crossed with a current rotation, and
\* whenever sv_randomMapRotation is set and reset.
THEOREM RotationsInOrder == RotationSpec => []RotationInOrder
<1>1. RotationInv => RotationInOrder
  BY DEF RotationInv, RotationInOrder, Rotating, Rotations, Launched, Standing, Occurrences
<1> QED BY <1>1, RotationInitially, RotationStep, PTL DEF RotationSpec

-----------------------------------------------------------------------------
(* Bots.  The number of tasks that spawn or look after the bot of a slot   *)
(* is bounded by the bots that have been in it, and the other tasks of a   *)
(* slot are pending only where a bot has been.                             *)

SlotOp == {"spawn", "bot_team", "team", "class"}

ClientKind == [kind : {"nobody", "human", "bot"}, team : {"none", "spectator", "playing"}]

BotsTypeOK ==
  /\ bot_client \in [BotSlot -> ClientKind] /\ bot_tasks \in [Tasks -> Nat]
  /\ departures \in [BotSlot -> Nat] /\ commanded \subseteq BotSlot
  /\ bot_names \subseteq BotName /\ bot_named \in BotName \cup {OwnName}

\* The tasks that spawn or look after the bot of a slot: as many as bots have been
\* in it, of which one may still be there.
Tended(n, bot, pending, left) ==
  /\ bot[n] = Unspawned => pending[Task("spawn", n)] > 0
  /\ bot[n].kind = "bot" /\ bot[n] # Unspawned => pending[Task("bot_team", n)] > 0
  /\ pending[Task("spawn", n)] + pending[Task("bot_team", n)]
       <= left[n] + (IF bot[n].kind = "bot" THEN 1 ELSE 0)
  /\ bot[n].kind = "bot" \/ left[n] > 0
     \/ \A op \in SlotOp : pending[Task(op, n)] = 0

BotsInv ==
  /\ BotsTypeOK
  /\ \A n \in BotSlot : Tended(n, bot_client, bot_tasks, departures)
  /\ \A n \in commanded : departures[n] > 0

LEMMA TaskDistinct ==
  /\ \A op \in SlotOp : \A n \in BotSlot :
       /\ Task(op, n) \in Tasks /\ Task(op, n) # Task("add_bot", NoSlot)
       /\ \A o : \A m : Task(op, n) = Task(o, m) => op = o /\ n = m
  /\ Task("add_bot", NoSlot) \in Tasks
BY DEF Task, Tasks, SlotOp

\* What a task that runs does to the numbers of those pending.
LEMMA RunsTask ==
  ASSUME BotsTypeOK, NEW task \in Tasks, NEW gives, Runs(task, gives)
  PROVE  /\ bot_tasks' \in [Tasks -> Nat] /\ bot_tasks[task] > 0
         /\ \A t \in Tasks : bot_tasks'[t] = bot_tasks[t] - (IF t = task THEN 1 ELSE 0) + (IF t \in gives THEN 1 ELSE 0)
<1>1. bot_tasks \in [Tasks -> Nat]
  BY DEF BotsTypeOK
<1>2. /\ bot_tasks[task] > 0
      /\ bot_tasks' = [t \in Tasks |->
           bot_tasks[t] - (IF t = task THEN 1 ELSE 0) + (IF t \in gives THEN 1 ELSE 0)]
  BY DEF Runs
<1>3. \A t \in Tasks :
        /\ bot_tasks'[t] = bot_tasks[t] - (IF t = task THEN 1 ELSE 0) + (IF t \in gives THEN 1 ELSE 0)
        /\ bot_tasks'[t] \in Nat
  <2>1. ASSUME NEW t \in Tasks
        PROVE  /\ bot_tasks'[t] = bot_tasks[t] - (IF t = task THEN 1 ELSE 0) + (IF t \in gives THEN 1 ELSE 0)
               /\ bot_tasks'[t] \in Nat
    BY <1>1, <1>2
  <2> QED BY <2>1
<1> QED BY <1>2, <1>3

\* What a task of a slot does there, and that it leaves the other slots alone.
LEMMA SlotRuns ==
  ASSUME BotsTypeOK, NEW n \in BotSlot, NEW op \in SlotOp, NEW gives,
         gives \subseteq {Task(o, n) : o \in SlotOp}, Runs(Task(op, n), gives)
  PROVE  /\ bot_tasks' \in [Tasks -> Nat] /\ bot_tasks[Task(op, n)] > 0
         /\ \A o \in SlotOp :
              bot_tasks'[Task(o, n)] = bot_tasks[Task(o, n)] - (IF o = op THEN 1 ELSE 0)
                                         + (IF Task(o, n) \in gives THEN 1 ELSE 0)
         /\ \A m \in BotSlot \ {n} : \A o \in SlotOp : bot_tasks'[Task(o, m)] = bot_tasks[Task(o, m)]
<1>1. Task(op, n) \in Tasks
  BY TaskDistinct
<1>2. /\ bot_tasks' \in [Tasks -> Nat] /\ bot_tasks[Task(op, n)] > 0
      /\ \A t \in Tasks : bot_tasks'[t] = bot_tasks[t] - (IF t = Task(op, n) THEN 1 ELSE 0)
                                           + (IF t \in gives THEN 1 ELSE 0)
  BY <1>1, RunsTask
<1>3. ASSUME NEW o \in SlotOp
      PROVE  bot_tasks'[Task(o, n)] = bot_tasks[Task(o, n)] - (IF o = op THEN 1 ELSE 0)
                                         + (IF Task(o, n) \in gives THEN 1 ELSE 0)
  <2>1. Task(o, n) \in Tasks /\ (Task(o, n) = Task(op, n) <=> o = op)
    BY TaskDistinct
  <2> QED BY <2>1, <1>2
<1>4. ASSUME NEW m \in BotSlot \ {n}, NEW o \in SlotOp
      PROVE  bot_tasks'[Task(o, m)] = bot_tasks[Task(o, m)]
  <2>1. Task(o, m) \in Tasks /\ Task(o, m) # Task(op, n) /\ Task(o, m) \notin gives
    BY TaskDistinct
  <2>2. bot_tasks[Task(o, m)] \in Nat
    BY <2>1 DEF BotsTypeOK
  <2> QED BY <2>1, <2>2, <1>2
<1> QED BY <1>2, <1>3, <1>4

\* A slot whose client, tasks and departures stay is tended as before.
LEMMA SameSlot ==
  ASSUME NEW m \in BotSlot, NEW c, NEW d, NEW p, NEW q, NEW l, NEW k, Tended(m, c, p, l),
         d[m] = c[m], k[m] = l[m], \A o \in SlotOp : q[Task(o, m)] = p[Task(o, m)]
  PROVE  Tended(m, d, q, k)
<1>1. /\ q[Task("spawn", m)] = p[Task("spawn", m)]
      /\ q[Task("bot_team", m)] = p[Task("bot_team", m)]
  BY DEF SlotOp
<1> QED BY <1>1 DEF Tended

\* The tasks of a slot whose bot, before or after, is looked after.
LEMMA SlotStep ==
  ASSUME BotsInv, NEW n \in BotSlot, NEW op \in SlotOp, NEW gives,
         gives \subseteq {Task(o, n) : o \in SlotOp}, Runs(Task(op, n), gives),
         UNCHANGED <<departures, bot_names, bot_named>>, bot_client' \in [BotSlot -> ClientKind],
         \A m \in BotSlot \ {n} : bot_client'[m] = bot_client[m],
         bot_client'[n].kind = bot_client[n].kind,
         bot_client'[n].kind # "bot" => gives \subseteq {Task("class", n)},
         bot_client'[n] = Unspawned => bot_client[n] = Unspawned /\ op # "spawn",
         bot_client'[n].kind = "bot" /\ bot_client'[n] # Unspawned =>
           \/ Task("bot_team", n) \in gives
           \/ bot_client[n] # Unspawned /\ op # "bot_team",
         Task("spawn", n) \notin gives,
         Task("bot_team", n) \in gives => op \in {"spawn", "bot_team"},
         gives = {} \/ op # "class", commanded' \subseteq commanded \cup (IF bot_client[n].kind = "bot" THEN {} ELSE {n})
  PROVE  BotsInv'
<1>1. /\ BotsTypeOK /\ \A m \in BotSlot : Tended(m, bot_client, bot_tasks, departures)
      /\ \A m \in commanded : departures[m] > 0
  BY DEF BotsInv
<1>2. /\ bot_tasks' \in [Tasks -> Nat] /\ bot_tasks[Task(op, n)] > 0
      /\ \A o \in SlotOp :
           bot_tasks'[Task(o, n)] = bot_tasks[Task(o, n)] - (IF o = op THEN 1 ELSE 0)
                                      + (IF Task(o, n) \in gives THEN 1 ELSE 0)
      /\ \A m \in BotSlot \ {n} : \A o \in SlotOp : bot_tasks'[Task(o, m)] = bot_tasks[Task(o, m)]
  BY <1>1, SlotRuns
<1>3. /\ departures' = departures /\ departures[n] \in Nat
      /\ \A o \in SlotOp : bot_tasks[Task(o, n)] \in Nat
  BY <1>1, TaskDistinct DEF BotsTypeOK
<1>4. BotsTypeOK'
  BY <1>1, <1>2 DEF BotsTypeOK
<1>5. bot_client[n].kind = "bot" \/ departures[n] > 0
  <2>1. bot_tasks[Task(op, n)] # 0
    BY <1>2, <1>3
  <2> QED BY <2>1, <1>1 DEF Tended
<1>6. Tended(n, bot_client', bot_tasks', departures')
  <2>1. "spawn" \in SlotOp /\ "bot_team" \in SlotOp
    BY DEF SlotOp
  <2>2. PICK s, b, s1, b1 \in Nat :
          /\ bot_tasks[Task("spawn", n)] = s /\ bot_tasks[Task("bot_team", n)] = b
          /\ bot_tasks'[Task("spawn", n)] = s1 /\ bot_tasks'[Task("bot_team", n)] = b1
    BY <1>2, <1>3, <2>1, TaskDistinct
  <2>3. /\ s1 = s - (IF "spawn" = op THEN 1 ELSE 0)
        /\ b1 = b - (IF "bot_team" = op THEN 1 ELSE 0) + (IF Task("bot_team", n) \in gives THEN 1 ELSE 0)
    BY <1>2, <2>1, <2>2
  <2>4. /\ bot_client[n] = Unspawned => s > 0
        /\ bot_client[n].kind = "bot" /\ bot_client[n] # Unspawned => b > 0
        /\ s + b <= departures[n] + (IF bot_client[n].kind = "bot" THEN 1 ELSE 0)
    BY <1>1, <2>2 DEF Tended
  <2>5. bot_client'[n] = Unspawned => s1 > 0
    BY <2>3, <2>4
  <2>6. ASSUME bot_client'[n].kind = "bot", bot_client'[n] # Unspawned
        PROVE  b1 > 0
    <3>1. CASE Task("bot_team", n) \in gives
      <4>1. op = "spawn" \/ op = "bot_team"
        BY <3>1
      <4>2. b > 0 \/ op # "bot_team"
        BY <1>2, <2>2
      <4> QED BY <2>3, <3>1, <4>1, <4>2
    <3>2. CASE Task("bot_team", n) \notin gives
      <4>1. bot_client[n] # Unspawned /\ op # "bot_team" /\ bot_client[n].kind = "bot"
        BY <2>6, <3>2
      <4> QED BY <2>3, <2>4, <3>2, <4>1
    <3> QED BY <3>1, <3>2
  <2>7. s1 + b1 <= s + b
    <3>1. CASE Task("bot_team", n) \in gives
      <4>1. op = "spawn" \/ op = "bot_team"
        BY <3>1
      <4> QED BY <4>1, <2>3, <3>1
    <3>2. CASE Task("bot_team", n) \notin gives
      BY <2>3, <3>2
    <3> QED BY <3>1, <3>2
  <2>8. s1 + b1 <= departures'[n] + (IF bot_client'[n].kind = "bot" THEN 1 ELSE 0)
    BY <2>4, <2>7, <1>3
  <2>9. bot_client'[n].kind = "bot" \/ departures'[n] > 0
    BY <1>3, <1>5
  <2> QED BY <2>2, <2>5, <2>6, <2>8, <2>9 DEF Tended
<1>7. ASSUME NEW m \in BotSlot
      PROVE  Tended(m, bot_client', bot_tasks', departures')
  <2>1. CASE m = n
    BY <2>1, <1>6
  <2>2. CASE m # n
    BY <2>2, <1>1, <1>2, <1>3, SameSlot
  <2> QED BY <2>1, <2>2
<1>8. \A m \in commanded' : departures'[m] > 0
  BY <1>1, <1>3, <1>5
<1> QED BY <1>4, <1>7, <1>8 DEF BotsInv

LEMMA SpawnStep ==
  ASSUME BotsInv, NEW n \in BotSlot, spawn_bot(n)
  PROVE  BotsInv'
<1> DEFINE gives == bot_team_gives(n, bot_client'[n].team)
<1>1. bot_client \in [BotSlot -> ClientKind]
  BY DEF BotsInv, BotsTypeOK
<1>2. /\ bot_client' = [bot_client EXCEPT ![n] = IF @ = Unspawned THEN Spectator("bot") ELSE @]
      /\ Runs(Task("spawn", n), gives)
      /\ UNCHANGED <<departures, bot_names, bot_named, commanded>>
  BY DEF spawn_bot, botNameVars
<1>3. /\ Spectator("bot") \in ClientKind /\ Spectator("bot").kind = "bot" /\ Spectator("bot") # Unspawned
      /\ Unspawned.kind = "bot"
  BY DEF Spectator, Unspawned, ClientKind
<1>4. /\ bot_client' \in [BotSlot -> ClientKind] /\ \A m \in BotSlot \ {n} : bot_client'[m] = bot_client[m]
      /\ bot_client'[n] = (IF bot_client[n] = Unspawned THEN Spectator("bot") ELSE bot_client[n])
  BY <1>1, <1>2, <1>3
<1>5. bot_client'[n].kind = bot_client[n].kind /\ bot_client'[n] # Unspawned
  BY <1>3, <1>4
<1>6. /\ gives \subseteq {Task("bot_team", n), Task("team", n)}
      /\ bot_client[n].kind = "bot" => Task("bot_team", n) \in gives
      /\ bot_client[n].kind # "bot" => gives = {}
  BY DEF bot_team_gives, IsBot
<1> HIDE DEF gives
<1>7. /\ gives \subseteq {Task(o, n) : o \in SlotOp} /\ Task("spawn", n) \notin gives /\ "spawn" \in SlotOp
  BY <1>6 DEF SlotOp, Task
<1> QED BY <1>2, <1>4, <1>5, <1>6, <1>7, SlotStep

LEMMA TeamStep ==
  ASSUME BotsInv, NEW n \in BotSlot, bot_team(n)
  PROVE  BotsInv'
<1> DEFINE gives == bot_team_gives(n, bot_client[n].team)
<1>1. bot_client \in [BotSlot -> ClientKind]
  BY DEF BotsInv, BotsTypeOK
<1>2. /\ Runs(Task("bot_team", n), gives)
      /\ UNCHANGED <<bot_client, departures, bot_names, bot_named, commanded>>
  BY DEF bot_team, botNameVars
<1>3. /\ gives \subseteq {Task("bot_team", n), Task("team", n)}
      /\ bot_client[n].kind = "bot" => Task("bot_team", n) \in gives
      /\ bot_client[n].kind # "bot" => gives = {}
  BY DEF bot_team_gives, IsBot
<1> HIDE DEF gives
<1>4. /\ gives \subseteq {Task(o, n) : o \in SlotOp} /\ Task("spawn", n) \notin gives /\ "bot_team" \in SlotOp
  BY <1>3 DEF SlotOp, Task
<1> QED BY <1>1, <1>2, <1>3, <1>4, SlotStep

LEMMA JoinStep ==
  ASSUME BotsInv, NEW n \in BotSlot, bot_team_join(n) \/ bot_class(n)
  PROVE  BotsInv'
<1>1. bot_client \in [BotSlot -> ClientKind]
  BY DEF BotsInv, BotsTypeOK
<1>2. commanded' \subseteq commanded \cup (IF bot_client[n].kind = "bot" THEN {} ELSE {n})
  BY DEF bot_team_join, bot_class, Commands
<1>3. CASE bot_team_join(n)
  <2>1. /\ Runs(Task("team", n), {Task("class", n)})
        /\ bot_client' = [bot_client EXCEPT ![n].team = IF @ = "spectator" THEN "playing" ELSE @]
        /\ UNCHANGED <<departures, bot_names, bot_named>>
    BY <1>3 DEF bot_team_join, botNameVars
  <2>2. /\ bot_client' \in [BotSlot -> ClientKind] /\ \A m \in BotSlot \ {n} : bot_client'[m] = bot_client[m]
        /\ bot_client'[n].kind = bot_client[n].kind
        /\ bot_client'[n] = Unspawned <=> bot_client[n] = Unspawned
    <3>1. PICK c \in ClientKind : c = bot_client[n]
      BY <1>1
    <3>2. PICK d \in ClientKind : d = [c EXCEPT !.team = IF @ = "spectator" THEN "playing" ELSE @]
      BY DEF ClientKind
    <3>3. bot_client' = [bot_client EXCEPT ![n] = d]
      BY <1>1, <2>1, <3>1, <3>2
    <3>4. d.kind = c.kind /\ (d = Unspawned <=> c = Unspawned)
      BY <3>2 DEF ClientKind, Unspawned
    <3> QED BY <1>1, <3>1, <3>3, <3>4
  <2>3. /\ {Task("class", n)} \subseteq {Task(o, n) : o \in SlotOp} /\ "team" \in SlotOp
        /\ Task("spawn", n) \notin {Task("class", n)} /\ Task("bot_team", n) \notin {Task("class", n)}
    BY DEF SlotOp, Task
  <2> QED BY <1>2, <2>1, <2>2, <2>3, SlotStep
<1>4. CASE bot_class(n)
  <2>1. /\ Runs(Task("class", n), {})
        /\ UNCHANGED <<bot_client, departures, bot_names, bot_named>>
    BY <1>4 DEF bot_class, botNameVars
  <2>2. "class" \in SlotOp
    BY DEF SlotOp
  <2> QED BY <1>1, <1>2, <2>1, <2>2, SlotStep
<1> QED BY <1>3, <1>4

\* The tasks of the slots stay: what the others do to the clients.
LEMMA ClientStep ==
  ASSUME BotsInv, NEW n \in BotSlot, NEW c \in ClientKind, bot_client' = [bot_client EXCEPT ![n] = c],
         departures' \in [BotSlot -> Nat],
         \A m \in BotSlot \ {n} : departures'[m] = departures[m],
         \/ departures' = departures /\ c.kind # "bot" /\ bot_client[n].kind # "bot"
         \/ departures' = departures /\ c.kind = "bot" /\ c # Unspawned /\ bot_client[n].kind = "bot" /\ bot_client[n] # Unspawned
         \/ c.kind # "bot" /\ bot_client[n].kind = "bot" /\ departures'[n] = departures[n] + 1,
         UNCHANGED <<bot_tasks, bot_names, bot_named, commanded>>
  PROVE  BotsInv'
<1>1. /\ BotsTypeOK /\ \A m \in BotSlot : Tended(m, bot_client, bot_tasks, departures)
      /\ \A m \in commanded : departures[m] > 0
  BY DEF BotsInv
<1>2. /\ bot_client \in [BotSlot -> ClientKind] /\ bot_tasks \in [Tasks -> Nat] /\ departures \in [BotSlot -> Nat]
  BY <1>1 DEF BotsTypeOK
<1>3. BotsTypeOK'
  BY <1>1, <1>2 DEF BotsTypeOK
<1>4. /\ bot_client'[n] = c /\ \A m \in BotSlot \ {n} : bot_client'[m] = bot_client[m]
      /\ departures[n] \in Nat /\ departures'[n] \in Nat
  BY <1>2
<1>5. Tended(n, bot_client', bot_tasks', departures')
  <2>1. PICK s, b \in Nat : bot_tasks[Task("spawn", n)] = s /\ bot_tasks[Task("bot_team", n)] = b
    BY <1>2, TaskDistinct DEF SlotOp
  <2>2. Unspawned.kind = "bot"
    BY DEF Unspawned
  <2>3. /\ bot_client[n].kind = "bot" /\ bot_client[n] # Unspawned => b > 0
        /\ s + b <= departures[n] + (IF bot_client[n].kind = "bot" THEN 1 ELSE 0)
    BY <1>1, <2>1 DEF Tended
  <2>4. c.kind = "bot" \/ departures'[n] > 0 \/ \A op \in SlotOp : bot_tasks'[Task(op, n)] = 0
    BY <1>1, <1>4 DEF Tended
  <2>5. s + b <= departures'[n] + (IF c.kind = "bot" THEN 1 ELSE 0)
    BY <1>4, <2>3
  <2> QED BY <1>4, <2>1, <2>2, <2>3, <2>4, <2>5 DEF Tended
<1>6. ASSUME NEW m \in BotSlot
      PROVE  Tended(m, bot_client', bot_tasks', departures')
  <2>1. CASE m = n
    BY <2>1, <1>5
  <2>2. CASE m # n
    BY <2>2, <1>1, <1>4, SameSlot
  <2> QED BY <2>1, <2>2
<1>7. ASSUME NEW m \in commanded'
      PROVE  departures'[m] > 0
  <2>1. m \in BotSlot /\ departures[m] > 0
    BY <1>1 DEF BotsTypeOK
  <2>2. CASE m = n
    BY <2>1, <2>2, <1>4
  <2>3. CASE m # n
    BY <2>1, <2>3
  <2> QED BY <2>2, <2>3
<1> QED BY <1>3, <1>6, <1>7 DEF BotsInv

LEMMA LeaveStep ==
  ASSUME BotsInv, NEW n \in BotSlot, ClientLeaves(n) \/ HumanJoins(n) \/ Spectates(n)
  PROVE  BotsInv'
<1>1. bot_client \in [BotSlot -> ClientKind] /\ departures \in [BotSlot -> Nat]
  BY DEF BotsInv, BotsTypeOK
<1>2. UNCHANGED <<bot_tasks, bot_names, bot_named, commanded>>
  BY DEF ClientLeaves, HumanJoins, Spectates, botNameVars
<1>3. /\ NoClient \in ClientKind /\ NoClient.kind # "bot" /\ Spectator("human") \in ClientKind
      /\ Spectator("human").kind # "bot"
  BY DEF NoClient, Spectator, ClientKind
<1>4. CASE ClientLeaves(n)
  <2>1. /\ bot_client' = [bot_client EXCEPT ![n] = NoClient]
        /\ departures' = [departures EXCEPT ![n] = @ + (IF bot_client[n].kind = "bot" THEN 1 ELSE 0)]
    BY <1>4 DEF ClientLeaves, IsBot
  <2>2. /\ departures' \in [BotSlot -> Nat] /\ \A m \in BotSlot \ {n} : departures'[m] = departures[m]
        /\ bot_client[n].kind = "bot" => departures'[n] = departures[n] + 1
        /\ bot_client[n].kind # "bot" => departures' = departures
    BY <1>1, <2>1
  <2> QED BY <1>2, <1>3, <2>1, <2>2, ClientStep
<1>5. CASE HumanJoins(n)
  <2>1. /\ bot_client' = [bot_client EXCEPT ![n] = Spectator("human")] /\ departures' = departures
        /\ bot_client[n] = NoClient
    BY <1>5 DEF HumanJoins
  <2> QED BY <1>1, <1>2, <1>3, <2>1, ClientStep
<1>6. CASE Spectates(n)
  <2>1. /\ bot_client' = [bot_client EXCEPT ![n].team = "spectator"] /\ departures' = departures
        /\ bot_client[n].team = "playing"
    BY <1>6 DEF Spectates
  <2>2. PICK c \in ClientKind : c = [bot_client[n] EXCEPT !.team = "spectator"]
    BY <1>1 DEF ClientKind
  <2>3. bot_client' = [bot_client EXCEPT ![n] = c]
    BY <1>1, <2>1, <2>2
  <2>4. c.kind = bot_client[n].kind /\ c # Unspawned /\ bot_client[n] # Unspawned
    <3>1. c.team = "spectator" /\ c.kind = bot_client[n].kind
      BY <1>1, <2>2 DEF ClientKind
    <3> QED BY <3>1, <2>1 DEF Unspawned
  <2> QED BY <1>1, <1>2, <2>1, <2>3, <2>4, ClientStep
<1> QED BY <1>4, <1>5, <1>6

\* What keeps the tasks of the slots and their clients keeps the invariant.
LEMMA OtherStep ==
  ASSUME BotsInv, UNCHANGED <<bot_client, departures, commanded>>,
         bot_tasks' \in [Tasks -> Nat],
         \A op \in SlotOp : \A n \in BotSlot : bot_tasks'[Task(op, n)] = bot_tasks[Task(op, n)],
         bot_names' \subseteq BotName, bot_named' \in BotName \cup {OwnName}
  PROVE  BotsInv'
<1>1. /\ BotsTypeOK /\ \A m \in BotSlot : Tended(m, bot_client, bot_tasks, departures)
      /\ \A m \in commanded : departures[m] > 0
  BY DEF BotsInv
<1>2. BotsTypeOK'
  BY <1>1 DEF BotsTypeOK
<1>3. ASSUME NEW m \in BotSlot
      PROVE  Tended(m, bot_client', bot_tasks', departures')
  BY <1>1, SameSlot
<1> QED BY <1>1, <1>2, <1>3 DEF BotsInv

LEMMA CommandStep ==
  ASSUME BotsInv, NEW num_bots \in Nat, spawnBot(num_bots)
  PROVE  BotsInv'
<1> DEFINE added == AtMost(num_bots, Cardinality(BotSlot))
<1>1. BotsTypeOK
  BY DEF BotsInv
<1>2. added \in Nat
  <2>1. Cardinality(BotSlot) \in Nat
    BY BotsAssumption, FS_CardinalityType
  <2> QED BY <2>1 DEF AtMost
<1>3. /\ bot_tasks' = [bot_tasks EXCEPT ![Task("add_bot", NoSlot)] = @ + added]
      /\ UNCHANGED <<bot_client, bot_names, bot_named, departures, commanded>>
  BY DEF spawnBot, Plus, botNameVars
<1> HIDE DEF added
<1>4. bot_tasks' \in [Tasks -> Nat]
  <2>1. bot_tasks \in [Tasks -> Nat] /\ Task("add_bot", NoSlot) \in Tasks
    BY <1>1, TaskDistinct DEF BotsTypeOK
  <2>2. bot_tasks[Task("add_bot", NoSlot)] + added \in Nat
    BY <2>1, <1>2
  <2> QED BY <2>1, <2>2, <1>3
<1>5. ASSUME NEW op \in SlotOp, NEW n \in BotSlot
      PROVE  bot_tasks'[Task(op, n)] = bot_tasks[Task(op, n)]
  <2>1. Task(op, n) \in Tasks /\ Task(op, n) # Task("add_bot", NoSlot)
    BY TaskDistinct
  <2> QED BY <1>1, <1>3, <2>1 DEF BotsTypeOK
<1>6. bot_names \subseteq BotName /\ bot_named \in BotName \cup {OwnName}
  BY <1>1 DEF BotsTypeOK
<1> QED BY <1>3, <1>4, <1>5, <1>6, OtherStep

LEMMA AddStep ==
  ASSUME BotsInv, add_bot
  PROVE  BotsInv'
<1>1. /\ BotsTypeOK /\ \A m \in BotSlot : Tended(m, bot_client, bot_tasks, departures)
      /\ \A m \in commanded : departures[m] > 0
  BY DEF BotsInv
<1>2. Task("add_bot", NoSlot) \in Tasks
  BY TaskDistinct
<1>3. CASE Runs(Task("add_bot", NoSlot), {}) /\ UNCHANGED <<bot_client, botNameVars, bot_named, departures, commanded>>
  <2>1. /\ bot_tasks' \in [Tasks -> Nat]
        /\ \A t \in Tasks : bot_tasks'[t] = bot_tasks[t] - (IF t = Task("add_bot", NoSlot) THEN 1 ELSE 0)
                                              + (IF t \in {} THEN 1 ELSE 0)
    BY <1>1, <1>2, <1>3, RunsTask
  <2>2. ASSUME NEW op \in SlotOp, NEW m \in BotSlot
        PROVE  bot_tasks'[Task(op, m)] = bot_tasks[Task(op, m)]
    <3>1. Task(op, m) \in Tasks /\ Task(op, m) # Task("add_bot", NoSlot)
      BY TaskDistinct
    <3>2. bot_tasks[Task(op, m)] \in Nat
      BY <1>1, <3>1 DEF BotsTypeOK
    <3> QED BY <2>1, <3>1, <3>2
  <2>3. bot_names \subseteq BotName /\ bot_named \in BotName \cup {OwnName}
    BY <1>1 DEF BotsTypeOK
  <2>4. UNCHANGED <<bot_client, bot_names, bot_named, departures, commanded>>
    BY <1>3 DEF botNameVars
  <2> QED BY <2>1, <2>2, <2>3, <2>4, OtherStep
<1>4. ASSUME NEW name \in RandomNames, NEW n \in BotSlot, bot_client[n] = NoClient,
             bot_client' = [bot_client EXCEPT ![n] = Unspawned], bot_named' = name,
             Runs(Task("add_bot", NoSlot), {Task("spawn", n)}),
             UNCHANGED <<botNameVars, departures, commanded>>
      PROVE  BotsInv'
  <2>1. /\ bot_tasks' \in [Tasks -> Nat]
        /\ \A t \in Tasks : bot_tasks'[t] = bot_tasks[t] - (IF t = Task("add_bot", NoSlot) THEN 1 ELSE 0)
                                              + (IF t \in {Task("spawn", n)} THEN 1 ELSE 0)
    BY <1>1, <1>2, <1>4, RunsTask
  <2>2. ASSUME NEW op \in SlotOp, NEW m \in BotSlot
        PROVE  /\ bot_tasks[Task(op, m)] \in Nat
               /\ bot_tasks'[Task(op, m)]
                    = bot_tasks[Task(op, m)] + (IF op = "spawn" /\ m = n THEN 1 ELSE 0)
    <3>1. /\ Task(op, m) \in Tasks /\ Task(op, m) # Task("add_bot", NoSlot)
          /\ Task(op, m) = Task("spawn", n) <=> (op = "spawn" /\ m = n)
      BY TaskDistinct
    <3>2. bot_tasks[Task(op, m)] \in Nat
      BY <1>1, <3>1 DEF BotsTypeOK
    <3> QED BY <2>1, <3>1, <3>2
  <2>3. name \in BotName \cup {OwnName} /\ bot_names' = bot_names /\ departures' = departures
        /\ commanded' = commanded
    BY <1>1, <1>4 DEF RandomNames, BotsTypeOK, botNameVars
  <2>4. Unspawned \in ClientKind /\ Unspawned.kind = "bot" /\ NoClient.kind # "bot"
    BY DEF Unspawned, NoClient, ClientKind
  <2>5. /\ bot_client' \in [BotSlot -> ClientKind] /\ bot_client'[n] = Unspawned
        /\ \A m \in BotSlot \ {n} : bot_client'[m] = bot_client[m]
    BY <1>1, <1>4, <2>4 DEF BotsTypeOK
  <2>6. BotsTypeOK'
    BY <1>1, <1>4, <2>1, <2>3, <2>5 DEF BotsTypeOK
  <2>7. Tended(n, bot_client', bot_tasks', departures')
    <3>1. PICK s, b \in Nat :
            /\ bot_tasks[Task("spawn", n)] = s /\ bot_tasks[Task("bot_team", n)] = b
            /\ bot_tasks'[Task("spawn", n)] = s + 1 /\ bot_tasks'[Task("bot_team", n)] = b
      BY <2>2 DEF SlotOp
    <3>2. s + b <= departures[n] /\ departures[n] \in Nat
      BY <1>1, <1>4, <2>4, <3>1 DEF Tended, BotsTypeOK
    <3> QED BY <2>3, <2>4, <2>5, <3>1, <3>2 DEF Tended
  <2>8. ASSUME NEW m \in BotSlot
        PROVE  Tended(m, bot_client', bot_tasks', departures')
    <3>1. CASE m = n
      BY <3>1, <2>7
    <3>2. CASE m # n
      <4>1. \A op \in SlotOp : bot_tasks'[Task(op, m)] = bot_tasks[Task(op, m)]
        BY <2>2, <3>2
      <4> QED BY <3>2, <4>1, <1>1, <2>3, <2>5, SameSlot
    <3> QED BY <3>1, <3>2
  <2> QED BY <1>1, <2>3, <2>6, <2>8 DEF BotsInv
<1> QED BY <1>3, <1>4 DEF add_bot

LEMMA NamesStep ==
  ASSUME BotsInv,
         \/ update_bot_names \/ ServerLoads \/ UNCHANGED botVars
         \/ \E list \in SUBSET BotName : getbotsResponse(list, TRUE)
         \/ getbotsResponse({"another's"}, FALSE)
  PROVE  BotsInv'
<1>1. BotsTypeOK
  BY DEF BotsInv
<1>2. UNCHANGED <<bot_client, bot_tasks, bot_named, departures, commanded>>
  BY DEF update_bot_names, ServerLoads, getbotsResponse, botVars
<1>3. bot_names' \subseteq BotName
  BY <1>1 DEF update_bot_names, ServerLoads, getbotsResponse, botVars, botNameVars, BotsTypeOK
<1>4. bot_tasks \in [Tasks -> Nat] /\ bot_named \in BotName \cup {OwnName}
  BY <1>1 DEF BotsTypeOK
<1> QED BY <1>2, <1>3, <1>4, OtherStep

LEMMA BotsStep == BotsInv /\ [BotsNext]_botVars => BotsInv'
<1> SUFFICES ASSUME BotsInv, [BotsNext]_botVars PROVE BotsInv'
  OBVIOUS
<1>1. ASSUME NEW num_bots \in 1..(Cardinality(BotSlot) + 1), spawnBot(num_bots)
      PROVE  BotsInv'
  <2>1. num_bots \in Nat
    BY BotsAssumption, FS_CardinalityType
  <2> QED BY <1>1, <2>1, CommandStep
<1>2. CASE add_bot
  BY <1>2, AddStep
<1>3. ASSUME NEW n \in BotSlot,
             \/ spawn_bot(n) \/ bot_team(n) \/ bot_team_join(n) \/ bot_class(n)
             \/ ClientLeaves(n) \/ HumanJoins(n) \/ Spectates(n)
      PROVE  BotsInv'
  BY <1>3, SpawnStep, TeamStep, JoinStep, LeaveStep
<1>4. CASE \/ update_bot_names \/ ServerLoads \/ UNCHANGED botVars
           \/ \E list \in SUBSET BotName : getbotsResponse(list, TRUE)
           \/ getbotsResponse({"another's"}, FALSE)
  BY <1>4, NamesStep
<1> QED BY <1>1, <1>2, <1>3, <1>4 DEF BotsNext

\* Whatever the number of slots, of bots added and of departures, and in whatever
\* order the tasks of the pipeline run: a bot waits for the task that spawns it or
\* has one that looks after it, nobody who is no bot is commanded in a slot no bot
\* has left, and names come from the master server (bots.cpp, spawn_bot, bot_team).
THEOREM BotsLookedAfter == BotsSpec => []BotsTended
<1>1. BotsInit => BotsInv
  <2> SUFFICES ASSUME BotsInit PROVE BotsInv
    OBVIOUS
  <2>1. NoClient \in ClientKind /\ NoClient.kind # "bot" /\ NoClient # Unspawned
    BY DEF NoClient, Unspawned, ClientKind
  <2>2. /\ bot_client = [n \in BotSlot |-> NoClient] /\ bot_tasks = [t \in Tasks |-> 0]
        /\ departures = [n \in BotSlot |-> 0] /\ commanded = {} /\ bot_names = {} /\ bot_named = OwnName
    BY DEF BotsInit
  <2>3. BotsTypeOK
    BY <2>1, <2>2 DEF BotsTypeOK
  <2>4. ASSUME NEW n \in BotSlot
        PROVE  Tended(n, bot_client, bot_tasks, departures)
    <3>1. \A op \in SlotOp : bot_tasks[Task(op, n)] = 0
      BY <2>2, TaskDistinct
    <3> QED BY <2>1, <2>2, <3>1 DEF Tended, SlotOp
  <2> QED BY <2>2, <2>3, <2>4 DEF BotsInv
<1>2. BotsInv => BotsTended
  <2> SUFFICES ASSUME BotsInv PROVE BotsTended
    OBVIOUS
  <2>1. /\ BotsTypeOK /\ \A m \in BotSlot : Tended(m, bot_client, bot_tasks, departures)
        /\ \A m \in commanded : departures[m] > 0
    BY DEF BotsInv
  <2>2. ASSUME NEW n \in BotSlot
        PROVE  /\ bot_client[n] = Unspawned => bot_tasks[Task("spawn", n)] > 0
               /\ IsBot(n) /\ bot_client[n] # Unspawned => bot_tasks[Task("bot_team", n)] > 0
               /\ bot_tasks[Task("spawn", n)] + bot_tasks[Task("bot_team", n)] <= departures[n] + 1
    <3>1. PICK s, b, l \in Nat :
            bot_tasks[Task("spawn", n)] = s /\ bot_tasks[Task("bot_team", n)] = b /\ departures[n] = l
      BY <2>1, TaskDistinct DEF BotsTypeOK, SlotOp
    <3>2. s + b <= l + (IF bot_client[n].kind = "bot" THEN 1 ELSE 0)
      BY <2>1, <3>1 DEF Tended
    <3>3. s + b <= l + 1
      BY <3>2
    <3> QED BY <2>1, <3>1, <3>3 DEF Tended, IsBot
  <2> QED BY <2>1, <2>2 DEF BotsTended, BotsTypeOK
<1> QED BY <1>1, <1>2, BotsStep, PTL DEF BotsSpec

-----------------------------------------------------------------------------
(* Stats.                                                                  *)

\* A question is a reserved name or a path.
IsQuestion(q) ==
  \/ \E name : q = ReservedQuestion(name)
  \/ \E path : q = PathQuestion(path)

StickInv == StatsStick /\ \A q \in DOMAIN stat_given : IsQuestion(q)

\* No two questions are asked of the same place, and each is of the place that is set.
LEMMA PlacesAsked ==
  /\ \A name : /\ IsQuestion(ReservedQuestion(name))
               /\ PlaceAsked(ReservedQuestion(name)) = ReservedKey(name)
  /\ \A path : /\ IsQuestion(PathQuestion(path))
               /\ PlaceAsked(PathQuestion(path)) = PathKey(path)
  /\ \A q, r : IsQuestion(q) /\ IsQuestion(r) /\ PlaceAsked(q) = PlaceAsked(r) => q = r
<1>1. ASSUME NEW name
      PROVE  /\ IsQuestion(ReservedQuestion(name))
             /\ PlaceAsked(ReservedQuestion(name)) = ReservedKey(name)
  BY DEF IsQuestion, PlaceAsked, ReservedQuestion, ReservedKey, getReservedPlayerDataInt
<1>2. ASSUME NEW path
      PROVE  /\ IsQuestion(PathQuestion(path))
             /\ PlaceAsked(PathQuestion(path)) = PathKey(path)
  BY DEF IsQuestion, PlaceAsked, PathQuestion, PathKey, getPlayerDataInt
<1>3. ASSUME NEW q, NEW r, IsQuestion(q), IsQuestion(r), PlaceAsked(q) = PlaceAsked(r)
      PROVE  q = r
  <2>1. CASE \E name : q = ReservedQuestion(name)
    <3>1. PICK name : q = ReservedQuestion(name)
      BY <2>1
    <3>2. \A path : r # PathQuestion(path)
      BY <1>1, <1>2, <1>3, <3>1 DEF ReservedKey, PathKey
    <3>3. PICK other : r = ReservedQuestion(other)
      BY <1>3, <3>2 DEF IsQuestion
    <3>4. ReservedKey(name) = ReservedKey(other)
      BY <1>1, <1>3, <3>1, <3>3
    <3>5. name = other
      BY <3>4 DEF ReservedKey
    <3> QED BY <3>1, <3>3, <3>5
  <2>2. CASE \E path : q = PathQuestion(path)
    <3>1. PICK path : q = PathQuestion(path)
      BY <2>2
    <3>2. \A name : r # ReservedQuestion(name)
      BY <1>1, <1>2, <1>3, <3>1 DEF ReservedKey, PathKey
    <3>3. PICK other : r = PathQuestion(other)
      BY <1>3, <3>2 DEF IsQuestion
    <3>4. PathKey(path) = PathKey(other)
      BY <1>2, <1>3, <3>1, <3>3
    <3>5. path = other
      BY <3>4 DEF PathKey
    <3> QED BY <3>1, <3>3, <3>5
  <2> QED BY <1>3, <2>1, <2>2 DEF IsQuestion
<1> QED BY <1>1, <1>2, <1>3

\* A command that writes into the buffer, whether or not a write is needed after it:
\* it answers questions of places it writes, and those of the others it writes are
\* given up.
LEMMA SetStep ==
  ASSUME StickInv, NEW writes, NEW answers, NEW forgotten, NEW needed,
         player_data' = Over(writes, player_data), player_file' = player_file,
         Answered(answers, forgotten, needed),
         needed => write_needed', write_needed => write_needed',
         \A q \in DOMAIN answers :
           /\ IsQuestion(q) /\ PlaceAsked(q) \in DOMAIN writes
           /\ writes[PlaceAsked(q)] = answers[q],
         \A q \in DOMAIN stat_given \ forgotten :
           q \in DOMAIN answers \/ PlaceAsked(q) \notin DOMAIN writes
  PROVE  StickInv'
<1>1. /\ DOMAIN stat_given' = DOMAIN answers \cup (DOMAIN stat_given \ forgotten)
      /\ \A q \in DOMAIN stat_given' : stat_given'[q] =
           IF q \in DOMAIN answers
           THEN [value |-> answers[q], kept |-> IF needed THEN "needed" ELSE "unsaved"]
           ELSE [value |-> stat_given[q].value,
                 kept |-> IF needed /\ stat_given[q].kept = "unsaved" THEN "needed"
                          ELSE stat_given[q].kept]
  BY DEF Answered
<1>2. /\ DOMAIN player_data' = DOMAIN writes \cup DOMAIN player_data
      /\ \A k \in DOMAIN player_data' :
           player_data'[k] = IF k \in DOMAIN writes THEN writes[k] ELSE player_data[k]
  BY DEF Over
<1>3. ASSUME NEW q \in DOMAIN stat_given'
      PROVE  /\ IsQuestion(q) /\ PlaceAsked(q) \in DOMAIN player_data'
             /\ player_data'[PlaceAsked(q)] = stat_given'[q].value
             /\ stat_given'[q].kept = "needed" => write_needed'
             /\ stat_given'[q].kept = "written" =>
                  PlaceAsked(q) \in DOMAIN player_file' /\ player_file'[PlaceAsked(q)] = stat_given'[q].value
  <2>1. CASE q \in DOMAIN answers
    <3>1. stat_given'[q] = [value |-> answers[q], kept |-> IF needed THEN "needed" ELSE "unsaved"]
      BY <1>1, <2>1
    <3>2. /\ stat_given'[q].value = answers[q]
          /\ stat_given'[q].kept = IF needed THEN "needed" ELSE "unsaved"
      BY <3>1
    <3>3. IsQuestion(q) /\ PlaceAsked(q) \in DOMAIN writes /\ writes[PlaceAsked(q)] = answers[q]
      BY <2>1
    <3> QED BY <3>2, <3>3, <1>2
  <2>2. CASE q \notin DOMAIN answers
    <3>1. q \in DOMAIN stat_given /\ PlaceAsked(q) \notin DOMAIN writes
      BY <1>1, <2>2
    <3>2. stat_given'[q] =
            [value |-> stat_given[q].value,
             kept |-> IF needed /\ stat_given[q].kept = "unsaved" THEN "needed" ELSE stat_given[q].kept]
      BY <1>1, <2>2
    <3>3. /\ stat_given'[q].value = stat_given[q].value
          /\ stat_given'[q].kept =
               IF needed /\ stat_given[q].kept = "unsaved" THEN "needed" ELSE stat_given[q].kept
      BY <3>2
    <3>4. /\ IsQuestion(q) /\ PlaceAsked(q) \in DOMAIN player_data
          /\ player_data[PlaceAsked(q)] = stat_given[q].value
          /\ stat_given[q].kept = "needed" => write_needed
          /\ stat_given[q].kept = "written" =>
               PlaceAsked(q) \in DOMAIN player_file /\ player_file[PlaceAsked(q)] = stat_given[q].value
      BY <3>1 DEF StickInv, StatsStick
    <3>5. player_data'[PlaceAsked(q)] = player_data[PlaceAsked(q)] /\ PlaceAsked(q) \in DOMAIN player_data'
      BY <1>2, <3>1, <3>4
    <3> QED BY <3>3, <3>4, <3>5
  <2> QED BY <2>1, <2>2
<1> QED BY <1>3 DEF StickInv, StatsStick

\* A single answer, to the question of the place that is written.
LEMMA SetOne ==
  ASSUME StickInv, NEW q, IsQuestion(q), NEW value, NEW needed,
         player_data' = Over(One(PlaceAsked(q), value), player_data), player_file' = player_file,
         Answered(One(q, value), {}, needed),
         needed => write_needed', write_needed => write_needed'
  PROVE  StickInv'
<1>1. /\ DOMAIN One(q, value) = {q} /\ One(q, value)[q] = value
      /\ DOMAIN One(PlaceAsked(q), value) = {PlaceAsked(q)}
      /\ One(PlaceAsked(q), value)[PlaceAsked(q)] = value
  BY DEF One
<1>2. ASSUME NEW r \in DOMAIN stat_given \ {}
      PROVE  r \in DOMAIN One(q, value) \/ PlaceAsked(r) \notin DOMAIN One(PlaceAsked(q), value)
  <2>1. IsQuestion(r)
    BY DEF StickInv
  <2> QED BY <2>1, <1>1, PlacesAsked
<1> HIDE DEF One
<1> QED BY <1>1, <1>2, SetStep

\* Of two writes the later one counts.
LEMMA OverIs ==
  ASSUME NEW later, NEW data, NEW both, both = Over(later, data), NEW k
  PROVE  /\ k \in DOMAIN both <=> k \in DOMAIN later \/ k \in DOMAIN data
         /\ k \in DOMAIN later => both[k] = later[k]
         /\ k \in DOMAIN data /\ k \notin DOMAIN later => both[k] = data[k]
BY DEF Over

\* The structs have the names where unlockstats writes them.
LEMMA StatsGroups ==
  /\ get_statsgroup_for_lookup_string("pastTitleData") = "common"
  /\ get_statsgroup_for_lookup_string("alienPlayerStats") = "coop"
  /\ get_statsgroup_for_lookup_string("squadMembers") = "ranked"
<1>1. /\ "pastTitleData" \in CommonName
      /\ "alienPlayerStats" \in CoopName /\ "alienPlayerStats" \notin CommonName
      /\ "squadMembers" \notin CommonName /\ "squadMembers" \notin CoopName
  <2>1. /\ "pastTitleData" \in CommonName /\ "alienPlayerStats" \in CoopName \ CommonName
        /\ "squadMembers" \notin CommonName \cup CoopName
    BY StatsAssumption, Zenon
  <2> QED BY <2>1
<1>2. get_statsgroup_for_lookup_string("pastTitleData") = "common"
  BY <1>1 DEF get_statsgroup_for_lookup_string
<1>3. get_statsgroup_for_lookup_string("alienPlayerStats") = "coop"
  BY <1>1 DEF get_statsgroup_for_lookup_string
<1>4. get_statsgroup_for_lookup_string("squadMembers") = "ranked"
  BY <1>1 DEF get_statsgroup_for_lookup_string
<1> QED BY <1>2, <1>3, <1>4

\* Every member of the squad can be used.
LEMMA SquadUnlocked ==
  /\ \A k \in DOMAIN unlock_all_squadmember : k[1] = "data" /\ k[2] = "ranked"
  /\ \A m \in SquadMember :
       LET k == <<"data", "ranked", <<"squadMembers", m, "inUse">>>>
       IN k \in DOMAIN unlock_all_squadmember /\ unlock_all_squadmember[k] = 1
<1> DEFINE A == {<<"squadMembers", m, n>> : m \in SquadMember, n \in {"inUse", "defaultSet"}}
           B == {<<"squadMembers", m, "squadMemXP">> : m \in SquadMember}
           C == {<<"squadMembers", m, "loadouts", l, "inUse">> : m \in SquadMember, l \in Loadout}
           D == {<<"squadMembers", m, "challengeState", i>> :
                   m \in SquadMember, i \in UnlockItem \ {""}}
<1>1. unlock_all_squadmember =
        Over(Same("ranked", A, 1), Over(Same("ranked", B, 1230080),
          Over(Same("ranked", C, 2), Same("ranked", D, 2))))
  BY DEF unlock_all_squadmember
<1>2. \A m \in SquadMember : <<"squadMembers", m, "inUse">> \in A
  OBVIOUS
<1> HIDE DEF A, B, C, D
<1>3. PICK s1, s2 : /\ s1 = Over(Same("ranked", B, 1230080), s2)
                    /\ s2 = Over(Same("ranked", C, 2), Same("ranked", D, 2))
                    /\ unlock_all_squadmember = Over(Same("ranked", A, 1), s1)
  BY <1>1
<1>4. \A P, v : /\ \A k \in DOMAIN Same("ranked", P, v) : k[1] = "data" /\ k[2] = "ranked"
                /\ \A p \in P : LET k == <<"data", "ranked", p>>
                                IN k \in DOMAIN Same("ranked", P, v) /\ Same("ranked", P, v)[k] = v
  BY DEF Same
<1>5. ASSUME NEW k \in DOMAIN unlock_all_squadmember
      PROVE  k[1] = "data" /\ k[2] = "ranked"
  <2>1. k \in DOMAIN Same("ranked", A, 1) \/ k \in DOMAIN s1
    BY <1>3, OverIs
  <2>2. k \in DOMAIN s1 => k \in DOMAIN Same("ranked", B, 1230080) \/ k \in DOMAIN s2
    BY <1>3, OverIs
  <2>3. k \in DOMAIN s2 => k \in DOMAIN Same("ranked", C, 2) \/ k \in DOMAIN Same("ranked", D, 2)
    BY <1>3, OverIs
  <2> QED BY <2>1, <2>2, <2>3, <1>4
<1>6. ASSUME NEW m \in SquadMember, NEW k, k = <<"data", "ranked", <<"squadMembers", m, "inUse">>>>
      PROVE  k \in DOMAIN unlock_all_squadmember /\ unlock_all_squadmember[k] = 1
  <2>1. k \in DOMAIN Same("ranked", A, 1) /\ Same("ranked", A, 1)[k] = 1
    BY <1>2, <1>4, <1>6
  <2> QED BY <2>1, <1>3, OverIs
<1> QED BY <1>5, <1>6

\* What unlockstats says is what it writes.
LEMMA UnlocksRead ==
  ASSUME NEW q \in DOMAIN Unlocks
  PROVE  /\ IsQuestion(q) /\ PlaceAsked(q) \in DOMAIN AllUnlocked
         /\ AllUnlocked[PlaceAsked(q)] = Unlocks[q]
<1> DEFINE past == unlock_past_title_backgrounds
           challenges == unlock_all_challenges
           multiplayer == unlock_all_multiplayer
           extinction == unlock_all_extinction
           prestige == ReservedQuestion("prestigeLevel")
           mw3 == PathQuestion(<<"pastTitleData", "mw3prestige">>)
           rank == PathQuestion(<<"alienPlayerStats", "rank">>)
           used == [r \in {PathQuestion(<<"squadMembers", m, "inUse">>) : m \in SquadMember} |-> 1]
<1>1. \A k \in DOMAIN past : k[1] = "data" /\ k[2] = "common"
  BY DEF unlock_past_title_backgrounds, set_player_data_for_lookup_string
<1>2. \A k \in DOMAIN challenges :
        k[1] = "data" /\ k[2] = "ranked" /\ k[3][1] \in {"challengeState", "challengeProgress"}
  BY DEF unlock_all_challenges
<1>3. \A k \in DOMAIN unlock_all_squadmember : k[1] = "data" /\ k[2] = "ranked"
  BY SquadUnlocked
<1>4. \A k \in DOMAIN register_squadmembers_purchase :
        k[1] = "data" /\ k[2] = "ranked" /\ k[3][1] \in {"challengeState", "challengeProgress"}
  <2>1. ASSUME NEW k \in DOMAIN register_squadmembers_purchase
        PROVE  k \in {<<"data", "ranked", <<"challengeProgress", p>>>> : p \in Purchase}
                     \cup {<<"data", "ranked", <<"challengeState", p>>>> : p \in Purchase}
    BY DEF register_squadmembers_purchase, Over, Same
  <2> QED BY <2>1
<1> DEFINE points == Same("ranked", {<<"unlockPoints">>}, 5000)
           level == ReservedIs("prestigeLevel", 10)
           rest == Over(register_squadmembers_purchase, unlock_all_squadmember)
<1>6. /\ \A k \in DOMAIN points : k[1] = "data" /\ k[2] = "ranked" /\ k[3][1] = "unlockPoints"
      /\ DOMAIN level = {ReservedKey("prestigeLevel")} /\ level[ReservedKey("prestigeLevel")] = 10
      /\ \A k \in DOMAIN level : k[1] = "reserved"
  BY DEF Same, ReservedIs, One, ReservedKey
<1>7. /\ multiplayer = Over(points, Over(level, rest))
      /\ AllUnlocked = Over(past, Over(challenges, Over(multiplayer, extinction)))
  BY DEF unlock_all_multiplayer, AllUnlocked
<1>8. PICK o1, o2, m1 : /\ o1 = Over(challenges, o2) /\ o2 = Over(multiplayer, extinction)
                        /\ AllUnlocked = Over(past, o1)
                        /\ m1 = Over(level, rest) /\ multiplayer = Over(points, m1)
  BY <1>7
<1>9. PICK u1, u2 : /\ u1 = Over(One(mw3, 20), u2) /\ u2 = Over(One(rank, 31), used)
                    /\ Unlocks = Over(One(prestige, 10), u1)
  BY DEF Unlocks
<1>10. /\ DOMAIN One(prestige, 10) = {prestige} /\ One(prestige, 10)[prestige] = 10
       /\ DOMAIN One(mw3, 20) = {mw3} /\ One(mw3, 20)[mw3] = 20
       /\ DOMAIN One(rank, 31) = {rank} /\ One(rank, 31)[rank] = 31
  BY DEF One
<1>11. DOMAIN used = {PathQuestion(<<"squadMembers", m, "inUse">>) : m \in SquadMember}
       /\ \A r \in DOMAIN used : used[r] = 1
  OBVIOUS
<1>12. /\ get_statsgroup_for_lookup_string("pastTitleData") = "common"
       /\ get_statsgroup_for_lookup_string("alienPlayerStats") = "coop"
       /\ get_statsgroup_for_lookup_string("squadMembers") = "ranked"
  BY StatsGroups
<1> HIDE DEF past, challenges, multiplayer, extinction, prestige, mw3, rank, used, points, level, rest
<1>13. CASE q = prestige
  <2>1. Unlocks[q] = 10
    BY <1>9, <1>10, <1>13, OverIs
  <2>2. PICK k : k = ReservedKey("prestigeLevel")
    OBVIOUS
  <2>3. IsQuestion(q) /\ PlaceAsked(q) = k
    BY <1>13, <2>2, PlacesAsked DEF prestige
  <2>4. k[1] = "reserved"
    BY <2>2 DEF ReservedKey
  <2>5. k \notin DOMAIN past /\ k \notin DOMAIN challenges /\ k \notin DOMAIN points
    BY <2>4, <1>1, <1>2, <1>6
  <2>6. k \in DOMAIN multiplayer /\ multiplayer[k] = 10
    BY <2>2, <2>5, <1>6, <1>8, OverIs
  <2>7. k \in DOMAIN AllUnlocked /\ AllUnlocked[k] = 10
    BY <2>5, <2>6, <1>8, OverIs
  <2> QED BY <2>1, <2>3, <2>7
<1>14. CASE q = mw3
  <2>1. mw3 # prestige
    BY DEF mw3, prestige, PathQuestion, ReservedQuestion
  <2>2. Unlocks[q] = 20
    BY <1>9, <1>10, <1>14, <2>1, OverIs
  <2>3. PICK k : k = <<"data", "common", <<"pastTitleData", "mw3prestige">>>>
    OBVIOUS
  <2>4. IsQuestion(q) /\ PlaceAsked(q) = k
    <3>1. PathKey(<<"pastTitleData", "mw3prestige">>) = k
      BY <2>3, <1>12 DEF PathKey
    <3> QED BY <3>1, <1>14, PlacesAsked DEF mw3
  <2>5. k \in DOMAIN past /\ past[k] = 20
    BY <2>3 DEF past, unlock_past_title_backgrounds, set_player_data_for_lookup_string
  <2> QED BY <2>2, <2>4, <2>5, <1>8, OverIs
<1>15. CASE q = rank
  <2>1. rank # prestige /\ rank # mw3
    BY DEF mw3, rank, prestige, PathQuestion, ReservedQuestion
  <2>2. Unlocks[q] = 31
    BY <1>9, <1>10, <1>15, <2>1, OverIs
  <2>3. PICK k : k = <<"data", "coop", <<"alienPlayerStats", "rank">>>>
    OBVIOUS
  <2>4. IsQuestion(q) /\ PlaceAsked(q) = k
    <3>1. PathKey(<<"alienPlayerStats", "rank">>) = k
      BY <2>3, <1>12 DEF PathKey
    <3> QED BY <3>1, <1>15, PlacesAsked DEF rank
  <2>5. k[1] = "data" /\ k[2] = "coop"
    BY <2>3
  <2>6. k \notin DOMAIN past /\ k \notin DOMAIN challenges
    BY <2>5, <1>1, <1>2
  <2>7. k \notin DOMAIN multiplayer
    <3>1. k \notin DOMAIN rest
      BY <2>5, <1>3, <1>4, OverIs DEF rest
    <3>2. k \notin DOMAIN points /\ k \notin DOMAIN level
      BY <2>5, <1>6
    <3> QED BY <3>1, <3>2, <1>8, OverIs
  <2>8. k \in DOMAIN extinction /\ extinction[k] = 31
    <3> DEFINE ranks == set_player_data_for_lookup_string("coop", "alienPlayerStats",
                          [prestige |-> 25, experience |-> 1845000, rank |-> 31, revives |-> 100,
                           kills |-> 10000, escaped |-> 10, headShots |-> 5])
               tokens == ReservedIs("extinction_tokens", 5000)
               bought == ReservedIs("extinction_purchase_flags", -1)
    <3>1. PICK e1 : e1 = Over(bought, ranks) /\ extinction = Over(tokens, e1)
      BY DEF extinction, unlock_all_extinction
    <3>2. k \in DOMAIN ranks /\ ranks[k] = 31
      BY <2>3 DEF set_player_data_for_lookup_string
    <3>3. k \notin DOMAIN tokens /\ k \notin DOMAIN bought
      BY <2>5 DEF ReservedIs, One, ReservedKey
    <3> HIDE DEF ranks, tokens, bought
    <3> QED BY <3>1, <3>2, <3>3, OverIs
  <2> QED BY <2>2, <2>4, <2>6, <2>7, <2>8, <1>8, OverIs
<1>16. CASE q \in DOMAIN used
  <2>1. PICK m \in SquadMember : q = PathQuestion(<<"squadMembers", m, "inUse">>)
    BY <1>11, <1>16
  <2>2. q # prestige /\ q # mw3 /\ q # rank
    BY <2>1 DEF mw3, rank, prestige, PathQuestion, ReservedQuestion
  <2>3. Unlocks[q] = 1
    BY <1>9, <1>10, <1>11, <1>16, <2>2, OverIs
  <2>4. PICK k : k = <<"data", "ranked", <<"squadMembers", m, "inUse">>>>
    OBVIOUS
  <2>5. IsQuestion(q) /\ PlaceAsked(q) = k
    <3>1. PathKey(<<"squadMembers", m, "inUse">>) = k
      BY <2>4, <1>12 DEF PathKey
    <3> QED BY <3>1, <2>1, PlacesAsked
  <2>6. k[1] = "data" /\ k[2] = "ranked" /\ k[3][1] = "squadMembers"
    BY <2>4
  <2>7. /\ k \notin DOMAIN past /\ k \notin DOMAIN challenges /\ k \notin DOMAIN points
        /\ k \notin DOMAIN level /\ k \notin DOMAIN register_squadmembers_purchase
    BY <2>6, <1>1, <1>2, <1>4, <1>6
  <2>8. k \in DOMAIN unlock_all_squadmember /\ unlock_all_squadmember[k] = 1
    BY <2>4, SquadUnlocked
  <2>9. k \in DOMAIN multiplayer /\ multiplayer[k] = 1
    BY <2>7, <2>8, <1>8, OverIs DEF rest
  <2> QED BY <2>3, <2>5, <2>7, <2>9, <1>8, OverIs
<1>17. q \in {prestige, mw3, rank} \cup DOMAIN used
  BY <1>9, <1>10, OverIs
<1> QED BY <1>13, <1>14, <1>15, <1>16, <1>17

\* The game starts with a file that has all that was sure to be kept, or writes all.
LEMMA KeptStep ==
  ASSUME StickInv, NEW questions, questions \subseteq DOMAIN stat_given, Written(questions),
         player_data' = player_file',
         \A q \in questions :
           PlaceAsked(q) \in DOMAIN player_file' /\ player_file'[PlaceAsked(q)] = stat_given[q].value
  PROVE  StickInv'
<1>1. /\ DOMAIN stat_given' = questions
      /\ \A q \in questions : /\ stat_given'[q].value = stat_given[q].value
                              /\ stat_given'[q].kept = "written"
  BY DEF Written
<1> QED BY <1>1 DEF StickInv, StatsStick

LEMMA StatsStep == StickInv /\ [StatsNext]_statsVars => StickInv'
<1> SUFFICES ASSUME StickInv, [StatsNext]_statsVars PROVE StickInv'
  OBVIOUS
<1>1. ASSUME NEW name, NEW value, setReservedPlayerDataInt(name, value)
      PROVE  StickInv'
  <2>1. CASE is_reserved_lookup_string(name)
    <3>1. PICK q : q = ReservedQuestion(name)
      OBVIOUS
    <3>2. IsQuestion(q) /\ PlaceAsked(q) = ReservedKey(name)
      BY <3>1, PlacesAsked
    <3> QED BY <1>1, <2>1, <3>1, <3>2, SetOne DEF setReservedPlayerDataInt, ReservedIs
  <2>2. CASE ~is_reserved_lookup_string(name)
    BY <1>1, <2>2 DEF setReservedPlayerDataInt, StickInv, StatsStick
  <2> QED BY <2>1, <2>2
<1>2. ASSUME NEW path, NEW value, setPlayerDataInt(path, value)
      PROVE  StickInv'
  <2>1. PICK q : q = PathQuestion(path)
    OBVIOUS
  <2>2. IsQuestion(q) /\ PlaceAsked(q) = PathKey(path)
    BY <2>1, PlacesAsked
  <2> QED BY <1>2, <2>1, <2>2, SetOne DEF setPlayerDataInt, StatsWriteNeeded
<1>3. CASE unlockstats
  <2> DEFINE given_up == {q \in DOMAIN stat_given : PlaceAsked(q) \in DOMAIN AllUnlocked}
  <2>1. /\ player_data' = Over(AllUnlocked, player_data) /\ player_file' = player_file
        /\ Answered(Unlocks, given_up, TRUE) /\ write_needed'
    BY <1>3 DEF unlockstats, StatsWriteNeeded
  <2>2. \A q \in DOMAIN stat_given \ given_up : PlaceAsked(q) \notin DOMAIN AllUnlocked
    OBVIOUS
  <2> HIDE DEF given_up
  <2> QED BY <2>1, <2>2, SetStep, UnlocksRead
<1>4. CASE LiveStorage_Write
  <2>1. /\ player_file' = player_data /\ player_data' = player_data /\ Written(DOMAIN stat_given)
    BY <1>4 DEF LiveStorage_Write
  <2>2. \A q \in DOMAIN stat_given :
          PlaceAsked(q) \in DOMAIN player_data /\ player_data[PlaceAsked(q)] = stat_given[q].value
    BY DEF StickInv, StatsStick
  <2> QED BY <2>1, <2>2, KeptStep
<1>5. CASE GameCloses
  <2> DEFINE sure == {q \in DOMAIN stat_given : stat_given[q].kept \in {"needed", "written"}}
             onfile == IF write_needed THEN player_data ELSE player_file
  <2>1. player_file' = onfile /\ player_data' = onfile /\ Written(sure)
    BY <1>5 DEF GameCloses, StartsWith
  <2>2. \A q \in sure : PlaceAsked(q) \in DOMAIN onfile /\ onfile[PlaceAsked(q)] = stat_given[q].value
    BY DEF StickInv, StatsStick
  <2>3. sure \subseteq DOMAIN stat_given
    OBVIOUS
  <2> HIDE DEF sure, onfile
  <2> QED BY <2>1, <2>2, <2>3, KeptStep
<1>6. CASE GameCrashes
  <2> DEFINE sure == {q \in DOMAIN stat_given : stat_given[q].kept \in {"written"}}
  <2>1. player_file' = player_file /\ player_data' = player_file /\ Written(sure)
    BY <1>6 DEF GameCrashes, StartsWith
  <2>2. \A q \in sure :
          PlaceAsked(q) \in DOMAIN player_file /\ player_file[PlaceAsked(q)] = stat_given[q].value
    BY DEF StickInv, StatsStick
  <2>3. sure \subseteq DOMAIN stat_given
    OBVIOUS
  <2> HIDE DEF sure
  <2> QED BY <2>1, <2>2, <2>3, KeptStep
<1>7. CASE UNCHANGED statsVars
  BY <1>7 DEF statsVars, StickInv, StatsStick
<1> QED BY <1>1, <1>2, <1>3, <1>4, <1>5, <1>6, <1>7 DEF StatsNext

\* Whatever the names, paths and values: what a set command is given and unlockstats
\* says, the get commands answer until another command says otherwise, also after the
\* game was closed and started again, and after a crash if it was written before.
\* Of a reserved value that holds only once something else is written too, as
\* setReservedPlayerDataInt asks for no write (stats.cpp, setPlayerDataInt,
\* unlockstats).
THEOREM StatsKept == StatsSpec => []StatsStick
<1>1. StatsInit => StickInv
  BY DEF StatsInit, StickInv, StatsStick
<1>2. StickInv => StatsStick
  BY DEF StickInv
<1> QED BY <1>1, <1>2, StatsStep, PTL DEF StatsSpec

-----------------------------------------------------------------------------
(* Places in order: Nth(i, S) is how many of S are not behind i.            *)

LEMMA NthType ==
  ASSUME NEW n \in Nat, NEW S, S \subseteq 1..n
  PROVE  /\ IsFiniteSet(S) /\ Cardinality(S) \in Nat
         /\ \A i \in Nat : Nth(i, S) \in Nat /\ Nth(i, S) <= Cardinality(S)
         /\ \A i \in S : 1 <= Nth(i, S)
<1>1. IsFiniteSet(S) /\ Cardinality(S) \in Nat
  <2>1. IsFiniteSet(1..n)
    BY FS_Interval
  <2> QED BY <2>1, FS_Subset, FS_CardinalityType
<1>2. ASSUME NEW i \in Nat
      PROVE  Nth(i, S) \in Nat /\ Nth(i, S) <= Cardinality(S)
  <2> DEFINE U == {j \in S : j <= i}
  <2>1. U \subseteq S
    OBVIOUS
  <2>2. IsFiniteSet(U) /\ Cardinality(U) \in Nat /\ Cardinality(U) <= Cardinality(S)
    BY <2>1, <1>1, FS_Subset, FS_CardinalityType
  <2> QED BY <2>2 DEF Nth
<1>3. ASSUME NEW i \in S
      PROVE  1 <= Nth(i, S)
  <2> DEFINE U == {j \in S : j <= i}
  <2>1. i \in U /\ U \subseteq S
    OBVIOUS
  <2>2. IsFiniteSet(U)
    BY <2>1, <1>1, FS_Subset
  <2>3. Cardinality(U) # 0 /\ Cardinality(U) \in Nat
    BY <2>1, <2>2, FS_EmptySet, FS_CardinalityType
  <2> QED BY <2>3 DEF Nth
<1> QED BY <1>1, <1>2, <1>3

\* A place behind all others is the last, and leaves the others where they are.
LEMMA NthLast ==
  ASSUME NEW n \in Nat, NEW S, S \subseteq 1..n
  PROVE  /\ \A i \in 1..n : Nth(i, S \cup {n + 1}) = Nth(i, S)
         /\ Nth(n + 1, S \cup {n + 1}) = Cardinality(S) + 1
         /\ Cardinality(S \cup {n + 1}) = Cardinality(S) + 1
<1>1. IsFiniteSet(S) /\ n + 1 \notin S /\ \A j \in S : j \in Nat /\ j <= n
  <2>1. \A j \in S : j \in Nat /\ j <= n
    OBVIOUS
  <2>2. IsFiniteSet(S)
    BY NthType
  <2>3. n + 1 \notin S
    BY <2>1
  <2> QED BY <2>1, <2>2, <2>3
<1>2. Cardinality(S \cup {n + 1}) = Cardinality(S) + 1
  BY <1>1, FS_AddElement
<1>3. {j \in S \cup {n + 1} : j <= n + 1} = S \cup {n + 1}
  <2>1. \A j \in S \cup {n + 1} : j <= n + 1
    BY <1>1
  <2> QED BY <2>1, Zenon
<1>4. ASSUME NEW i \in 1..n
      PROVE  {j \in S \cup {n + 1} : j <= i} = {j \in S : j <= i}
  <2>1. ~(n + 1 <= i)
    OBVIOUS
  <2> QED BY <2>1, Zenon
<1> QED BY <1>2, <1>3, <1>4, Zenon DEF Nth

\* Where the first place is taken away, all others move by one.
MovedUp(S, n) == {j \in 1..n : j + 1 \in S}

LEMMA NthTail ==
  ASSUME NEW n \in Nat, NEW S, S \subseteq 1..(n + 1)
  PROVE  /\ \A i \in Nat : Nth(i, MovedUp(S, n)) = Nth(i + 1, S) - (IF 1 \in S THEN 1 ELSE 0)
         /\ Cardinality(MovedUp(S, n)) = Cardinality(S) - (IF 1 \in S THEN 1 ELSE 0)
<1> DEFINE T == {j \in 1..n : j + 1 \in S}
<1>0. T \subseteq 1..n /\ \A j : j \in T <=> j \in 1..n /\ j + 1 \in S
  OBVIOUS
<1> HIDE DEF T
<1>1. ASSUME NEW m \in Nat
      PROVE  LET U == {j \in S : j <= m + 1}
                 V == {j \in T : j <= m}
             IN  IsFiniteSet(U) /\ Cardinality(V) = Cardinality(U) - (IF 1 \in S THEN 1 ELSE 0)
  <2> DEFINE U == {j \in S : j <= m + 1}
             V == {j \in T : j <= m}
             W == U \ {1}
             f == [j \in V |-> j + 1]
  <2>1. IsFiniteSet(S) /\ IsFiniteSet(T)
    <3>1. n + 1 \in Nat
      OBVIOUS
    <3> QED BY <3>1, <1>0, NthType
  <2>2. IsFiniteSet(U) /\ IsFiniteSet(V)
    BY <2>1, FS_Subset
  <2>3. f \in [V -> W]
    BY <1>0
  <2>4. \A x, y \in V : f[x] = f[y] => x = y
    BY <1>0
  <2>5. ASSUME NEW t \in W
        PROVE  \E x \in V : f[x] = t
    <3>1. t - 1 \in V
      BY <1>0
    <3>2. f[t - 1] = t
      BY <3>1
    <3> QED BY <3>1, <3>2
  <2> HIDE DEF f
  <2>6. Cardinality(W) = Cardinality(V)
    BY <2>2, <2>3, <2>4, <2>5, SameSize
  <2>7. Cardinality(W) = Cardinality(U) - (IF 1 \in U THEN 1 ELSE 0)
    <3>1. CASE 1 \in U
      BY <3>1, <2>2, FS_RemoveElement
    <3>2. CASE 1 \notin U
      <4>1. W = U
        BY <3>2
      <4>2. Cardinality(U) \in Nat
        BY <2>2, FS_CardinalityType
      <4>3. Cardinality(W) = Cardinality(U)
        BY <4>1, Zenon
      <4> HIDE DEF U, W
      <4> QED BY <4>2, <4>3, <3>2
    <3> QED BY <3>1, <3>2
  <2>8. 1 \in U <=> 1 \in S
    OBVIOUS
  <2> QED BY <2>2, <2>6, <2>7, <2>8
<1>2. \A i \in Nat : Nth(i, T) = Nth(i + 1, S) - (IF 1 \in S THEN 1 ELSE 0)
  BY <1>1 DEF Nth
<1>3. {j \in S : j <= n + 1} = S /\ {j \in T : j <= n} = T
  <2>1. /\ \A j \in S : j <= n + 1
        /\ \A j \in T : j <= n
    BY <1>0
  <2> QED BY <2>1, Zenon
<1>4. Cardinality(T) = Cardinality(S) - (IF 1 \in S THEN 1 ELSE 0)
  BY <1>1, <1>3
<1> QED BY <1>2, <1>4 DEF MovedUp, T

\* Both lists grow by the same entry.
LEMMA BothGrow ==
  ASSUME NEW m \in Nat, NEW n \in Nat, NEW S, NEW T, S \subseteq 1..m, T \subseteq 1..n,
         NEW list, NEW other, NEW list2, NEW other2, SameInOrder(list, S, other, T),
         \A i \in 1..m : list2[i] = list[i], \A j \in 1..n : other2[j] = other[j],
         list2[m + 1] = other2[n + 1]
  PROVE  SameInOrder(list2, S \cup {m + 1}, other2, T \cup {n + 1})
<1>1. /\ \A i \in 1..m : Nth(i, S \cup {m + 1}) = Nth(i, S)
      /\ Nth(m + 1, S \cup {m + 1}) = Cardinality(S) + 1
      /\ Cardinality(S \cup {m + 1}) = Cardinality(S) + 1
  BY NthLast
<1>2. /\ \A j \in 1..n : Nth(j, T \cup {n + 1}) = Nth(j, T)
      /\ Nth(n + 1, T \cup {n + 1}) = Cardinality(T) + 1
      /\ Cardinality(T \cup {n + 1}) = Cardinality(T) + 1
  BY NthLast
<1>3. /\ Cardinality(S) \in Nat /\ Cardinality(T) \in Nat
      /\ \A i \in S : Nth(i, S) \in Nat /\ Nth(i, S) <= Cardinality(S)
      /\ \A j \in T : Nth(j, T) \in Nat /\ Nth(j, T) <= Cardinality(T)
  <2>1. (\A i \in S : i \in Nat) /\ (\A j \in T : j \in Nat)
    OBVIOUS
  <2> QED BY <2>1, NthType
<1>4. Cardinality(S) = Cardinality(T)
  BY DEF SameInOrder
<1>5. ASSUME NEW i \in S \cup {m + 1}, NEW j \in T \cup {n + 1},
             Nth(i, S \cup {m + 1}) = Nth(j, T \cup {n + 1})
      PROVE  list2[i] = other2[j]
  <2>1. CASE i \in S /\ j \in T
    <3>1. Nth(i, S) = Nth(j, T)
      BY <2>1, <1>1, <1>2, <1>5
    <3> QED BY <2>1, <3>1 DEF SameInOrder
  <2>2. CASE i \in S /\ j = n + 1
    <3>1. Nth(i, S \cup {m + 1}) = Nth(i, S) /\ Nth(i, S) <= Cardinality(S) /\ Nth(i, S) \in Nat
      BY <2>2, <1>1, <1>3
    <3>2. Nth(j, T \cup {n + 1}) = Cardinality(T) + 1
      BY <2>2, <1>2
    <3> QED BY <3>1, <3>2, <1>3, <1>4, <1>5
  <2>3. CASE i = m + 1 /\ j \in T
    <3>1. Nth(j, T \cup {n + 1}) = Nth(j, T) /\ Nth(j, T) <= Cardinality(T) /\ Nth(j, T) \in Nat
      BY <2>3, <1>2, <1>3
    <3>2. Nth(i, S \cup {m + 1}) = Cardinality(S) + 1
      BY <2>3, <1>1
    <3> QED BY <3>1, <3>2, <1>3, <1>4, <1>5
  <2>4. CASE i = m + 1 /\ j = n + 1
    BY <2>4
  <2> QED BY <2>1, <2>2, <2>3, <2>4
<1> QED BY <1>1, <1>2, <1>4, <1>5 DEF SameInOrder

\* What is not counted does not matter.
LEMMA SameKept ==
  ASSUME NEW S, NEW T, NEW list, NEW other, NEW list2, NEW other2, SameInOrder(list, S, other, T),
         \A i \in S : list2[i] = list[i], \A j \in T : other2[j] = other[j]
  PROVE  SameInOrder(list2, S, other2, T)
BY DEF SameInOrder

-----------------------------------------------------------------------------
(* Messages.                                                               *)

Speech == Seq(STRING)
Spoke == [slot : Slot, said : BOOLEAN, text : Speech]

\* The code overwrites the slash with the mark, erases the first character and
\* then the mark, whatever is behind them.
LEMMA NotifiedAsMeant ==
  ASSUME NEW words \in Speech
  PROVE  /\ NotifyText(words) = Meant(words) /\ NotifyText(words) \in Speech
         /\ Hidden(words) <=> Slashed(words)
<1>1. Len(words) \in Nat /\ DOMAIN words = 1..Len(words) /\ (words = <<>> <=> Len(words) = 0)
  BY EmptySeq, LenProperties DEF Speech
<1>2. CASE words = <<>>
  <2>1. ~Marked(words) /\ ~Hidden(words) /\ Unmarked(words) = words /\ ~Slashed(words)
    BY <1>1, <1>2 DEF Marked, Hidden, SlashAt, Unmarked, Slashed
  <2> QED BY <2>1 DEF NotifyText, Spoken, Meant
<1>3. CASE words # <<>> /\ words[1] # "x1F"
  <2>1. Head(words) = words[1]
    BY <1>3 DEF Speech
  <2>2. ~Marked(words) /\ Unmarked(words) = words /\ SlashAt(words) = 1
    BY <2>1, <1>3 DEF Marked, Unmarked, SlashAt
  <2>3. Hidden(words) <=> words[1] = "/"
    BY <1>1, <1>3, <2>2 DEF Hidden
  <2>4. Slashed(words) <=> words[1] = "/"
    BY <1>3, <2>1, <2>2 DEF Slashed
  <2>5. [words EXCEPT ![1] = words[1]] = words
    <3>1. words = [k \in DOMAIN words |-> words[k]]
      BY DEF Speech
    <3> QED BY <3>1, Zenon
  <2>6. Spoken(words) = IF words[1] = "/" THEN Tail(words) ELSE words
    BY <2>2, <2>3, <2>5 DEF Spoken
  <2>7. NotifyText(words) = Spoken(words)
    BY <2>2 DEF NotifyText
  <2>8. Meant(words) = IF words[1] = "/" THEN Tail(words) ELSE words
    BY <2>2, <2>4 DEF Meant
  <2> QED BY <1>3, <2>3, <2>4, <2>6, <2>7, <2>8, HeadTailProperties DEF Speech
<1>4. CASE words # <<>> /\ words[1] = "x1F"
  <2> DEFINE rest == Tail(words)
             over == [words EXCEPT ![2] = words[1]]
  <2>1. /\ Head(words) = words[1] /\ rest \in Speech /\ Len(rest) = Len(words) - 1
        /\ \A k \in 1..Len(words) - 1 : rest[k] = words[k + 1]
    BY <1>4, TailElements DEF Speech
  <2>2. Marked(words) /\ Unmarked(words) = rest /\ SlashAt(words) = 2
    BY <2>1, <1>4 DEF Marked, Unmarked, SlashAt
  <2>3. Hidden(words) <=> Len(words) >= 2 /\ words[2] = "/"
    BY <2>2 DEF Hidden
  <2>4. Slashed(words) <=> Len(words) >= 2 /\ words[2] = "/"
    <3>1. rest = <<>> <=> Len(words) = 1
      BY <2>1, <1>1, <1>4, EmptySeq DEF Speech
    <3>2. rest # <<>> => Head(rest) = words[2]
      <4> SUFFICES ASSUME rest # <<>> PROVE Head(rest) = words[2]
        OBVIOUS
      <4>1. Len(words) >= 2
        BY <3>1, <1>1, <1>4
      <4>2. Head(rest) = rest[1]
        BY <2>1, TailElements DEF Speech
      <4> QED BY <4>1, <4>2, <2>1, <1>1
    <3> QED BY <3>1, <3>2, <2>2, <1>1, <1>4 DEF Slashed
  <2>5. CASE ~Hidden(words)
    <3>1. NotifyText(words) = rest /\ Meant(words) = rest
      BY <2>5, <2>2, <2>3, <2>4 DEF NotifyText, Spoken, Meant
    <3> QED BY <3>1, <2>1, <2>3, <2>4
  <2>6. CASE Hidden(words)
    <3>1. /\ over \in Speech /\ Len(over) = Len(words)
          /\ \A k \in 1..Len(words) : over[k] = IF k = 2 THEN words[1] ELSE words[k]
      <4>1. 1 \in 1..Len(words)
        BY <1>1, <1>4
      <4>2. \A k \in 1..Len(words) : words[k] \in STRING
        BY ElementOfSeq DEF Speech
      <4>3. /\ over = [k \in 1..Len(words) |-> IF k = 2 THEN words[1] ELSE words[k]]
            /\ \A k \in 1..Len(words) : (IF k = 2 THEN words[1] ELSE words[k]) \in STRING
        BY <1>1, <4>1, <4>2
      <4>4. over \in [1..Len(words) -> STRING]
        BY <4>3
      <4> QED BY <4>3, <4>4, <1>1, FunctionIsSeq DEF Speech
    <3>2. NotifyText(words) = Tail(Tail(over))
      BY <2>6, <2>2 DEF NotifyText, Spoken
    <3>3. Meant(words) = Tail(rest)
      BY <2>2, <2>3, <2>4, <2>6 DEF Meant
    <3>4. Len(words) >= 2
      BY <2>6, <2>3
    <3> HIDE DEF over, rest
    <3>5. /\ Tail(over) \in Speech /\ Len(Tail(over)) = Len(words) - 1
          /\ \A k \in 1..Len(words) - 1 : Tail(over)[k] = over[k + 1]
      <4>1. over # <<>>
        BY <3>1, <3>4, <1>1, EmptySeq DEF Speech
      <4> QED BY <4>1, <3>1, TailElements DEF Speech
    <3>6. /\ Tail(Tail(over)) \in Speech /\ Len(Tail(Tail(over))) = Len(words) - 2
          /\ \A k \in 1..Len(words) - 2 : Tail(Tail(over))[k] = over[k + 2]
      <4>1. Tail(over) # <<>>
        BY <3>5, <3>4, <1>1, EmptySeq DEF Speech
      <4>2. /\ Tail(Tail(over)) \in Speech /\ Len(Tail(Tail(over))) = Len(Tail(over)) - 1
            /\ \A k \in 1..Len(Tail(over)) - 1 : Tail(Tail(over))[k] = Tail(over)[k + 1]
        BY <4>1, <3>5, TailElements DEF Speech
      <4> QED BY <4>2, <3>5, <1>1
    <3>7. /\ Tail(rest) \in Speech /\ Len(Tail(rest)) = Len(words) - 2
          /\ \A k \in 1..Len(words) - 2 : Tail(rest)[k] = words[k + 2]
      <4>1. rest # <<>>
        BY <2>1, <3>4, <1>1, EmptySeq DEF Speech
      <4>2. /\ Tail(rest) \in Speech /\ Len(Tail(rest)) = Len(rest) - 1
            /\ \A k \in 1..Len(rest) - 1 : Tail(rest)[k] = rest[k + 1]
        BY <4>1, <2>1, TailElements DEF Speech
      <4> QED BY <4>2, <2>1, <1>1
    <3>8. \A k \in 1..Len(words) - 2 : Tail(Tail(over))[k] = Tail(rest)[k]
      <4> TAKE k \in 1..Len(words) - 2
      <4>1. k + 2 \in 1..Len(words) /\ k + 2 # 2
        BY <1>1
      <4> QED BY <4>1, <3>1, <3>6, <3>7
    <3>9. Tail(Tail(over)) = Tail(rest)
      BY <3>6, <3>7, <3>8, SeqEqual DEF Speech
    <3> QED BY <3>2, <3>3, <3>6, <3>9, <2>3, <2>4
  <2> QED BY <2>5, <2>6
<1> QED BY <1>2, <1>3, <1>4

SvName == {"none", "say", "say_team", "god", "give", "take", "setviewpos"}
Shown == [slot : Slot, said : BOOLEAN, text : Speech \cup {<<name>> : name \in SvName}]
ServerTask == [kind : {"notify", "kick"}, slot : Slot, text : Speech]
Seat == [Slot -> Player \cup {Nobody}]
Notice == [slot : Slot, player : Player \cup {Nobody}, name : SvName, text : Speech]

Notifies == {i \in DOMAIN tasks : tasks[i].kind = "notify"}
ShownSaid == {i \in DOMAIN shown : shown[i].said}
OpenSaid == {i \in DOMAIN said : ~Slashed(said[i].text)}

MessageTypes ==
  /\ said \in Seq(Spoke) /\ shown \in Seq(Shown) /\ notified \in Seq(Notice)
  /\ tasks \in Seq(ServerTask) /\ sv_cmd_args \in SvName

\* The messages that are not notified yet are those of the tasks, in their order.
MessagesInv ==
  /\ MessageTypes
  /\ \A i \in DOMAIN notified :
       notified[i].slot = said[i].slot /\ notified[i].text = Meant(said[i].text)
  /\ Len(said) = Len(notified) + Cardinality(Notifies)
  /\ \A i \in Notifies : LET entry == said[Len(notified) + Nth(i, Notifies)]
                         IN  tasks[i].slot = entry.slot /\ tasks[i].text = Meant(entry.text)
  /\ SameInOrder(shown, ShownSaid, said, OpenSaid)
  /\ file.lines = file.of

LEMMA MessagePlaces ==
  ASSUME MessageTypes
  PROVE  /\ Len(said) \in Nat /\ DOMAIN said = 1..Len(said)
         /\ Len(shown) \in Nat /\ DOMAIN shown = 1..Len(shown)
         /\ Len(notified) \in Nat /\ DOMAIN notified = 1..Len(notified)
         /\ Len(tasks) \in Nat /\ DOMAIN tasks = 1..Len(tasks)
         /\ Notifies \subseteq 1..Len(tasks) /\ ShownSaid \subseteq 1..Len(shown)
         /\ OpenSaid \subseteq 1..Len(said) /\ Cardinality(Notifies) \in Nat
<1>1. /\ Len(said) \in Nat /\ DOMAIN said = 1..Len(said)
      /\ Len(shown) \in Nat /\ DOMAIN shown = 1..Len(shown)
      /\ Len(notified) \in Nat /\ DOMAIN notified = 1..Len(notified)
      /\ Len(tasks) \in Nat /\ DOMAIN tasks = 1..Len(tasks)
  BY LenProperties DEF MessageTypes
<1>2. /\ Notifies \subseteq 1..Len(tasks) /\ ShownSaid \subseteq 1..Len(shown)
      /\ OpenSaid \subseteq 1..Len(said)
  BY <1>1 DEF Notifies, ShownSaid, OpenSaid
<1>3. Cardinality(Notifies) \in Nat
  BY <1>1, <1>2, NthType
<1> QED BY <1>1, <1>2, <1>3

\* A command that the game gets, or none.
LEMMA OtherShown ==
  ASSUME MessagesInv, NEW e \in Shown, ~e.said, shown' = Append(shown, e), UNCHANGED <<said, tasks, notified, file>>,
         sv_cmd_args' \in SvName
  PROVE  MessagesInv'
<1>1. /\ MessageTypes /\ Len(shown) \in Nat /\ DOMAIN shown = 1..Len(shown)
      /\ ShownSaid \subseteq 1..Len(shown)
  BY MessagePlaces DEF MessagesInv
<1>2. /\ shown' \in Seq(Shown) /\ Len(shown') = Len(shown) + 1 /\ shown'[Len(shown) + 1] = e
      /\ \A k \in 1..Len(shown) : shown'[k] = shown[k]
  BY <1>1, AppendElements DEF MessageTypes
<1>3. DOMAIN shown' = 1..Len(shown) + 1
  BY <1>2, LenProperties
<1>4. ShownSaid' = ShownSaid
  BY <1>1, <1>2, <1>3 DEF ShownSaid
<1>5. SameInOrder(shown, ShownSaid, said, OpenSaid)
  BY DEF MessagesInv
<1>6. SameInOrder(shown', ShownSaid, said, OpenSaid)
  <2>1. \A i \in ShownSaid : shown'[i] = shown[i]
    BY <1>1, <1>2
  <2> QED BY <2>1, <1>5, SameKept, Zenon
<1>7. Notifies' = Notifies /\ OpenSaid' = OpenSaid /\ MessageTypes'
  BY <1>1, <1>2 DEF Notifies, OpenSaid, MessageTypes
<1> QED BY <1>4, <1>6, <1>7, Zenon DEF MessagesInv

LEMMA SameMessages ==
  ASSUME MessagesInv, UNCHANGED <<said, tasks, notified, shown>>, sv_cmd_args' \in SvName,
         file'.lines = file'.of
  PROVE  MessagesInv'
<1>1. /\ Notifies' = Notifies /\ OpenSaid' = OpenSaid /\ ShownSaid' = ShownSaid /\ MessageTypes'
  BY DEF Notifies, OpenSaid, ShownSaid, MessageTypes, MessagesInv
<1> QED BY <1>1, Zenon DEF MessagesInv

\* Tasks that notify nothing.
LEMMA OtherTasks ==
  ASSUME MessagesInv, NEW n \in Nat, NEW f \in [1..n -> ServerTask], \A i \in 1..n : f[i].kind = "kick",
         tasks' = tasks \o f, UNCHANGED <<said, notified, shown, file, sv_cmd_args>>
  PROVE  MessagesInv'
<1>1. MessageTypes /\ Len(tasks) \in Nat /\ DOMAIN tasks = 1..Len(tasks)
  BY MessagePlaces DEF MessagesInv
<1>2. f \in Seq(ServerTask) /\ Len(f) = n
  BY FunctionIsSeq
<1>3. /\ tasks' \in Seq(ServerTask) /\ Len(tasks') = Len(tasks) + n
      /\ \A k \in 1..Len(tasks) : tasks'[k] = tasks[k]
      /\ \A k \in 1..n : tasks'[Len(tasks) + k] = f[k]
  <2>1. tasks \in Seq(ServerTask)
    BY <1>1 DEF MessageTypes
  <2>2. /\ tasks \o f \in Seq(ServerTask) /\ Len(tasks \o f) = Len(tasks) + Len(f)
        /\ \A k \in 1..Len(tasks) : (tasks \o f)[k] = tasks[k]
        /\ \A k \in 1..Len(f) : (tasks \o f)[Len(tasks) + k] = f[k]
    <3>1. \A s, t \in Seq(ServerTask) :
            /\ s \o t \in Seq(ServerTask) /\ Len(s \o t) = Len(s) + Len(t)
            /\ \A k \in 1..Len(s) : (s \o t)[k] = s[k]
            /\ \A k \in 1..Len(t) : (s \o t)[Len(s) + k] = t[k]
      BY ConcatElements
    <3> QED BY <3>1, <2>1, <1>2, Zenon
  <2> QED BY <2>2, <1>2
<1>4. DOMAIN tasks' = 1..Len(tasks) + n
  BY <1>3, LenProperties
<1>5. \A i \in DOMAIN tasks' : i \in 1..Len(tasks) \/ (i - Len(tasks) \in 1..n /\ i = Len(tasks) + (i - Len(tasks)))
  BY <1>1, <1>4
<1>6. Notifies' = Notifies
  <2>1. \A i \in Notifies' : i \in Notifies
    BY <1>1, <1>3, <1>5 DEF Notifies
  <2>2. \A i \in Notifies : i \in Notifies'
    BY <1>1, <1>3, <1>4 DEF Notifies
  <2> QED BY <2>1, <2>2
<1>7. OpenSaid' = OpenSaid /\ ShownSaid' = ShownSaid /\ MessageTypes'
  BY <1>1, <1>3 DEF OpenSaid, ShownSaid, MessageTypes
<1>8. \A i \in Notifies : tasks'[i] = tasks[i]
  BY <1>1, <1>3 DEF Notifies
<1> QED BY <1>6, <1>7, <1>8, Zenon DEF MessagesInv

\* A message: one more to notify, and one more for the game if it is not hidden.
LEMMA SayStep ==
  ASSUME MessagesInv, NEW slot \in Slot, NEW name \in {"say", "say_team"}, NEW words \in Speech,
         client_say(slot, name, words)
  PROVE  MessagesInv'
<1> DEFINE e == [slot |-> slot, said |-> TRUE, text |-> words]
           t == [kind |-> "notify", slot |-> slot, text |-> NotifyText(words)]
<1>1. /\ sv_cmd_args' = name /\ said' = Append(said, e) /\ tasks' = Append(tasks, t)
      /\ shown' = IF Hidden(words) THEN shown ELSE Append(shown, e)
      /\ notified' = notified /\ file' = file
  BY Zenon DEF client_say, Chat
<1>2. /\ NotifyText(words) = Meant(words) /\ NotifyText(words) \in Speech
      /\ Hidden(words) <=> Slashed(words)
  BY NotifiedAsMeant
<1>3. /\ e \in Spoke /\ e \in Shown /\ t \in ServerTask /\ t.kind = "notify" /\ t.slot = slot
      /\ t.text = Meant(words) /\ e.slot = slot /\ e.said /\ e.text = words
  BY <1>2 DEF Spoke, Shown, ServerTask
<1> HIDE DEF e, t
<1>4. /\ MessageTypes /\ Len(said) \in Nat /\ DOMAIN said = 1..Len(said)
      /\ Len(shown) \in Nat /\ DOMAIN shown = 1..Len(shown)
      /\ Len(notified) \in Nat /\ DOMAIN notified = 1..Len(notified)
      /\ Len(tasks) \in Nat /\ DOMAIN tasks = 1..Len(tasks)
      /\ Notifies \subseteq 1..Len(tasks) /\ ShownSaid \subseteq 1..Len(shown)
      /\ OpenSaid \subseteq 1..Len(said) /\ Cardinality(Notifies) \in Nat
  BY MessagePlaces DEF MessagesInv
<1>5. /\ said' \in Seq(Spoke) /\ Len(said') = Len(said) + 1 /\ said'[Len(said) + 1] = e
      /\ \A k \in 1..Len(said) : said'[k] = said[k]
  BY <1>1, <1>3, <1>4, AppendElements DEF MessageTypes
<1>6. /\ tasks' \in Seq(ServerTask) /\ Len(tasks') = Len(tasks) + 1 /\ tasks'[Len(tasks) + 1] = t
      /\ \A k \in 1..Len(tasks) : tasks'[k] = tasks[k]
  BY <1>1, <1>3, <1>4, AppendElements DEF MessageTypes
<1>7. DOMAIN said' = 1..Len(said) + 1 /\ DOMAIN tasks' = 1..Len(tasks) + 1
  BY <1>5, <1>6, LenProperties
<1>8. Notifies' = Notifies \cup {Len(tasks) + 1}
  <2>1. \A i \in 1..Len(tasks) : i \in Notifies' <=> i \in Notifies
    BY <1>4, <1>6, <1>7 DEF Notifies
  <2>2. Len(tasks) + 1 \in Notifies'
    BY <1>3, <1>4, <1>6, <1>7 DEF Notifies
  <2>3. Notifies' \subseteq 1..Len(tasks) + 1
    BY <1>7 DEF Notifies
  <2>4. \A i \in 1..Len(tasks) + 1 : i \in 1..Len(tasks) \/ i = Len(tasks) + 1
    BY <1>4
  <2>5. \A i : i \in Notifies' <=> i \in Notifies \/ i = Len(tasks) + 1
    BY <2>1, <2>2, <2>3, <2>4, <1>4
  <2> QED BY <2>5
<1>9. /\ \A i \in 1..Len(tasks) : Nth(i, Notifies') = Nth(i, Notifies)
      /\ Nth(Len(tasks) + 1, Notifies') = Cardinality(Notifies) + 1
      /\ Cardinality(Notifies') = Cardinality(Notifies) + 1
  BY <1>4, <1>8, NthLast
<1>10. Len(said) = Len(notified) + Cardinality(Notifies)
  BY DEF MessagesInv
<1>11. \A i \in DOMAIN notified' :
         notified'[i].slot = said'[i].slot /\ notified'[i].text = Meant(said'[i].text)
  <2> TAKE i \in DOMAIN notified'
  <2>1. i \in DOMAIN notified /\ notified'[i] = notified[i]
    BY <1>1
  <2>2. i \in 1..Len(said)
    BY <2>1, <1>4, <1>10
  <2>3. said'[i] = said[i]
    BY <2>2, <1>5
  <2> QED BY <2>1, <2>3 DEF MessagesInv
<1>12. Len(said') = Len(notified') + Cardinality(Notifies')
  BY <1>1, <1>4, <1>5, <1>9, <1>10
<1>13. \A i \in Notifies' : LET entry == said'[Len(notified') + Nth(i, Notifies')]
                            IN  tasks'[i].slot = entry.slot /\ tasks'[i].text = Meant(entry.text)
  <2> TAKE i \in Notifies'
  <2>1. CASE i \in Notifies
    <3>1. i \in 1..Len(tasks) /\ i \in Nat
      BY <2>1, <1>4
    <3>2. Nth(i, Notifies') = Nth(i, Notifies) /\ tasks'[i] = tasks[i]
      BY <3>1, <1>6, <1>9
    <3>3. Nth(i, Notifies) \in Nat /\ 1 <= Nth(i, Notifies) /\ Nth(i, Notifies) <= Cardinality(Notifies)
      BY <2>1, <3>1, <1>4, NthType
    <3>4. Len(notified) + Nth(i, Notifies) \in 1..Len(said)
      BY <3>3, <1>4, <1>10
    <3>5. said'[Len(notified') + Nth(i, Notifies')] = said[Len(notified) + Nth(i, Notifies)]
      BY <3>2, <3>4, <1>1, <1>5
    <3> QED BY <2>1, <3>2, <3>5, Zenon DEF MessagesInv
  <2>2. CASE i = Len(tasks) + 1
    <3>1. said'[Len(notified') + Nth(i, Notifies')] = e
      BY <2>2, <1>1, <1>4, <1>5, <1>9, <1>10
    <3>2. tasks'[i] = t
      BY <2>2, <1>6
    <3> QED BY <3>1, <3>2, <1>3
  <2> QED BY <2>1, <2>2, <1>8
<1>14. SameInOrder(shown, ShownSaid, said, OpenSaid)
  BY DEF MessagesInv
<1>15. OpenSaid' = IF Hidden(words) THEN OpenSaid ELSE OpenSaid \cup {Len(said) + 1}
  <2>1. \A i \in 1..Len(said) : i \in OpenSaid' <=> i \in OpenSaid
    BY <1>4, <1>5, <1>7 DEF OpenSaid
  <2>2. Len(said) + 1 \in OpenSaid' <=> ~Hidden(words)
    BY <1>2, <1>3, <1>4, <1>5, <1>7 DEF OpenSaid
  <2>3. OpenSaid' \subseteq 1..Len(said) + 1
    BY <1>7 DEF OpenSaid
  <2>4. \A i \in 1..Len(said) + 1 : i \in 1..Len(said) \/ i = Len(said) + 1
    BY <1>4
  <2>5. CASE Hidden(words)
    <3>1. \A i : i \in OpenSaid' <=> i \in OpenSaid
      BY <2>1, <2>2, <2>3, <2>4, <2>5, <1>4
    <3> QED BY <3>1, <2>5
  <2>6. CASE ~Hidden(words)
    <3>1. \A i : i \in OpenSaid' <=> i \in OpenSaid \/ i = Len(said) + 1
      BY <2>1, <2>2, <2>3, <2>4, <2>6, <1>4
    <3> QED BY <3>1, <2>6
  <2> QED BY <2>5, <2>6
<1>16. shown' \in Seq(Shown) /\ SameInOrder(shown', ShownSaid', said', OpenSaid')
  <2>1. CASE Hidden(words)
    <3>1. shown' = shown /\ ShownSaid' = ShownSaid /\ OpenSaid' = OpenSaid /\ shown \in Seq(Shown)
      BY <2>1, <1>1, <1>4, <1>15 DEF ShownSaid, MessageTypes
    <3>2. (\A i \in ShownSaid : shown'[i] = shown[i]) /\ (\A i \in OpenSaid : said'[i] = said[i])
      BY <3>1, <1>4, <1>5
    <3> QED BY <3>1, <3>2, <1>14, SameKept, Zenon
  <2>2. CASE ~Hidden(words)
    <3>1. /\ shown' \in Seq(Shown) /\ Len(shown') = Len(shown) + 1 /\ shown'[Len(shown) + 1] = e
          /\ \A k \in 1..Len(shown) : shown'[k] = shown[k]
      BY <2>2, <1>1, <1>3, <1>4, AppendElements DEF MessageTypes
    <3>2. DOMAIN shown' = 1..Len(shown) + 1
      BY <3>1, LenProperties
    <3>3. ShownSaid' = ShownSaid \cup {Len(shown) + 1}
      <4>1. \A i \in 1..Len(shown) : i \in ShownSaid' <=> i \in ShownSaid
        BY <1>4, <3>1, <3>2 DEF ShownSaid
      <4>2. Len(shown) + 1 \in ShownSaid'
        BY <1>3, <1>4, <3>1, <3>2 DEF ShownSaid
      <4>3. ShownSaid' \subseteq 1..Len(shown) + 1
        BY <3>2 DEF ShownSaid
      <4>4. \A i \in 1..Len(shown) + 1 : i \in 1..Len(shown) \/ i = Len(shown) + 1
        BY <1>4
      <4>5. \A i : i \in ShownSaid' <=> i \in ShownSaid \/ i = Len(shown) + 1
        BY <4>1, <4>2, <4>3, <4>4, <1>4
      <4> QED BY <4>5
    <3>4. SameInOrder(shown', ShownSaid \cup {Len(shown) + 1}, said', OpenSaid \cup {Len(said) + 1})
      BY <1>4, <1>5, <1>14, <3>1, BothGrow
    <3> QED BY <3>1, <3>3, <3>4, <1>15, <2>2
  <2> QED BY <2>1, <2>2
<1>17. MessageTypes'
  BY <1>1, <1>4, <1>5, <1>6, <1>16 DEF MessageTypes, SvName
<1> QED BY <1>1, <1>11, <1>12, <1>13, <1>16, <1>17, Zenon DEF MessagesInv

\* The server's frame takes the first task; those behind it move up.
LEMMA TaskTaken ==
  ASSUME MessagesInv, tasks # <<>>, tasks' = Tail(tasks)
  PROVE  /\ tasks' \in Seq(ServerTask) /\ Head(tasks) = tasks[1] /\ tasks[1] \in ServerTask
         /\ 1 \in Notifies <=> Head(tasks).kind = "notify"
         /\ \A i \in Notifies' : /\ i + 1 \in Notifies /\ tasks'[i] = tasks[i + 1]
                                 /\ Nth(i, Notifies') = Nth(i + 1, Notifies) - (IF 1 \in Notifies THEN 1 ELSE 0)
         /\ Cardinality(Notifies') = Cardinality(Notifies) - (IF 1 \in Notifies THEN 1 ELSE 0)
         /\ 1 \in Notifies => Nth(1, Notifies) = 1
         /\ \A i \in Notifies : Nth(i, Notifies) \in Nat /\ 1 <= Nth(i, Notifies)
         /\ \A i \in Notifies : Nth(i, Notifies) <= Cardinality(Notifies)
<1> DEFINE n == Len(tasks) - 1
<1>1. /\ tasks \in Seq(ServerTask) /\ Len(tasks) \in Nat /\ DOMAIN tasks = 1..Len(tasks)
      /\ Notifies \subseteq 1..Len(tasks) /\ Cardinality(Notifies) \in Nat
  BY MessagePlaces DEF MessagesInv, MessageTypes
<1>2. /\ tasks' \in Seq(ServerTask) /\ Head(tasks) = tasks[1] /\ tasks[1] \in ServerTask
      /\ 1 \in 1..Len(tasks) /\ Len(tasks') = n
      /\ \A k \in 1..n : tasks'[k] = tasks[k + 1]
  BY <1>1, TailElements
<1>3. n \in Nat /\ n + 1 = Len(tasks) /\ DOMAIN tasks' = 1..n
  BY <1>1, <1>2, LenProperties
<1> HIDE DEF n
<1>4. 1 \in Notifies <=> Head(tasks).kind = "notify"
  BY <1>1, <1>2 DEF Notifies
<1>5. Notifies' = MovedUp(Notifies, n)
  <2>1. \A j \in 1..n : j + 1 \in 1..Len(tasks)
    BY <1>3
  <2>2. \A j : j \in Notifies' <=> j \in 1..n /\ j + 1 \in Notifies
    BY <2>1, <1>1, <1>2, <1>3 DEF Notifies
  <2> QED BY <2>2 DEF MovedUp
<1>6. Notifies \subseteq 1..(n + 1)
  BY <1>1, <1>3
<1>7. /\ \A i \in Nat : Nth(i, Notifies') = Nth(i + 1, Notifies) - (IF 1 \in Notifies THEN 1 ELSE 0)
      /\ Cardinality(Notifies') = Cardinality(Notifies) - (IF 1 \in Notifies THEN 1 ELSE 0)
  BY <1>3, <1>5, <1>6, NthTail
<1>8. \A i \in Notifies' : i \in Nat /\ i \in 1..n /\ i + 1 \in Notifies
  BY <1>5 DEF MovedUp
<1>9. 1 \in Notifies => Nth(1, Notifies) = 1
  <2> SUFFICES ASSUME 1 \in Notifies PROVE Nth(1, Notifies) = 1
    OBVIOUS
  <2>1. \A j \in Notifies : j \in Nat /\ 1 <= j
    BY <1>1
  <2>2. {j \in Notifies : j <= 1} = {1}
    BY <2>1
  <2> QED BY <2>2, FS_Singleton DEF Nth
<1>10. /\ \A i \in Notifies : Nth(i, Notifies) \in Nat /\ 1 <= Nth(i, Notifies)
       /\ \A i \in Notifies : Nth(i, Notifies) <= Cardinality(Notifies)
  <2>1. \A i \in Notifies : i \in Nat
    BY <1>1
  <2>2. /\ \A i \in Nat : Nth(i, Notifies) \in Nat /\ Nth(i, Notifies) <= Cardinality(Notifies)
        /\ \A i \in Notifies : 1 <= Nth(i, Notifies)
    BY <1>1, NthType
  <2> QED BY <2>1, <2>2
<1>11. \A i \in Notifies' : /\ i + 1 \in Notifies /\ tasks'[i] = tasks[i + 1]
                            /\ Nth(i, Notifies') = Nth(i + 1, Notifies) - (IF 1 \in Notifies THEN 1 ELSE 0)
  BY <1>2, <1>7, <1>8
<1> QED BY <1>2, <1>4, <1>7, <1>9, <1>10, <1>11

LEMMA NotifyStep ==
  ASSUME MessagesInv, client \in Seat, RunNotify
  PROVE  MessagesInv'
<1> DEFINE t == Head(tasks)
           notice == [slot |-> t.slot, player |-> client[t.slot], name |-> sv_cmd_args,
                      text |-> t.text]
<1>1. /\ tasks # <<>> /\ t.kind = "notify" /\ tasks' = Tail(tasks)
      /\ notified' = Append(notified, notice)
      /\ UNCHANGED <<said, shown, file, sv_cmd_args>>
  BY DEF RunNotify
<1>2. /\ tasks' \in Seq(ServerTask) /\ t = tasks[1] /\ t \in ServerTask
      /\ 1 \in Notifies
      /\ \A i \in Notifies' : /\ i + 1 \in Notifies /\ tasks'[i] = tasks[i + 1]
                              /\ Nth(i, Notifies') = Nth(i + 1, Notifies) - 1
      /\ Cardinality(Notifies') = Cardinality(Notifies) - 1
      /\ Nth(1, Notifies) = 1
      /\ \A i \in Notifies : Nth(i, Notifies) \in Nat
      /\ \A i \in Notifies : Nth(i, Notifies) <= Cardinality(Notifies)
  BY <1>1, TaskTaken
<1>3. /\ MessageTypes /\ Len(said) \in Nat /\ DOMAIN said = 1..Len(said)
      /\ Len(notified) \in Nat /\ DOMAIN notified = 1..Len(notified)
      /\ Cardinality(Notifies) \in Nat
  BY MessagePlaces DEF MessagesInv
<1>4. notice \in Notice /\ notice.slot = t.slot /\ notice.text = t.text
  <2>1. t.slot \in Slot /\ t.text \in Speech /\ client[t.slot] \in Player \cup {Nobody}
    BY <1>2 DEF ServerTask, Seat
  <2> HIDE DEF t
  <2> QED BY <2>1, <1>3 DEF Notice, MessageTypes
<1> HIDE DEF t, notice
<1>5. /\ notified' \in Seq(Notice) /\ Len(notified') = Len(notified) + 1
      /\ notified'[Len(notified) + 1] = notice
      /\ \A k \in 1..Len(notified) : notified'[k] = notified[k]
  BY <1>1, <1>3, <1>4, AppendElements DEF MessageTypes
<1>6. DOMAIN notified' = 1..Len(notified) + 1
  BY <1>5, LenProperties
<1>7. /\ \A i \in DOMAIN notified :
           notified[i].slot = said[i].slot /\ notified[i].text = Meant(said[i].text)
      /\ Len(said) = Len(notified) + Cardinality(Notifies)
      /\ \A i \in Notifies : /\ tasks[i].slot = said[Len(notified) + Nth(i, Notifies)].slot
                             /\ tasks[i].text = Meant(said[Len(notified) + Nth(i, Notifies)].text)
      /\ SameInOrder(shown, ShownSaid, said, OpenSaid) /\ file.lines = file.of
  BY Zenon DEF MessagesInv
<1>8. t.slot = said[Len(notified) + 1].slot /\ t.text = Meant(said[Len(notified) + 1].text)
  BY <1>2, <1>7
<1>9. \A i \in DOMAIN notified' :
        notified'[i].slot = said'[i].slot /\ notified'[i].text = Meant(said'[i].text)
  <2> TAKE i \in DOMAIN notified'
  <2>1. CASE i \in 1..Len(notified)
    BY <2>1, <1>1, <1>3, <1>5, <1>7
  <2>2. CASE i = Len(notified) + 1
    BY <2>2, <1>1, <1>4, <1>5, <1>8
  <2> QED BY <2>1, <2>2, <1>3, <1>6
<1>10. Len(said') = Len(notified') + Cardinality(Notifies')
  BY <1>1, <1>2, <1>3, <1>5, <1>7
<1>11. \A i \in Notifies' : LET entry == said'[Len(notified') + Nth(i, Notifies')]
                            IN  tasks'[i].slot = entry.slot /\ tasks'[i].text = Meant(entry.text)
  <2> TAKE i \in Notifies'
  <2>1. i + 1 \in Notifies /\ tasks'[i] = tasks[i + 1] /\ Nth(i, Notifies') = Nth(i + 1, Notifies) - 1
    BY <1>2
  <2>2. Nth(i + 1, Notifies) \in Nat
    BY <1>2, <2>1
  <2>3. Len(notified') + Nth(i, Notifies') = Len(notified) + Nth(i + 1, Notifies)
    BY <1>3, <1>5, <2>1, <2>2
  <2> QED BY <2>1, <2>3, <1>1, <1>7, Zenon
<1>12. OpenSaid' = OpenSaid /\ ShownSaid' = ShownSaid
  BY <1>1 DEF OpenSaid, ShownSaid
<1>13. MessageTypes'
  BY <1>1, <1>2, <1>3, <1>5 DEF MessageTypes
<1> QED BY <1>1, <1>7, <1>9, <1>10, <1>11, <1>12, <1>13, Zenon DEF MessagesInv

LEMMA KickStep ==
  ASSUME MessagesInv, RunKick
  PROVE  MessagesInv'
<1>1. /\ tasks # <<>> /\ Head(tasks).kind = "kick" /\ tasks' = Tail(tasks)
      /\ UNCHANGED <<said, shown, notified, file, sv_cmd_args>>
  BY DEF RunKick
<1>2. /\ tasks' \in Seq(ServerTask)
      /\ \A i \in Notifies' : /\ i + 1 \in Notifies /\ tasks'[i] = tasks[i + 1]
                              /\ Nth(i, Notifies') = Nth(i + 1, Notifies)
      /\ Cardinality(Notifies') = Cardinality(Notifies)
  <2>1. 1 \notin Notifies
    BY <1>1, TaskTaken
  <2>2. \A i \in Notifies : Nth(i, Notifies) \in Nat
    BY <1>1, TaskTaken
  <2>3. Cardinality(Notifies) \in Nat
    BY MessagePlaces DEF MessagesInv
  <2>4. /\ tasks' \in Seq(ServerTask)
        /\ \A i \in Notifies' : /\ i + 1 \in Notifies /\ tasks'[i] = tasks[i + 1]
                                /\ Nth(i, Notifies') = Nth(i + 1, Notifies) - 0
        /\ Cardinality(Notifies') = Cardinality(Notifies) - 0
    BY <2>1, <1>1, TaskTaken
  <2> QED BY <2>2, <2>3, <2>4
<1>3. /\ \A i \in DOMAIN notified :
           notified[i].slot = said[i].slot /\ notified[i].text = Meant(said[i].text)
      /\ Len(said) = Len(notified) + Cardinality(Notifies)
      /\ \A i \in Notifies : /\ tasks[i].slot = said[Len(notified) + Nth(i, Notifies)].slot
                             /\ tasks[i].text = Meant(said[Len(notified) + Nth(i, Notifies)].text)
      /\ SameInOrder(shown, ShownSaid, said, OpenSaid) /\ file.lines = file.of
  BY Zenon DEF MessagesInv
<1>4. OpenSaid' = OpenSaid /\ ShownSaid' = ShownSaid
  BY <1>1 DEF OpenSaid, ShownSaid
<1>5. MessageTypes'
  BY <1>1, <1>2 DEF MessageTypes, MessagesInv
<1>6. \A i \in Notifies' : LET entry == said'[Len(notified') + Nth(i, Notifies')]
                           IN  tasks'[i].slot = entry.slot /\ tasks'[i].text = Meant(entry.text)
  <2> TAKE i \in Notifies'
  <2>1. i + 1 \in Notifies /\ tasks'[i] = tasks[i + 1] /\ Nth(i, Notifies') = Nth(i + 1, Notifies)
    BY <1>2
  <2> QED BY <2>1, <1>1, <1>3, Zenon
<1>7. Len(said') = Len(notified') + Cardinality(Notifies')
  BY <1>1, <1>2, <1>3
<1> QED BY <1>1, <1>3, <1>4, <1>5, <1>6, <1>7, Zenon DEF MessagesInv

\* The slots that are kicked are slots.
LEMMA KickTasks ==
  ASSUME MessagesInv, NEW n \in Nat, NEW slots \in [1..n -> Slot], Kicks(slots),
         UNCHANGED <<said, notified, shown, file, sv_cmd_args>>
  PROVE  MessagesInv'
<1> DEFINE f == [i \in 1..n |-> kick_task(slots[i])]
<1>1. Len(slots) = n
  BY FunctionIsSeq
<1>2. tasks' = tasks \o f
  BY <1>1 DEF Kicks
<1>3. <<>> \in Speech
  BY DEF Speech
<1>4. f \in [1..n -> ServerTask] /\ \A i \in 1..n : f[i].kind = "kick"
  BY <1>3 DEF ServerTask, kick_task
<1> HIDE DEF f
<1> QED BY <1>2, <1>4, OtherTasks

LEMMA SlotFound ==
  ASSUME NEW player
  PROVE  \E n \in Nat : SlotOf(player) \in [1..n -> Slot]
<1> DEFINE slots == {s \in Slot : client[s] = player}
<1>1. CASE slots = {}
  <2>1. SlotOf(player) = <<>>
    BY <1>1 DEF SlotOf
  <2>2. <<>> \in [1..0 -> Slot]
    OBVIOUS
  <2> QED BY <2>1, <2>2
<1>2. CASE slots # {}
  <2> DEFINE first == CHOOSE s \in slots : \A t \in slots : s <= t
  <2>1. Slot \subseteq Nat
    BY CommandsAssumption DEF Slot
  <2>2. \E s \in slots : \A t \in slots : s <= t
    BY <1>2, <2>1, LeastNatural
  <2>3. first \in slots
    BY <2>2, Zenon
  <2>4. SlotOf(player) = <<first>>
    BY <1>2, Zenon DEF SlotOf
  <2>5. first \in Slot
    BY <2>3
  <2> HIDE DEF first
  <2>6. <<first>> \in [1..1 -> Slot]
    BY <2>5
  <2> QED BY <2>4, <2>6
<1> QED BY <1>1, <1>2

\* What a dump starts from is made anew whatever the list.
LEMMA DumpStep ==
  ASSUME MessagesInv, NEW counted \in {"lines", "places"}, NEW list \in Lists(counted),
         Dump(list, counted)
  PROVE  MessagesInv'
<1>1. /\ file' = [lines |-> dump(list, counted), of |-> Lines(list)]
      /\ UNCHANGED <<said, notified, shown, tasks, sv_cmd_args>>
  BY Zenon DEF Dump, Chat
<1>2. dump(list, counted) = Lines(list)
  <2>1. CASE counted = "lines"
    <3>1. \E i \in DOMAIN list : list[i] # None
      <4>1. CASE list = <<"a">> \/ list = <<"a", "b">>
        <5>1. 1 \in DOMAIN list /\ list[1] # None
          BY <4>1 DEF None
        <5> QED BY <5>1
      <4>2. CASE list = <<None, "a">>
        <5>1. 2 \in DOMAIN list /\ list[2] # None
          BY <4>2 DEF None
        <5> QED BY <5>1
      <4> QED BY <4>1, <4>2, <2>1 DEF Lists
    <3> QED BY <3>1, <2>1, Zenon DEF dump
  <2>2. CASE counted # "lines"
    <3>1. list # <<>> /\ list[1] # None
      BY <2>2 DEF Lists, None
    <3> QED BY <3>1, <2>2, Zenon DEF dump
  <2> QED BY <2>1, <2>2
<1>3. file'.lines = file'.of
  BY <1>1, <1>2
<1>4. sv_cmd_args' \in SvName
  BY <1>1 DEF MessagesInv, MessageTypes
<1> QED BY <1>1, <1>3, <1>4, SameMessages

LEMMA StubStep ==
  ASSUME MessagesInv, NEW slot \in Slot, NEW given \in Given_sv,
         client_command_stub(slot, given[1], given[2])
  PROVE  MessagesInv'
<1> DEFINE name == given[1]
           e == [slot |-> slot, said |-> FALSE, text |-> <<name>>]
<1>1. name \in SvName
  BY DEF Given_sv, SvName
<1>2. e \in Shown /\ ~e.said
  BY <1>1 DEF Shown
<1>3. /\ sv_cmd_args' = name /\ UNCHANGED <<said, notified, tasks, file>>
      /\ shown' = shown \/ shown' = Append(shown, e)
  BY Zenon DEF client_command_stub, Chat
<1> HIDE DEF name, e
<1>4. CASE shown' = Append(shown, e)
  BY <1>1, <1>2, <1>3, <1>4, OtherShown
<1>5. CASE shown' = shown
  <2>1. file'.lines = file'.of
    BY <1>3 DEF MessagesInv
  <2> QED BY <2>1, <1>1, <1>3, <1>5, SameMessages
<1> QED BY <1>3, <1>4, <1>5

\* The server's console.
LEMMA ConsoleStep ==
  ASSUME MessagesInv, \/ \E player \in Player : kick(player)
                      \/ kick_all \/ \E number \in Slot \cup {Slots} : clientkick(number)
  PROVE  MessagesInv'
<1>1. UNCHANGED <<said, notified, shown, file, sv_cmd_args>>
  BY Zenon DEF kick, kick_all, clientkick, Chat
<1>2. ASSUME NEW n \in Nat, NEW slots \in [1..n -> Slot], Kicks(slots)
      PROVE  MessagesInv'
  BY <1>1, <1>2, KickTasks
<1>3. CASE UNCHANGED tasks
  <2>1. file'.lines = file'.of /\ sv_cmd_args' \in SvName
    BY <1>1 DEF MessagesInv, MessageTypes
  <2> QED BY <2>1, <1>1, <1>3, SameMessages
<1>4. ASSUME NEW player \in Player, kick(player)
      PROVE  MessagesInv'
  <2>1. UNCHANGED tasks \/ Kicks(SlotOf(player))
    BY <1>4, Zenon DEF kick
  <2>2. PICK n \in Nat : SlotOf(player) \in [1..n -> Slot]
    BY SlotFound
  <2> QED BY <2>1, <2>2, <1>2, <1>3
<1>5. CASE kick_all
  <2> DEFINE all == [i \in 1..Slots |-> i - 1]
  <2>1. UNCHANGED tasks \/ Kicks(all)
    BY <1>5, Zenon DEF kick_all
  <2>2. Slots \in Nat /\ all \in [1..Slots -> Slot]
    BY CommandsAssumption DEF Slot
  <2> HIDE DEF all
  <2> QED BY <2>1, <2>2, <1>2, <1>3
<1>6. ASSUME NEW number, clientkick(number)
      PROVE  MessagesInv'
  <2>1. UNCHANGED tasks \/ (number \in Slot /\ Kicks(<<number>>))
    BY <1>6, Zenon DEF clientkick
  <2>2. number \in Slot => <<number>> \in [1..1 -> Slot]
    OBVIOUS
  <2> QED BY <2>1, <2>2, <1>2, <1>3
<1> QED BY <1>4, <1>5, <1>6

\* What leaves the messages alone.
LEMMA QuietStep ==
  ASSUME MessagesInv,
         \/ \E text \in CommandLine : Starts(text)
         \/ \E slot \in Slot : Leaves(slot) \/ \E player \in Player : Joins(slot, player)
         \/ \E to \in {-1, 0} : say(to, "message")
         \/ \E given \in Given_sv : sp_command(given[1], given[2])
         \/ UNCHANGED commandVars
  PROVE  MessagesInv'
<1>1. UNCHANGED <<said, notified, shown, tasks, file, sv_cmd_args>>
  BY Zenon DEF Starts, Leaves, Joins, say, sp_command, Chat, commandVars
<1>2. file'.lines = file'.of /\ sv_cmd_args' \in SvName
  BY <1>1 DEF MessagesInv, MessageTypes
<1> QED BY <1>1, <1>2, SameMessages

LEMMA CommandsStep ==
  ASSUME MessagesInv, client \in Seat, [CommandsNext]_commandVars
  PROVE  MessagesInv'
<1>1. ASSUME NEW slot \in Slot, NEW words \in Message, NEW name \in {"say", "say_team"},
             client_say(slot, name, words)
      PROVE  MessagesInv'
  <2>1. words \in Speech
    BY CommandsAssumption DEF Speech
  <2> QED BY <2>1, <1>1, SayStep
<1>2. ASSUME NEW slot \in Slot, NEW given \in Given_sv,
             client_command_stub(slot, given[1], given[2])
      PROVE  MessagesInv'
  BY <1>2, StubStep
<1>3. ASSUME NEW counted \in {"lines", "places"}, NEW list \in Lists(counted), Dump(list, counted)
      PROVE  MessagesInv'
  BY <1>3, DumpStep
<1>4. ASSUME \/ \E player \in Player : kick(player)
             \/ kick_all \/ \E number \in Slot \cup {Slots} : clientkick(number)
      PROVE  MessagesInv'
  BY <1>4, ConsoleStep
<1>5. ASSUME \/ \E text \in CommandLine : Starts(text)
             \/ \E slot \in Slot : Leaves(slot) \/ \E player \in Player : Joins(slot, player)
             \/ \E to \in {-1, 0} : say(to, "message")
             \/ \E given \in Given_sv : sp_command(given[1], given[2])
             \/ UNCHANGED commandVars
      PROVE  MessagesInv'
  BY <1>5, QuietStep
<1>6. (RunNotify \/ RunKick) => MessagesInv'
  BY NotifyStep, KickStep
<1> QED BY <1>1, <1>2, <1>3, <1>4, <1>5, <1>6, Zenon DEF CommandsNext

LEMMA MessagesInitially ==
  ASSUME CommandsInit
  PROVE  MessagesInv
<1>1. /\ tasks = <<>> /\ said = <<>> /\ notified = <<>> /\ shown = <<>>
      /\ file = [lines |-> <<>>, of |-> <<>>] /\ sv_cmd_args = "none"
  BY DEF CommandsInit, None
<1>2. Notifies = {} /\ ShownSaid = {} /\ OpenSaid = {} /\ MessageTypes
  BY <1>1 DEF Notifies, ShownSaid, OpenSaid, MessageTypes, SvName
<1>3. Cardinality(Notifies) = 0
  BY <1>2, FS_EmptySet
<1>4. SameInOrder(shown, ShownSaid, said, OpenSaid)
  BY <1>2 DEF SameInOrder
<1>5. Len(said) = Len(notified) + Cardinality(Notifies) /\ DOMAIN notified = {} /\ file.lines = file.of
  BY <1>1, <1>3
<1> QED BY <1>2, <1>4, <1>5, Zenon DEF MessagesInv

-----------------------------------------------------------------------------
(* Whose name and whose player a notify has: those of its message while no *)
(* other command came and the player stayed.                               *)

Speaking == [name : SvName, player : Player \ {Nobody}, named : BOOLEAN, there : BOOLEAN]

Named(i) == speaker[i].named =>
  IF Pending(i) THEN sv_cmd_args = speaker[i].name ELSE notified[i].name = speaker[i].name
There(i) == speaker[i].there =>
  IF Pending(i) THEN client[said[i].slot] = speaker[i].player
                ELSE notified[i].player = speaker[i].player

SpeakersInv ==
  /\ client \in Seat
  /\ speaker \in Seq(Speaking) /\ Len(speaker) = Len(said)
  /\ \A i \in DOMAIN speaker : Named(i) /\ There(i)

LEMMA SpeakerPlaces ==
  ASSUME MessagesInv, SpeakersInv
  PROVE  /\ Len(said) \in Nat /\ DOMAIN said = 1..Len(said) /\ DOMAIN speaker = 1..Len(said)
         /\ Len(notified) \in Nat /\ DOMAIN notified = 1..Len(notified)
         /\ \A i \in 1..Len(said) : speaker[i] \in Speaking /\ said[i].slot \in Slot
<1>1. /\ MessageTypes /\ Len(said) \in Nat /\ DOMAIN said = 1..Len(said)
      /\ Len(notified) \in Nat /\ DOMAIN notified = 1..Len(notified)
  BY MessagePlaces DEF MessagesInv
<1>2. DOMAIN speaker = 1..Len(said)
  BY LenProperties DEF SpeakersInv
<1>3. \A i \in 1..Len(said) : speaker[i] \in Speaking /\ said[i] \in Spoke
  BY <1>1, <1>2, ElementOfSeq DEF SpeakersInv, MessageTypes
<1> QED BY <1>1, <1>2, <1>3 DEF Spoke

\* Another command: of what is pending the name is no longer known.
LEMMA RenamedIs ==
  ASSUME MessagesInv, SpeakersInv
  PROVE  /\ Renamed \in Seq(Speaking) /\ Len(Renamed) = Len(said)
         /\ \A i \in 1..Len(said) :
              /\ Renamed[i].name = speaker[i].name /\ Renamed[i].player = speaker[i].player
              /\ Renamed[i].there = speaker[i].there
              /\ Renamed[i].named <=> speaker[i].named /\ ~Pending(i)
<1>1. /\ Len(said) \in Nat /\ DOMAIN speaker = 1..Len(said)
      /\ \A i \in 1..Len(said) : speaker[i] \in Speaking
  BY SpeakerPlaces
<1>2. \A i \in 1..Len(said) : Renamed[i] = [speaker[i] EXCEPT !.named = speaker[i].named /\ ~Pending(i)]
  BY <1>1, Zenon DEF Renamed
<1>3. \A i \in 1..Len(said) :
        /\ Renamed[i] \in Speaking
        /\ Renamed[i].name = speaker[i].name /\ Renamed[i].player = speaker[i].player
        /\ Renamed[i].there = speaker[i].there
        /\ Renamed[i].named <=> speaker[i].named /\ ~Pending(i)
  BY <1>1, <1>2 DEF Speaking
<1>4. Renamed = [i \in 1..Len(said) |-> Renamed[i]]
  BY <1>1, Zenon DEF Renamed
<1>5. Renamed \in [1..Len(said) -> Speaking]
  BY <1>3, <1>4
<1> QED BY <1>1, <1>3, <1>5, FunctionIsSeq

\* Somebody has left: of what is pending of his slot the player is no longer there.
LEMMA DesertedIs ==
  ASSUME MessagesInv, SpeakersInv, NEW slot
  PROVE  /\ Deserted(slot) \in Seq(Speaking) /\ Len(Deserted(slot)) = Len(said)
         /\ \A i \in 1..Len(said) :
              /\ Deserted(slot)[i].name = speaker[i].name
              /\ Deserted(slot)[i].player = speaker[i].player
              /\ Deserted(slot)[i].named = speaker[i].named
              /\ Deserted(slot)[i].there <=>
                   speaker[i].there /\ ~(Pending(i) /\ said[i].slot = slot)
<1> DEFINE d == Deserted(slot)
<1>1. /\ Len(said) \in Nat /\ DOMAIN speaker = 1..Len(said)
      /\ \A i \in 1..Len(said) : speaker[i] \in Speaking
  BY SpeakerPlaces
<1>2. \A i \in 1..Len(said) : d[i] = [speaker[i] EXCEPT !.there =
                                         speaker[i].there /\ ~(Pending(i) /\ said[i].slot = slot)]
  BY <1>1, Zenon DEF Deserted
<1>3. d = [i \in 1..Len(said) |-> d[i]]
  BY <1>1, Zenon DEF Deserted
<1> HIDE DEF d
<1>4. \A i \in 1..Len(said) :
        /\ d[i] \in Speaking
        /\ d[i].name = speaker[i].name /\ d[i].player = speaker[i].player
        /\ d[i].named = speaker[i].named
        /\ d[i].there <=> speaker[i].there /\ ~(Pending(i) /\ said[i].slot = slot)
  BY <1>1, <1>2 DEF Speaking
<1>5. d \in [1..Len(said) -> Speaking]
  BY <1>3, <1>4
<1> QED BY <1>1, <1>4, <1>5, FunctionIsSeq DEF d

\* A command that says nothing.
LEMMA StubSpeakers ==
  ASSUME MessagesInv, SpeakersInv, NEW slot, NEW name, NEW size,
         client_command_stub(slot, name, size)
  PROVE  SpeakersInv'
<1>1. /\ sv_cmd_args' = name /\ speaker' = Renamed /\ UNCHANGED <<client, said, notified>>
  BY Zenon DEF client_command_stub, ServerSays
<1>2. /\ Renamed \in Seq(Speaking) /\ Len(Renamed) = Len(said)
      /\ \A i \in 1..Len(said) :
           /\ Renamed[i].name = speaker[i].name /\ Renamed[i].player = speaker[i].player
           /\ Renamed[i].there = speaker[i].there
           /\ Renamed[i].named <=> speaker[i].named /\ ~Pending(i)
  BY RenamedIs
<1>3. DOMAIN speaker' = 1..Len(said) /\ DOMAIN speaker = 1..Len(said)
  BY <1>1, <1>2, SpeakerPlaces, LenProperties
<1>4. ASSUME NEW i \in 1..Len(said)
      PROVE  Named(i)' /\ There(i)'
  <2>1. Named(i) /\ There(i)
    BY <1>3 DEF SpeakersInv
  <2> QED BY <2>1, <1>1, <1>2 DEF Named, There, Pending
<1> QED BY <1>1, <1>2, <1>3, <1>4 DEF SpeakersInv

LEMMA SaySpeakers ==
  ASSUME MessagesInv, SpeakersInv, NEW slot \in Slot, NEW name \in {"say", "say_team"}, NEW words,
         client_say(slot, name, words)
  PROVE  SpeakersInv'
<1> DEFINE e == [slot |-> slot, said |-> TRUE, text |-> words]
           u == [name |-> name, player |-> client[slot], named |-> TRUE, there |-> TRUE]
<1>0. PICK n \in Nat : n = Len(said)
  BY SpeakerPlaces
<1>1. /\ sv_cmd_args' = name /\ speaker' = Append(Renamed, u) /\ said' = Append(said, e)
      /\ client[slot] # Nobody /\ UNCHANGED <<client, notified>>
  BY Zenon DEF client_say, ServerSays
<1>2. /\ Renamed \in Seq(Speaking) /\ Len(Renamed) = n
      /\ \A i \in 1..n :
           /\ Renamed[i].name = speaker[i].name /\ Renamed[i].player = speaker[i].player
           /\ Renamed[i].there = speaker[i].there
           /\ Renamed[i].named <=> speaker[i].named /\ ~Pending(i)
  BY <1>0, RenamedIs
<1>3. /\ n \in Nat /\ DOMAIN speaker = 1..n /\ Len(notified) \in Nat /\ said \in Seq(Spoke)
  BY <1>0, SpeakerPlaces DEF MessagesInv, MessageTypes
<1>4. Len(notified) <= n
  <2>1. Len(said) = Len(notified) + Cardinality(Notifies)
    BY Zenon DEF MessagesInv
  <2>2. Cardinality(Notifies) \in Nat
    BY MessagePlaces DEF MessagesInv
  <2> QED BY <2>1, <2>2, <1>0, <1>3
<1>5. /\ u \in Speaking /\ u.name = name /\ u.player = client[slot] /\ e.slot = slot
  BY <1>1 DEF Speaking, SvName, SpeakersInv, Seat
<1> HIDE DEF u, e
<1>6. /\ speaker' \in Seq(Speaking) /\ Len(speaker') = n + 1 /\ speaker'[n + 1] = u
      /\ \A k \in 1..n : speaker'[k] = Renamed[k]
  BY <1>1, <1>2, <1>5, AppendElements
<1>7. /\ Len(said') = n + 1 /\ said'[n + 1] = e /\ \A k \in 1..n : said'[k] = said[k]
  BY <1>0, <1>1, <1>3, AppendProperties
<1>8. DOMAIN speaker' = 1..n + 1
  BY <1>6, LenProperties
<1>9. ASSUME NEW i \in 1..n
      PROVE  Named(i)' /\ There(i)'
  <2>1. Named(i) /\ There(i)
    BY <1>3 DEF SpeakersInv
  <2>2. /\ speaker'[i].name = speaker[i].name /\ speaker'[i].player = speaker[i].player
        /\ speaker'[i].there = speaker[i].there /\ said'[i] = said[i]
        /\ speaker'[i].named <=> speaker[i].named /\ ~Pending(i)
    BY <1>2, <1>6, <1>7
  <2>3. Pending(i)' <=> Pending(i)
    BY <1>1 DEF Pending
  <2>4. Named(i)'
    BY <2>1, <2>2, <2>3, <1>1 DEF Named
  <2>5. There(i)'
    BY <2>1, <2>2, <2>3, <1>1 DEF There
  <2> QED BY <2>4, <2>5
<1>10. Named(n + 1)' /\ There(n + 1)'
  <2>1. Pending(n + 1)'
    BY <1>1, <1>3, <1>4 DEF Pending
  <2> QED BY <2>1, <1>1, <1>5, <1>6, <1>7 DEF Named, There
<1>11. \A i \in DOMAIN speaker' : i \in 1..n \/ i = n + 1
  BY <1>3, <1>8
<1>12. client' \in Seat
  BY <1>1 DEF SpeakersInv
<1> QED BY <1>6, <1>7, <1>9, <1>10, <1>11, <1>12 DEF SpeakersInv

\* The frame's task notifies the first message that is pending, of the one in its slot.
LEMMA NotifySpeakers ==
  ASSUME MessagesInv, SpeakersInv, RunNotify
  PROVE  SpeakersInv'
<1> DEFINE t == Head(tasks)
           notice == [slot |-> t.slot, player |-> client[t.slot], name |-> sv_cmd_args,
                      text |-> t.text]
           n == Len(notified)
<1>1. /\ tasks # <<>> /\ t.kind = "notify" /\ tasks' = Tail(tasks)
      /\ notified' = Append(notified, notice)
      /\ UNCHANGED <<said, speaker, client, sv_cmd_args>>
  BY DEF RunNotify
<1>2. t = tasks[1] /\ t \in ServerTask /\ 1 \in Notifies /\ Nth(1, Notifies) = 1
  BY <1>1, TaskTaken
<1>3. /\ n \in Nat /\ Len(said) \in Nat /\ DOMAIN speaker = 1..Len(said) /\ MessageTypes
  BY SpeakerPlaces DEF MessagesInv
<1>4. t.slot = said[n + 1].slot
  <2>1. \A i \in Notifies : tasks[i].slot = said[Len(notified) + Nth(i, Notifies)].slot
    BY Zenon DEF MessagesInv
  <2> QED BY <2>1, <1>2
<1>5. notice \in Notice /\ notice.player = client[t.slot] /\ notice.name = sv_cmd_args
  <2>1. t.slot \in Slot /\ t.text \in Speech /\ client[t.slot] \in Player \cup {Nobody}
    BY <1>2 DEF ServerTask, SpeakersInv, Seat
  <2> HIDE DEF t
  <2> QED BY <2>1, <1>3 DEF Notice, MessageTypes
<1> HIDE DEF t, notice
<1>6. /\ Len(notified') = n + 1 /\ notified'[n + 1] = notice
      /\ \A k \in 1..n : notified'[k] = notified[k]
  BY <1>1, <1>3, <1>5, AppendElements DEF MessageTypes
<1> HIDE DEF n
<1>7. ASSUME NEW i \in DOMAIN speaker
      PROVE  Named(i)' /\ There(i)'
  <2>1. Named(i) /\ There(i) /\ i \in Nat /\ 1 <= i
    BY <1>3 DEF SpeakersInv
  <2>2. /\ Pending(i) <=> i > n
        /\ Pending(i)' <=> i > n + 1
    BY <1>6 DEF Pending, n
  <2>3. CASE i \in 1..n
    <3>1. ~Pending(i) /\ ~Pending(i)' /\ notified'[i] = notified[i]
      BY <2>2, <2>3, <1>3, <1>6
    <3> QED BY <3>1, <2>1, <1>1 DEF Named, There
  <2>4. CASE i = n + 1
    <3>1. Pending(i) /\ ~Pending(i)' /\ notified'[i] = notice
      BY <2>2, <2>4, <1>3, <1>6
    <3> QED BY <3>1, <2>1, <2>4, <1>1, <1>4, <1>5 DEF Named, There
  <2>5. CASE i > n + 1
    <3>1. Pending(i) /\ Pending(i)'
      BY <2>2, <2>5, <1>3, <2>1
    <3> QED BY <3>1, <2>1, <1>1 DEF Named, There
  <2> QED BY <2>1, <2>3, <2>4, <2>5, <1>3
<1> QED BY <1>1, <1>7 DEF SpeakersInv

\* A slot is left, by itself or by a kick.
LEMMA LeaveSpeakers ==
  ASSUME MessagesInv, SpeakersInv, NEW slot, speaker' = Deserted(slot),
         client' = [client EXCEPT ![slot] = Nobody], UNCHANGED <<said, notified, sv_cmd_args>>
  PROVE  SpeakersInv'
<1> DEFINE d == Deserted(slot)
<1>1. /\ d \in Seq(Speaking) /\ Len(d) = Len(said)
      /\ \A i \in 1..Len(said) :
           /\ d[i].name = speaker[i].name /\ d[i].player = speaker[i].player
           /\ d[i].named = speaker[i].named
           /\ d[i].there <=> speaker[i].there /\ ~(Pending(i) /\ said[i].slot = slot)
  BY DesertedIs
<1> HIDE DEF d
<1>2. DOMAIN d = 1..Len(said) /\ DOMAIN speaker = 1..Len(said) /\ speaker' = d
      /\ \A i \in 1..Len(said) : said[i].slot \in Slot
  BY <1>1, SpeakerPlaces, LenProperties DEF d
<1>3. client' \in Seat /\ \A s \in Slot : s # slot => client'[s] = client[s]
  BY DEF SpeakersInv, Seat
<1>4. ASSUME NEW i \in 1..Len(said)
      PROVE  Named(i)' /\ There(i)'
  <2>1. Named(i) /\ There(i)
    BY <1>2 DEF SpeakersInv
  <2>2. Pending(i)' <=> Pending(i)
    BY DEF Pending
  <2>3. Named(i)'
    BY <2>1, <2>2, <1>1, <1>2 DEF Named
  <2>4. There(i)'
    BY <2>1, <2>2, <1>1, <1>2, <1>3 DEF There
  <2> QED BY <2>3, <2>4
<1> QED BY <1>1, <1>2, <1>3, <1>4 DEF SpeakersInv

\* Somebody takes an empty slot: nothing that is pending is of it and still there.
LEMMA JoinSpeakers ==
  ASSUME MessagesInv, SpeakersInv, NEW slot \in Slot, NEW player \in Player, Joins(slot, player)
  PROVE  SpeakersInv'
<1>1. /\ client[slot] = Nobody /\ client' = [client EXCEPT ![slot] = player]
      /\ UNCHANGED <<speaker, said, notified, sv_cmd_args>>
  BY DEF Joins
<1>2. client' \in Seat /\ \A s \in Slot : s # slot => client'[s] = client[s]
  BY <1>1 DEF SpeakersInv, Seat
<1>3. ASSUME NEW i \in DOMAIN speaker
      PROVE  Named(i)' /\ There(i)'
  <2>1. /\ Named(i) /\ There(i) /\ speaker[i].player # Nobody /\ said[i].slot \in Slot
    BY SpeakerPlaces DEF SpeakersInv, Speaking
  <2>2. Pending(i)' <=> Pending(i)
    BY <1>1 DEF Pending
  <2> QED BY <2>1, <2>2, <1>1, <1>2 DEF Named, There
<1> QED BY <1>1, <1>2, <1>3 DEF SpeakersInv

LEMMA SpeakersStep ==
  ASSUME MessagesInv, SpeakersInv, [CommandsNext]_commandVars
  PROVE  SpeakersInv'
<1>1. ASSUME NEW slot \in Slot, NEW words \in Message, NEW name \in {"say", "say_team"},
             client_say(slot, name, words)
      PROVE  SpeakersInv'
  BY <1>1, SaySpeakers
<1>2. ASSUME NEW slot \in Slot, NEW given \in Given_sv,
             client_command_stub(slot, given[1], given[2])
      PROVE  SpeakersInv'
  BY <1>2, StubSpeakers
<1>3. ASSUME NEW slot \in Slot, Leaves(slot)
      PROVE  SpeakersInv'
  <2>1. /\ speaker' = Deserted(slot) /\ client' = [client EXCEPT ![slot] = Nobody]
        /\ UNCHANGED <<said, notified, sv_cmd_args>>
    BY <1>3, Zenon DEF Leaves
  <2> QED BY <2>1, LeaveSpeakers
<1>4. CASE RunKick
  <2>1. /\ speaker' = Deserted(Head(tasks).slot)
        /\ client' = [client EXCEPT ![Head(tasks).slot] = Nobody]
        /\ UNCHANGED <<said, notified, sv_cmd_args>>
    BY <1>4, Zenon DEF RunKick
  <2> QED BY <2>1, LeaveSpeakers
<1>5. ASSUME NEW slot \in Slot, NEW player \in Player, Joins(slot, player)
      PROVE  SpeakersInv'
  BY <1>5, JoinSpeakers
<1>6. CASE UNCHANGED <<client, speaker, said, notified, sv_cmd_args>>
  BY <1>6 DEF SpeakersInv, Named, There, Pending
<1>7. ASSUME \/ \E player \in Player : kick(player)
             \/ kick_all \/ \E number \in Slot \cup {Slots} : clientkick(number)
             \/ \E text \in CommandLine : Starts(text)
             \/ \E to \in {-1, 0} : say(to, "message")
             \/ \E given \in Given_sv : sp_command(given[1], given[2])
             \/ \E counted \in {"lines", "places"} : \E list \in Lists(counted) : Dump(list, counted)
             \/ UNCHANGED commandVars
      PROVE  SpeakersInv'
  <2>1. UNCHANGED <<client, speaker, said, notified, sv_cmd_args>>
    BY <1>7, Zenon DEF kick, kick_all, clientkick, Starts, say, sp_command, Dump, Chat, ServerSays,
                       commandVars
  <2> QED BY <2>1, <1>6
<1>8. RunNotify => SpeakersInv'
  BY NotifySpeakers
<1> QED BY <1>1, <1>2, <1>3, <1>4, <1>5, <1>7, <1>8, Zenon DEF CommandsNext

LEMMA SpeakersInitially ==
  ASSUME CommandsInit
  PROVE  SpeakersInv
<1>1. speaker = <<>> /\ said = <<>> /\ client = [s \in Slot |-> Nobody]
  BY DEF CommandsInit
<1> QED BY <1>1 DEF SpeakersInv, Seat

LEMMA MessagesFollow == MessagesInv /\ SpeakersInv => MessagesNotifiedOnce
<1> SUFFICES ASSUME MessagesInv, SpeakersInv
             PROVE  MessagesNotifiedOnce
  OBVIOUS
<1>1. \A i \in DOMAIN notified :
        /\ speaker[i].named => notified[i].name = speaker[i].name
        /\ speaker[i].there => notified[i].player = speaker[i].player
  <2>1. /\ Len(said) \in Nat /\ DOMAIN speaker = 1..Len(said)
        /\ Len(notified) \in Nat /\ DOMAIN notified = 1..Len(notified)
    BY SpeakerPlaces
  <2>2. Len(said) = Len(notified) + Cardinality(Notifies) /\ Cardinality(Notifies) \in Nat
    <3>1. Len(said) = Len(notified) + Cardinality(Notifies)
      BY Zenon DEF MessagesInv
    <3> QED BY <3>1, MessagePlaces DEF MessagesInv
  <2>3. \A i \in DOMAIN notified : i \in DOMAIN speaker /\ ~Pending(i)
    BY <2>1, <2>2 DEF Pending
  <2> QED BY <2>3 DEF SpeakersInv, Named, There
<1>2. \A i \in DOMAIN notified :
        notified[i].slot = said[i].slot /\ notified[i].text = Meant(said[i].text)
  BY Zenon DEF MessagesInv
<1>3. /\ Len(said) = Len(notified) + Cardinality({i \in DOMAIN tasks : tasks[i].kind = "notify"})
      /\ SameInOrder(shown, {i \in DOMAIN shown : shown[i].said},
                     said, {i \in DOMAIN said : ~Slashed(said[i].text)})
      /\ file.lines = file.of
  BY Zenon DEF MessagesInv, Notifies, ShownSaid, OpenSaid
<1>4. \A i \in DOMAIN notified :
        /\ notified[i].slot = said[i].slot /\ notified[i].text = Meant(said[i].text)
        /\ speaker[i].named => notified[i].name = speaker[i].name
        /\ speaker[i].there => notified[i].player = speaker[i].player
  BY <1>1, <1>2, Zenon
<1> QED BY <1>3, <1>4, Zenon DEF MessagesNotifiedOnce

-----------------------------------------------------------------------------
\* Whatever players say, in whatever order, and whatever commands, kicks and leavings
\* come between: each message is notified once, in order, by its slot and as it was
\* meant, and the game gets those that are not hidden.  The notify has the name the
\* message was said with unless another command of a client came before the frame,
\* and is of the player who said it unless he left before (notifies.cpp,
\* client_command_stub; scheduler.cpp, once).
THEOREM MessagesKept == CommandsInit /\ [][CommandsNext]_commandVars => []MessagesNotifiedOnce
<1> DEFINE Inv == MessagesInv /\ SpeakersInv
<1>1. Inv => MessagesNotifiedOnce
  BY MessagesFollow
<1>2. Inv /\ [CommandsNext]_commandVars => Inv'
  BY CommandsStep, SpeakersStep, Zenon DEF SpeakersInv
<1>3. CommandsInit => Inv
  BY MessagesInitially, SpeakersInitially
<1> HIDE DEF Inv
<1> QED BY <1>1, <1>2, <1>3, PTL

-----------------------------------------------------------------------------
(* Hooks.  That patches do not overlap is a fact of two components at a     *)
(* time; that none is undone is one of all of them, in any order.          *)

Unpacked == ToSet(unpacked)

\* What is overwritten and taken is what components that were unpacked overwrote
\* and took; and all that they did is still in place, but for the frame's call.
HooksInv ==
  /\ mode \in Mode /\ unpacked \in Seq(Component)
  /\ \A w \in code : \E c \in Unpacked : \E h \in Hooks[mode][c] :
       IsPatch(h) /\ w = [owner |-> c, patch |-> h]
  /\ \A n \in names : \E c \in Unpacked : \E h \in Hooks[mode][c] :
       ~IsPatch(h) /\ n = [owner |-> c, name |-> h]
  /\ \A c \in Unpacked : \A h \in Hooks[mode][c] \ {GlassCall} :
       IF IsPatch(h) THEN [owner |-> c, patch |-> h] \in code
                     ELSE [owner |-> c, name |-> h] \in names

LEMMA UnpackStep ==
  ASSUME PlacesApart, HooksInv, NEW c \in Component, post_unpack(c)
  PROVE  HooksInv'
<1> DEFINE patches == {h \in Hooks[mode][c] : IsPatch(h)}
           taken == {h \in Hooks[mode][c] \ patches :
                       h.table \in FirstKept => \A n \in names : n.name # h}
<1>1. /\ unpacked' = Append(unpacked, c) /\ mode' = mode
      /\ \A i \in DOMAIN unpacked : unpacked[i] # c
      /\ code' = {w \in code : \A p \in patches : ~Overlap(w.patch, p)}
                   \cup {[owner |-> c, patch |-> p] : p \in patches}
      /\ names' = {n \in names : n.name \notin taken}
                    \cup {[owner |-> c, name |-> n] : n \in taken}
  BY Zenon DEF post_unpack
<1>2. /\ unpacked' \in Seq(Component) /\ Unpacked' = Unpacked \cup {c}
      /\ c \notin Unpacked /\ Unpacked \subseteq Component
  <2>1. unpacked \in Seq(Component)
    BY DEF HooksInv
  <2>2. ToSet(Append(unpacked, c)) = ToSet(unpacked) \cup {c} /\ Append(unpacked, c) \in Seq(Component)
    BY <2>1, AppendElements
  <2>3. ToSet(unpacked) \subseteq Component
    BY <2>1, ToSetType, Zenon
  <2>4. c \notin ToSet(unpacked)
    BY <1>1, Zenon DEF ToSet
  <2> QED BY <1>1, <2>2, <2>3, <2>4 DEF Unpacked
<1>3. mode \in Mode
  BY DEF HooksInv
<1>4. ASSUME NEW d \in Unpacked, NEW h \in Hooks[mode][d] \ {GlassCall}, NEW g \in Hooks[mode][c]
      PROVE  IF IsPatch(h) THEN IsPatch(g) => ~Overlap(h, g) ELSE h # g
  <2>1. d \in Component /\ d # c
    BY <1>2
  <2> QED BY <2>1, <1>3, Zenon DEF PlacesApart
<1> HIDE DEF patches, taken
<1>5. \A p : p \in patches <=> p \in Hooks[mode][c] /\ IsPatch(p)
  BY DEF patches
<1>6. \A n \in taken : n \in Hooks[mode][c] /\ ~IsPatch(n)
  BY <1>5 DEF taken
<1>7. \A w \in code' : \E d \in Unpacked' : \E h \in Hooks[mode'][d] :
        IsPatch(h) /\ w = [owner |-> d, patch |-> h]
  <2>1. TAKE w \in code'
  <2>2. CASE w \in code
    <3>1. PICK d, h : d \in Unpacked /\ h \in Hooks[mode][d] /\ IsPatch(h) /\ w = [owner |-> d, patch |-> h]
      BY <2>2 DEF HooksInv
    <3> QED BY <3>1, <1>1, <1>2
  <2>3. CASE \E p \in patches : w = [owner |-> c, patch |-> p]
    BY <2>3, <1>5, <1>1, <1>2
  <2> QED BY <2>2, <2>3, <1>1
<1>8. \A n \in names' : \E d \in Unpacked' : \E h \in Hooks[mode'][d] :
        ~IsPatch(h) /\ n = [owner |-> d, name |-> h]
  <2>1. TAKE n \in names'
  <2>2. CASE n \in names
    <3>1. PICK d, h : d \in Unpacked /\ h \in Hooks[mode][d] /\ ~IsPatch(h) /\ n = [owner |-> d, name |-> h]
      BY <2>2 DEF HooksInv
    <3> QED BY <3>1, <1>1, <1>2
  <2>3. CASE \E p \in taken : n = [owner |-> c, name |-> p]
    BY <2>3, <1>6, <1>1, <1>2
  <2> QED BY <2>2, <2>3, <1>1
<1>9. ASSUME NEW d \in Unpacked', NEW h \in Hooks[mode'][d] \ {GlassCall}
      PROVE  IF IsPatch(h) THEN [owner |-> d, patch |-> h] \in code'
                           ELSE [owner |-> d, name |-> h] \in names'
  <2>1. h \in Hooks[mode][d] \ {GlassCall}
    BY <1>1
  <2>2. CASE d \in Unpacked /\ IsPatch(h)
    <3>1. [owner |-> d, patch |-> h] \in code
      BY <2>1, <2>2 DEF HooksInv
    <3>2. \A p \in patches : ~Overlap(h, p)
      BY <2>1, <2>2, <1>4, <1>5
    <3> QED BY <3>1, <3>2, <2>2, <1>1
  <2>3. CASE d \in Unpacked /\ ~IsPatch(h)
    <3>1. [owner |-> d, name |-> h] \in names
      BY <2>1, <2>3 DEF HooksInv
    <3>2. h \notin taken
      BY <2>1, <2>3, <1>4, <1>6
    <3> QED BY <3>1, <3>2, <2>3, <1>1
  <2>4. CASE d = c /\ IsPatch(h)
    BY <2>1, <2>4, <1>1, <1>5
  <2>5. CASE d = c /\ ~IsPatch(h)
    <3>1. \A n \in names : n.name # h
      <4> SUFFICES ASSUME NEW n \in names, n.name = h PROVE FALSE
        OBVIOUS
      <4>1. PICK e, g : e \in Unpacked /\ g \in Hooks[mode][e] /\ ~IsPatch(g) /\ n = [owner |-> e, name |-> g]
        BY DEF HooksInv
      <4>2. g = h /\ h # GlassCall /\ h \in Hooks[mode][c]
        BY <4>1, <2>1, <2>5
      <4> QED BY <4>1, <4>2, <1>4
    <3>2. h \in taken
      BY <3>1, <2>1, <2>5, <1>5 DEF taken
    <3> QED BY <3>2, <2>5, <1>1
  <2> QED BY <2>2, <2>3, <2>4, <2>5, <1>2
<1> QED BY <1>1, <1>2, <1>3, <1>7, <1>8, <1>9 DEF HooksInv

\* However many components there are time for and whatever the order they are
\* unpacked in: if no two of them take over the same (which is a fact of the
\* tables above, that TLC evaluates), nothing that one did is undone
\* (component_loader.cpp, post_unpack; hook.cpp).
THEOREM HooksStay == PlacesApart => (Spec => []HooksPlaced)
<1> SUFFICES ASSUME PlacesApart PROVE Spec => []HooksPlaced
  OBVIOUS
<1>1. Init => HooksInv
  <2> SUFFICES ASSUME Init PROVE HooksInv
    OBVIOUS
  <2>1. mode \in Mode /\ unpacked = <<>> /\ code = {} /\ names = {}
    BY Zenon DEF Init, HooksInit
  <2>2. <<>> \in Seq(Component) /\ Unpacked = {}
    BY <2>1 DEF Unpacked, ToSet
  <2> QED BY <2>1, <2>2, Zenon DEF HooksInv
<1>2. HooksInv /\ [Next]_vars => HooksInv'
  <2> SUFFICES ASSUME HooksInv, [Next]_vars PROVE HooksInv'
    OBVIOUS
  <2>1. CASE HooksNext
    BY <2>1, UnpackStep, Zenon DEF HooksNext
  <2>2. CASE UNCHANGED hooksVars
    BY <2>2 DEF hooksVars, HooksInv, Unpacked
  <2> QED BY <2>1, <2>2, Zenon DEF Next, vars
<1>3. HooksInv => HooksPlaced
  <2> SUFFICES ASSUME HooksInv, NEW i \in DOMAIN unpacked
               PROVE  /\ \A h \in Hooks[mode][unpacked[i]] \ {GlassCall} :
                           IF IsPatch(h) THEN [owner |-> unpacked[i], patch |-> h] \in code
                                         ELSE [owner |-> unpacked[i], name |-> h] \in names
                      /\ \A at \in Resumes[mode][unpacked[i]], w \in code :
                           ~(w.patch.at < at /\ at <= w.patch.to)
    BY Zenon DEF HooksPlaced, HooksKept
  <2>1. unpacked[i] \in Unpacked /\ Unpacked \subseteq Component /\ mode \in Mode
    BY ToSetType, Zenon DEF HooksInv, Unpacked, ToSet
  <2>2. ASSUME NEW at \in Resumes[mode][unpacked[i]], NEW w \in code
        PROVE  ~(w.patch.at < at /\ at <= w.patch.to)
    <3>1. PICK d, h : d \in Unpacked /\ h \in Hooks[mode][d] /\ IsPatch(h) /\ w = [owner |-> d, patch |-> h]
      BY DEF HooksInv
    <3>2. ~(h.at < at /\ at <= h.to)
      BY <3>1, <2>1, Zenon DEF PlacesApart
    <3> QED BY <3>1, <3>2
  <2> QED BY <2>1, <2>2, Zenon DEF HooksInv
<1> QED BY <1>1, <1>2, <1>3, PTL DEF Spec

-----------------------------------------------------------------------------
(* What the services store and serve (Services).                           *)

Way == {"legacy", "user"}
PathOf(way, n) == get_user_file_path(IF way = "legacy" THEN id_string(n) ELSE n)

\* A name that has been written has its file with what was written last, and one
\* that has not has none.
OnDiskInv ==
  /\ kept \in [Way -> [FileName -> Data \cup {NoData}]]
  /\ \A way \in Way : \A n \in FileName :
       IF kept[way][n] = NoData THEN ~Found(PathOf(way, n))
       ELSE Found(PathOf(way, n)) /\ disk[PathOf(way, n)] = kept[way][n]

\* The text of the day is the web's only if it answered, and was given only after.
MotdInv ==
  /\ motd \in {"pending", "web", "failed", "taken"} /\ (motd = "web" => motd_text = "web")
  /\ answer.request = "get_publisher_file" /\ answer.name = "motd" => motd # "pending"

ServicesInv == OnDiskInv /\ MotdInv /\ StoredIsServed /\ overridden \subseteq Mapped

LEMMA PathsDiffer ==
  ASSUME NEW w \in Way, NEW n \in FileName, NEW v \in Way, NEW m \in FileName,
         PathOf(w, n) = PathOf(v, m)
  PROVE  w = v /\ n = m
<1>1. \A a, b : <<"players2/user", a>> = <<"players2/user", b>> => a = b
  OBVIOUS
<1>2. \A a, b : <<"%llX", a>> = <<"%llX", b>> => a = b
  OBVIOUS
<1>3. id_string(n) # m /\ id_string(m) # n
  BY ServicesAssumption
<1>4. id_string(n) = id_string(m) => n = m
  BY <1>2 DEF id_string
<1>5. (IF w = "legacy" THEN id_string(n) ELSE n) = (IF v = "legacy" THEN id_string(m) ELSE m)
  BY <1>1 DEF PathOf, get_user_file_path
<1> QED BY <1>3, <1>4, <1>5 DEF Way

\* Writing a file changes that of one way and name only.
LEMMA WriteKeeps ==
  ASSUME OnDiskInv, NEW w \in Way, NEW n \in FileName, NEW d \in Data, NEW opens \in BOOLEAN,
         write_file(PathOf(w, n), d, opens), Keeps(w, n, d, opens)
  PROVE  OnDiskInv'
<1>1. CASE ~opens
  <2>1. disk' = disk /\ kept' = kept
    BY <1>1 DEF write_file, Keeps
  <2> QED BY <2>1 DEF OnDiskInv, Found
<1>2. CASE opens
  <2> DEFINE path == PathOf(w, n)
  <2>1. /\ DOMAIN disk' = DOMAIN disk \cup {path} /\ disk'[path] = d
        /\ \A p \in DOMAIN disk : p # path => disk'[p] = disk[p]
    BY <1>2 DEF write_file
  <2>2. kept' = [kept EXCEPT ![w][n] = d]
    BY <1>2 DEF Keeps
  <2>3. d # NoData
    BY ServicesAssumption
  <2>4. /\ kept' \in [Way -> [FileName -> Data \cup {NoData}]]
        /\ \A v \in Way : \A m \in FileName :
             kept'[v][m] = IF v = w /\ m = n THEN d ELSE kept[v][m]
    BY <2>2 DEF OnDiskInv
  <2>5. ASSUME NEW v \in Way, NEW m \in FileName
        PROVE  IF kept'[v][m] = NoData THEN ~(PathOf(v, m) \in DOMAIN disk')
               ELSE PathOf(v, m) \in DOMAIN disk' /\ disk'[PathOf(v, m)] = kept'[v][m]
    <3>1. CASE v = w /\ m = n
      BY <2>1, <2>3, <2>4, <3>1
    <3>2. CASE ~(v = w /\ m = n)
      <4>1. PathOf(v, m) # path
        BY <3>2, PathsDiffer
      <4>2. kept'[v][m] = kept[v][m]
        BY <2>4, <3>2
      <4>3. IF kept[v][m] = NoData THEN PathOf(v, m) \notin DOMAIN disk
            ELSE PathOf(v, m) \in DOMAIN disk /\ disk[PathOf(v, m)] = kept[v][m]
        BY DEF OnDiskInv, Found
      <4> HIDE DEF path
      <4> QED BY <2>1, <4>1, <4>2, <4>3
    <3> QED BY <3>1, <3>2
  <2>6. \A v, m : PathOf(v, m)' = PathOf(v, m)
    BY DEF PathOf, get_user_file_path, id_string
  <2> QED BY <2>4, <2>5, <2>6 DEF OnDiskInv, Found
<1> QED BY <1>1, <1>2

LEMMA DiskStays ==
  ASSUME OnDiskInv, UNCHANGED <<disk, kept>>
  PROVE  OnDiskInv'
BY DEF OnDiskInv, Found, PathOf, get_user_file_path, id_string

LEMMA OtherAnswer ==
  ASSUME NEW r, NEW n, NEW l, answer' = Reply(r, n, l),
         r \notin {"get_legacy_user_file", "get_user_file", "get_publisher_file"}
  PROVE  StoredIsServed' /\ answer'.request # "get_publisher_file"
<1>1. answer'.request = r
  BY DEF Reply
<1> QED BY <1>1 DEF StoredIsServed

LEMMA MotdStays ==
  ASSUME MotdInv, UNCHANGED <<motd, motd_text>>, answer'.request # "get_publisher_file"
  PROVE  MotdInv'
BY DEF MotdInv

\* A file that is got is the one kept.
LEMMA FileGot ==
  ASSUME OnDiskInv, NEW w \in Way, NEW n \in FileName, NEW r,
         r = IF w = "legacy" THEN "get_legacy_user_file" ELSE "get_user_file",
         answer' = File(r, n, PathOf(w, n)), UNCHANGED <<disk, kept>>
  PROVE  StoredIsServed' /\ answer'.request # "get_publisher_file"
<1>1. /\ answer'.request = r /\ answer'.name = n
      /\ IF kept[w][n] = NoData THEN answer'.error = BD_NO_FILE
         ELSE answer'.objects = {FileData(kept[w][n])}
  BY DEF OnDiskInv, Found, File, Reply, Failure
<1>2. CASE w = "legacy"
  BY <1>1, <1>2 DEF StoredIsServed, BD_NO_FILE, NoData, FileData
<1>3. CASE w = "user"
  BY <1>1, <1>3 DEF StoredIsServed, BD_NO_FILE, NoData, FileData
<1> QED BY <1>2, <1>3 DEF Way

LEMMA ServicesInitially == ServicesInit => ServicesInv
<1> SUFFICES ASSUME ServicesInit PROVE ServicesInv
  OBVIOUS
<1>1. answer.request = "none" /\ motd = "pending"
  BY DEF ServicesInit, Reply
<1>2. MotdInv /\ StoredIsServed
  BY <1>1 DEF MotdInv, StoredIsServed
<1>3. DOMAIN disk = {}
  BY DEF ServicesInit
<1>4. kept = [way \in Way |-> [n \in FileName |-> NoData]]
  BY DEF ServicesInit, Way
<1>5. OnDiskInv
  BY <1>3, <1>4 DEF OnDiskInv, Found
<1>6. overridden \subseteq Mapped
  BY DEF ServicesInit, Mapped
<1> QED BY <1>2, <1>5, <1>6 DEF ServicesInv

LEMMA FileStep ==
  ASSUME ServicesInv, NEW n \in FileName, OnFile(n)
  PROVE  ServicesInv'
<1> USE DEF ServicesInv
<1>0. overridden' = overridden
  BY DEF OnFile, set_legacy_user_file, update_legacy_user_file, set_user_file, get_legacy_user_file,
     list_legacy_user_files, get_user_file, delete_user_file, FilesSame, StorageSame
<1>1. ASSUME NEW d \in Data, NEW opens \in BOOLEAN, set_legacy_user_file(n, d, opens)
      PROVE  ServicesInv'
  <2>1. write_file(PathOf("legacy", n), d, opens) /\ Keeps("legacy", n, d, opens)
    BY <1>1 DEF set_legacy_user_file, PathOf
  <2>2. OnDiskInv'
    BY <2>1, WriteKeeps DEF Way
  <2>3. answer' = Reply("set_legacy_user_file", n, {FileInfo(n, d)}) /\ UNCHANGED <<motd, motd_text>>
    BY <1>1 DEF set_legacy_user_file, StorageSame
  <2> QED BY <2>2, <2>3, <1>0, OtherAnswer, MotdStays
<1>2. ASSUME NEW d \in Data, NEW opens \in BOOLEAN, update_legacy_user_file(n, d, opens)
      PROVE  ServicesInv'
  <2>1. write_file(PathOf("legacy", n), d, opens) /\ Keeps("legacy", n, d, opens)
    BY <1>2 DEF update_legacy_user_file, PathOf
  <2>2. OnDiskInv'
    BY <2>1, WriteKeeps DEF Way
  <2>3. answer' = Reply("update_legacy_user_file", n, {FileInfo("<>", d)}) /\ UNCHANGED <<motd, motd_text>>
    BY <1>2 DEF update_legacy_user_file, StorageSame
  <2> QED BY <2>2, <2>3, <1>0, OtherAnswer, MotdStays
<1>3. ASSUME NEW d \in Data, NEW opens \in BOOLEAN, set_user_file(n, d, opens)
      PROVE  ServicesInv'
  <2>1. write_file(PathOf("user", n), d, opens) /\ Keeps("user", n, d, opens)
    BY <1>3 DEF set_user_file, PathOf
  <2>2. OnDiskInv'
    BY <2>1, WriteKeeps DEF Way
  <2>3. answer' = Reply("set_user_file", n, {FileInfo(n, d)}) /\ UNCHANGED <<motd, motd_text>>
    BY <1>3 DEF set_user_file, StorageSame
  <2> QED BY <2>2, <2>3, <1>0, OtherAnswer, MotdStays
<1>4. CASE get_legacy_user_file(n)
  <2>1. answer' = File("get_legacy_user_file", n, PathOf("legacy", n)) /\ UNCHANGED <<disk, kept, motd, motd_text>>
    BY <1>4 DEF get_legacy_user_file, PathOf, FilesSame, StorageSame
  <2>2. StoredIsServed' /\ answer'.request # "get_publisher_file"
    BY <2>1, FileGot DEF Way
  <2> QED BY <2>1, <2>2, <1>0, DiskStays, MotdStays
<1>5. CASE get_user_file(n)
  <2>1. answer' = File("get_user_file", n, PathOf("user", n)) /\ UNCHANGED <<disk, kept, motd, motd_text>>
    BY <1>5 DEF get_user_file, PathOf, FilesSame, StorageSame
  <2>2. StoredIsServed' /\ answer'.request # "get_publisher_file"
    BY <2>1, FileGot DEF Way
  <2> QED BY <2>1, <2>2, <1>0, DiskStays, MotdStays
<1>6. CASE list_legacy_user_files(n)
  <2>1. PICK l : answer' = Reply("list_legacy_user_files", n, l)
    BY <1>6 DEF list_legacy_user_files
  <2>2. UNCHANGED <<disk, kept, motd, motd_text>>
    BY <1>6 DEF list_legacy_user_files, FilesSame, StorageSame
  <2> QED BY <2>1, <2>2, OtherAnswer, <1>0, DiskStays, MotdStays
<1>7. CASE delete_user_file(n)
  <2>1. answer' = Reply("delete_user_file", n, {}) /\ UNCHANGED <<disk, kept, motd, motd_text>>
    BY <1>7 DEF delete_user_file, FilesSame, StorageSame
  <2> QED BY <2>1, OtherAnswer, <1>0, DiskStays, MotdStays
<1> QED BY <1>1, <1>2, <1>3, <1>4, <1>5, <1>6, <1>7 DEF OnFile

LEMMA PublishedStep ==
  ASSUME ServicesInv, NEW n \in PublisherName, list_publisher_files(n) \/ get_publisher_file(n)
  PROVE  ServicesInv'
<1>1. /\ n = "motd" => motd # "pending" /\ motd' = "taken"
      /\ n # "motd" => motd' = motd
      /\ UNCHANGED <<disk, kept, motd_text, overridden>>
  BY DEF list_publisher_files, get_publisher_file, Loads
<1>2. OnDiskInv'
  BY <1>1, DiskStays DEF ServicesInv
<1>3. /\ motd' \in {"pending", "web", "failed", "taken"} /\ (motd' = "web" => motd_text' = "web")
      /\ n = "motd" => motd' # "pending"
  BY <1>1 DEF ServicesInv, MotdInv
<1>6. overridden' \subseteq Mapped
  BY <1>1 DEF ServicesInv
<1>4. CASE list_publisher_files(n)
  <2>1. PICK l : answer' = Reply("list_publisher_files", n, l)
    BY <1>4 DEF list_publisher_files
  <2>2. StoredIsServed' /\ answer'.request # "get_publisher_file"
    BY <2>1, OtherAnswer
  <2> QED BY <1>2, <1>3, <1>6, <2>2 DEF ServicesInv, MotdInv
<1>5. CASE get_publisher_file(n)
  <2>1. answer'.request = "get_publisher_file" /\ answer'.name = n
    BY <1>5 DEF get_publisher_file, Reply, Failure
  <2>2. n \notin Published => answer'.error = BD_NO_FILE
    BY <1>5 DEF get_publisher_file, Failure
  <2>3. n \in Published => answer'.objects = {FileData(load_publisher_resource(n))}
    BY <1>5 DEF get_publisher_file, Reply
  <2> DEFINE sources == Sources(n)'
  <2>4. ASSUME n \in Published
        PROVE  load_publisher_resource(n) \in sources
    <3>1. CASE n = "motd"
      <4>1. load_publisher_resource(n) = get_text
        BY <3>1 DEF load_publisher_resource, Mapped
      <4>2. (motd = "web" /\ motd_text' = "web") \/ motd \in {"taken", "failed"}
        BY <1>1, <3>1 DEF ServicesInv, MotdInv
      <4>3. get_text = Resource("motd") \/ (motd_text' = "web" /\ get_text = <<"web", "motd">>)
        BY <4>2 DEF get_text
      <4>4. sources = {Resource("motd")} \cup (IF motd_text' = "web" THEN {<<"web", "motd">>} ELSE {})
        BY <3>1 DEF Sources, Resource
      <4> HIDE DEF sources
      <4> QED BY <4>1, <4>3, <4>4
    <3>2. CASE n # "motd" /\ n \in overridden
      <4>1. sources = {OnDisk(n)}
        BY <1>1, <3>2 DEF Sources, OnDisk
      <4>2. n \in Mapped
        BY <3>2 DEF ServicesInv
      <4>3. load_publisher_resource(n) = OnDisk(n)
        BY <3>2, <4>2 DEF load_publisher_resource
      <4> QED BY <4>1, <4>3
    <3>3. CASE n # "motd" /\ n \notin overridden
      <4>1. sources = {Resource(n)}
        BY <1>1, <3>3 DEF Sources, Resource
      <4>3. load_publisher_resource(n) = Resource(n)
        BY <3>3 DEF load_publisher_resource
      <4> QED BY <4>1, <4>3
    <3> QED BY <3>1, <3>2, <3>3
  <2>5. n \in Published => \E o \in answer'.objects : o.file_data \in sources
    <3> SUFFICES ASSUME n \in Published PROVE \E o \in answer'.objects : o.file_data \in sources
      OBVIOUS
    <3>1. FileData(load_publisher_resource(n)).file_data = load_publisher_resource(n)
      BY DEF FileData
    <3> HIDE DEF sources
    <3> QED BY <2>3, <2>4, <3>1
  <2>6. StoredIsServed'
    BY <2>1, <2>2, <2>5 DEF StoredIsServed, Published, Mapped, BD_NO_FILE, Sources, Resource, OnDisk
  <2> QED BY <1>2, <1>3, <1>6, <2>1, <2>6 DEF ServicesInv, MotdInv
<1> QED BY <1>4, <1>5

LEMMA ServicesStep ==
  ASSUME ServicesInv, ServicesNext
  PROVE  ServicesInv'
<1>1. CASE call_unknown
  BY <1>1 DEF call_unknown, servicesVars, ServicesInv, Mapped, OnDiskInv, Found, PathOf, id_string,
     get_user_file_path, MotdInv, StoredIsServed, Sources, OnDisk, Resource
<1>2. CASE Other
  <2>1. /\ UNCHANGED <<disk, kept, motd, motd_text, overridden>>
        /\ \E r, l : /\ answer' = Reply(r, NoData, l)
                   /\ r \notin {"get_legacy_user_file", "get_user_file", "get_publisher_file"}
    <3> USE DEF FilesSame, StorageSame
    <3>1. CASE set_groups \/ bandwidth_test
      BY <3>1 DEF set_groups, bandwidth_test
    <3>2. ASSUME NEW ids \in SUBSET GroupId, get_groups(ids)
          PROVE  <2>1!:
      BY <3>2 DEF get_groups
    <3>3. CASE create_session \/ update_session \/ delete_session
      BY <3>3 DEF create_session, update_session, delete_session
    <3>4. CASE find_sessions_two_pass \/ get_performance \/ get_server_time
      BY <3>4 DEF find_sessions_two_pass, get_performance, get_server_time
    <3>5. CASE get_user_raw_data \/ report_console_details
      <4>1. /\ UNCHANGED <<disk, kept, motd, motd_text, overridden>>
            /\ \E l : \/ answer' = Reply("get_user_raw_data", NoData, l)
                     \/ answer' = Reply("report_console_details", NoData, l)
        BY <3>5, Zenon DEF get_user_raw_data, report_console_details
      <4> QED BY <4>1
    <3>6. CASE get_credentials \/ get_credentials_from_ticket
      BY <3>6 DEF get_credentials, get_credentials_from_ticket
    <3> QED BY <1>2, <3>1, <3>2, <3>3, <3>4, <3>5, <3>6 DEF Other
  <2>2. PICK r, l : /\ answer' = Reply(r, NoData, l)
                   /\ r \notin {"get_legacy_user_file", "get_user_file", "get_publisher_file"}
    BY <2>1
  <2> QED BY <2>1, <2>2, OtherAnswer, DiskStays, MotdStays DEF ServicesInv
<1>3. CASE WebAnswers
  <2>1. /\ motd = "pending" /\ motd' \in {"web", "failed"} /\ motd_text' = motd'
        /\ UNCHANGED <<disk, kept, overridden, answer>>
    BY <1>3 DEF WebAnswers
  <2>2. MotdInv'
    BY <2>1 DEF ServicesInv, MotdInv
  <2>3. ~(answer.request = "get_publisher_file" /\ answer.name = "motd")
    BY <2>1 DEF ServicesInv, MotdInv
  <2>4. StoredIsServed'
    BY <2>1, <2>3 DEF ServicesInv, StoredIsServed, Sources, OnDisk, Resource
  <2> QED BY <2>1, <2>2, <2>4, DiskStays DEF ServicesInv
<1> QED BY <1>1, <1>2, <1>3, FileStep, PublishedStep DEF ServicesNext, call_service

-----------------------------------------------------------------------------
(* Search paths (Files).                                                   *)

\* Paths in the order they are searched, which is the one of their registrations
\* turned round, and none twice.
InFront(paths) ==
  /\ paths = [searched |-> Reverse(paths.order), order |-> paths.order]
  /\ paths.order \in Seq(Path) /\ Distinct(paths.order)
FrontPaths == {paths \in [searched : Seq(Path), order : Seq(Path)] : InFront(paths)}

PathInv == Paths \in FrontPaths

LEMMA FrontIs ==
  ASSUME NEW registered \in Seq(Path), Distinct(registered)
  PROVE  [searched |-> Reverse(registered), order |-> registered] \in FrontPaths
<1>1. Reverse(registered) \in Seq(Path)
  BY ReverseElements
<1> QED BY <1>1 DEF FrontPaths, InFront

LEMMA FrontHas ==
  ASSUME NEW paths \in FrontPaths
  PROVE  /\ paths = [searched |-> Reverse(paths.order), order |-> paths.order]
         /\ paths.order \in Seq(Path) /\ Distinct(paths.order)
         /\ paths.searched = Reverse(paths.order) /\ paths.searched \in Seq(Path)
BY DEF FrontPaths, InFront

LEMMA PushFrontKeeps ==
  ASSUME NEW paths \in FrontPaths, NEW path \in Path
  PROVE  PushFront(paths, path) \in FrontPaths
<1>1. CASE path \in ToSet(paths.searched)
  BY <1>1 DEF PushFront, can_insert_path
<1>2. CASE path \notin ToSet(paths.searched)
  <2>1. PICK registered \in Seq(Path) : registered = paths.order /\ Distinct(registered) /\ paths.searched = Reverse(registered)
    BY FrontHas
  <2>2. path \notin ToSet(registered)
    BY <1>2, <2>1, ReverseElements
  <2>3. PICK more : more = Append(registered, path)
    OBVIOUS
  <2>4. more \in Seq(Path) /\ Distinct(more)
    BY <2>1, <2>2, <2>3, AppendDistinct, AppendElements
  <2>5. PushFront(paths, path) = [searched |-> <<path>> \o Reverse(registered), order |-> more]
    BY <1>2, <2>1, <2>3 DEF PushFront, can_insert_path
  <2>6. <<path>> \o Reverse(registered) = Reverse(more)
    BY <2>3, FrontOfReverse
  <2> QED BY <2>4, <2>5, <2>6, FrontIs
<1> QED BY <1>1, <1>2

\* startup registers one path after the other.
LEMMA StartupKeeps ==
  ASSUME PathInv
  PROVE  Startup \in FrontPaths
<1> DEFINE n == Len(StartupPaths)
           g == [x \in FrontPaths \X (1..n) |-> PushFront(x[1], StartupPaths[x[2]])]
<1>1. n \in Nat /\ \A i \in 1..n : StartupPaths[i] \in Path
  BY FilesAssumption, LenProperties, ElementOfSeq
<1>2. Paths \in FrontPaths
  BY DEF PathInv
<1>3. ASSUME NEW paths \in FrontPaths, NEW i \in 1..n
      PROVE  PushFront(paths, StartupPaths[i]) \in FrontPaths
  BY <1>1, PushFrontKeeps
<1>4. g \in [FrontPaths \X (1..n) -> FrontPaths]
  BY <1>3
<1>5. \A paths \in FrontPaths : \A i \in 1..n : g[<<paths, i>>] = PushFront(paths, StartupPaths[i])
  OBVIOUS
<1> HIDE DEF g, n
<1>6. PICK f : Iterates(Paths, g, n, f)
  BY <1>1, IterationExists
<1>7. f \in [0..n -> FrontPaths]
  BY <1>1, <1>2, <1>4, <1>6, IterationTyped
<1>8. f = [i \in 0..n |-> IF i = 0 THEN Paths ELSE PushFront(f[i - 1], StartupPaths[i])]
  <2>1. \A i \in 0..n : f[i] = IF i = 0 THEN Paths ELSE g[<<f[i - 1], i>>]
    BY <1>6 DEF Iterates
  <2>2. ASSUME NEW i \in 0..n, i # 0
        PROVE  f[i] = PushFront(f[i - 1], StartupPaths[i])
    <3>1. i \in 1..n /\ i - 1 \in 0..n
      BY <1>1, <2>2
    <3> QED BY <1>5, <1>7, <2>1, <2>2, <3>1
  <2>3. \A i \in 0..n : f[i] = IF i = 0 THEN Paths ELSE PushFront(f[i - 1], StartupPaths[i])
    BY <2>1, <2>2
  <2> QED BY <1>7, <2>3
<1> DEFINE after == CHOOSE h : h = [i \in 0..n |-> IF i = 0 THEN Paths ELSE PushFront(h[i - 1], StartupPaths[i])]
<1>9. after = [i \in 0..n |-> IF i = 0 THEN Paths ELSE PushFront(after[i - 1], StartupPaths[i])]
  BY <1>8, Zenon
<1>10. Startup = after[n]
  BY Zenon DEF Startup, n
<1> HIDE DEF after
<1>11. \A i \in 0..n : after[i] \in FrontPaths
  <2> DEFINE T == {i \in 0..n : after[i] \in FrontPaths}
  <2>1. \A i \in 0..n : after[i] = IF i = 0 THEN Paths ELSE PushFront(after[i - 1], StartupPaths[i])
    BY <1>9
  <2>2. 0 \in T
    <3>1. 0 \in 0..n /\ after[0] = Paths
      BY <1>1, <2>1
    <3> QED BY <1>2, <3>1
  <2>3. ASSUME NEW i \in 1..n, i - 1 \in T
        PROVE  i \in T
    <3>1. i \in 0..n /\ i # 0 /\ after[i - 1] \in FrontPaths
      BY <1>1, <2>3
    <3>2. after[i] \in FrontPaths
      BY <1>3, <2>1, <3>1
    <3> QED BY <3>1, <3>2
  <2> HIDE DEF T
  <2>4. \A i \in 0..n : i \in T
    BY <1>1, <2>2, <2>3, UpTo
  <2> QED BY <2>4 DEF T
<1> QED BY <1>1, <1>10, <1>11

LEMMA RegisteredIs ==
  ASSUME NEW paths \in FrontPaths, Becomes(paths)
  PROVE  PathInv'
<1>1. search_paths' = paths.searched /\ registrations' = paths.order
  BY DEF Becomes
<1>2. Paths' = [searched |-> paths.searched, order |-> paths.order]
  BY <1>1 DEF Paths
<1>3. Paths' = paths
  BY <1>2, FrontHas
<1> QED BY <1>3 DEF PathInv, FrontPaths, InFront

LEMMA PathStep ==
  ASSUME PathInv, PathNext
  PROVE  PathInv'
<1>0. Paths \in FrontPaths
  BY DEF PathInv
<1>1. CASE Read
  <2>1. Becomes(IF initialized THEN Paths ELSE Startup)
    BY <1>1 DEF Read, check_for_startup
  <2> QED BY <1>0, <2>1, StartupKeeps, RegisteredIs
<1>2. ASSUME NEW path \in Path, register_path(path)
      PROVE  PathInv'
  <2>1. Becomes(PushFront(Paths, path))
    BY <1>2 DEF register_path
  <2> QED BY <1>0, <2>1, PushFrontKeeps, RegisteredIs
<1>3. ASSUME NEW path \in Path, unregister_path(path)
      PROVE  PathInv'
  <2>1. search_paths' = RemoveFirst(search_paths, path) /\ registrations' = RemoveFirst(registrations, path)
    BY <1>3 DEF unregister_path
  <2>2. registrations \in Seq(Path) /\ Distinct(registrations) /\ search_paths = Reverse(registrations)
    BY <1>0, FrontHas DEF Paths
  <2>3. PICK s : s = search_paths /\ s \in Seq(Path)
    BY <2>2, ReverseElements
  <2>4. Len(s) = Len(registrations) /\ \A k \in 1..Len(registrations) : s[k] = registrations[Len(registrations) + 1 - k]
    BY <2>2, <2>3, ReverseElements
  <2>5. Len(registrations) \in Nat
    BY <2>2, LenProperties
  <2>6. \A k \in 1..Len(registrations) : Len(registrations) + 1 - k \in 1..Len(registrations)
    BY <2>5
  <2>7. Distinct(s)
    <3>1. ASSUME NEW i \in 1..Len(s), NEW k \in 1..Len(s), s[i] = s[k]
          PROVE  i = k
      <4>1. registrations[Len(registrations) + 1 - i] = registrations[Len(registrations) + 1 - k]
        BY <2>4, <3>1
      <4>2. Len(registrations) + 1 - i = Len(registrations) + 1 - k
        BY <2>2, <2>4, <2>6, <4>1 DEF Distinct
      <4> QED BY <2>4, <2>5, <4>2
    <3> QED BY <3>1 DEF Distinct
  <2>8. CASE \A k \in 1..Len(registrations) : registrations[k] # path
    <3>1. \A k \in 1..Len(s) : s[k] # path
      BY <2>4, <2>6, <2>8
    <3>2. RemoveFirst(s, path) = s /\ RemoveFirst(registrations, path) = registrations
      BY <2>2, <2>3, <2>8, <3>1, FirstPlace
    <3>3. Paths' = Paths
      BY <2>1, <2>3, <3>2 DEF Paths
    <3> QED BY <3>3 DEF PathInv, FrontPaths, InFront
  <2>9. ASSUME NEW c \in 1..Len(registrations), registrations[c] = path
        PROVE  PathInv'
    <3>1. PICK registered : registered = RemoveAt(registrations, c)
      OBVIOUS
    <3>2. registered \in Seq(Path) /\ Distinct(registered)
      BY <2>2, <3>1, RemoveElements, RemoveDistinct
    <3>3. RemoveFirst(registrations, path) = registered
      BY <2>2, <2>9, <3>1, FirstPlace
    <3>4. PICK d : d = Len(registrations) + 1 - c
      OBVIOUS
    <3>5. d \in 1..Len(s) /\ s[d] = path
      <4>1. d \in 1..Len(s) /\ Len(registrations) + 1 - d = c
        BY <2>4, <2>5, <3>4
      <4> QED BY <2>4, <2>9, <4>1
    <3>6. RemoveFirst(s, path) = RemoveAt(s, d)
      BY <2>3, <2>7, <3>5, FirstPlace
    <3>7. RemoveAt(s, d) = Reverse(registered)
      BY <2>2, <2>3, <3>1, <3>4, RemoveFromReverse
    <3>8. Paths' = [searched |-> Reverse(registered), order |-> registered]
      BY <2>1, <2>3, <3>3, <3>6, <3>7 DEF Paths
    <3>9. Paths' \in FrontPaths
      BY <3>2, <3>8, FrontIs
    <3> QED BY <3>9 DEF PathInv, FrontPaths, InFront
  <2> QED BY <2>8, <2>9
<1>4. CASE \E path \in Path : \E content \in FileContent \cup {NoContent} : DiskChanges(path, content)
  <2>1. Paths' = Paths
    BY <1>4 DEF DiskChanges, Paths
  <2> QED BY <2>1 DEF PathInv, FrontPaths, InFront
<1> QED BY <1>1, <1>2, <1>3, <1>4 DEF PathNext

\* The first path searched that has the file was the last registered that has it.
LEMMA LastRegisteredRead ==
  ASSUME PathInv
  PROVE  /\ search_paths = Reverse(registrations)
         /\ LET having == SelectLastInSeq(registrations, LAMBDA p : path_disk[p] # NoContent)
            IN initialized => read_file = IF having = 0 THEN "" ELSE path_disk[registrations[having]]
<1>1. registrations \in Seq(Path) /\ Distinct(registrations) /\ search_paths = Reverse(registrations)
  BY FrontHas DEF PathInv, Paths
<1>2. PICK s : s = search_paths
  OBVIOUS
<1> DEFINE n == Len(registrations)
<1>3. s \in Seq(Path) /\ Len(s) = n /\ \A k \in 1..n : s[k] = registrations[n + 1 - k]
  BY <1>1, <1>2, ReverseElements
<1>4. n \in Nat
  BY <1>1, LenProperties
<1> DEFINE I == {i \in 1..Len(s) : path_disk[s[i]] # NoContent}
           J == {i \in 1..Len(registrations) : path_disk[registrations[i]] # NoContent}
           having == SelectLastInSeq(registrations, LAMBDA p : path_disk[p] # NoContent)
<1>5. having = IF J # {} THEN Max(J) ELSE 0
  BY DEF SelectLastInSeq
<1>6. initialized => find_file = IF I # {} THEN Min(I) ELSE 0
  BY <1>2 DEF find_file, Searched, SelectInSeq
<1>7. I \subseteq Nat /\ J \subseteq 0..n /\ I \subseteq 1..n /\ J \subseteq 1..n
  BY <1>3, <1>4
<1>8. \A i \in 1..n : i \in I <=> n + 1 - i \in J
  <2>1. \A i \in 1..n : n + 1 - i \in 1..n
    BY <1>4
  <2> QED BY <1>3, <2>1
<1> HIDE DEF I, J, having
<1>9. SUFFICES ASSUME initialized PROVE read_file = IF having = 0 THEN "" ELSE path_disk[registrations[having]]
  BY <1>1 DEF having
<1>10. CASE I = {}
  <2>1. J = {}
    <3> SUFFICES ASSUME NEW k \in J PROVE FALSE
      OBVIOUS
    <3>1. n + 1 - k \in 1..n /\ n + 1 - (n + 1 - k) = k
      BY <1>4, <1>7
    <3> QED BY <1>8, <1>10, <3>1
  <2> QED BY <1>5, <1>6, <1>9, <1>10, <2>1 DEF read_file
<1>11. CASE I # {}
  <2>1. Min(I) \in I /\ \A y \in I : Min(I) <= y
    BY <1>7, <1>11, MinOfNaturals
  <2>2. PICK m : m = Min(I)
    OBVIOUS
  <2>3. m \in 1..n /\ n + 1 - m \in J
    BY <1>7, <1>8, <2>1, <2>2
  <2>4. Max(J) \in J /\ \A y \in J : y <= Max(J)
    BY <1>4, <1>7, <2>3, MaxOfBounded
  <2>5. PICK k : k = Max(J)
    OBVIOUS
  <2>6. k \in 1..n /\ n + 1 - k \in 1..n /\ n + 1 - (n + 1 - k) = k
    <3>1. k \in J
      BY <2>4, <2>5, Zenon
    <3>2. k \in 1..n
      BY <1>7, <3>1
    <3> QED BY <1>4, <3>2
  <2>7. n + 1 - k \in I
    BY <1>8, <2>4, <2>5, <2>6
  <2>8. m <= n + 1 - k /\ n + 1 - m <= k
    BY <2>1, <2>2, <2>3, <2>4, <2>5, <2>7
  <2>9. n + 1 - m = k
    BY <1>4, <2>3, <2>6, <2>8
  <2>10. having = k /\ k # 0
    BY <1>5, <2>3, <2>5, <2>6
  <2>11. find_file = m /\ m # 0
    BY <1>6, <1>9, <1>11, <2>2, <2>3
  <2>12. read_file = path_disk[s[m]]
    BY <1>2, <1>9, <2>11 DEF read_file, Searched
  <2>13. s[m] = registrations[k]
    BY <1>3, <2>3, <2>9
  <2> QED BY <2>10, <2>12, <2>13
<1> QED BY <1>10, <1>11

-----------------------------------------------------------------------------
(* The game's directories, textures and strings (Files).                   *)

\* The client's directory is the first of those given, and no other is called so.
DirectoryInv ==
  /\ game_directories \in Seq(Path \cup {"data"})
  /\ custom_path_registered <=> game_directories # <<>>
  /\ game_directories # <<>> => game_directories[1] = "data"
  /\ \A i \in 2..Len(game_directories) : game_directories[i] \in Path

LEMMA DirectoryStep ==
  ASSUME DirectoryInv, DirectoryNext
  PROVE  DirectoryInv'
<1> DEFINE S == Path \cup {"data"}
<1>1. CASE fs_startup_stub
  <2>1. game_directories' = <<>> /\ custom_path_registered' = FALSE
    BY <1>1 DEF fs_startup_stub
  <2> QED BY <2>1 DEF DirectoryInv
<1>2. ASSUME NEW dir \in Path, register_custom_path_stub(dir)
      PROVE  DirectoryInv'
  <2>1. PICK s : s = IF custom_path_registered THEN game_directories ELSE Append(game_directories, "data")
    OBVIOUS
  <2>2. game_directories' = Append(s, dir) /\ custom_path_registered' = TRUE
    BY <1>2, <2>1 DEF register_custom_path_stub
  <2>3. /\ s \in Seq(S) /\ s # <<>> /\ s[1] = "data" /\ \A i \in 2..Len(s) : s[i] \in Path
    <3>1. CASE custom_path_registered
      BY <2>1, <3>1 DEF DirectoryInv
    <3>2. CASE ~custom_path_registered
      <4>1. game_directories = <<>>
        BY <3>2 DEF DirectoryInv
      <4>2. s = <<"data">>
        BY <2>1, <3>2, <4>1
      <4> QED BY <4>2
    <3> QED BY <3>1, <3>2
  <2>4. dir \in S /\ Len(s) \in Nat /\ Len(s) # 0
    BY <2>3, LenProperties, EmptySeq
  <2>5. /\ Append(s, dir) \in Seq(S) /\ Len(Append(s, dir)) = Len(s) + 1
        /\ Append(s, dir)[Len(s) + 1] = dir /\ \A k \in 1..Len(s) : Append(s, dir)[k] = s[k]
    BY <2>3, <2>4, AppendElements
  <2>6. PICK t : t = Append(s, dir)
    OBVIOUS
  <2>7. t \in Seq(S) /\ t # <<>> /\ t[1] = "data" /\ \A i \in 2..Len(t) : t[i] \in Path
    BY <2>3, <2>4, <2>5, <2>6
  <2> QED BY <2>2, <2>6, <2>7 DEF DirectoryInv
<1> QED BY <1>1, <1>2 DEF DirectoryNext

LEMMA DataFirst ==
  ASSUME DirectoryInv, game_directories # <<>>
  PROVE  Head(game_directories) = "data" /\ "data" \notin ToSet(Tail(game_directories))
<1>1. PICK s : s = game_directories /\ s \in Seq(Path \cup {"data"}) /\ s # <<>>
  BY DEF DirectoryInv
<1>2. /\ Head(s) = s[1] /\ Tail(s) \in Seq(Path \cup {"data"}) /\ Len(Tail(s)) = Len(s) - 1
      /\ \A k \in 1..Len(s) - 1 : Tail(s)[k] = s[k + 1]
  BY <1>1, TailElements
<1>3. \A k \in 1..Len(s) - 1 : k + 1 \in 2..Len(s)
  BY <1>1, LenProperties
<1>4. \A k \in 1..Len(s) - 1 : Tail(s)[k] # "data"
  BY <1>1, <1>2, <1>3, FilesAssumption DEF DirectoryInv
<1>5. "data" \notin ToSet(Tail(s))
  <2>1. PICK t : t = Tail(s)
    OBVIOUS
  <2>2. t \in Seq(Path \cup {"data"}) /\ \A k \in 1..Len(t) : t[k] # "data"
    BY <1>2, <1>4, <2>1
  <2> QED BY <2>1, <2>2, ToSetMember
<1> QED BY <1>1, <1>2, <1>5 DEF DirectoryInv

ShownInv ==
  /\ shown_last = [texture |-> shown_last.texture, string |-> shown_last.string,
                   textures |-> shown_last.textures, strings |-> shown_last.strings]
  /\ OverridesShown

LEMMA ShownStep ==
  ASSUME ShownInv, ShownNext
  PROVE  ShownInv'
<1>1. ASSUME UNCHANGED shown_last
      PROVE  ShownInv'
  BY <1>1 DEF ShownInv, OverridesShown
<1>2. ASSUME NEW images, load_texture_stub(images)
      PROVE  ShownInv'
  <2>1. PICK t, u : /\ t = IF load_image[1] /\ load_image[2] \in images THEN load_image[2] ELSE "game"
                    /\ u = <<overriden_textures, texture_disk>>
                    /\ shown_last' = [texture |-> t, string |-> shown_last.string,
                                      textures |-> u, strings |-> shown_last.strings]
    BY <1>2 DEF load_texture_stub
  <2>2. load_image[1] => load_image[2] = IF u[1] # "" THEN u[1] ELSE u[2]
    BY <2>1 DEF load_image
  <2>3. t \in {"game", IF u[1] # "" THEN u[1] ELSE u[2]}
    BY <2>1, <2>2
  <2> QED BY <2>1, <2>3 DEF ShownInv, OverridesShown
<1>3. CASE seh_string_ed_get_string
  <2>1. PICK t : /\ t = IF localized_override = NoContent THEN "game" ELSE localized_override
                 /\ shown_last' = [shown_last EXCEPT !.string = t, !.strings = localized_override]
    BY <1>3 DEF seh_string_ed_get_string
  <2>2. shown_last' = [texture |-> shown_last.texture, string |-> t,
                       textures |-> shown_last.textures, strings |-> localized_override]
    BY <2>1 DEF ShownInv
  <2> QED BY <2>1, <2>2 DEF ShownInv, OverridesShown
<1> QED BY <1>1, <1>2, <1>3 DEF ShownNext, override_texture, override, TextureWritten

-----------------------------------------------------------------------------
(* Bindings (Files).                                                       *)

Bound == BoundCommand \cup {NoContent}
Shared == Whitelist[Hundred]

\* A key leads to its command, by a number that has been given.
Reaches(binds, keys, k, command) ==
  command # Shared => Executed(keys[k], binds) = command /\ keys[k] < Hundred + Len(binds)

BindInv ==
  /\ custom_binds \in Seq(BoundCommand) /\ bindings \in [BindKey -> Nat]
  /\ config \in [BindKey -> Bound] /\ meant \in [BindKey -> Bound] /\ saved \in [BindKey -> Bound]
  /\ \A k \in BindKey : Reaches(custom_binds, bindings, k, meant[k])
  /\ \A k \in BindKey : saved[k] # Shared => config[k] = saved[k]

LEMMA WhitelistType ==
  /\ Hundred \in Nat /\ Hundred >= 1
  /\ \A i \in 1..Hundred : Whitelist[i] \in Bound
  /\ BoundCommand \subseteq Bound /\ NoContent \in Bound /\ NoContent \notin BoundCommand
<1>1. Whitelist \in Seq(Bound) /\ Whitelist # <<>> /\ NoContent \notin BoundCommand
  BY FilesAssumption DEF Bound
<1>2. Len(Whitelist) \in Nat /\ Len(Whitelist) # 0 /\ \A i \in 1..Len(Whitelist) : Whitelist[i] \in Bound
  BY <1>1, LenProperties, ElementOfSeq, EmptySeq
<1> QED BY <1>1, <1>2 DEF Hundred, Bound

\* What a number leads to is a command or nothing; 0 is nothing.
LEMMA ExecutedType ==
  ASSUME NEW binds \in Seq(BoundCommand), NEW i \in Nat
  PROVE  Executed(i, binds) \in Bound /\ Executed(0, binds) = NoContent
<1>1. Len(binds) \in Nat /\ \A j \in 1..Len(binds) : binds[j] \in BoundCommand
  BY LenProperties, ElementOfSeq
<1>2. i >= Hundred /\ i - Hundred < Len(binds) => i - Hundred + 1 \in 1..Len(binds)
  BY <1>1, WhitelistType
<1>3. i < Hundred /\ i # 0 => i \in 1..Hundred
  BY WhitelistType
<1>4. Executed(i, binds) \in Bound
  BY <1>1, <1>2, <1>3, WhitelistType DEF Executed
<1>5. Executed(0, binds) = NoContent
  BY WhitelistType DEF Executed
<1> QED BY <1>4, <1>5

\* The number of a command leads to it, whatever was bound before, and what was
\* bound before keeps its number.
LEMMA BindingGiven ==
  ASSUME NEW command \in BoundCommand, NEW binds \in Seq(BoundCommand)
  PROVE  \E i \in Nat : \E more \in Seq(BoundCommand) :
           /\ key_get_binding_for_cmd(command, binds) = <<i, more>>
           /\ Len(more) >= Len(binds) /\ \A j \in 1..Len(binds) : more[j] = binds[j]
           /\ command # Shared => Executed(i, more) = command /\ i < Hundred + Len(more)
<1> DEFINE I == {j \in 1..Len(Whitelist) : Whitelist[j] = command}
           J == {j \in 1..Len(binds) : binds[j] = command}
           original == SelectInSeq(Whitelist, LAMBDA c : c = command)
           custom == SelectInSeq(binds, LAMBDA c : c = command)
<1>1. original = (IF I # {} THEN Min(I) ELSE 0) /\ custom = (IF J # {} THEN Min(J) ELSE 0)
  BY DEF SelectInSeq
<1>2. key_get_binding_for_cmd(command, binds) =
        IF original # 0 THEN <<original, binds>>
        ELSE IF custom # 0 THEN <<Hundred + custom - 1, binds>>
        ELSE <<Hundred + Len(binds), Append(binds, command)>>
  BY DEF key_get_binding_for_cmd
<1>3. Len(binds) \in Nat /\ Hundred \in Nat /\ Hundred >= 1 /\ Hundred = Len(Whitelist)
  BY WhitelistType, LenProperties DEF Hundred
<1>4. I \subseteq 1..Hundred /\ J \subseteq 1..Len(binds) /\ I \subseteq Nat /\ J \subseteq Nat
  BY <1>3
<1>5. \A j \in I : Whitelist[j] = command
  OBVIOUS
<1>6. \A j \in J : binds[j] = command
  OBVIOUS
<1> HIDE DEF I, J, original, custom
<1>7. CASE I # {}
  <2>1. original \in I
    BY <1>1, <1>4, <1>7, MinOfNaturals
  <2>2. original \in 1..Hundred /\ Whitelist[original] = command
    BY <1>4, <1>5, <2>1
  <2>3. key_get_binding_for_cmd(command, binds) = <<original, binds>>
    BY <1>2, <2>2
  <2>4. command # Shared => original # Hundred
    BY <2>2 DEF Shared
  <2>5. command # Shared => Executed(original, binds) = command /\ original < Hundred + Len(binds)
    BY <1>3, <2>2, <2>4 DEF Executed
  <2> QED BY <1>3, <2>2, <2>3, <2>5
<1>8. CASE I = {} /\ J # {}
  <2>1. custom \in J /\ original = 0
    BY <1>1, <1>4, <1>8, MinOfNaturals
  <2>2. custom \in 1..Len(binds) /\ binds[custom] = command
    BY <1>4, <1>6, <2>1
  <2>3. PICK i : i = Hundred + custom - 1
    OBVIOUS
  <2>4. key_get_binding_for_cmd(command, binds) = <<i, binds>>
    BY <1>2, <2>1, <2>2, <2>3
  <2>5. i \in Nat /\ i >= Hundred /\ i - Hundred + 1 = custom /\ i - Hundred < Len(binds) /\ i < Hundred + Len(binds)
    BY <1>3, <2>2, <2>3
  <2>6. Executed(i, binds) = command
    BY <2>2, <2>5 DEF Executed
  <2> QED BY <1>3, <2>4, <2>5, <2>6
<1>9. CASE I = {} /\ J = {}
  <2>1. custom = 0 /\ original = 0
    BY <1>1, <1>9
  <2>2. PICK more : more = Append(binds, command)
    OBVIOUS
  <2>3. /\ more \in Seq(BoundCommand) /\ Len(more) = Len(binds) + 1 /\ more[Len(binds) + 1] = command
        /\ \A j \in 1..Len(binds) : more[j] = binds[j]
    BY <2>2, AppendElements
  <2>4. PICK i : i = Hundred + Len(binds)
    OBVIOUS
  <2>5. key_get_binding_for_cmd(command, binds) = <<i, more>>
    BY <1>2, <2>1, <2>2, <2>4
  <2>6. i \in Nat /\ i >= Hundred /\ i - Hundred + 1 = Len(binds) + 1 /\ i - Hundred < Len(more) /\ i < Hundred + Len(more)
    BY <1>3, <2>3, <2>4
  <2>7. Executed(i, more) = command
    BY <2>3, <2>6 DEF Executed
  <2>8. Len(more) >= Len(binds)
    BY <1>3, <2>3
  <2> QED BY <2>3, <2>5, <2>6, <2>7, <2>8
<1> QED BY <1>7, <1>8, <1>9

\* More commands change nothing for the keys.
LEMMA ReachesStill ==
  ASSUME NEW binds \in Seq(BoundCommand), NEW more \in Seq(BoundCommand),
         Len(more) >= Len(binds), \A j \in 1..Len(binds) : more[j] = binds[j],
         NEW keys \in [BindKey -> Nat], NEW fewer \in [BindKey -> Nat], NEW k \in BindKey, keys[k] = fewer[k],
         NEW command, Reaches(binds, fewer, k, command)
  PROVE  Reaches(more, keys, k, command)
<1>1. SUFFICES ASSUME command # Shared
               PROVE  Executed(keys[k], more) = command /\ keys[k] < Hundred + Len(more)
  BY DEF Reaches
<1>2. Executed(keys[k], binds) = command /\ keys[k] < Hundred + Len(binds)
  BY <1>1 DEF Reaches
<1>3. Len(binds) \in Nat /\ Len(more) \in Nat /\ Hundred \in Nat /\ keys[k] \in Nat
  BY LenProperties, WhitelistType
<1>4. keys[k] < Hundred + Len(more)
  BY <1>2, <1>3
<1>5. Executed(keys[k], more) = Executed(keys[k], binds)
  <2>1. keys[k] >= Hundred => /\ keys[k] - Hundred < Len(binds) /\ keys[k] - Hundred < Len(more)
                              /\ keys[k] - Hundred + 1 \in 1..Len(binds)
    BY <1>2, <1>3
  <2> QED BY <2>1 DEF Executed
<1> QED BY <1>2, <1>4, <1>5

BindState == [binds : Seq(BoundCommand), keys : [BindKey -> Nat]]

\* A line of the config binds its key and leaves the others as they were.
LEMMA ReboundKeeps ==
  ASSUME NEW state \in BindState, NEW key \in BindKey, BindInv
  PROVE  /\ Rebound(state, key) \in BindState
         /\ config[key] = NoContent => Rebound(state, key) = state
         /\ config[key] # NoContent => Reaches(Rebound(state, key).binds, Rebound(state, key).keys, key, config[key])
         /\ \A k \in BindKey : k # key => Rebound(state, key).keys[k] = state.keys[k]
         /\ \A k \in BindKey : k # key =>
              \A command : Reaches(state.binds, state.keys, k, command)
                             => Reaches(Rebound(state, key).binds, Rebound(state, key).keys, k, command)
<1>1. CASE config[key] = NoContent
  <2>1. Rebound(state, key) = state
    BY <1>1 DEF Rebound
  <2> QED BY <1>1, <2>1
<1>2. CASE config[key] # NoContent
  <2>1. config[key] \in BoundCommand
    BY <1>2 DEF BindInv, Bound
  <2>2. state.binds \in Seq(BoundCommand) /\ state.keys \in [BindKey -> Nat]
    BY DEF BindState
  <2>3. PICK i \in Nat, more \in Seq(BoundCommand) :
          /\ key_get_binding_for_cmd(config[key], state.binds) = <<i, more>>
          /\ Len(more) >= Len(state.binds) /\ \A j \in 1..Len(state.binds) : more[j] = state.binds[j]
          /\ config[key] # Shared => Executed(i, more) = config[key] /\ i < Hundred + Len(more)
    BY <2>1, <2>2, BindingGiven
  <2>4. PICK keys : keys = [state.keys EXCEPT ![key] = i]
    OBVIOUS
  <2>5. Rebound(state, key) = [binds |-> more, keys |-> keys]
    BY <1>2, <2>3, <2>4 DEF Rebound
  <2>6. keys \in [BindKey -> Nat] /\ keys[key] = i /\ \A k \in BindKey : k # key => keys[k] = state.keys[k]
    BY <2>2, <2>3, <2>4
  <2>7. Reaches(more, keys, key, config[key])
    BY <2>3, <2>6 DEF Reaches
  <2>8. ASSUME NEW k \in BindKey, k # key, NEW command, Reaches(state.binds, state.keys, k, command)
        PROVE  Reaches(more, keys, k, command)
    BY <2>2, <2>3, <2>6, <2>8, ReachesStill
  <2>9. Rebound(state, key) \in BindState
    BY <2>3, <2>5, <2>6 DEF BindState
  <2>10. Rebound(state, key).binds = more /\ Rebound(state, key).keys = keys
    BY <2>5
  <2> QED BY <1>2, <2>6, <2>7, <2>8, <2>9, <2>10
<1> QED BY <1>1, <1>2

\* After the restart every key leads to what was written for it.
LEMMA RestartKeeps ==
  ASSUME BindInv, Restart
  PROVE  BindInv'
<1> DEFINE n == BindKeys
           base == [binds |-> <<>>, keys |-> [k \in BindKey |-> 0]]
           g == [x \in BindState \X (1..n) |-> Rebound(x[1], x[2])]
<1>1. n \in Nat /\ BindKey = 1..n
  BY FilesAssumption DEF BindKey
<1>2. base \in BindState
  BY DEF BindState
<1>3. ASSUME NEW state \in BindState, NEW key \in 1..n
      PROVE  Rebound(state, key) \in BindState
  BY <1>1, ReboundKeeps
<1>4. g \in [BindState \X (1..n) -> BindState]
  BY <1>3
<1>5. \A state \in BindState : \A key \in 1..n : g[<<state, key>>] = Rebound(state, key)
  OBVIOUS
<1> HIDE DEF g, n, base
<1>6. PICK f : Iterates(base, g, n, f)
  BY <1>1, IterationExists
<1>7. f \in [0..n -> BindState]
  BY <1>1, <1>2, <1>4, <1>6, IterationTyped
<1>8. f = [key \in 0..n |-> IF key = 0 THEN base ELSE Rebound(f[key - 1], key)]
  <2>1. \A i \in 0..n : f[i] = IF i = 0 THEN base ELSE g[<<f[i - 1], i>>]
    BY <1>6 DEF Iterates
  <2>2. ASSUME NEW i \in 0..n, i # 0
        PROVE  f[i] = Rebound(f[i - 1], i)
    <3>1. i \in 1..n /\ i - 1 \in 0..n
      BY <1>1, <2>2
    <3> QED BY <1>5, <1>7, <2>1, <2>2, <3>1
  <2>3. \A i \in 0..n : f[i] = IF i = 0 THEN base ELSE Rebound(f[i - 1], i)
    BY <2>1, <2>2
  <2> QED BY <1>7, <2>3
<1> DEFINE after == CHOOSE h : h = [key \in 0..n |-> IF key = 0 THEN base ELSE Rebound(h[key - 1], key)]
<1>9. after = [key \in 0..n |-> IF key = 0 THEN base ELSE Rebound(after[key - 1], key)]
  BY <1>8, Zenon
<1>10. /\ custom_binds' = after[n].binds /\ bindings' = after[n].keys
       /\ meant' = saved /\ UNCHANGED <<config, saved>>
  BY Zenon DEF Restart, n, base
<1> HIDE DEF after
<1>11. \A i \in 0..n : after[i] = IF i = 0 THEN base ELSE Rebound(after[i - 1], i)
  BY <1>9
<1> DEFINE done(i) == \A k \in BindKey :
              IF k <= i THEN Reaches(after[i].binds, after[i].keys, k, saved[k]) ELSE after[i].keys[k] = 0
           T == {i \in 0..n : after[i] \in BindState /\ done(i)}
<1>12. 0 \in T
  <2>1. 0 \in 0..n /\ after[0] = base
    BY <1>1, <1>11
  <2>2. \A k \in BindKey : ~(k <= 0) /\ base.keys[k] = 0
    BY <1>1 DEF base
  <2> QED BY <1>2, <2>1, <2>2
<1>13. ASSUME NEW i \in 1..n, i - 1 \in T
       PROVE  i \in T
  <2>1. PICK state \in BindState : state = after[i - 1]
    BY <1>13
  <2>2. i \in 0..n /\ i # 0 /\ i \in BindKey
    BY <1>1
  <2>3. PICK next : next = Rebound(state, i)
    OBVIOUS
  <2>4. after[i] = next
    BY <1>11, <2>1, <2>2, <2>3
  <2>5. /\ next \in BindState
        /\ config[i] = NoContent => next = state
        /\ config[i] # NoContent => Reaches(next.binds, next.keys, i, config[i])
        /\ \A k \in BindKey : k # i => next.keys[k] = state.keys[k]
        /\ \A k \in BindKey : k # i =>
             \A command : Reaches(state.binds, state.keys, k, command) => Reaches(next.binds, next.keys, k, command)
    BY <2>2, <2>3, ReboundKeeps
  <2>6. \A k \in BindKey :
          IF k <= i - 1 THEN Reaches(state.binds, state.keys, k, saved[k]) ELSE state.keys[k] = 0
    BY <1>13, <2>1
  <2>7. Reaches(next.binds, next.keys, i, saved[i])
    <3>1. CASE saved[i] = Shared
      BY <3>1 DEF Reaches
    <3>2. CASE saved[i] # Shared /\ config[i] # NoContent
      BY <2>2, <2>5, <3>2 DEF BindInv
    <3>3. CASE saved[i] # Shared /\ config[i] = NoContent
      <4>1. saved[i] = NoContent /\ next = state /\ state.keys[i] = 0
        BY <1>1, <2>2, <2>5, <2>6, <3>3 DEF BindInv
      <4>2. state.binds \in Seq(BoundCommand) /\ 0 \in Nat
        BY DEF BindState
      <4>3. Executed(0, state.binds) = NoContent
        BY <4>2, ExecutedType
      <4>4. 0 < Hundred + Len(state.binds)
        BY <4>2, WhitelistType, LenProperties
      <4> QED BY <4>1, <4>3, <4>4 DEF Reaches
    <3> QED BY <3>1, <3>2, <3>3
  <2>8. ASSUME NEW k \in BindKey, k # i, k <= i
        PROVE  Reaches(next.binds, next.keys, k, saved[k])
    <3>1. k <= i - 1
      BY <1>1, <2>8
    <3> QED BY <2>5, <2>6, <2>8, <3>1
  <2>9. ASSUME NEW k \in BindKey, ~(k <= i)
        PROVE  next.keys[k] = 0
    <3>1. ~(k <= i - 1) /\ k # i
      BY <1>1, <2>9
    <3> QED BY <2>5, <2>6, <3>1
  <2>10. done(i)
    BY <2>4, <2>7, <2>8, <2>9
  <2> QED BY <2>2, <2>4, <2>5, <2>10
<1>14. n \in T
  <2> HIDE DEF T
  <2>1. \A i \in 0..n : i \in T
    BY <1>1, <1>12, <1>13, UpTo
  <2> QED BY <1>1, <2>1
<1>15. after[n] \in BindState /\ \A k \in BindKey : Reaches(after[n].binds, after[n].keys, k, saved[k])
  <2>1. \A k \in BindKey : k <= n
    BY <1>1
  <2> QED BY <1>14, <2>1
<1>16. custom_binds' \in Seq(BoundCommand) /\ bindings' \in [BindKey -> Nat]
  BY <1>10, <1>15 DEF BindState
<1>17. \A k \in BindKey : Reaches(custom_binds', bindings', k, meant'[k])
  BY <1>10, <1>15
<1> QED BY <1>10, <1>16, <1>17 DEF BindInv, Reaches, Executed, Hundred, Shared

LEMMA BindStep ==
  ASSUME BindInv, BindNext
  PROVE  BindInv'
<1>1. ASSUME NEW key \in BindKey, Unbind(key)
      PROVE  BindInv'
  <2>1. /\ bindings' = [bindings EXCEPT ![key] = 0] /\ meant' = [meant EXCEPT ![key] = NoContent]
        /\ UNCHANGED <<custom_binds, config, saved>>
    BY <1>1 DEF Unbind
  <2>2. Reaches(custom_binds, bindings', key, NoContent)
    <3>1. bindings'[key] = 0 /\ custom_binds \in Seq(BoundCommand) /\ 0 \in Nat
      BY <2>1 DEF BindInv
    <3>2. Executed(0, custom_binds) = NoContent /\ 0 < Hundred + Len(custom_binds)
      BY <3>1, ExecutedType, WhitelistType, LenProperties
    <3> QED BY <3>1, <3>2 DEF Reaches
  <2>3. ASSUME NEW k \in BindKey
        PROVE  Reaches(custom_binds, bindings', k, meant'[k])
    BY <2>1, <2>2 DEF BindInv, Reaches
  <2>4. bindings' \in [BindKey -> Nat] /\ meant' \in [BindKey -> Bound]
    BY <2>1, WhitelistType DEF BindInv
  <2> QED BY <2>1, <2>3, <2>4 DEF BindInv, Reaches, Executed, Hundred, Shared
<1>2. ASSUME NEW key \in BindKey, NEW command \in BoundCommand, Bind(key, command)
      PROVE  BindInv'
  <2>1. custom_binds \in Seq(BoundCommand)
    BY DEF BindInv
  <2>2. PICK i \in Nat, more \in Seq(BoundCommand) :
          /\ key_get_binding_for_cmd(command, custom_binds) = <<i, more>>
          /\ Len(more) >= Len(custom_binds) /\ \A j \in 1..Len(custom_binds) : more[j] = custom_binds[j]
          /\ command # Shared => Executed(i, more) = command /\ i < Hundred + Len(more)
    BY <2>1, BindingGiven
  <2>3. /\ custom_binds' = more /\ bindings' = [bindings EXCEPT ![key] = i]
        /\ meant' = [meant EXCEPT ![key] = command] /\ UNCHANGED <<config, saved>>
    BY <1>2, <2>2 DEF Bind
  <2>4. bindings' \in [BindKey -> Nat] /\ meant' \in [BindKey -> Bound]
    BY <2>3, WhitelistType DEF BindInv
  <2>5. ASSUME NEW k \in BindKey
        PROVE  Reaches(more, bindings', k, meant'[k])
    <3>1. CASE k = key
      <4>1. bindings'[k] = i /\ meant'[k] = command
        BY <2>3, <3>1 DEF BindInv
      <4> QED BY <2>2, <4>1 DEF Reaches
    <3>2. CASE k # key
      <4>1. bindings'[k] = bindings[k] /\ meant'[k] = meant[k]
        BY <2>3, <3>2 DEF BindInv
      <4>2. Reaches(custom_binds, bindings, k, meant[k]) /\ bindings \in [BindKey -> Nat]
        BY DEF BindInv
      <4>3. PICK keys \in [BindKey -> Nat] : keys = bindings'
        BY <2>4
      <4>4. Reaches(more, keys, k, meant[k])
        BY <2>1, <2>2, <4>1, <4>2, <4>3, ReachesStill
      <4> QED BY <4>1, <4>3, <4>4
    <3> QED BY <3>1, <3>2
  <2> QED BY <2>2, <2>3, <2>4, <2>5 DEF BindInv, Reaches, Executed, Hundred, Shared
<1>3. CASE key_write_bindings_to_buffer_stub
  <2>1. /\ config' = [key \in BindKey |-> Executed(bindings[key], custom_binds)] /\ saved' = meant
        /\ UNCHANGED <<custom_binds, bindings, meant>>
    BY <1>3 DEF key_write_bindings_to_buffer_stub
  <2>2. \A key \in BindKey : Executed(bindings[key], custom_binds) \in Bound
    BY ExecutedType DEF BindInv
  <2>3. config' \in [BindKey -> Bound]
    BY <2>1, <2>2
  <2>4. \A k \in BindKey : meant[k] # Shared => config'[k] = meant[k]
    BY <2>1 DEF BindInv, Reaches
  <2> QED BY <2>1, <2>3, <2>4 DEF BindInv, Reaches, Executed, Hundred, Shared
<1> QED BY <1>1, <1>2, <1>3, RestartKeeps DEF BindNext

FilesInv == PathInv /\ DirectoryInv /\ ShownInv /\ BindInv

LEMMA FilesInitially == FilesInit => FilesInv
<1> SUFFICES ASSUME FilesInit PROVE FilesInv
  OBVIOUS
<1>1. PathInv
  <2>1. search_paths = <<>> /\ registrations = <<>>
    BY DEF FilesInit
  <2>2. PICK registered : registered = <<>> /\ registered \in Seq(Path) /\ Distinct(registered)
    <3>1. <<>> \in Seq(Path) /\ Distinct(<<>>)
      BY DEF Distinct
    <3> QED BY <3>1, Zenon
  <2>3. Reverse(registered) \in Seq(Path) /\ Len(Reverse(registered)) = 0
    BY <2>2, ReverseElements
  <2>4. Reverse(registered) = <<>>
    BY <2>3, EmptySeq
  <2>5. Paths = [searched |-> Reverse(registered), order |-> registered]
    BY <2>1, <2>2, <2>4 DEF Paths
  <2> QED BY <2>2, <2>5, FrontIs DEF PathInv
<1>2. DirectoryInv
  <2>1. game_directories = <<>> /\ custom_path_registered = FALSE
    BY DEF FilesInit
  <2> QED BY <2>1 DEF DirectoryInv
<1>3. ShownInv
  BY DEF FilesInit, ShownInv, OverridesShown
<1>4. BindInv
  <2>1. /\ custom_binds = <<>> /\ bindings = [k \in BindKey |-> 0] /\ config = [k \in BindKey |-> NoContent]
        /\ meant = [k \in BindKey |-> NoContent] /\ saved = [k \in BindKey |-> NoContent]
    BY DEF FilesInit
  <2>2. custom_binds \in Seq(BoundCommand) /\ 0 \in Nat
    BY <2>1
  <2>3. Executed(0, custom_binds) = NoContent /\ 0 < Hundred + Len(custom_binds)
    BY <2>2, ExecutedType, WhitelistType, LenProperties
  <2> QED BY <2>1, <2>2, <2>3, WhitelistType DEF BindInv, Reaches
<1> QED BY <1>1, <1>2, <1>3, <1>4 DEF FilesInv

\* The four parts of Files share no state.
LEMMA FilesStep ==
  ASSUME FilesInv, \/ PathNext \/ DirectoryNext \/ ShownNext \/ BindNext
                   \/ UNCHANGED filesVars
  PROVE  FilesInv'
<1>1. ASSUME UNCHANGED pathVars
      PROVE  PathInv'
  BY <1>1 DEF FilesInv, pathVars, PathInv, Paths, FrontPaths, InFront
<1>2. ASSUME UNCHANGED directoryVars
      PROVE  DirectoryInv'
  BY <1>2 DEF FilesInv, directoryVars, DirectoryInv
<1>3. ASSUME UNCHANGED shownVars
      PROVE  ShownInv'
  BY <1>3 DEF FilesInv, shownVars, ShownInv, OverridesShown
<1>4. ASSUME UNCHANGED bindVars
      PROVE  BindInv'
  BY <1>4 DEF FilesInv, bindVars, BindInv, Reaches, Executed, Hundred, Shared
<1>5. CASE PathNext
  <2>1. UNCHANGED <<directoryVars, shownVars, bindVars>>
    BY <1>5 DEF PathNext, Read, register_path, unregister_path, DiskChanges
  <2> QED BY <1>2, <1>3, <1>4, <1>5, <2>1, PathStep DEF FilesInv
<1>6. CASE DirectoryNext
  <2>1. UNCHANGED <<pathVars, shownVars, bindVars>>
    BY <1>6 DEF DirectoryNext, fs_startup_stub, register_custom_path_stub
  <2> QED BY <1>1, <1>3, <1>4, <1>6, <2>1, DirectoryStep DEF FilesInv
<1>7. CASE ShownNext
  <2>1. UNCHANGED <<pathVars, directoryVars, bindVars>>
    BY <1>7 DEF ShownNext, override_texture, override, TextureWritten, load_texture_stub,
       seh_string_ed_get_string
  <2> QED BY <1>1, <1>2, <1>4, <1>7, <2>1, ShownStep DEF FilesInv
<1>8. CASE BindNext
  <2>1. UNCHANGED <<pathVars, directoryVars, shownVars>>
    BY <1>8 DEF BindNext, Bind, Unbind, key_write_bindings_to_buffer_stub, Restart
  <2> QED BY <1>1, <1>2, <1>3, <1>8, <2>1, BindStep DEF FilesInv
<1>9. CASE UNCHANGED filesVars
  <2>1. UNCHANGED pathVars /\ UNCHANGED directoryVars /\ UNCHANGED shownVars /\ UNCHANGED bindVars
    BY <1>9, Zenon DEF filesVars
  <2> QED BY <1>1, <1>2, <1>3, <1>4, <2>1 DEF FilesInv
<1> QED BY <1>5, <1>6, <1>7, <1>8, <1>9

LEMMA FilesKept == FilesInv => FrontmostServed /\ OverridesShown /\ BindingsKept
<1> SUFFICES ASSUME FilesInv PROVE FrontmostServed /\ OverridesShown /\ BindingsKept
  OBVIOUS
<1>1. FrontmostServed
  BY LastRegisteredRead, DataFirst, Zenon DEF FilesInv, FrontmostServed
<1>2. OverridesShown
  BY DEF FilesInv, ShownInv
<1>3. BindingsKept
  BY DEF FilesInv, BindInv, Reaches, BindingsKept, Shared
<1> QED BY <1>1, <1>2, <1>3

\* What is served under a name is what was stored under it last: user files under
\* both namings, publisher files and the message of the day, files of the search
\* paths, textures, strings and the commands of keys, over restarts (bdStorage.cpp,
\* motd.cpp, filesystem.cpp, images.cpp, localized_strings.cpp, binding.cpp).
THEOREM FilesAreServed == Spec => []FilesServed
<1>1. Init => FilesInv /\ ServicesInv
  BY FilesInitially, ServicesInitially, Zenon DEF Init
<1>2. FilesInv /\ [Next]_vars => FilesInv'
  <2> SUFFICES ASSUME FilesInv, [Next]_vars PROVE FilesInv'
    OBVIOUS
  <2>1. PathNext \/ DirectoryNext \/ ShownNext \/ BindNext \/ UNCHANGED filesVars
    BY Zenon DEF Next, vars
  <2> QED BY <2>1, FilesStep
<1>3. ServicesInv /\ [Next]_vars => ServicesInv'
  <2> SUFFICES ASSUME ServicesInv, [Next]_vars PROVE ServicesInv'
    OBVIOUS
  <2>1. ServicesNext \/ UNCHANGED servicesVars
    BY Zenon DEF Next, vars
  <2>2. UNCHANGED servicesVars => ServicesNext
    BY Zenon DEF ServicesNext, call_service, call_unknown
  <2> QED BY <2>1, <2>2, ServicesStep
<1>4. FilesInv /\ ServicesInv => FilesServed
  BY FilesKept DEF ServicesInv, FilesServed
<1> QED BY <1>1, <1>2, <1>3, <1>4, PTL DEF Spec

-----------------------------------------------------------------------------
(* The game as a whole.                                                    *)

\* What players say is notified once and in order, under the name and of the player
\* it was said by unless another command came or he left before the frame; their
\* bots are looked after; and what a command sets in their statistics is what the
\* commands read and the file keeps, a reserved value if something else is written
\* after it; whatever else the server is given to do (notifies.cpp, command.cpp,
\* bots.cpp, stats.cpp).
THEOREM PlayersAreServed == Spec => []PlayersServed
<1>1. Init => CommandsInit /\ BotsInit /\ StatsInit
  BY Zenon DEF Init
<1>2. [Next]_vars => [CommandsNext]_commandVars /\ [BotsNext]_botVars /\ [StatsNext]_statsVars
  BY Zenon DEF Next, vars
<1>3. PlayersServed <=> MessagesNotifiedOnce /\ BotsTended /\ StatsStick
  BY DEF PlayersServed
<1> QED
  BY <1>1, <1>2, <1>3, MessagesKept, BotsLookedAfter, StatsKept, PTL DEF Spec, BotsSpec, StatsSpec
=============================================================================

------------------------- MODULE KillFlagTableProofs -------------------------
(***************************************************************************)
(* The hash table of kill flags, for any hash function, any number of ids   *)
(* and any capacity. A growth puts the entries into the new table one after *)
(* the other; what it comes to is shown along the slots of the old one.     *)
(***************************************************************************)
EXTENDS KillFlagTable, TLAPS, FiniteSetTheorems, WellFoundedInduction

-----------------------------------------------------------------------------
(* Numbers *)

LEMMA Least ==
  ASSUME NEW S, S \subseteq Nat, S # {}
  PROVE  \E m \in S : \A n \in S : m <= n
  <1>1. PICK m \in S : \A n \in S : <<n, m>> \notin OpToRel(<, Nat)
    BY WFMin, NatLessThanWellFounded
  <1>2. \A n \in S : n < m => <<n, m>> \in OpToRel(<, Nat)
    BY DEF OpToRel
  <1>3. \A n \in S : ~(n < m)
    BY <1>1, <1>2
  <1> QED
    BY <1>3

\* What holds at 0 and is handed on holds as far as it is handed on.
LEMMA Climb ==
  ASSUME NEW n \in Nat, NEW S, 0 \in S, \A m \in 0 .. n - 1 : m \in S => m + 1 \in S
  PROVE  n \in S
  <1> SUFFICES ASSUME n \notin S
               PROVE  FALSE
    OBVIOUS
  <1>1. PICK m \in (0 .. n) \ S : \A k \in (0 .. n) \ S : m <= k
    <2>1. (0 .. n) \ S \subseteq Nat /\ (0 .. n) \ S # {}
      OBVIOUS
    <2> QED
      BY <2>1, Least
  <1>2. m - 1 \in 0 .. n - 1 /\ m = (m - 1) + 1
    BY <1>1
  <1>3. m - 1 \in S
    BY <1>1, <1>2
  <1> QED
    BY <1>1, <1>2, <1>3

LEMMA Division ==
  ASSUME NEW a \in Int, NEW n \in Nat, n > 0
  PROVE  a % n \in 0 .. n - 1 /\ a \div n \in Int /\ a = n * (a \div n) + (a % n)
  <1>1. a % n \in 0 .. n - 1
    OBVIOUS
  <1>2. a \div n \in Int
    OBVIOUS
  <1>3. a = n * (a \div n) + (a % n)
    OBVIOUS
  <1> QED
    BY <1>1, <1>2, <1>3

LEMMA Remainder ==
  ASSUME NEW n \in Nat, n > 0, NEW q \in Int, NEW r \in 0 .. n - 1
  PROVE  (n * q + r) % n = r
  OBVIOUS

\* A probe comes to every slot.
LEMMA Reach ==
  ASSUME NEW n \in Nat, n > 0, NEW h \in Nat, NEW s \in 0 .. n - 1
  PROVE  \E k \in 0 .. n - 1 : (h + k) % n = s
  <1> DEFINE k == (s - h) % n
             q == (s - h) \div n
  <1>1. k \in 0 .. n - 1 /\ q \in Int /\ s - h = n * q + k
    BY Division
  <1> HIDE DEF k, q
  <1>2. PICK p \in Int : p = -q
    BY <1>1
  <1>3. n * p = -(n * q)
    BY <1>1, <1>2
  <1>4. h + k = n * p + s
    BY <1>1, <1>2, <1>3
  <1>5. (n * p + s) % n = s
    BY <1>2, Remainder
  <1> QED
    BY <1>1, <1>4, <1>5

-----------------------------------------------------------------------------
(* Probing one table *)

Cell == [key : OrderId \union Reserved, value : BOOLEAN]

\* The slot s is reached by a probe for the key, with no empty slot before it.
OnTheWay(t, key, s) ==
  \E k \in 0 .. Size(t) - 1 :
    Visit(t, key, k) = s /\ \A l \in 0 .. k - 1 : t[Visit(t, key, l)].key # EMPTY_KEY

Unique(t) ==
  \A s, u \in DOMAIN t : t[s].key \in OrderId /\ t[s].key = t[u].key => s = u

Chained(t) ==
  \A s \in DOMAIN t : t[s].key \in OrderId => OnTheWay(t, t[s].key, s)

HasRoom(t) == \E s \in DOMAIN t : t[s].key = EMPTY_KEY

\* A table of n slots in which every id has one slot and can be found there.
Sound(t, n) == t \in [0 .. n - 1 -> Cell] /\ Unique(t) /\ Chained(t)

LEMMA Keys ==
  /\ EMPTY_KEY # TOMBSTONE_KEY
  /\ \A key \in OrderId : key \notin Reserved /\ key # EMPTY_KEY /\ key # TOMBSTONE_KEY
  /\ OrderId \subseteq Key
  BY ReservedAssumption DEF Reserved, Key

LEMMA SizeIs ==
  ASSUME NEW n \in Nat, NEW t, DOMAIN t = 0 .. n - 1
  PROVE  Size(t) = n
  BY FS_Interval DEF Size

LEMMA VisitIs ==
  ASSUME hash \in [Key -> Hash], NEW key \in Key,
         NEW n \in Nat, n > 0, NEW t, DOMAIN t = 0 .. n - 1, NEW k \in Nat
  PROVE  /\ Visit(t, key, k) = (hash[key] + k) % n
         /\ Visit(t, key, k) \in 0 .. n - 1
  <1>1. Visit(t, key, k) = (hash[key] + k) % n
    BY SizeIs DEF Visit
  <1>2. PICK a \in Int : a = hash[key] + k
    <2>1. hash[key] \in Nat
      BY HashAssumption
    <2> QED
      BY <2>1
  <1>3. a % n \in 0 .. n - 1
    BY Division
  <1> QED
    BY <1>1, <1>2, <1>3

LEMMA VisitsAll ==
  ASSUME hash \in [Key -> Hash], NEW key \in Key,
         NEW n \in Nat, n > 0, NEW t, DOMAIN t = 0 .. n - 1, NEW s \in 0 .. n - 1
  PROVE  \E k \in 0 .. n - 1 : Visit(t, key, k) = s
  <1>1. PICK h \in Nat : h = hash[key]
    BY HashAssumption
  <1>2. PICK k \in 0 .. n - 1 : (h + k) % n = s
    BY Reach
  <1>3. k \in Nat
    OBVIOUS
  <1> QED
    BY <1>1, <1>2, <1>3, VisitIs

\* A probe stops at the first slot that is the key's or empty.
LEMMA StopIs ==
  ASSUME hash \in [Key -> Hash], NEW key \in Key,
         NEW n \in Nat, n > 0, NEW t, DOMAIN t = 0 .. n - 1, HasRoom(t)
  PROVE  /\ Ends(t, key) # {}
         /\ Stop(t, key) \in 0 .. n - 1
         /\ t[Visit(t, key, Stop(t, key))].key \in {key, EMPTY_KEY}
         /\ \A l \in 0 .. Stop(t, key) - 1 : t[Visit(t, key, l)].key \notin {key, EMPTY_KEY}
  <1>1. Ends(t, key) = {k \in 0 .. n - 1 : t[Visit(t, key, k)].key \in {key, EMPTY_KEY}}
    BY SizeIs DEF Ends
  <1>2. PICK s \in 0 .. n - 1 : t[s].key = EMPTY_KEY
    BY DEF HasRoom
  <1>3. PICK k \in 0 .. n - 1 : Visit(t, key, k) = s
    BY VisitsAll
  <1>4. k \in Ends(t, key)
    BY <1>1, <1>2, <1>3
  <1>5. Ends(t, key) \subseteq Nat
    BY <1>1
  <1>6. \E m \in Ends(t, key) : \A l \in Ends(t, key) : m <= l
    BY <1>4, <1>5, Least
  <1>7. Stop(t, key) \in Ends(t, key) /\ \A l \in Ends(t, key) : Stop(t, key) <= l
    BY <1>6 DEF Stop
  <1>8. ASSUME NEW l \in 0 .. Stop(t, key) - 1
        PROVE  t[Visit(t, key, l)].key \notin {key, EMPTY_KEY}
    <2>1. l \in 0 .. n - 1 /\ ~(Stop(t, key) <= l)
      BY <1>1, <1>7
    <2>2. l \notin Ends(t, key)
      BY <1>7, <2>1
    <2> QED
      BY <1>1, <2>1, <2>2
  <1> QED
    BY <1>1, <1>4, <1>7, <1>8

\* An id is found in the slots that hold it: there is one or none.
LEMMA FindIs ==
  ASSUME hash \in [Key -> Hash], NEW n \in Nat, n > 0,
         NEW t, Sound(t, n), HasRoom(t), NEW key \in OrderId
  PROVE  locate_for_find(t, key) = {s \in 0 .. n - 1 : t[s].key = key}
  <1>1. key \in Key /\ key # EMPTY_KEY /\ DOMAIN t = 0 .. n - 1
    BY Keys DEF Sound
  <1>2. PICK k : k = Stop(t, key)
    OBVIOUS
  <1>3. /\ k \in 0 .. n - 1
        /\ t[Visit(t, key, k)].key \in {key, EMPTY_KEY}
        /\ \A l \in 0 .. k - 1 : t[Visit(t, key, l)].key \notin {key, EMPTY_KEY}
    BY <1>1, <1>2, StopIs
  <1>4. PICK s : s = Visit(t, key, k)
    OBVIOUS
  <1>5. s \in 0 .. n - 1
    <2>1. k \in Nat
      BY <1>3
    <2> QED
      BY <1>1, <1>4, <2>1, VisitIs
  <1>6. locate_for_find(t, key) = IF t[s].key = key THEN {s} ELSE {}
    BY <1>2, <1>4 DEF locate_for_find
  <1>7. CASE t[s].key = key
    <2>1. \A u \in 0 .. n - 1 : t[u].key = key => u = s
      BY <1>1, <1>5, <1>7 DEF Sound, Unique
    <2> QED
      BY <1>5, <1>6, <1>7, <2>1
  <1>8. CASE t[s].key # key
    <2>1. t[s].key = EMPTY_KEY
      BY <1>3, <1>4, <1>8
    <2>2. ASSUME NEW u \in 0 .. n - 1, t[u].key = key
          PROVE  FALSE
      <3>1. OnTheWay(t, key, u)
        BY <1>1, <2>2 DEF Sound, Chained
      <3>2. PICK j \in 0 .. n - 1 :
              Visit(t, key, j) = u /\ \A l \in 0 .. j - 1 : t[Visit(t, key, l)].key # EMPTY_KEY
        BY <1>1, <3>1, SizeIs DEF OnTheWay
      <3>3. ~(j < k)
        BY <1>3, <2>2, <3>2
      <3>4. j # k
        BY <1>4, <1>8, <2>2, <3>2
      <3>5. ~(k < j)
        BY <1>3, <1>4, <2>1, <3>2
      <3> QED
        BY <1>3, <3>2, <3>3, <3>4, <3>5
    <2> QED
      BY <1>6, <1>8, <2>2
  <1> QED
    BY <1>7, <1>8

\* An entry goes to the slot of its key, or to a free one on the key's way if
\* the key has none.
LEMMA InsertIs ==
  ASSUME hash \in [Key -> Hash], NEW n \in Nat, n > 0,
         NEW t, Sound(t, n), HasRoom(t), NEW key \in OrderId,
         NEW s, s = locate_for_insert(t, key)
  PROVE  /\ s \in 0 .. n - 1
         /\ OnTheWay(t, key, s)
         /\ t[s].key \in Reserved \union {key}
         /\ t[s].key # key => \A u \in 0 .. n - 1 : t[u].key # key
  <1>1. key \in Key /\ key # EMPTY_KEY /\ DOMAIN t = 0 .. n - 1 /\ Size(t) = n
    BY Keys, SizeIs DEF Sound
  <1>2. PICK k : k = Stop(t, key)
    OBVIOUS
  <1>3. /\ k \in 0 .. n - 1
        /\ t[Visit(t, key, k)].key \in {key, EMPTY_KEY}
        /\ \A l \in 0 .. k - 1 : t[Visit(t, key, l)].key \notin {key, EMPTY_KEY}
    BY <1>1, <1>2, StopIs
  <1>4. \A l \in 0 .. k : Visit(t, key, l) \in 0 .. n - 1
    <2> SUFFICES ASSUME NEW l \in 0 .. k
                 PROVE  Visit(t, key, l) \in 0 .. n - 1
      OBVIOUS
    <2>1. l \in Nat
      BY <1>3
    <2> QED
      BY <1>1, <2>1, VisitIs
  <1>5. PICK passed : passed = {l \in 0 .. k : t[Visit(t, key, l)].key = TOMBSTONE_KEY}
    OBVIOUS
  <1>6. s = IF t[Visit(t, key, k)].key = key \/ passed = {} THEN Visit(t, key, k)
            ELSE Visit(t, key, CHOOSE l \in passed : \A m \in passed : l <= m)
    BY <1>2, <1>5 DEF locate_for_insert
  <1>7. CASE t[Visit(t, key, k)].key = key \/ passed = {}
    <2>1. s = Visit(t, key, k)
      BY <1>6, <1>7
    <2>2. OnTheWay(t, key, s)
      BY <1>1, <1>3, <2>1 DEF OnTheWay
    <2>3. t[s].key # key => \A u \in 0 .. n - 1 : t[u].key # key
      <3>1. t[s].key # key => locate_for_find(t, key) = {}
        BY <1>2, <2>1 DEF locate_for_find
      <3>2. locate_for_find(t, key) = {u \in 0 .. n - 1 : t[u].key = key}
        BY FindIs
      <3> QED
        BY <3>1, <3>2
    <2> QED
      BY <1>3, <1>4, <2>1, <2>2, <2>3 DEF Reserved
  <1>8. CASE t[Visit(t, key, k)].key # key /\ passed # {}
    <2>1. PICK l : l = CHOOSE j \in passed : \A m \in passed : j <= m
      OBVIOUS
    <2>2. passed \subseteq Nat
      BY <1>3, <1>5
    <2>3. \E m \in passed : \A j \in passed : m <= j
      BY <1>8, <2>2, Least
    <2>4. l \in passed
      BY <2>1, <2>3
    <2>5. l \in 0 .. k /\ t[Visit(t, key, l)].key = TOMBSTONE_KEY
      BY <1>5, <2>4
    <2>6. s = Visit(t, key, l)
      BY <1>6, <1>8, <2>1
    <2>7. OnTheWay(t, key, s)
      <3>1. l \in 0 .. n - 1 /\ \A j \in 0 .. l - 1 : j \in 0 .. k - 1
        BY <1>3, <2>5
      <3>2. \A j \in 0 .. l - 1 : t[Visit(t, key, j)].key # EMPTY_KEY
        BY <1>3, <3>1
      <3> QED
        BY <1>1, <2>6, <3>1, <3>2 DEF OnTheWay
    <2>8. \A u \in 0 .. n - 1 : t[u].key # key
      <3>1. locate_for_find(t, key) = {}
        BY <1>2, <1>8 DEF locate_for_find
      <3>2. locate_for_find(t, key) = {u \in 0 .. n - 1 : t[u].key = key}
        BY FindIs
      <3> QED
        BY <3>1, <3>2
    <2> QED
      BY <1>4, <2>5, <2>6, <2>7, <2>8 DEF Reserved
  <1> QED
    BY <1>7, <1>8

-----------------------------------------------------------------------------
(* Changing one table *)

\* A way stays one while no slot on it becomes empty.
LEMMA WayKept ==
  ASSUME NEW n \in Nat, NEW t, DOMAIN t = 0 .. n - 1, NEW u, DOMAIN u = 0 .. n - 1,
         hash \in [Key -> Hash], NEW key \in Key, NEW s, OnTheWay(t, key, s),
         \A v \in 0 .. n - 1 : t[v].key # EMPTY_KEY => u[v].key # EMPTY_KEY
  PROVE  OnTheWay(u, key, s)
  <1>1. Size(t) = n /\ Size(u) = n
    BY SizeIs
  <1>2. \A k : Visit(u, key, k) = Visit(t, key, k)
    BY <1>1 DEF Visit
  <1>3. PICK k \in 0 .. n - 1 :
          Visit(t, key, k) = s /\ \A l \in 0 .. k - 1 : t[Visit(t, key, l)].key # EMPTY_KEY
    BY <1>1 DEF OnTheWay
  <1>4. ASSUME NEW l \in 0 .. k - 1
        PROVE  u[Visit(u, key, l)].key # EMPTY_KEY
    <2>1. l \in Nat /\ n > 0
      BY <1>3
    <2>2. Visit(t, key, l) \in 0 .. n - 1
      BY <2>1, VisitIs
    <2> QED
      BY <1>2, <1>3, <2>2
  <1> QED
    BY <1>1, <1>2, <1>3, <1>4 DEF OnTheWay

\* Writing an entry where locate_for_insert says.
LEMMA PutSound ==
  ASSUME hash \in [Key -> Hash], NEW n \in Nat, n > 0, NEW t, Sound(t, n),
         NEW e \in Cell, e.key \in OrderId, NEW s \in 0 .. n - 1, OnTheWay(t, e.key, s),
         t[s].key # e.key => \A u \in 0 .. n - 1 : t[u].key # e.key,
         NEW new, new = [t EXCEPT ![s] = e]
  PROVE  Sound(new, n)
  <1>1. /\ t \in [0 .. n - 1 -> Cell] /\ DOMAIN t = 0 .. n - 1
        /\ new \in [0 .. n - 1 -> Cell] /\ DOMAIN new = 0 .. n - 1
        /\ new[s] = e /\ \A u \in 0 .. n - 1 : u # s => new[u] = t[u]
    BY DEF Sound
  <1>2. Unique(new)
    <2> SUFFICES ASSUME NEW u \in 0 .. n - 1, NEW v \in 0 .. n - 1,
                        new[u].key \in OrderId, new[u].key = new[v].key
                 PROVE  u = v
      BY <1>1 DEF Unique
    <2>1. CASE u # s /\ v # s
      BY <1>1, <2>1 DEF Sound, Unique
    <2>2. ASSUME NEW w \in 0 .. n - 1, w # s
          PROVE  new[w].key # e.key
      BY <1>1, <2>2 DEF Sound, Unique
    <2> QED
      BY <1>1, <2>1, <2>2
  <1>3. Chained(new)
    <2> SUFFICES ASSUME NEW u \in 0 .. n - 1, new[u].key \in OrderId
                 PROVE  OnTheWay(new, new[u].key, u)
      BY <1>1 DEF Chained
    <2>1. \A v \in 0 .. n - 1 : t[v].key # EMPTY_KEY => new[v].key # EMPTY_KEY
      BY <1>1, Keys
    <2>2. OnTheWay(t, new[u].key, u)
      BY <1>1 DEF Sound, Chained
    <2>3. PICK key \in Key : key = new[u].key
      BY Keys
    <2> QED
      BY <1>1, <2>1, <2>2, <2>3, WayKept
  <1> QED
    BY <1>1, <1>2, <1>3 DEF Sound

\* Turning entries into tombstones, or changing values.
LEMMA EraseSound ==
  ASSUME hash \in [Key -> Hash], NEW n \in Nat, n > 0, NEW t, Sound(t, n),
         NEW new \in [0 .. n - 1 -> Cell],
         \A u \in 0 .. n - 1 : \/ new[u].key = t[u].key
                               \/ t[u].key # EMPTY_KEY /\ new[u].key = TOMBSTONE_KEY
  PROVE  Sound(new, n)
  <1>1. DOMAIN t = 0 .. n - 1 /\ DOMAIN new = 0 .. n - 1
    BY DEF Sound
  <1>2. \A u \in 0 .. n - 1 : new[u].key \in OrderId => new[u].key = t[u].key
    BY Keys
  <1>3. Unique(new)
    BY <1>1, <1>2 DEF Sound, Unique
  <1>4. Chained(new)
    <2> SUFFICES ASSUME NEW u \in 0 .. n - 1, new[u].key \in OrderId
                 PROVE  OnTheWay(new, new[u].key, u)
      BY <1>1 DEF Chained
    <2>1. \A v \in 0 .. n - 1 : t[v].key # EMPTY_KEY => new[v].key # EMPTY_KEY
      BY Keys
    <2>2. PICK key \in Key : key = new[u].key
      BY Keys
    <2>3. OnTheWay(t, key, u)
      BY <1>1, <1>2, <2>2 DEF Sound, Chained
    <2> QED
      BY <1>1, <2>1, <2>2, <2>3, WayKept
  <1> QED
    BY <1>3, <1>4 DEF Sound

-----------------------------------------------------------------------------
(* Counting *)

Used(t) == {s \in DOMAIN t : t[s].key \in OrderId}

Tombs(t) == {s \in DOMAIN t : t[s].key = TOMBSTONE_KEY}

LEMMA CountIs ==
  ASSUME NEW n \in Nat, NEW t \in [0 .. n - 1 -> Cell]
  PROVE  /\ IsFiniteSet(Used(t)) /\ Cardinality(Used(t)) \in Nat
         /\ IsFiniteSet(Tombs(t)) /\ Cardinality(Tombs(t)) \in Nat
         /\ Cardinality(Used(t)) + Cardinality(Tombs(t)) < n => HasRoom(t)
  <1>1. IsFiniteSet(0 .. n - 1) /\ Cardinality(0 .. n - 1) = n
    BY FS_Interval
  <1>2. DOMAIN t = 0 .. n - 1
    OBVIOUS
  <1>3. Used(t) \in SUBSET (0 .. n - 1) /\ Tombs(t) \in SUBSET (0 .. n - 1)
    BY DEF Used, Tombs
  <1>4. /\ IsFiniteSet(Used(t)) /\ Cardinality(Used(t)) \in Nat
        /\ IsFiniteSet(Tombs(t)) /\ Cardinality(Tombs(t)) \in Nat
    BY <1>1, <1>3, FS_Subset, FS_CardinalityType
  <1>5. ASSUME ~HasRoom(t)
        PROVE  Cardinality(Used(t)) + Cardinality(Tombs(t)) = n
    <2>1. Used(t) \cup Tombs(t) = 0 .. n - 1
      <3>1. \A s \in 0 .. n - 1 : t[s].key \in OrderId \union Reserved /\ t[s].key # EMPTY_KEY
        BY <1>2, <1>5 DEF HasRoom, Cell
      <3> QED
        BY <1>2, <1>3, <3>1 DEF Used, Tombs, Reserved
    <2>2. Used(t) \cap Tombs(t) = {}
      BY Keys DEF Used, Tombs
    <2>3. Cardinality(Used(t) \cap Tombs(t)) = 0
      BY <2>2, FS_EmptySet
    <2>4. Cardinality(Used(t) \cup Tombs(t)) =
            Cardinality(Used(t)) + Cardinality(Tombs(t)) - Cardinality(Used(t) \cap Tombs(t))
      BY <1>4, FS_Union
    <2>5. Cardinality(Used(t) \cup Tombs(t)) = n
      BY <1>1, <2>1, Zenon
    <2>6. PICK a, b : a = Cardinality(Used(t)) /\ b = Cardinality(Tombs(t))
      OBVIOUS
    <2>7. n = a + b - 0
      BY <2>3, <2>4, <2>5, <2>6, Zenon
    <2> QED
      BY <1>4, <2>6, <2>7
  <1> QED
    BY <1>4, <1>5

\* The table that is left when e is put into slot s.
Put(t, s, e, new) == new = [t EXCEPT ![s] = e]

LEMMA PutCounts ==
  ASSUME NEW n \in Nat, NEW t \in [0 .. n - 1 -> Cell],
         NEW e \in Cell, e.key \in OrderId, NEW s \in 0 .. n - 1,
         NEW new, Put(t, s, e, new)
  PROVE  /\ Cardinality(Used(new)) =
              Cardinality(Used(t)) + (IF t[s].key \in OrderId THEN 0 ELSE 1)
         /\ Cardinality(Tombs(new)) =
              Cardinality(Tombs(t)) - (IF t[s].key = TOMBSTONE_KEY THEN 1 ELSE 0)
  <1>1. /\ DOMAIN t = 0 .. n - 1 /\ DOMAIN new = 0 .. n - 1
        /\ new[s] = e /\ \A u \in 0 .. n - 1 : u # s => new[u] = t[u]
    BY DEF Put
  <1>2. Used(new) = Used(t) \cup {s} /\ Tombs(new) = Tombs(t) \ {s}
    BY <1>1, Keys DEF Used, Tombs
  <1>3. s \in Used(t) <=> t[s].key \in OrderId
    BY <1>1 DEF Used
  <1>4. s \in Tombs(t) <=> t[s].key = TOMBSTONE_KEY
    BY <1>1 DEF Tombs
  <1>5. /\ IsFiniteSet(Used(t)) /\ Cardinality(Used(t)) \in Nat
        /\ IsFiniteSet(Tombs(t)) /\ Cardinality(Tombs(t)) \in Nat
    BY CountIs
  <1>6. Cardinality(Used(t) \cup {s}) =
          IF s \in Used(t) THEN Cardinality(Used(t)) ELSE Cardinality(Used(t)) + 1
    BY <1>5, FS_AddElement
  <1>7. Cardinality(Tombs(t) \ {s}) =
          IF s \in Tombs(t) THEN Cardinality(Tombs(t)) - 1 ELSE Cardinality(Tombs(t))
    BY <1>5, FS_RemoveElement
  <1>8. Cardinality(Used(new)) = Cardinality(Used(t) \cup {s})
    BY <1>2, Zenon
  <1>9. Cardinality(Tombs(new)) = Cardinality(Tombs(t) \ {s})
    BY <1>2, Zenon
  <1>10. Cardinality(Used(new)) =
           Cardinality(Used(t)) + (IF t[s].key \in OrderId THEN 0 ELSE 1)
    BY <1>3, <1>5, <1>6, <1>8
  <1>11. Cardinality(Tombs(new)) =
           Cardinality(Tombs(t)) - (IF t[s].key = TOMBSTONE_KEY THEN 1 ELSE 0)
    BY <1>4, <1>5, <1>7, <1>9
  <1> QED
    BY <1>10, <1>11

-----------------------------------------------------------------------------
(* Growing *)

UsedTo(k) == {u \in 0 .. k - 1 : slots[u].key \in OrderId}

\* A new table of m slots that has the entries of the first k old slots.
Rebuilt(t, k, m) ==
  /\ Sound(t, m)
  /\ Tombs(t) = {}
  /\ Cardinality(Used(t)) = Cardinality(UsedTo(k))
  /\ \A s \in 0 .. m - 1 : t[s].key \in OrderId => \E u \in 0 .. k - 1 : slots[u] = t[s]
  /\ \A u \in 0 .. k - 1 : slots[u].key \in OrderId => \E s \in 0 .. m - 1 : t[s] = slots[u]

LEMMA UsedToIs ==
  ASSUME NEW k \in Nat
  PROVE  /\ IsFiniteSet(UsedTo(k)) /\ Cardinality(UsedTo(k)) \in Nat
         /\ Cardinality(UsedTo(k)) <= k
         /\ slots[k].key \notin OrderId => UsedTo(k + 1) = UsedTo(k)
         /\ slots[k].key \in OrderId =>
              Cardinality(UsedTo(k + 1)) = Cardinality(UsedTo(k)) + 1
  <1>1. IsFiniteSet(0 .. k - 1) /\ Cardinality(0 .. k - 1) = k
    BY FS_Interval
  <1>2. UsedTo(k) \in SUBSET (0 .. k - 1)
    BY DEF UsedTo
  <1>3. /\ IsFiniteSet(UsedTo(k)) /\ Cardinality(UsedTo(k)) \in Nat
        /\ Cardinality(UsedTo(k)) <= k
    BY <1>1, <1>2, FS_Subset, FS_CardinalityType
  <1>4. 0 .. (k + 1) - 1 = (0 .. k - 1) \union {k} /\ k \notin 0 .. k - 1
    OBVIOUS
  <1>5. slots[k].key \notin OrderId => UsedTo(k + 1) = UsedTo(k)
    BY <1>4 DEF UsedTo
  <1>6. ASSUME slots[k].key \in OrderId
        PROVE  Cardinality(UsedTo(k + 1)) = Cardinality(UsedTo(k)) + 1
    <2>1. UsedTo(k + 1) = UsedTo(k) \cup {k} /\ k \notin UsedTo(k)
      BY <1>4, <1>6 DEF UsedTo
    <2>2. Cardinality(UsedTo(k) \cup {k}) =
            IF k \in UsedTo(k) THEN Cardinality(UsedTo(k)) ELSE Cardinality(UsedTo(k)) + 1
      BY <1>3, FS_AddElement
    <2> QED
      BY <2>1, <2>2, Zenon
  <1> QED
    BY <1>3, <1>5, <1>6

LEMMA EmptyRebuilt ==
  ASSUME NEW m \in Nat, m > 0, NEW t, t = [s \in 0 .. m - 1 |-> EmptySlot]
  PROVE  Rebuilt(t, 0, m)
  <1>1. t \in [0 .. m - 1 -> Cell] /\ \A s \in 0 .. m - 1 : t[s].key = EMPTY_KEY
    BY DEF EmptySlot, Cell, Reserved
  <1>2. DOMAIN t = 0 .. m - 1
    OBVIOUS
  <1>3. \A s \in 0 .. m - 1 : t[s].key \notin OrderId /\ t[s].key # TOMBSTONE_KEY
    BY <1>1, Keys
  <1>4. Sound(t, m)
    BY <1>1, <1>2, <1>3 DEF Sound, Unique, Chained
  <1>5. Tombs(t) = {} /\ Used(t) = {} /\ UsedTo(0) = {}
    BY <1>2, <1>3 DEF Tombs, Used, UsedTo
  <1>6. Cardinality(Used(t)) = Cardinality(UsedTo(0))
    BY <1>5, Zenon
  <1>7. \A u \in 0 .. 0 - 1 : FALSE
    OBVIOUS
  <1> QED
    BY <1>3, <1>4, <1>5, <1>6, <1>7, Zenon DEF Rebuilt

LEMMA MoveStep ==
  ASSUME hash \in [Key -> Hash], NEW n \in Nat, slots \in [0 .. n - 1 -> Cell], Unique(slots),
         NEW m \in Nat, m > n, NEW k \in 0 .. n - 1, NEW t, Rebuilt(t, k, m)
  PROVE  Rebuilt(Moved(t, slots[k]), k + 1, m)
  <1>1. PICK e \in Cell : e = slots[k]
    OBVIOUS
  <1>2. PICK new : new = Moved(t, e)
    OBVIOUS
  <1>3. k \in Nat /\ m > 0 /\ t \in [0 .. m - 1 -> Cell] /\ DOMAIN t = 0 .. m - 1
    BY DEF Rebuilt, Sound
  <1>4. 0 .. (k + 1) - 1 = (0 .. k - 1) \union {k}
    BY <1>3
  <1>5. CASE e.key \in Reserved
    <2>1. e.key \notin OrderId
      BY <1>5, Keys
    <2>2. new = t
      BY <1>2, <1>5 DEF Moved
    <2>3. UsedTo(k + 1) = UsedTo(k)
      BY <1>1, <1>3, <2>1, UsedToIs
    <2> QED
      BY <1>1, <1>2, <1>4, <2>1, <2>2, <2>3 DEF Rebuilt
  <1>6. CASE e.key \in OrderId
    <2>1. PICK s : s = locate_for_insert(t, e.key)
      OBVIOUS
    <2>2. HasRoom(t)
      <3>1. Cardinality(Tombs(t)) = 0
        BY FS_EmptySet DEF Rebuilt
      <3>2. Cardinality(Used(t)) = Cardinality(UsedTo(k))
        BY DEF Rebuilt
      <3>3. Cardinality(UsedTo(k)) \in Nat /\ Cardinality(UsedTo(k)) <= k
        BY <1>3, UsedToIs
      <3>4. Cardinality(Used(t)) + Cardinality(Tombs(t)) < m
        BY <3>1, <3>2, <3>3
      <3> QED
        BY <1>3, <3>4, CountIs
    <2>3. /\ s \in 0 .. m - 1
          /\ OnTheWay(t, e.key, s)
          /\ t[s].key \in Reserved \union {e.key}
          /\ t[s].key # e.key => \A u \in 0 .. m - 1 : t[u].key # e.key
      BY <1>3, <1>6, <2>1, <2>2, InsertIs DEF Rebuilt
    <2>4. \A u \in 0 .. m - 1 : t[u].key # e.key
      <3> SUFFICES ASSUME NEW u \in 0 .. m - 1, t[u].key = e.key
                   PROVE  FALSE
        OBVIOUS
      <3>1. PICK v \in 0 .. k - 1 : slots[v] = t[u]
        BY <1>6 DEF Rebuilt
      <3>2. v \in 0 .. n - 1 /\ v # k
        BY <1>3
      <3> QED
        BY <1>1, <1>6, <3>1, <3>2 DEF Unique
    <2>5. t[s].key \notin OrderId /\ t[s].key # TOMBSTONE_KEY
      <3>1. t[s].key # TOMBSTONE_KEY
        BY <1>3, <2>3 DEF Rebuilt, Tombs
      <3> QED
        BY <2>3, <2>4, <3>1, Keys
    <2>6. new = [t EXCEPT ![s] = e]
      BY <1>2, <1>6, <2>1, Keys DEF Moved
    <2>7. Sound(new, m)
      BY <1>3, <1>6, <2>3, <2>6, PutSound DEF Rebuilt
    <2>8. /\ Cardinality(Used(new)) = Cardinality(Used(t)) + 1
          /\ Tombs(new) = {}
      <3>1. Cardinality(Used(new)) =
              Cardinality(Used(t)) + (IF t[s].key \in OrderId THEN 0 ELSE 1)
        <4>1. Put(t, s, e, new)
          BY <2>6 DEF Put
        <4> QED
          BY <1>3, <1>6, <2>3, <4>1, PutCounts
      <3>2. Cardinality(Used(new)) = Cardinality(Used(t)) + 1
        BY <2>5, <3>1
      <3>3. \A u \in 0 .. m - 1 : new[u].key # TOMBSTONE_KEY
        BY <1>3, <1>6, <2>3, <2>6, Keys DEF Rebuilt, Tombs
      <3>4. DOMAIN new = 0 .. m - 1
        BY <1>3, <2>6
      <3> QED
        BY <3>2, <3>3, <3>4 DEF Tombs
    <2>9. Cardinality(UsedTo(k + 1)) = Cardinality(UsedTo(k)) + 1
      BY <1>1, <1>3, <1>6, UsedToIs
    <2>10. \A u \in 0 .. m - 1 : new[u] = IF u = s THEN e ELSE t[u]
      BY <1>3, <2>6
    <2>11. \A u \in 0 .. m - 1 : new[u].key \in OrderId =>
              \E v \in 0 .. (k + 1) - 1 : slots[v] = new[u]
      BY <1>1, <1>4, <2>10 DEF Rebuilt
    <2>12. ASSUME NEW v \in 0 .. (k + 1) - 1, slots[v].key \in OrderId
           PROVE  \E u \in 0 .. m - 1 : new[u] = slots[v]
      <3>1. CASE v = k
        BY <1>1, <2>3, <2>10, <3>1
      <3>2. CASE v \in 0 .. k - 1
        <4>1. PICK u \in 0 .. m - 1 : t[u] = slots[v]
          BY <2>12, <3>2 DEF Rebuilt
        <4>2. u # s
          BY <2>5, <2>12, <4>1
        <4> QED
          BY <2>10, <4>1, <4>2
      <3> QED
        BY <1>4, <3>1, <3>2
    <2> QED
      BY <1>1, <1>2, <2>7, <2>8, <2>9, <2>11, <2>12 DEF Rebuilt
  <1> QED
    BY <1>5, <1>6 DEF Cell

\* The tables that a growth goes through, from the empty one to the last.
Growing(g, k, m) ==
  g = [i \in 0 .. k |->
         IF i = 0 THEN [s \in 0 .. m - 1 |-> EmptySlot] ELSE Moved(g[i - 1], slots[i - 1])]

LEMMA GrowingExists ==
  ASSUME NEW n \in Nat, NEW m
  PROVE  \E g : Growing(g, n, m)
  <1> DEFINE S == {k \in 0 .. n : \E g : Growing(g, k, m)}
  <1>1. 0 \in S
    <2>1. PICK g : g = [i \in 0 .. 0 |-> [s \in 0 .. m - 1 |-> EmptySlot]]
      OBVIOUS
    <2>2. g = [i \in 0 .. 0 |->
                 IF i = 0 THEN [s \in 0 .. m - 1 |-> EmptySlot] ELSE Moved(g[i - 1], slots[i - 1])]
      BY <2>1
    <2>3. Growing(g, 0, m)
      BY <2>2 DEF Growing
    <2> QED
      BY <2>3
  <1>2. ASSUME NEW k \in 0 .. n - 1, k \in S
        PROVE  k + 1 \in S
    <2>1. PICK f : Growing(f, k, m)
      BY <1>2
    <2>2. PICK g : g = [i \in 0 .. k + 1 |->
                          IF i = k + 1 THEN Moved(f[k], slots[k]) ELSE f[i]]
      OBVIOUS
    <2>3. ASSUME NEW i \in 0 .. k + 1
          PROVE  g[i] = IF i = 0 THEN [s \in 0 .. m - 1 |-> EmptySlot]
                                 ELSE Moved(g[i - 1], slots[i - 1])
      <3>1. CASE i = k + 1
        <4>1. g[i] = Moved(f[k], slots[k])
          BY <2>2, <3>1
        <4>2. g[k] = f[k] /\ i - 1 = k /\ i # 0
          BY <2>2, <3>1
        <4> QED
          BY <4>1, <4>2
      <3>2. CASE i # k + 1 /\ i # 0
        <4>1. i \in 0 .. k /\ i - 1 \in 0 .. k
          BY <3>2
        <4>2. g[i] = f[i] /\ g[i - 1] = f[i - 1]
          BY <2>2, <4>1
        <4>3. f[i] = Moved(f[i - 1], slots[i - 1])
          BY <2>1, <3>2, <4>1 DEF Growing
        <4> QED
          BY <3>2, <4>2, <4>3
      <3>3. CASE i = 0
        <4>1. g[0] = f[0] /\ 0 \in 0 .. k
          BY <2>2
        <4>2. f[0] = [s \in 0 .. m - 1 |-> EmptySlot]
          BY <2>1, <4>1 DEF Growing
        <4> QED
          BY <3>3, <4>1, <4>2
      <3> QED
        BY <3>1, <3>2, <3>3
    <2>4. Growing(g, k + 1, m)
      BY <2>2, <2>3 DEF Growing
    <2> QED
      BY <2>4
  <1> HIDE DEF S
  <1>3. n \in S
    BY <1>1, <1>2, Climb
  <1> QED
    BY <1>3 DEF S

\* A growth loses no entry and makes none up.
LEMMA RehashIs ==
  ASSUME hash \in [Key -> Hash], NEW n \in Nat, n > 0,
         slots \in [0 .. n - 1 -> Cell], Unique(slots), NEW m \in Nat, m > n
  PROVE  Rebuilt(rehash(m), n, m)
  <1>1. Size(slots) = n
    BY SizeIs
  <1>2. PICK g : g = CHOOSE f : Growing(f, n, m)
    OBVIOUS
  <1>3. Growing(g, n, m)
    BY <1>2, GrowingExists
  <1>4. rehash(m) = g[n]
    BY <1>1, <1>2 DEF rehash, Growing
  <1> DEFINE S == {k \in 0 .. n : Rebuilt(g[k], k, m)}
  <1>5. 0 \in S
    <2>1. g[0] = [s \in 0 .. m - 1 |-> EmptySlot]
      BY <1>3 DEF Growing
    <2>2. PICK t : t = g[0]
      OBVIOUS
    <2>3. Rebuilt(t, 0, m)
      BY <2>1, <2>2, EmptyRebuilt
    <2> QED
      BY <2>2, <2>3
  <1>6. ASSUME NEW k \in 0 .. n - 1, k \in S
        PROVE  k + 1 \in S
    <2>1. PICK t : t = g[k]
      OBVIOUS
    <2>2. Rebuilt(t, k, m)
      BY <1>6, <2>1
    <2>3. Rebuilt(Moved(t, slots[k]), k + 1, m)
      BY <2>2, MoveStep
    <2>4. k + 1 \in 0 .. n /\ k + 1 # 0 /\ (k + 1) - 1 = k
      OBVIOUS
    <2>5. g[k + 1] = Moved(t, slots[k])
      BY <1>3, <2>1, <2>4 DEF Growing
    <2> QED
      BY <2>3, <2>4, <2>5
  <1> HIDE DEF S
  <1>7. n \in S
    BY <1>5, <1>6, Climb
  <1> QED
    BY <1>4, <1>7 DEF S

-----------------------------------------------------------------------------
(* The invariant *)

\* The table is never so full that a probe would not end.
Inv ==
  /\ hash \in [Key -> Hash]
  /\ Size(slots) \in Nat /\ Size(slots) > 0
  /\ Sound(slots, Size(slots))
  /\ live_count = Cardinality(Used(slots))
  /\ tombstone_count = Cardinality(Tombs(slots))
  /\ (live_count + tombstone_count) * 10 < Size(slots) * 6

\* What a table is like before an entry is put into it.
Ready(t, n, live, tombs) ==
  /\ n \in Nat /\ n > 0 /\ Sound(t, n)
  /\ live = Cardinality(Used(t)) /\ tombs = Cardinality(Tombs(t))
  /\ (live + tombs + 1) * 10 < n * 6

\* The parts of Inv that an action may disturb, for the table it leaves.
LEMMA InvAfter ==
  ASSUME hash \in [Key -> Hash], hash' = hash, NEW n \in Nat, n > 0,
         NEW new, new = slots', Sound(new, n),
         live_count' = Cardinality(Used(new)), tombstone_count' = Cardinality(Tombs(new)),
         (live_count' + tombstone_count') * 10 < n * 6
  PROVE  Inv'
  <1>1. Size(new) = n
    BY SizeIs DEF Sound
  <1>2. Size(slots)' = n
    BY <1>1 DEF Size
  <1>3. Sound(slots, Size(slots))'
    BY <1>1, <1>2 DEF Sound, Unique, Chained, OnTheWay, Visit, Size
  <1>4. Used(slots)' = Used(new) /\ Tombs(slots)' = Tombs(new)
    BY DEF Used, Tombs
  <1> QED
    BY <1>2, <1>3, <1>4 DEF Inv

LEMMA InvRoom ==
  ASSUME Inv
  PROVE  HasRoom(slots)
  <1>1. PICK n \in Nat : n = Size(slots)
    BY DEF Inv
  <1>2. slots \in [0 .. n - 1 -> Cell]
    BY <1>1 DEF Inv, Sound
  <1>3. live_count \in Nat /\ tombstone_count \in Nat
    BY <1>2, CountIs DEF Inv
  <1>4. (live_count + tombstone_count) * 10 < n * 6
    BY <1>1 DEF Inv
  <1>5. live_count + tombstone_count < n
    BY <1>3, <1>4
  <1> QED
    BY <1>2, <1>5, CountIs DEF Inv

LEMMA ReadyRoom ==
  ASSUME NEW t, NEW n, NEW live, NEW tombs, Ready(t, n, live, tombs)
  PROVE  HasRoom(t) /\ live \in Nat /\ tombs \in Nat
  <1>1. n \in Nat /\ t \in [0 .. n - 1 -> Cell]
    BY DEF Ready, Sound
  <1>2. live \in Nat /\ tombs \in Nat
    BY <1>1, CountIs DEF Ready
  <1>3. live + tombs < n
    BY <1>1, <1>2 DEF Ready
  <1>4. Cardinality(Used(t)) + Cardinality(Tombs(t)) < n
    BY <1>3 DEF Ready
  <1> QED
    BY <1>1, <1>2, <1>4, CountIs

LEMMA InitInv == Init => Inv
  <1> SUFFICES ASSUME Init
               PROVE  Inv
    OBVIOUS
  <1>1. CAPACITY \in Nat /\ CAPACITY > 0
    BY CapacityAssumption
  <1>2. PICK t : t = slots
    OBVIOUS
  <1>3. Rebuilt(t, 0, CAPACITY)
    BY <1>1, <1>2, EmptyRebuilt DEF Init
  <1>4. Sound(slots, CAPACITY) /\ Tombs(slots) = {} /\ Cardinality(Used(slots)) = Cardinality(UsedTo(0))
    BY <1>2, <1>3 DEF Rebuilt
  <1>5. UsedTo(0) = {}
    BY DEF UsedTo
  <1>6. Cardinality(Used(slots)) = 0 /\ Cardinality(Tombs(slots)) = 0
    BY <1>4, <1>5, FS_EmptySet, Zenon
  <1>7. Size(slots) = CAPACITY
    BY <1>1, <1>4, SizeIs DEF Sound
  <1> QED
    BY <1>1, <1>4, <1>6, <1>7 DEF Init, Inv

\* Growth leaves twice the slots, the same ids and no tombstones.
LEMMA GrownReady ==
  ASSUME Inv, Crowded, NEW m, m = 2 * Size(slots), NEW t, t = rehash(m)
  PROVE  Ready(t, m, Live(t), 0)
  <1>1. PICK n \in Nat : n = Size(slots) /\ n > 0
    BY DEF Inv
  <1>2. /\ hash \in [Key -> Hash] /\ slots \in [0 .. n - 1 -> Cell] /\ Unique(slots)
        /\ m \in Nat /\ m > n /\ m = 2 * n
    BY <1>1 DEF Inv, Sound
  <1>3. Rebuilt(t, n, m)
    BY <1>1, <1>2, RehashIs
  <1>4. UsedTo(n) = Used(slots)
    BY <1>2 DEF UsedTo, Used
  <1>5. Cardinality(Used(t)) = live_count
    BY <1>3, <1>4 DEF Rebuilt, Inv
  <1>6. Live(t) = Cardinality(Used(t))
    <2>1. t \in [0 .. m - 1 -> Cell]
      BY <1>3 DEF Rebuilt, Sound
    <2>2. \A s \in DOMAIN t : t[s].key \notin Reserved <=> t[s].key \in OrderId
      BY <2>1, Keys DEF Cell
    <2>3. {s \in DOMAIN t : t[s].key \notin Reserved} = Used(t)
      BY <2>2 DEF Used
    <2> QED
      BY <2>3, Zenon DEF Live
  <1>7. Cardinality(Tombs(t)) = 0
    BY <1>3, FS_EmptySet DEF Rebuilt
  <1>8. live_count \in Nat /\ tombstone_count \in Nat
    BY <1>2, CountIs DEF Inv
  <1>9. (live_count + tombstone_count) * 10 < n * 6
    BY <1>1 DEF Inv
  <1>10. (live_count + 0 + 1) * 10 < m * 6
    BY <1>1, <1>2, <1>8, <1>9
  <1> QED
    BY <1>1, <1>2, <1>3, <1>5, <1>6, <1>7, <1>10 DEF Ready, Rebuilt

LEMMA SlotsReady ==
  ASSUME Inv, ~Crowded
  PROVE  Ready(slots, Size(slots), live_count, tombstone_count)
  <1>1. PICK n \in Nat : n = Size(slots) /\ n > 0 /\ slots \in [0 .. n - 1 -> Cell]
    BY DEF Inv, Sound
  <1>2. live_count \in Nat /\ tombstone_count \in Nat
    BY <1>1, CountIs DEF Inv
  <1>3. ~((live_count + tombstone_count + 1) * 10 >= n * 6)
    BY <1>1 DEF Crowded
  <1>4. (live_count + tombstone_count + 1) * 10 < n * 6
    BY <1>1, <1>2, <1>3
  <1> QED
    BY <1>1, <1>4 DEF Ready, Inv

-----------------------------------------------------------------------------
(* The operations *)

\* The table that set writes to, grown or not, and what it writes.
LEMMA SetIs ==
  ASSUME Inv, NEW key \in OrderId, NEW value \in BOOLEAN, set(key, value)
  PROVE  \E t, n, live, tombs, s :
           /\ Ready(t, n, live, tombs)
           /\ t = slots \/ Rebuilt(t, Size(slots), n)
           /\ s = locate_for_insert(t, key)
           /\ slots' = [t EXCEPT ![s] = [key |-> key, value |-> value]]
           /\ live_count' = IF t[s].key = key THEN live ELSE live + 1
           /\ tombstone_count' = IF t[s].key = key THEN tombs ELSE tombs - Reused(t[s].key)
  <1>1. CASE Crowded
    <2>1. PICK m, t : m = 2 * Size(slots) /\ t = rehash(m)
      OBVIOUS
    <2>2. Ready(t, m, Live(t), 0)
      BY <1>1, <2>1, GrownReady
    <2>3. PICK n \in Nat : n = Size(slots) /\ n > 0
      BY DEF Inv
    <2>4. Rebuilt(t, n, m)
      <3>1. m \in Nat /\ m > n
        BY <2>1, <2>3
      <3>2. hash \in [Key -> Hash] /\ slots \in [0 .. n - 1 -> Cell] /\ Unique(slots)
        BY <2>3 DEF Inv, Sound
      <3> QED
        BY <2>1, <2>3, <3>1, <3>2, RehashIs
    <2>5. PICK s : s = locate_for_insert(t, key)
      OBVIOUS
    <2>6. /\ slots' = [t EXCEPT ![s] = [key |-> key, value |-> value]]
          /\ live_count' = IF t[s].key = key THEN Live(t) ELSE Live(t) + 1
          /\ tombstone_count' = IF t[s].key = key THEN 0 ELSE 0 - Reused(t[s].key)
      BY <1>1, <2>1, <2>5 DEF set
    <2> QED
      BY <2>2, <2>3, <2>4, <2>5, <2>6
  <1>2. CASE ~Crowded
    <2>1. Ready(slots, Size(slots), live_count, tombstone_count)
      BY <1>2, SlotsReady
    <2>2. PICK s : s = locate_for_insert(slots, key)
      OBVIOUS
    <2>3. /\ slots' = [slots EXCEPT ![s] = [key |-> key, value |-> value]]
          /\ live_count' = IF slots[s].key = key THEN live_count ELSE live_count + 1
          /\ tombstone_count' = IF slots[s].key = key THEN tombstone_count
                                ELSE tombstone_count - Reused(slots[s].key)
      BY <1>2, <2>2 DEF set
    <2> QED
      BY <2>1, <2>2, <2>3
  <1> QED
    BY <1>1, <1>2

LEMMA SetInv ==
  ASSUME Inv, NEW key \in OrderId, NEW value \in BOOLEAN, set(key, value)
  PROVE  Inv'
  <1>1. PICK t, n, live, tombs, s :
          /\ Ready(t, n, live, tombs)
          /\ t = slots \/ Rebuilt(t, Size(slots), n)
          /\ s = locate_for_insert(t, key)
          /\ slots' = [t EXCEPT ![s] = [key |-> key, value |-> value]]
          /\ live_count' = IF t[s].key = key THEN live ELSE live + 1
          /\ tombstone_count' = IF t[s].key = key THEN tombs ELSE tombs - Reused(t[s].key)
    BY SetIs
  <1>2. /\ hash \in [Key -> Hash] /\ hash' = hash
        /\ n \in Nat /\ n > 0 /\ Sound(t, n) /\ t \in [0 .. n - 1 -> Cell]
        /\ live = Cardinality(Used(t)) /\ tombs = Cardinality(Tombs(t))
        /\ (live + tombs + 1) * 10 < n * 6
    BY <1>1 DEF Inv, Ready, Sound, set
  <1>3. HasRoom(t) /\ live \in Nat /\ tombs \in Nat
    BY <1>1, ReadyRoom
  <1>at. s = locate_for_insert(t, key)
    BY <1>1
  <1>4. /\ s \in 0 .. n - 1
        /\ OnTheWay(t, key, s)
        /\ t[s].key \in Reserved \union {key}
        /\ t[s].key # key => \A u \in 0 .. n - 1 : t[u].key # key
    <2>1. /\ hash \in [Key -> Hash] /\ n \in Nat /\ n > 0 /\ Sound(t, n) /\ HasRoom(t)
      BY <1>2, <1>3
    <2> QED
      BY <1>at, <2>1, InsertIs
  <1>5. PICK e : e = [key |-> key, value |-> value]
    OBVIOUS
  <1>entry. e \in Cell /\ e.key = key
    BY <1>5 DEF Cell
  <1>6. PICK new : new = slots'
    OBVIOUS
  <1>7. new = [t EXCEPT ![s] = e]
    BY <1>1, <1>5, <1>6
  <1>8. Sound(new, n)
    BY <1>2, <1>4, <1>entry, <1>7, PutSound
  <1>9. /\ Cardinality(Used(new)) =
             Cardinality(Used(t)) + (IF t[s].key \in OrderId THEN 0 ELSE 1)
        /\ Cardinality(Tombs(new)) =
             Cardinality(Tombs(t)) - (IF t[s].key = TOMBSTONE_KEY THEN 1 ELSE 0)
    <2>1. n \in Nat /\ t \in [0 .. n - 1 -> Cell]
      BY <1>2
    <2>2. s \in 0 .. n - 1
      BY <1>4
    <2>3. e \in Cell /\ e.key \in OrderId
      BY <1>entry
    <2>put. Put(t, s, e, new)
      BY <1>7 DEF Put
    <2>4. Cardinality(Used(new)) =
            Cardinality(Used(t)) + (IF t[s].key \in OrderId THEN 0 ELSE 1)
      BY <2>1, <2>2, <2>3, <2>put, PutCounts
    <2>5. Cardinality(Tombs(new)) =
            Cardinality(Tombs(t)) - (IF t[s].key = TOMBSTONE_KEY THEN 1 ELSE 0)
      BY <2>1, <2>2, <2>3, <2>put, PutCounts
    <2> QED
      BY <2>4, <2>5
  <1>10. t[s].key \in OrderId <=> t[s].key = key
    BY <1>4, Keys
  <1>11. live_count' = Cardinality(Used(new))
    <2>1. live_count' = IF t[s].key = key THEN live ELSE live + 1
      BY <1>1
    <2>2. Cardinality(Used(new)) = live + (IF t[s].key \in OrderId THEN 0 ELSE 1)
      BY <1>2, <1>9
    <2>3. CASE t[s].key = key
      BY <1>3, <1>10, <2>1, <2>2, <2>3
    <2>4. CASE t[s].key # key
      BY <1>3, <1>10, <2>1, <2>2, <2>4
    <2> QED
      BY <2>3, <2>4
  <1>12. tombstone_count' = Cardinality(Tombs(new))
    <2>1. t[s].key = key => t[s].key # TOMBSTONE_KEY
      BY Keys
    <2>2. tombstone_count' = IF t[s].key = key THEN tombs ELSE tombs - Reused(t[s].key)
      BY <1>1
    <2>3. Cardinality(Tombs(new)) = tombs - (IF t[s].key = TOMBSTONE_KEY THEN 1 ELSE 0)
      BY <1>2, <1>9
    <2>4. CASE t[s].key = key
      BY <1>3, <2>1, <2>2, <2>3, <2>4
    <2>5. CASE t[s].key # key
      BY <1>3, <2>2, <2>3, <2>5 DEF Reused
    <2> QED
      BY <2>4, <2>5
  <1>13. live_count' + tombstone_count' <= live + tombs + 1 /\ live_count' + tombstone_count' \in Int
    BY <1>1, <1>3 DEF Reused
  <1>14. (live_count' + tombstone_count') * 10 < n * 6
    BY <1>2, <1>3, <1>13
  <1> QED
    BY <1>2, <1>6, <1>8, <1>11, <1>12, <1>14, InvAfter

\* What find answers for any key: the slot of an id, or none. A reserved key
\* may be found in a slot that has no entry.
LEMMA Located ==
  ASSUME Inv, NEW key \in Key
  PROVE  /\ locate_for_find(slots, key) \subseteq 0 .. Size(slots) - 1
         /\ key \notin Reserved =>
              locate_for_find(slots, key) = {s \in 0 .. Size(slots) - 1 : slots[s].key = key}
  <1>1. PICK n \in Nat : n = Size(slots) /\ n > 0 /\ Sound(slots, n)
    BY DEF Inv
  <1>2. hash \in [Key -> Hash] /\ slots \in [0 .. n - 1 -> Cell] /\ HasRoom(slots)
    BY <1>1, InvRoom DEF Inv, Sound
  <1>3. PICK k : k = Stop(slots, key)
    OBVIOUS
  <1>4. k \in 0 .. n - 1 /\ slots[Visit(slots, key, k)].key \in {key, EMPTY_KEY}
    BY <1>1, <1>2, <1>3, StopIs
  <1>5. Visit(slots, key, k) \in 0 .. n - 1
    <2>1. k \in Nat
      BY <1>4
    <2> QED
      BY <1>1, <1>2, <2>1, VisitIs
  <1>6. /\ slots[Visit(slots, key, k)].key = key =>
              locate_for_find(slots, key) = {Visit(slots, key, k)}
        /\ slots[Visit(slots, key, k)].key # key => locate_for_find(slots, key) = {}
    BY <1>3 DEF locate_for_find
  <1>7. ASSUME key \notin Reserved
        PROVE  locate_for_find(slots, key) = {s \in 0 .. n - 1 : slots[s].key = key}
    <2>1. CASE key \in OrderId
      BY <1>1, <1>2, <2>1, FindIs
    <2>2. CASE key \notin OrderId
      <3>1. \A s \in 0 .. n - 1 : slots[s].key # key
        BY <1>2, <1>7, <2>2 DEF Cell
      <3> QED
        BY <1>5, <1>6, <3>1
    <2> QED
      BY <2>1, <2>2
  <1> QED
    BY <1>1, <1>5, <1>6, <1>7

LEMMA MarkInv ==
  ASSUME Inv, NEW key \in Key, mark(key)
  PROVE  Inv'
  <1>1. PICK n \in Nat : n = Size(slots) /\ n > 0 /\ Sound(slots, n)
    BY DEF Inv
  <1>2. PICK t, new, found : t = slots /\ new = slots' /\ found = locate_for_find(slots, key)
    OBVIOUS
  <1>3. t \in [0 .. n - 1 -> Cell] /\ DOMAIN t = 0 .. n - 1
    BY <1>1, <1>2 DEF Sound
  <1>4. new = [s \in 0 .. n - 1 |-> IF s \in found THEN [t[s] EXCEPT !.value = TRUE] ELSE t[s]]
    BY <1>2, <1>3 DEF mark
  <1>5. new \in [0 .. n - 1 -> Cell] /\ \A s \in 0 .. n - 1 : new[s].key = t[s].key
    BY <1>3, <1>4 DEF Cell
  <1>6. Sound(new, n)
    BY <1>1, <1>2, <1>5, EraseSound DEF Inv
  <1>7. Used(new) = Used(t) /\ Tombs(new) = Tombs(t)
    BY <1>3, <1>4, <1>5 DEF Used, Tombs
  <1>8. live_count' = live_count /\ tombstone_count' = tombstone_count /\ hash' = hash
    BY DEF mark
  <1>9. live_count = Cardinality(Used(new)) /\ tombstone_count = Cardinality(Tombs(new))
    BY <1>2, <1>7 DEF Inv
  <1>10. (live_count + tombstone_count) * 10 < n * 6 /\ hash \in [Key -> Hash]
    BY <1>1 DEF Inv
  <1>11. (live_count' + tombstone_count') * 10 < n * 6
    BY <1>8, <1>10
  <1> QED
    BY <1>1, <1>2, <1>6, <1>8, <1>9, <1>10, <1>11, InvAfter

LEMMA EraseInv ==
  ASSUME Inv, NEW key \in OrderId, erase(key)
  PROVE  Inv'
  <1>1. PICK n \in Nat : n = Size(slots) /\ n > 0 /\ Sound(slots, n)
    BY DEF Inv
  <1>2. PICK t, new, found : t = slots /\ new = slots' /\ found = locate_for_find(slots, key)
    OBVIOUS
  <1>3. t \in [0 .. n - 1 -> Cell] /\ DOMAIN t = 0 .. n - 1
    BY <1>1, <1>2 DEF Sound
  <1>4. key \in Key /\ key \notin Reserved
    BY Keys
  <1>5. found = {s \in 0 .. n - 1 : t[s].key = key}
    BY <1>1, <1>2, <1>4, Located
  <1>6. new = [s \in 0 .. n - 1 |-> IF s \in found THEN Erased(t[s]) ELSE t[s]]
    BY <1>2, <1>3 DEF erase
  <1>7. /\ live_count' = live_count - Removed(found)
        /\ tombstone_count' = tombstone_count + Removed(found)
        /\ hash' = hash
    BY <1>2 DEF erase
  <1>8. /\ live_count = Cardinality(Used(t)) /\ tombstone_count = Cardinality(Tombs(t))
        /\ (live_count + tombstone_count) * 10 < n * 6 /\ hash \in [Key -> Hash]
    BY <1>1, <1>2 DEF Inv
  <1>9. /\ IsFiniteSet(Used(t)) /\ Cardinality(Used(t)) \in Nat
        /\ IsFiniteSet(Tombs(t)) /\ Cardinality(Tombs(t)) \in Nat
    BY <1>3, CountIs
  <1>10. new \in [0 .. n - 1 -> Cell]
    BY <1>3, <1>6 DEF Cell, Erased, Reserved
  <1>11. \A s \in 0 .. n - 1 : new[s].key = IF s \in found THEN TOMBSTONE_KEY ELSE t[s].key
    BY <1>3, <1>6 DEF Cell, Erased
  <1>12. Sound(new, n)
    <2>1. \A s \in 0 .. n - 1 : \/ new[s].key = t[s].key
                                \/ t[s].key # EMPTY_KEY /\ new[s].key = TOMBSTONE_KEY
      BY <1>5, <1>11, Keys
    <2>2. Sound(t, n)
      BY <1>1, <1>2
    <2> QED
      BY <1>1, <1>8, <1>10, <2>1, <2>2, EraseSound
  <1>13. /\ live_count' = Cardinality(Used(new)) /\ tombstone_count' = Cardinality(Tombs(new))
         /\ live_count' + tombstone_count' = live_count + tombstone_count
    <2>1. CASE found = {}
      <3>1. new = t
        BY <1>3, <1>6, <2>1
      <3>2. Removed(found) = 0
        BY <2>1, FS_EmptySet DEF Removed
      <3> QED
        BY <1>7, <1>8, <1>9, <3>1, <3>2
    <2>2. CASE found # {}
      <3>1. PICK s \in 0 .. n - 1 : s \in found
        BY <1>5, <2>2
      <3>2. found = {s}
        BY <1>1, <1>2, <1>3, <1>5, <3>1 DEF Sound, Unique
      <3>3. Removed(found) = 1
        BY <3>2, FS_Singleton DEF Removed
      <3>4. DOMAIN new = 0 .. n - 1
        BY <1>6
      <3>5. Used(new) = Used(t) \ {s} /\ Tombs(new) = Tombs(t) \cup {s}
        BY <1>3, <1>11, <3>1, <3>2, <3>4, Keys DEF Used, Tombs
      <3>6. s \in Used(t) /\ s \notin Tombs(t)
        BY <1>3, <1>5, <3>1, Keys DEF Used, Tombs
      <3>7. Cardinality(Used(t) \ {s}) = Cardinality(Used(t)) - 1
        BY <1>9, <3>6, FS_RemoveElement
      <3>8. Cardinality(Tombs(t) \cup {s}) = Cardinality(Tombs(t)) + 1
        BY <1>9, <3>6, FS_AddElement
      <3>9. Cardinality(Used(new)) = live_count - 1 /\ Cardinality(Tombs(new)) = tombstone_count + 1
        BY <1>8, <3>5, <3>7, <3>8, Zenon
      <3> QED
        BY <1>7, <1>8, <1>9, <3>3, <3>9
    <2> QED
      BY <2>1, <2>2
  <1>14. (live_count' + tombstone_count') * 10 < n * 6
    BY <1>8, <1>13
  <1> QED
    BY <1>1, <1>2, <1>7, <1>8, <1>12, <1>13, <1>14, InvAfter

LEMMA NextInv == Inv /\ [Next]_vars => Inv'
  <1> SUFFICES ASSUME Inv, [Next]_vars
               PROVE  Inv'
    OBVIOUS
  <1>1. ASSUME NEW key \in OrderId, set(key, FALSE)
        PROVE  Inv'
    BY <1>1, SetInv
  <1>2. ASSUME NEW key \in OrderId, erase(key)
        PROVE  Inv'
    BY <1>2, EraseInv
  <1>3. ASSUME NEW key \in Named, mark(key)
        PROVE  Inv'
    BY <1>3, MarkInv DEF Key
  <1>4. ASSUME UNCHANGED <<hash, slots, live_count, tombstone_count>>
        PROVE  Inv'
    BY <1>4 DEF Inv, Sound, Unique, Chained, OnTheWay, Visit, Size, Used, Tombs
  <1>5. ASSUME NEW key \in Named, find(key)
        PROVE  Inv'
    BY <1>4, <1>5 DEF find
  <1>6. CASE UNCHANGED vars
    BY <1>4, <1>6 DEF vars
  <1> QED
    BY <1>1, <1>2, <1>3, <1>5, <1>6 DEF Next

\* Counts are exact, chains are whole and the table has room, through every
\* collision, tombstone, reuse and growth.
THEOREM TableInvariant == Spec => []Inv
  BY InitInv, NextInv, PTL DEF Spec

\* maybe_grow decides by the true numbers of entries and tombstones.
THEOREM CountsAreExact == Spec => []CountsExact
  <1>1. Inv => CountsExact
    BY DEF Inv, CountsExact, Used, Tombs, Holding
  <1> QED
    BY <1>1, TableInvariant, PTL

\* A probe finds its key or an empty slot, so that the market thread never
\* turns in locate_for_find or locate_for_insert for ever.
THEOREM EveryProbeEnds == Spec => []ProbesEnd
  <1>1. ASSUME Inv
        PROVE  ProbesEnd
    <2> SUFFICES ASSUME NEW key \in Key
                 PROVE  Ends(slots, key) # {}
      BY DEF ProbesEnd
    <2>1. PICK n \in Nat : n = Size(slots) /\ n > 0 /\ Sound(slots, n)
      BY <1>1 DEF Inv
    <2>2. PICK t : t = slots
      OBVIOUS
    <2>3. hash \in [Key -> Hash] /\ DOMAIN t = 0 .. n - 1 /\ HasRoom(t)
      BY <1>1, <2>1, <2>2, InvRoom DEF Inv, Sound
    <2> QED
      BY <2>1, <2>2, <2>3, StopIs
  <1> QED
    BY <1>1, TableInvariant, PTL

\* An id that has a slot is found in it: no erase and no growth cuts the way
\* from its hash.
THEOREM EveryIdFound == Spec => []ChainsUnbroken
  <1>1. ASSUME Inv
        PROVE  ChainsUnbroken
    <2>1. DOMAIN slots = 0 .. Size(slots) - 1
      BY <1>1 DEF Inv, Sound
    <2>2. \A key \in OrderId : key \in Key /\ key \notin Reserved
      BY Keys
    <2>3. \A key \in OrderId : locate_for_find(slots, key) = Holding(key)
      BY <1>1, <2>1, <2>2, Located DEF Holding
    <2> QED
      BY <2>3 DEF ChainsUnbroken
  <1> QED
    BY <1>1, TableInvariant, PTL

-----------------------------------------------------------------------------
(* The map that the table stands for *)

KeysOf(t) == {key \in OrderId : \E s \in DOMAIN t : t[s].key = key}

FlagsOf(t) ==
  [key \in KeysOf(t) |-> t[CHOOSE s \in {u \in DOMAIN t : t[u].key = key} : TRUE].value]

\* The flag of an id is the one of its slot, whichever that is.
LEMMA FlagAt ==
  ASSUME NEW n \in Nat, NEW t, Sound(t, n), NEW s \in 0 .. n - 1, t[s].key \in OrderId
  PROVE  t[s].key \in KeysOf(t) /\ FlagsOf(t)[t[s].key] = t[s].value
  <1>1. DOMAIN t = 0 .. n - 1
    BY DEF Sound
  <1>2. PICK key \in OrderId : key = t[s].key
    OBVIOUS
  <1>3. key \in KeysOf(t)
    BY <1>1, <1>2 DEF KeysOf
  <1>4. {u \in DOMAIN t : t[u].key = key} = {s}
    BY <1>1, <1>2 DEF Sound, Unique
  <1>5. (CHOOSE u \in {s} : TRUE) = s
    OBVIOUS
  <1>6. FlagsOf(t)[key] = t[CHOOSE u \in {v \in DOMAIN t : t[v].key = key} : TRUE].value
    BY <1>3 DEF FlagsOf
  <1>7. FlagsOf(t)[key] = t[s].value
    BY <1>4, <1>5, <1>6
  <1> QED
    BY <1>2, <1>3, <1>7

LEMMA KeySlot ==
  ASSUME NEW n \in Nat, NEW t, Sound(t, n), NEW key \in KeysOf(t)
  PROVE  key \in OrderId /\ \E s \in 0 .. n - 1 : t[s].key = key
  BY DEF KeysOf, Sound

\* A table is known by its map as soon as every entry of the map is known.
LEMMA FlagsAre ==
  ASSUME NEW n \in Nat, NEW t, Sound(t, n), NEW f, NEW D, f = [key \in D |-> f[key]],
         \A key \in D : \E s \in 0 .. n - 1 : t[s].key = key,
         \A s \in 0 .. n - 1 : t[s].key \in OrderId =>
           t[s].key \in D /\ f[t[s].key] = t[s].value,
         D \subseteq OrderId
  PROVE  FlagsOf(t) = f
  <1>1. D = KeysOf(t)
    <2>1. DOMAIN t = 0 .. n - 1
      BY DEF Sound
    <2> QED
      BY <2>1 DEF KeysOf
  <1>2. \A key \in D : FlagsOf(t)[key] = f[key]
    BY FlagAt
  <1>3. FlagsOf(t) = [key \in KeysOf(t) |-> FlagsOf(t)[key]]
    BY DEF FlagsOf
  <1> QED
    BY <1>1, <1>2, <1>3

\* A growth leaves the map as it was.
LEMMA RebuiltFlags ==
  ASSUME NEW n \in Nat, NEW m \in Nat, Sound(slots, n), NEW t, Rebuilt(t, n, m)
  PROVE  FlagsOf(t) = FlagsOf(slots)
  <1>1. PICK old : old = slots
    OBVIOUS
  <1>2. PICK f, D : f = FlagsOf(old) /\ D = KeysOf(old)
    OBVIOUS
  <1>3. f = [key \in D |-> f[key]] /\ D \subseteq OrderId
    BY <1>2 DEF FlagsOf, KeysOf
  <1>4. Sound(old, n) /\ Sound(t, m)
    BY <1>1 DEF Rebuilt
  <1>5. ASSUME NEW key \in D
        PROVE  \E s \in 0 .. m - 1 : t[s].key = key
    <2>1. PICK u \in 0 .. n - 1 : old[u].key = key /\ key \in OrderId
      BY <1>2, <1>4, KeySlot
    <2> QED
      BY <1>1, <2>1 DEF Rebuilt
  <1>6. ASSUME NEW s \in 0 .. m - 1, t[s].key \in OrderId
        PROVE  t[s].key \in D /\ f[t[s].key] = t[s].value
    <2>1. PICK u \in 0 .. n - 1 : old[u] = t[s]
      BY <1>1, <1>6 DEF Rebuilt
    <2>2. old[u].key \in KeysOf(old) /\ FlagsOf(old)[old[u].key] = old[u].value
      BY <1>4, <1>6, <2>1, FlagAt
    <2> QED
      BY <1>2, <2>1, <2>2
  <1>7. FlagsOf(t) = f
    BY <1>3, <1>4, <1>5, <1>6, FlagsAre
  <1> QED
    BY <1>1, <1>2, <1>7

Shown == [key \in Entries |-> slots[CHOOSE s \in Holding(key) : TRUE].value]

LEMMA ShownIs == Shown = FlagsOf(slots) /\ Shown' = FlagsOf(slots')
  BY DEF Shown, Entries, Holding, FlagsOf, KeysOf

LEMMA SetFlags ==
  ASSUME Inv, NEW key \in OrderId, NEW value \in BOOLEAN, set(key, value)
  PROVE  FlagsOf(slots') =
           [i \in KeysOf(slots) \union {key} |-> IF i = key THEN value ELSE FlagsOf(slots)[i]]
  <1>1. PICK t, n, live, tombs, s :
          /\ Ready(t, n, live, tombs)
          /\ t = slots \/ Rebuilt(t, Size(slots), n)
          /\ s = locate_for_insert(t, key)
          /\ slots' = [t EXCEPT ![s] = [key |-> key, value |-> value]]
          /\ live_count' = IF t[s].key = key THEN live ELSE live + 1
          /\ tombstone_count' = IF t[s].key = key THEN tombs ELSE tombs - Reused(t[s].key)
    BY SetIs
  <1>2. /\ hash \in [Key -> Hash] /\ n \in Nat /\ n > 0
        /\ Sound(t, n) /\ t \in [0 .. n - 1 -> Cell]
    BY <1>1 DEF Inv, Ready, Sound
  <1>3. HasRoom(t) /\ s = locate_for_insert(t, key)
    BY <1>1, ReadyRoom
  <1>4. /\ s \in 0 .. n - 1
        /\ OnTheWay(t, key, s)
        /\ t[s].key \in Reserved \union {key}
        /\ t[s].key # key => \A u \in 0 .. n - 1 : t[u].key # key
    BY <1>2, <1>3, InsertIs
  <1>5. FlagsOf(t) = FlagsOf(slots)
    <2>1. CASE t = slots
      BY <2>1, Zenon
    <2>2. CASE Rebuilt(t, Size(slots), n)
      <3>1. PICK k \in Nat : k = Size(slots)
        BY DEF Inv
      <3>2. Sound(slots, k)
        BY <3>1 DEF Inv
      <3> QED
        BY <1>2, <2>2, <3>1, <3>2, RebuiltFlags
    <2> QED
      BY <1>1, <2>1, <2>2
  <1>6. PICK f, D : f = FlagsOf(t) /\ D = KeysOf(t)
    OBVIOUS
  <1>7. f = [i \in D |-> f[i]] /\ D \subseteq OrderId
    BY <1>6 DEF FlagsOf, KeysOf
  <1>8. D = KeysOf(slots) /\ f = FlagsOf(slots)
    <2>1. D = DOMAIN FlagsOf(t) /\ KeysOf(slots) = DOMAIN FlagsOf(slots)
      BY <1>6 DEF FlagsOf
    <2> QED
      BY <1>5, <1>6, <2>1, Zenon
  <1>9. PICK new, e : new = slots' /\ e = [key |-> key, value |-> value]
    OBVIOUS
  <1>10. new = [t EXCEPT ![s] = e]
    BY <1>1, <1>9
  <1>11. e \in Cell /\ e.key = key /\ e.value = value
    BY <1>9 DEF Cell
  <1>12. Sound(new, n)
    BY <1>2, <1>4, <1>10, <1>11, PutSound
  <1>13. /\ new[s] = e
         /\ \A u \in 0 .. n - 1 : u # s => new[u] = t[u]
    BY <1>2, <1>4, <1>10
  <1>14. PICK g :
           g = [i \in KeysOf(slots) \union {key} |-> IF i = key THEN value ELSE FlagsOf(slots)[i]]
    OBVIOUS
  <1>15. /\ g = [i \in D \union {key} |-> g[i]] /\ D \union {key} \subseteq OrderId
         /\ \A i \in D \union {key} : g[i] = IF i = key THEN value ELSE f[i]
    <2>1. /\ g = [i \in KeysOf(slots) \union {key} |-> g[i]]
          /\ \A i \in KeysOf(slots) \union {key} :
               g[i] = IF i = key THEN value ELSE FlagsOf(slots)[i]
      BY <1>14
    <2> QED
      BY <1>7, <1>8, <2>1
  <1>16. ASSUME NEW i \in D \union {key}
         PROVE  \E u \in 0 .. n - 1 : new[u].key = i
    <2>1. CASE i = key
      BY <1>4, <1>11, <1>13, <2>1
    <2>2. CASE i # key
      <3>1. PICK u \in 0 .. n - 1 : t[u].key = i /\ i \in OrderId
        BY <1>2, <1>6, <2>2, KeySlot
      <3>2. u # s
        BY <1>4, <2>2, <3>1, Keys
      <3> QED
        BY <1>13, <3>1, <3>2
    <2> QED
      BY <2>1, <2>2
  <1>17. ASSUME NEW u \in 0 .. n - 1, new[u].key \in OrderId
         PROVE  new[u].key \in D \union {key} /\ g[new[u].key] = new[u].value
    <2>1. CASE u = s
      BY <1>11, <1>13, <1>15, <2>1
    <2>2. CASE u # s
      <3>1. new[u] = t[u]
        BY <1>13, <2>2
      <3>2. t[u].key # key
        <4>1. t[s].key = key => t[u].key # key
          BY <1>2, <1>4, <2>2 DEF Sound, Unique
        <4> QED
          BY <1>4, <4>1
      <3>3. t[u].key \in KeysOf(t) /\ FlagsOf(t)[t[u].key] = t[u].value
        BY <1>2, <1>17, <3>1, FlagAt
      <3> QED
        BY <1>6, <1>15, <3>1, <3>2, <3>3
    <2> QED
      BY <2>1, <2>2
  <1>18. FlagsOf(new) = g
    <2>1. PICK K : K = D \union {key}
      OBVIOUS
    <2>2. g = [i \in K |-> g[i]] /\ K \subseteq OrderId
      BY <1>15, <2>1
    <2>3. \A i \in K : \E u \in 0 .. n - 1 : new[u].key = i
      BY <1>16, <2>1
    <2>4. \A u \in 0 .. n - 1 : new[u].key \in OrderId =>
            new[u].key \in K /\ g[new[u].key] = new[u].value
      BY <1>17, <2>1
    <2>5. n \in Nat /\ Sound(new, n)
      BY <1>2, <1>12
    <2> QED
      BY <2>2, <2>3, <2>4, <2>5, FlagsAre
  <1>19. FlagsOf(slots') = g
    BY <1>9, <1>18
  <1> QED
    BY <1>14, <1>19, Zenon

LEMMA AnswerIs ==
  ASSUME Inv, NEW key \in Key, key \notin Reserved
  PROVE  {slots[s].value : s \in locate_for_find(slots, key)} =
           IF key \in DOMAIN FlagsOf(slots) THEN {FlagsOf(slots)[key]} ELSE {}
  <1>1. PICK n \in Nat : n = Size(slots) /\ n > 0 /\ Sound(slots, n)
    BY DEF Inv
  <1>2. PICK t, found : t = slots /\ found = locate_for_find(slots, key)
    OBVIOUS
  <1>3. t \in [0 .. n - 1 -> Cell] /\ DOMAIN t = 0 .. n - 1 /\ Unique(t) /\ Sound(t, n)
    BY <1>1, <1>2 DEF Sound
  <1>4. found = {s \in 0 .. n - 1 : t[s].key = key}
    BY <1>1, <1>2, Located
  <1>5. CASE key \in KeysOf(t)
    <2>1. PICK s \in 0 .. n - 1 : t[s].key = key /\ key \in OrderId
      BY <1>3, <1>5, KeySlot
    <2>2. found = {s}
      BY <1>3, <1>4, <2>1 DEF Unique
    <2>3. FlagsOf(t)[key] = t[s].value
      BY <1>3, <2>1, FlagAt
    <2>4. key \in DOMAIN FlagsOf(t)
      BY <1>5 DEF FlagsOf
    <2>5. {t[u].value : u \in found} = {FlagsOf(t)[key]}
      BY <2>2, <2>3
    <2> QED
      BY <1>2, <2>4, <2>5
  <1>6. CASE key \notin KeysOf(t)
    <2>1. found = {}
      BY <1>3, <1>4, <1>6 DEF KeysOf, Cell
    <2>2. key \notin DOMAIN FlagsOf(t)
      BY <1>6 DEF FlagsOf
    <2>3. {t[u].value : u \in found} = {}
      BY <2>1
    <2> QED
      BY <1>2, <2>2, <2>3
  <1> QED
    BY <1>5, <1>6

LEMMA MarkFlags ==
  ASSUME Inv, NEW key \in Key, key \notin Reserved, mark(key)
  PROVE  FlagsOf(slots') = [i \in DOMAIN FlagsOf(slots) |-> i = key \/ FlagsOf(slots)[i]]
  <1>1. PICK n \in Nat : n = Size(slots) /\ n > 0 /\ Sound(slots, n)
    BY DEF Inv
  <1>2. PICK t, new, found : t = slots /\ new = slots' /\ found = locate_for_find(slots, key)
    OBVIOUS
  <1>3. t \in [0 .. n - 1 -> Cell] /\ DOMAIN t = 0 .. n - 1 /\ Sound(t, n)
    BY <1>1, <1>2 DEF Sound
  <1>4. found = {s \in 0 .. n - 1 : t[s].key = key}
    BY <1>1, <1>2, Located
  <1>5. new = [s \in 0 .. n - 1 |-> IF s \in found THEN [t[s] EXCEPT !.value = TRUE] ELSE t[s]]
    BY <1>2, <1>3 DEF mark
  <1>6. /\ new \in [0 .. n - 1 -> Cell]
        /\ \A s \in 0 .. n - 1 : new[s].key = t[s].key
        /\ \A s \in 0 .. n - 1 : new[s].value = IF t[s].key = key THEN TRUE ELSE t[s].value
    BY <1>3, <1>4, <1>5 DEF Cell
  <1>7. Sound(new, n)
    <2>1. hash \in [Key -> Hash] /\ n \in Nat /\ n > 0
      BY <1>1 DEF Inv
    <2> QED
      BY <1>3, <1>6, <2>1, EraseSound
  <1>8. PICK f, D : f = FlagsOf(t) /\ D = KeysOf(t)
    OBVIOUS
  <1>9. f = [i \in D |-> f[i]] /\ D = DOMAIN f /\ D \subseteq OrderId
    BY <1>8 DEF FlagsOf, KeysOf
  <1>10. PICK g : g = [i \in D |-> i = key \/ f[i]]
    OBVIOUS
  <1>11. g = [i \in D |-> g[i]]
    BY <1>10
  <1>12. ASSUME NEW i \in D
         PROVE  \E s \in 0 .. n - 1 : new[s].key = i
    BY <1>3, <1>6, <1>8, KeySlot
  <1>13. ASSUME NEW s \in 0 .. n - 1, new[s].key \in OrderId
         PROVE  new[s].key \in D /\ g[new[s].key] = new[s].value
    <2>1. t[s].key \in D /\ f[t[s].key] = t[s].value
      BY <1>3, <1>6, <1>8, <1>13, FlagAt
    <2>2. t[s].value \in BOOLEAN
      BY <1>3 DEF Cell
    <2>3. CASE t[s].key = key
      BY <1>6, <1>10, <2>1, <2>3
    <2>4. CASE t[s].key # key
      <3>1. g[t[s].key] = (t[s].key = key \/ f[t[s].key])
        BY <1>10, <2>1
      <3>2. g[t[s].key] = t[s].value
        BY <2>1, <2>2, <2>4, <3>1
      <3> QED
        BY <1>6, <2>1, <2>4, <3>2
    <2> QED
      BY <2>3, <2>4
  <1>14. FlagsOf(new) = g
    BY <1>7, <1>9, <1>11, <1>12, <1>13, FlagsAre
  <1>15. D = DOMAIN FlagsOf(slots) /\ f = FlagsOf(slots)
    BY <1>2, <1>8, <1>9
  <1>16. g = [i \in DOMAIN FlagsOf(slots) |-> i = key \/ FlagsOf(slots)[i]]
    BY <1>10, <1>15
  <1> QED
    BY <1>2, <1>14, <1>16

LEMMA EraseFlags ==
  ASSUME Inv, NEW key \in OrderId, erase(key)
  PROVE  FlagsOf(slots') = [i \in DOMAIN FlagsOf(slots) \ {key} |-> FlagsOf(slots)[i]]
  <1>1. PICK n \in Nat : n = Size(slots) /\ n > 0 /\ Sound(slots, n)
    BY DEF Inv
  <1>2. PICK t, new, found : t = slots /\ new = slots' /\ found = locate_for_find(slots, key)
    OBVIOUS
  <1>3. t \in [0 .. n - 1 -> Cell] /\ DOMAIN t = 0 .. n - 1 /\ Sound(t, n)
    BY <1>1, <1>2 DEF Sound
  <1>4. found = {s \in 0 .. n - 1 : t[s].key = key}
    <2>1. key \in Key /\ key \notin Reserved
      BY Keys
    <2> QED
      BY <1>1, <1>2, <2>1, Located
  <1>5. new = [s \in 0 .. n - 1 |-> IF s \in found THEN Erased(t[s]) ELSE t[s]]
    BY <1>2, <1>3 DEF erase
  <1>6. /\ new \in [0 .. n - 1 -> Cell]
        /\ \A s \in 0 .. n - 1 : t[s].key = key => new[s].key = TOMBSTONE_KEY
        /\ \A s \in 0 .. n - 1 : t[s].key # key => new[s] = t[s]
    BY <1>3, <1>4, <1>5 DEF Cell, Erased, Reserved
  <1>7. Sound(new, n)
    <2>1. hash \in [Key -> Hash] /\ n \in Nat /\ n > 0
      BY <1>1 DEF Inv
    <2>2. \A s \in 0 .. n - 1 : \/ new[s].key = t[s].key
                                \/ t[s].key # EMPTY_KEY /\ new[s].key = TOMBSTONE_KEY
      BY <1>6, Keys
    <2> QED
      BY <1>3, <1>6, <2>1, <2>2, EraseSound
  <1>8. PICK f, D : f = FlagsOf(t) /\ D = KeysOf(t)
    OBVIOUS
  <1>9. f = [i \in D |-> f[i]] /\ D = DOMAIN f /\ D \subseteq OrderId
    BY <1>8 DEF FlagsOf, KeysOf
  <1>10. PICK E, g : E = D \ {key} /\ g = [i \in E |-> f[i]]
    OBVIOUS
  <1>11. /\ g = [i \in E |-> g[i]] /\ E \subseteq OrderId
         /\ \A i \in E : g[i] = f[i]
    BY <1>9, <1>10
  <1>12. ASSUME NEW i \in E
         PROVE  \E s \in 0 .. n - 1 : new[s].key = i
    <2>1. PICK s \in 0 .. n - 1 : t[s].key = i
      BY <1>3, <1>8, <1>10, KeySlot
    <2> QED
      BY <1>6, <1>10, <2>1
  <1>13. ASSUME NEW s \in 0 .. n - 1, new[s].key \in OrderId
         PROVE  new[s].key \in E /\ g[new[s].key] = new[s].value
    <2>1. t[s].key # key /\ new[s] = t[s]
      BY <1>6, <1>13, Keys
    <2>2. t[s].key \in D /\ f[t[s].key] = t[s].value
      BY <1>3, <1>8, <1>13, <2>1, FlagAt
    <2> QED
      BY <1>10, <1>11, <2>1, <2>2
  <1>14. FlagsOf(new) = g
    BY <1>7, <1>11, <1>12, <1>13, FlagsAre
  <1>15. D = DOMAIN FlagsOf(slots) /\ f = FlagsOf(slots)
    BY <1>2, <1>8, <1>9
  <1>16. g = [i \in DOMAIN FlagsOf(slots) \ {key} |-> FlagsOf(slots)[i]]
    BY <1>10, <1>15
  <1> QED
    BY <1>2, <1>14, <1>16

LEMMA InitFlags ==
  ASSUME Init
  PROVE  FlagsOf(slots) = [i \in {} |-> FALSE]
  <1>1. \A s \in DOMAIN slots : slots[s].key = EMPTY_KEY
    BY DEF Init, EmptySlot
  <1>2. KeysOf(slots) = {}
    BY <1>1, Keys DEF KeysOf
  <1> QED
    BY <1>2 DEF FlagsOf

LEMMA StepFlags ==
  ASSUME Named \cap Reserved = {}, Inv, [Next]_vars
  PROVE  [Promise!Next]_(Promise!vars)
  <1> USE ShownIs
  <1>1. ASSUME NEW key \in OrderId, set(key, FALSE)
        PROVE  Promise!set(key, FALSE)
    <2>1. Shown' = [i \in KeysOf(slots) \union {key} |-> IF i = key THEN FALSE ELSE FlagsOf(slots)[i]]
      BY <1>1, SetFlags
    <2>2. DOMAIN Shown = KeysOf(slots)
      BY DEF FlagsOf
    <2>3. Shown' = [i \in DOMAIN Shown \union {key} |-> IF i = key THEN FALSE ELSE Shown[i]]
      BY <2>1, <2>2
    <2>4. answer' = {}
      BY <1>1 DEF set
    <2> QED
      BY <2>3, <2>4 DEF Promise!set, Shown
  <1>2. ASSUME NEW key \in OrderId, erase(key)
        PROVE  Promise!erase(key)
    <2>1. Shown' = [i \in DOMAIN Shown \ {key} |-> Shown[i]]
      BY <1>2, EraseFlags
    <2>2. answer' = {}
      BY <1>2 DEF erase
    <2> QED
      BY <2>1, <2>2 DEF Promise!erase, Shown
  <1>3. ASSUME NEW key \in Named
        PROVE  /\ key \in Key /\ key \notin Reserved
               /\ {slots[s].value : s \in locate_for_find(slots, key)} =
                    IF key \in DOMAIN Shown THEN {Shown[key]} ELSE {}
    <2>1. key \in Key /\ key \notin Reserved
      BY DEF Key
    <2> QED
      BY <2>1, AnswerIs
  <1>4. ASSUME NEW key \in Named, mark(key)
        PROVE  Promise!mark(key)
    <2>1. Shown' = [i \in DOMAIN Shown |-> i = key \/ Shown[i]]
      BY <1>3, <1>4, MarkFlags
    <2>2. answer' = IF key \in DOMAIN Shown THEN {Shown[key]} ELSE {}
      BY <1>3, <1>4 DEF mark
    <2> QED
      BY <2>1, <2>2 DEF Promise!mark, Promise!Entry, Shown
  <1>5. ASSUME NEW key \in Named, find(key)
        PROVE  Promise!find(key)
    <2>1. Shown' = Shown
      BY <1>5 DEF find
    <2>2. answer' = IF key \in DOMAIN Shown THEN {Shown[key]} ELSE {}
      BY <1>3, <1>5 DEF find
    <2> QED
      BY <2>1, <2>2 DEF Promise!find, Promise!Entry, Shown
  <1>6. CASE UNCHANGED vars
    <2>1. Shown' = Shown /\ answer' = answer
      BY <1>6 DEF vars
    <2> QED
      BY <2>1 DEF Promise!vars, Shown
  <1> QED
    BY <1>1, <1>2, <1>4, <1>5, <1>6 DEF Next, Promise!Next

\* As long as no client asks for a reserved key, set, find, mark and erase do
\* and answer what the map would: a book cannot tell the table from it.
THEOREM TableKeepsPromise ==
  ASSUME Named \cap Reserved = {}
  PROVE  Spec => ImplementsFlagMap
  <1>1. Init => Promise!Init
    <2> SUFFICES ASSUME Init
                 PROVE  Promise!Init
      OBVIOUS
    <2>1. Shown = [i \in {} |-> FALSE]
      BY InitFlags, ShownIs
    <2> QED
      BY <2>1 DEF Init, Promise!Init, Shown
  <1>2. Inv /\ [Next]_vars => [Promise!Next]_(Promise!vars)
    BY StepFlags
  <1> QED
    BY <1>1, <1>2, TableInvariant, PTL DEF Spec, ImplementsFlagMap, Promise!Spec

=============================================================================

--------------------------- MODULE OrderPoolProofs ---------------------------
(***************************************************************************)
(* The pool and the levels of a book, for any number of orders and levels   *)
(* and any capacities. What the model has as links from node to node is     *)
(* shown to be lists that share no node: a list per level and the free one. *)
(***************************************************************************)
EXTENDS OrderPool, SequenceTheorems, TLAPS, FiniteSetTheorems, WellFoundedInduction

\* Module BookLevels assumes these of its constants.
Capacities ==
  /\ ORDER_POOL_MAX_CAP \in Nat
  /\ ORDER_POOL_INITIAL_CAP \in 1 .. ORDER_POOL_MAX_CAP
  /\ ORDER_POOL_GROWTH_CHUNK \in Nat \ {0}
  /\ NIL \notin Index

-----------------------------------------------------------------------------
(* Numbers *)

LEMMA Least ==
  ASSUME NEW S, S \subseteq Nat, S # {}
  PROVE  \E m \in S : \A n \in S : m <= n
  <1>1. PICK m \in S : \A n \in S : <<n, m>> \notin OpToRel(<, Nat)
    BY WFMin, NatLessThanWellFounded
  <1>2. \A n \in S : n < m => <<n, m>> \in OpToRel(<, Nat)
    BY DEF OpToRel
  <1>3. \A n \in S : ~(n < m)
    BY <1>1, <1>2
  <1> QED
    BY <1>3

\* What holds at 0 and is handed on holds as far as it is handed on.
LEMMA Climb ==
  ASSUME NEW n \in Nat, NEW S, 0 \in S, \A m \in 0 .. n - 1 : m \in S => m + 1 \in S
  PROVE  n \in S
  <1> SUFFICES ASSUME n \notin S
               PROVE  FALSE
    OBVIOUS
  <1>1. PICK m \in (0 .. n) \ S : \A k \in (0 .. n) \ S : m <= k
    <2>1. (0 .. n) \ S \subseteq Nat /\ (0 .. n) \ S # {}
      OBVIOUS
    <2> QED
      BY <2>1, Least
  <1>2. m - 1 \in 0 .. n - 1 /\ m = (m - 1) + 1
    BY <1>1
  <1>3. m - 1 \in S
    BY <1>1, <1>2
  <1> QED
    BY <1>1, <1>2, <1>3

\* As many as the numbers they are counted by.
LEMMA Counted ==
  ASSUME NEW n \in Nat, NEW c, NEW S, c \in [1 .. n -> S],
         \A j, k \in 1 .. n : c[j] = c[k] => j = k,
         \A x \in S : \E k \in 1 .. n : c[k] = x
  PROVE  IsFiniteSet(S) /\ Cardinality(S) = n
  <1>1. c \in Bijection(1 .. n, S)
    BY DEF Bijection, Injection, Surjection, IsInjective
  <1>2. ExistsBijection(1 .. n, S)
    BY <1>1 DEF ExistsBijection
  <1>3. IsFiniteSet(1 .. n) /\ Cardinality(1 .. n) = n
    BY FS_Interval
  <1> QED
    BY <1>2, <1>3, FS_Bijection

\* As many as they are paired with.
LEMMA Paired ==
  ASSUME NEW S, NEW T, IsFiniteSet(S), NEW f, f \in [S -> T],
         \A x, y \in S : f[x] = f[y] => x = y,
         \A t \in T : \E x \in S : f[x] = t
  PROVE  IsFiniteSet(T) /\ Cardinality(T) = Cardinality(S)
  <1>1. f \in Bijection(S, T)
    BY DEF Bijection, Injection, Surjection, IsInjective
  <1>2. ExistsBijection(S, T)
    BY <1>1 DEF ExistsBijection
  <1> QED
    BY <1>2, FS_Bijection

\* A list without repetition is no longer than there are nodes for it.
LEMMA Shorter ==
  ASSUME NEW n \in Nat, NEW s \in Nat, NEW c, c \in [1 .. n -> 0 .. s - 1],
         \A j, k \in 1 .. n : c[j] = c[k] => j = k
  PROVE  n <= s
  <1>1. c \in Injection(1 .. n, 0 .. s - 1)
    BY DEF Injection, IsInjective
  <1>2. IsFiniteSet(1 .. n) /\ Cardinality(1 .. n) = n
    BY FS_Interval
  <1>3. IsFiniteSet(0 .. s - 1) /\ Cardinality(0 .. s - 1) = s
    BY FS_Interval
  <1> QED
    BY <1>1, <1>2, <1>3, FS_Injection

-----------------------------------------------------------------------------
(* Walks *)

\* A walk of n steps from i is any sequence that starts there and follows.
Follows(i, n, c) ==
  /\ c = [k \in 1 .. n |-> c[k]]
  /\ n > 0 => c[1] = i
  /\ \A k \in 1 .. n : k # 1 => c[k] = Following(c[k - 1])

LEMMA WalkIs ==
  ASSUME NEW i, NEW n \in Nat, NEW c, Follows(i, n, c)
  PROVE  Walk(i, n) = c
  <1> USE DEF Follows
  <1> DEFINE Step(f) == f = [k \in 1 .. n |-> IF k = 1 THEN i ELSE Following(f[k - 1])]
  <1>1. Step(c)
    <2>1. ASSUME NEW k \in 1 .. n
          PROVE  c[k] = IF k = 1 THEN i ELSE Following(c[k - 1])
      <3>1. n > 0
        OBVIOUS
      <3> QED
        BY <3>1
    <2> QED
      BY <2>1
  <1>2. PICK w : w = CHOOSE f : Step(f)
    OBVIOUS
  <1>3. Walk(i, n) = w
    BY <1>2 DEF Walk
  <1>4. Step(w)
    BY <1>1, <1>2
  <1>5. \A k \in 1 .. n : w[k] = IF k = 1 THEN i ELSE Following(w[k - 1])
    BY <1>4
  <1> HIDE DEF Step
  <1> DEFINE Agrees(m) == \A j \in 1 .. m : w[j] = c[j]
             S == {m \in 0 .. n : Agrees(m)}
  <1>6. 0 \in S
    OBVIOUS
  <1>7. ASSUME NEW k \in 0 .. n - 1, k \in S
        PROVE  k + 1 \in S
    <2>1. w[k + 1] = c[k + 1]
      <3>1. CASE k = 0
        BY <1>5, <3>1
      <3>2. CASE k > 0
        <4>1. w[k] = c[k] /\ k + 1 \in 1 .. n /\ k + 1 # 1 /\ (k + 1) - 1 = k
          BY <1>7, <3>2
        <4>2. w[k + 1] = Following(w[k])
          BY <1>5, <4>1
        <4>3. c[k + 1] = Following(c[k])
          BY <4>1
        <4> QED
          BY <4>1, <4>2, <4>3
      <3> QED
        BY <3>1, <3>2
    <2>2. \A j \in 1 .. k + 1 : j \in 1 .. k \/ j = k + 1
      OBVIOUS
    <2>3. \A j \in 1 .. k : w[j] = c[j]
      BY <1>7
    <2>4. Agrees(k + 1)
      BY <2>1, <2>2, <2>3
    <2>5. k + 1 \in 0 .. n
      OBVIOUS
    <2> HIDE DEF Agrees
    <2> QED
      BY <2>4, <2>5
  <1> HIDE DEF S
  <1>8. n \in S
    BY <1>6, <1>7, Climb
  <1>9. w = [k \in 1 .. n |-> w[k]]
    BY <1>4 DEF Step
  <1>10. w = c
    BY <1>8, <1>9 DEF S
  <1> QED
    BY <1>3, <1>10

-----------------------------------------------------------------------------
(* Lists *)

\* c has the n nodes of the list that starts at head.
List(ns, c, n, head) ==
  /\ n \in Nat
  /\ c \in [1 .. n -> DOMAIN ns]
  /\ head = IF n = 0 THEN NIL ELSE c[1]
  /\ \A k \in 1 .. n : ns[c[k]].next = IF k = n THEN NIL ELSE c[k + 1]

\* The free list is f, of m nodes.
FreeList(ns, free, f, m) ==
  List(ns, f, m, free) /\ \A j, k \in 1 .. m : f[j] = f[k] => j = k

\* The queue of each level is q[l].
Queues(ns, lv, q) ==
  \A l \in Level :
    /\ List(ns, q[l], lv[l].count, lv[l].head)
    /\ lv[l].tail = IF lv[l].count = 0 THEN NIL ELSE q[l][lv[l].count]

\* No node is in two places.
Apart(lv, q, f, m) ==
  /\ \A l \in Level : \A k \in 1 .. lv[l].count, j \in 1 .. m : q[l][k] # f[j]
  /\ \A l, x \in Level : \A k \in 1 .. lv[l].count, j \in 1 .. lv[x].count :
       q[l][k] = q[x][j] => l = x /\ k = j

\* Every node is in some place.
Covered(ns, lv, q, f, m) ==
  \A i \in DOMAIN ns : \/ \E j \in 1 .. m : f[j] = i
                       \/ \E l \in Level : \E k \in 1 .. lv[l].count : q[l][k] = i

\* Every node of a queue has an order, which no other has.
Filled(ns, lv, q) ==
  /\ \A l \in Level : \A k \in 1 .. lv[l].count : ns[q[l][k]].order \in Order
  /\ \A l, x \in Level : \A k \in 1 .. lv[l].count, j \in 1 .. lv[x].count :
       ns[q[l][k]].order = ns[q[x][j]].order => l = x /\ k = j

Whole(ns, lv, free, q, f, m) ==
  /\ NIL \notin DOMAIN ns
  /\ FreeList(ns, free, f, m) /\ Queues(ns, lv, q)
  /\ Apart(lv, q, f, m) /\ Covered(ns, lv, q, f, m) /\ Filled(ns, lv, q)

LEMMA OnePlace ==
  ASSUME NEW lv, NEW q, NEW f, NEW m, Apart(lv, q, f, m), NEW l \in Level, NEW x \in Level,
         NEW k \in 1 .. lv[l].count, NEW j \in 1 .. lv[x].count, q[l][k] = q[x][j]
  PROVE  l = x /\ k = j
  BY DEF Apart

LEMMA OneOrder ==
  ASSUME NEW ns, NEW lv, NEW q, Filled(ns, lv, q), NEW l \in Level, NEW x \in Level,
         NEW k \in 1 .. lv[l].count, NEW j \in 1 .. lv[x].count,
         ns[q[l][k]].order = ns[q[x][j]].order
  PROVE  l = x /\ k = j
  BY DEF Filled

\* A list stays one as long as its nodes lead where they led.
LEMMA SameList ==
  ASSUME NEW ns, NEW c, NEW n, NEW head, List(ns, c, n, head),
         NEW ns2, DOMAIN ns \subseteq DOMAIN ns2,
         \A k \in 1 .. n : ns2[c[k]].next = ns[c[k]].next
  PROVE  List(ns2, c, n, head)
  BY DEF List

\* The first node of the free list, with an order in it, is put at the end of
\* the queue of a level.
LEMMA PushWhole ==
  ASSUME NEW ns, NEW lv, NEW free, NEW q, NEW f, NEW m, Whole(ns, lv, free, q, f, m),
         NEW l \in Level, NEW o \in Order, NEW n, n = lv[l].count, m > 0,
         \A x \in Level : \A k \in 1 .. lv[x].count : ns[q[x][k]].order # o,
         NEW ns2, DOMAIN ns2 = DOMAIN ns,
         ns2[free].order = o, ns2[free].next = NIL,
         n > 0 => ns2[lv[l].tail].next = free,
         \A i \in DOMAIN ns : i # free => ns2[i].order = ns[i].order,
         \A i \in DOMAIN ns : i # free /\ i # lv[l].tail => ns2[i].next = ns[i].next,
         NEW lv2, lv2[l].count = n + 1, lv2[l].tail = free,
         lv2[l].head = IF n = 0 THEN free ELSE lv[l].head,
         \A x \in Level : x # l => lv2[x] = lv[x],
         NEW q2, q2[l] = [k \in 1 .. n + 1 |-> IF k = n + 1 THEN free ELSE q[l][k]],
         \A x \in Level : x # l => q2[x] = q[x],
         NEW f2, f2 = [k \in 1 .. m - 1 |-> f[k + 1]]
  PROVE  Whole(ns2, lv2, ns[free].next, q2, f2, m - 1)
  <1>1. /\ m \in Nat /\ f \in [1 .. m -> DOMAIN ns] /\ free = f[1] /\ free \in DOMAIN ns
        /\ \A k \in 1 .. m : ns[f[k]].next = IF k = m THEN NIL ELSE f[k + 1]
        /\ \A j, k \in 1 .. m : f[j] = f[k] => j = k
    BY DEF Whole, FreeList, List
  <1>2. ASSUME NEW x \in Level
        PROVE  /\ lv[x].count \in Nat /\ q[x] \in [1 .. lv[x].count -> DOMAIN ns]
               /\ lv[x].head = IF lv[x].count = 0 THEN NIL ELSE q[x][1]
               /\ \A k \in 1 .. lv[x].count :
                    ns[q[x][k]].next = IF k = lv[x].count THEN NIL ELSE q[x][k + 1]
               /\ lv[x].tail = IF lv[x].count = 0 THEN NIL ELSE q[x][lv[x].count]
    BY DEF Whole, Queues, List
  <1>3. /\ \A x \in Level : \A k \in 1 .. lv[x].count : q[x][k] # free
        /\ \A x \in Level : \A k \in 1 .. lv[x].count, j \in 1 .. m : q[x][k] # f[j]
        /\ \A x, y \in Level : \A k \in 1 .. lv[x].count, j \in 1 .. lv[y].count :
             q[x][k] = q[y][j] => x = y /\ k = j
    BY <1>1 DEF Whole, Apart
  <1>4. NIL \notin DOMAIN ns2 /\ n \in Nat
    BY <1>2 DEF Whole
  <1>5. FreeList(ns2, ns[free].next, f2, m - 1)
    <2>1. m - 1 \in Nat /\ f2 \in [1 .. m - 1 -> DOMAIN ns2]
      BY <1>1
    <2>2. ns[free].next = IF m - 1 = 0 THEN NIL ELSE f2[1]
      BY <1>1
    <2>3. ASSUME NEW k \in 1 .. m - 1
          PROVE  ns2[f2[k]].next = IF k = m - 1 THEN NIL ELSE f2[k + 1]
      <3>1. f2[k] = f[k + 1] /\ k + 1 \in 1 .. m /\ k + 1 # 1
        BY <1>1
      <3>2. f2[k] # free /\ f2[k] \in DOMAIN ns
        BY <1>1, <3>1
      <3>3. f2[k] # lv[l].tail
        BY <1>2, <1>3, <1>4, <3>1, <3>2 DEF Whole
      <3>4. ns2[f2[k]].next = ns[f[k + 1]].next
        BY <3>1, <3>2, <3>3
      <3> QED
        BY <1>1, <3>1, <3>4
    <2>4. \A j, k \in 1 .. m - 1 : f2[j] = f2[k] => j = k
      BY <1>1
    <2> QED
      BY <2>1, <2>2, <2>3, <2>4 DEF FreeList, List
  <1>6. ASSUME NEW x \in Level, x # l
        PROVE  /\ List(ns2, q2[x], lv2[x].count, lv2[x].head)
               /\ lv2[x].tail = IF lv2[x].count = 0 THEN NIL ELSE q2[x][lv2[x].count]
    <2>1. lv2[x] = lv[x] /\ q2[x] = q[x]
      BY <1>6
    <2>2. ASSUME NEW k \in 1 .. lv[x].count
          PROVE  ns2[q[x][k]].next = ns[q[x][k]].next
      <3>1. q[x][k] \in DOMAIN ns /\ q[x][k] # free
        BY <1>2, <1>3
      <3>2. q[x][k] # lv[l].tail
        BY <1>2, <1>3, <1>4, <1>6, <3>1 DEF Whole
      <3> QED
        BY <3>1, <3>2
    <2> QED
      BY <1>2, <2>1, <2>2 DEF List
  <1>7. /\ List(ns2, q2[l], lv2[l].count, lv2[l].head)
        /\ lv2[l].tail = IF lv2[l].count = 0 THEN NIL ELSE q2[l][lv2[l].count]
    <2>1. q2[l] \in [1 .. n + 1 -> DOMAIN ns2] /\ n + 1 \in Nat
      BY <1>1, <1>2, <1>4
    <2>2. lv2[l].head = IF n + 1 = 0 THEN NIL ELSE q2[l][1]
      BY <1>2, <1>4
    <2>3. ASSUME NEW k \in 1 .. n + 1
          PROVE  ns2[q2[l][k]].next = IF k = n + 1 THEN NIL ELSE q2[l][k + 1]
      <3>1. CASE k = n + 1
        BY <3>1
      <3>2. CASE k = n
        <4>1. q2[l][k] = lv[l].tail /\ n > 0 /\ q2[l][k + 1] = free
          BY <1>2, <1>4, <3>2
        <4> QED
          BY <1>4, <3>2, <4>1
      <3>3. CASE k < n
        <4>1. q2[l][k] = q[l][k] /\ q2[l][k + 1] = q[l][k + 1] /\ k \in 1 .. n
          BY <1>4, <3>3
        <4>2. q[l][k] \in DOMAIN ns /\ q[l][k] # free
          BY <1>2, <1>3, <4>1
        <4>3. q[l][k] # lv[l].tail
          BY <1>2, <1>3, <1>4, <3>3, <4>1
        <4>4. ns2[q[l][k]].next = ns[q[l][k]].next
          BY <4>2, <4>3
        <4>5. ns[q[l][k]].next = q[l][k + 1]
          BY <1>2, <3>3, <4>1
        <4> QED
          BY <1>4, <3>3, <4>1, <4>4, <4>5
      <3> QED
        BY <1>4, <3>1, <3>2, <3>3
    <2>4. lv2[l].tail = q2[l][n + 1]
      BY <1>4
    <2>5. List(ns2, q2[l], n + 1, lv2[l].head)
      BY <2>1, <2>2, <2>3 DEF List
    <2>6. lv2[l].count = n + 1 /\ n + 1 # 0
      BY <1>4
    <2> QED
      BY <2>4, <2>5, <2>6, Zenon
  <1>8. Queues(ns2, lv2, q2)
    BY <1>6, <1>7 DEF Queues
  <1>9. ASSUME NEW x \in Level, NEW k \in 1 .. lv2[x].count
        PROVE  \/ x = l /\ k = n + 1 /\ q2[x][k] = free
               \/ k \in 1 .. lv[x].count /\ q2[x][k] = q[x][k] /\ q2[x][k] # free
    <2>1. CASE x # l
      BY <1>3, <2>1
    <2>2. CASE x = l
      BY <1>3, <1>4, <2>2
    <2> QED
      BY <2>1, <2>2
  <1>10. Apart(lv2, q2, f2, m - 1)
    <2>1. ASSUME NEW x \in Level, NEW k \in 1 .. lv2[x].count, NEW j \in 1 .. m - 1
          PROVE  q2[x][k] # f2[j]
      <3>1. f2[j] = f[j + 1] /\ j + 1 \in 1 .. m /\ f2[j] # free
        BY <1>1
      <3> QED
        BY <1>3, <1>9, <3>1
    <2>2. ASSUME NEW x \in Level, NEW y \in Level,
                 NEW k \in 1 .. lv2[x].count, NEW j \in 1 .. lv2[y].count, q2[x][k] = q2[y][j]
          PROVE  x = y /\ k = j
      <3>1. CASE q2[x][k] = free
        <4>1. x = l /\ k = n + 1
          BY <1>9, <3>1
        <4>2. y = l /\ j = n + 1
          BY <1>9, <2>2, <3>1
        <4> QED
          BY <4>1, <4>2
      <3>2. CASE q2[x][k] # free
        <4>1. k \in 1 .. lv[x].count /\ q2[x][k] = q[x][k]
          BY <1>9, <3>2
        <4>2. j \in 1 .. lv[y].count /\ q2[y][j] = q[y][j]
          BY <1>9, <2>2, <3>2
        <4>3. q[x][k] = q[y][j]
          BY <2>2, <4>1, <4>2
        <4> QED
          BY <4>1, <4>2, <4>3, OnePlace DEF Whole
      <3> QED
        BY <3>1, <3>2
    <2> QED
      BY <2>1, <2>2 DEF Apart
  <1>11. Covered(ns2, lv2, q2, f2, m - 1)
    <2> SUFFICES ASSUME NEW i \in DOMAIN ns
                 PROVE  \/ \E j \in 1 .. m - 1 : f2[j] = i
                        \/ \E x \in Level : \E k \in 1 .. lv2[x].count : q2[x][k] = i
      BY DEF Covered
    <2>1. CASE \E j \in 1 .. m : f[j] = i
      <3>1. PICK j \in 1 .. m : f[j] = i
        BY <2>1
      <3>2. CASE j = 1
        <4>1. q2[l][n + 1] = i /\ n + 1 \in 1 .. lv2[l].count
          BY <1>1, <1>4, <3>1, <3>2
        <4> QED
          BY <4>1
      <3>3. CASE j # 1
        <4>1. j - 1 \in 1 .. m - 1 /\ f2[j - 1] = i
          BY <1>1, <3>1, <3>3
        <4> QED
          BY <4>1
      <3> QED
        BY <3>2, <3>3
    <2>2. CASE \E x \in Level : \E k \in 1 .. lv[x].count : q[x][k] = i
      <3>1. PICK x \in Level : \E k \in 1 .. lv[x].count : q[x][k] = i
        BY <2>2
      <3>2. PICK k \in 1 .. lv[x].count : q[x][k] = i
        BY <3>1
      <3>3. k \in 1 .. lv2[x].count /\ q2[x][k] = i
        BY <1>4, <3>2
      <3> QED
        BY <3>3
    <2> QED
      BY <2>1, <2>2 DEF Whole, Covered
  <1>12. Filled(ns2, lv2, q2)
    <2>1. ASSUME NEW x \in Level, NEW k \in 1 .. lv2[x].count
          PROVE  \/ x = l /\ k = n + 1 /\ ns2[q2[x][k]].order = o
                 \/ /\ k \in 1 .. lv[x].count
                    /\ ns2[q2[x][k]].order = ns[q[x][k]].order
                    /\ ns2[q2[x][k]].order # o
      <3>1. CASE q2[x][k] = free
        BY <1>9, <3>1
      <3>2. CASE q2[x][k] # free
        <4>1. k \in 1 .. lv[x].count /\ q2[x][k] = q[x][k]
          BY <1>9, <3>2
        <4>2. q[x][k] \in DOMAIN ns
          BY <1>2, <4>1
        <4> QED
          BY <3>2, <4>1, <4>2
      <3> QED
        BY <3>1, <3>2
    <2>2. /\ \A x \in Level : \A k \in 1 .. lv[x].count : ns[q[x][k]].order \in Order
          /\ \A x, y \in Level : \A k \in 1 .. lv[x].count, j \in 1 .. lv[y].count :
               ns[q[x][k]].order = ns[q[y][j]].order => x = y /\ k = j
      BY DEF Whole, Filled
    <2>3. ASSUME NEW x \in Level, NEW k \in 1 .. lv2[x].count
          PROVE  ns2[q2[x][k]].order \in Order
      BY <2>1, <2>2
    <2>4. ASSUME NEW x \in Level, NEW y \in Level,
                 NEW k \in 1 .. lv2[x].count, NEW j \in 1 .. lv2[y].count,
                 ns2[q2[x][k]].order = ns2[q2[y][j]].order
          PROVE  x = y /\ k = j
      <3>1. CASE ns2[q2[x][k]].order = o
        <4>1. x = l /\ k = n + 1
          BY <2>1, <3>1
        <4>2. y = l /\ j = n + 1
          BY <2>1, <2>4, <3>1
        <4> QED
          BY <4>1, <4>2
      <3>2. CASE ns2[q2[x][k]].order # o
        <4>1. k \in 1 .. lv[x].count /\ ns2[q2[x][k]].order = ns[q[x][k]].order
          BY <2>1, <3>2
        <4>2. j \in 1 .. lv[y].count /\ ns2[q2[y][j]].order = ns[q[y][j]].order
          BY <2>1, <2>4, <3>2
        <4>3. ns[q[x][k]].order = ns[q[y][j]].order
          BY <2>4, <4>1, <4>2
        <4> QED
          BY <4>1, <4>2, <4>3, OneOrder DEF Whole
      <3> QED
        BY <3>1, <3>2
    <2> QED
      BY <2>3, <2>4 DEF Filled
  <1> QED
    BY <1>4, <1>5, <1>8, <1>10, <1>11, <1>12 DEF Whole
\* The front node of the queue of a level is put at the head of the free list.
LEMMA PopWhole ==
  ASSUME NEW ns, NEW lv, NEW free, NEW q, NEW f, NEW m, Whole(ns, lv, free, q, f, m),
         NEW l \in Level, NEW n, n = lv[l].count, n > 0, NEW i, i = lv[l].head,
         NEW ns2, DOMAIN ns2 = DOMAIN ns, ns2[i].next = free,
         \A j \in DOMAIN ns : ns2[j].order = ns[j].order,
         \A j \in DOMAIN ns : j # i => ns2[j].next = ns[j].next,
         NEW lv2, lv2[l].count = n - 1, lv2[l].head = ns[i].next,
         lv2[l].tail = IF ns[i].next = NIL THEN NIL ELSE lv[l].tail,
         \A x \in Level : x # l => lv2[x] = lv[x],
         NEW q2, q2[l] = [k \in 1 .. n - 1 |-> q[l][k + 1]],
         \A x \in Level : x # l => q2[x] = q[x],
         NEW f2, f2 = [k \in 1 .. m + 1 |-> IF k = 1 THEN i ELSE f[k - 1]]
  PROVE  Whole(ns2, lv2, i, q2, f2, m + 1)
  <1>1. /\ m \in Nat /\ f \in [1 .. m -> DOMAIN ns] /\ free = IF m = 0 THEN NIL ELSE f[1]
        /\ \A k \in 1 .. m : ns[f[k]].next = IF k = m THEN NIL ELSE f[k + 1]
        /\ \A j, k \in 1 .. m : f[j] = f[k] => j = k
    BY DEF Whole, FreeList, List
  <1>2. ASSUME NEW x \in Level
        PROVE  /\ lv[x].count \in Nat /\ q[x] \in [1 .. lv[x].count -> DOMAIN ns]
               /\ lv[x].head = IF lv[x].count = 0 THEN NIL ELSE q[x][1]
               /\ \A k \in 1 .. lv[x].count :
                    ns[q[x][k]].next = IF k = lv[x].count THEN NIL ELSE q[x][k + 1]
               /\ lv[x].tail = IF lv[x].count = 0 THEN NIL ELSE q[x][lv[x].count]
    BY DEF Whole, Queues, List
  <1>3. n \in Nat /\ 1 \in 1 .. n /\ i = q[l][1] /\ i \in DOMAIN ns /\ NIL \notin DOMAIN ns
    BY <1>2 DEF Whole
  <1>4. \A x \in Level : \A k \in 1 .. lv[x].count, j \in 1 .. m : q[x][k] # f[j]
    BY DEF Whole, Apart
  <1>5. ASSUME NEW x \in Level, NEW k \in 1 .. lv[x].count, q[x][k] = i
        PROVE  x = l /\ k = 1
    BY <1>3, <1>5, OnePlace DEF Whole
  <1>6. ASSUME NEW x \in Level, NEW k \in 1 .. lv2[x].count
        PROVE  /\ \/ x = l /\ k + 1 \in 1 .. lv[x].count /\ q2[x][k] = q[x][k + 1]
                  \/ x # l /\ k \in 1 .. lv[x].count /\ q2[x][k] = q[x][k]
               /\ q2[x][k] # i /\ q2[x][k] \in DOMAIN ns
    <2>1. CASE x # l
      <3>1. k \in 1 .. lv[x].count /\ q2[x][k] = q[x][k]
        BY <2>1
      <3>2. q[x][k] # i
        BY <1>5, <2>1, <3>1
      <3>3. q[x][k] \in DOMAIN ns
        BY <1>2, <3>1
      <3> QED
        BY <2>1, <3>1, <3>2, <3>3
    <2>2. CASE x = l
      <3>1. k \in 1 .. n - 1 /\ k + 1 \in 1 .. n /\ k + 1 # 1
        BY <1>3, <2>2
      <3>2. q2[x][k] = q[x][k + 1]
        BY <2>2, <3>1
      <3> QED
        BY <1>2, <1>5, <2>2, <3>1, <3>2
    <2> QED
      BY <2>1, <2>2
  <1>7. FreeList(ns2, i, f2, m + 1)
    <2>1. m + 1 \in Nat /\ f2 \in [1 .. m + 1 -> DOMAIN ns2]
      BY <1>1, <1>3
    <2>2. i = IF m + 1 = 0 THEN NIL ELSE f2[1]
      BY <1>1
    <2>3. ASSUME NEW k \in 1 .. m + 1
          PROVE  ns2[f2[k]].next = IF k = m + 1 THEN NIL ELSE f2[k + 1]
      <3>1. CASE k = 1
        <4>1. f2[k] = i /\ ns2[f2[k]].next = free
          BY <3>1
        <4>2. m # 0 => f2[k + 1] = f[1]
          BY <1>1, <3>1
        <4> QED
          BY <1>1, <3>1, <4>1, <4>2
      <3>2. CASE k # 1
        <4>1. k - 1 \in 1 .. m /\ f2[k] = f[k - 1]
          BY <1>1, <3>2
        <4>2. f[k - 1] # i /\ f[k - 1] \in DOMAIN ns
          BY <1>1, <1>3, <1>4, <4>1
        <4>3. ns2[f2[k]].next = ns[f[k - 1]].next
          BY <4>1, <4>2
        <4>4. k # m + 1 => f2[k + 1] = f[k]
          BY <1>1, <3>2
        <4> QED
          BY <1>1, <4>1, <4>3, <4>4
      <3> QED
        BY <3>1, <3>2
    <2>4. ASSUME NEW j \in 1 .. m + 1, NEW k \in 1 .. m + 1, f2[j] = f2[k]
          PROVE  j = k
      <3>1. ASSUME NEW a \in 1 .. m + 1, a # 1
            PROVE  a - 1 \in 1 .. m /\ f2[a] = f[a - 1] /\ f2[a] # i
        <4>1. a - 1 \in 1 .. m /\ f2[a] = f[a - 1]
          BY <1>1, <3>1
        <4> QED
          BY <1>3, <1>4, <4>1
      <3>2. f2[1] = i
        BY <1>1
      <3>3. CASE j = 1 \/ k = 1
        BY <2>4, <3>1, <3>2, <3>3
      <3>4. CASE j # 1 /\ k # 1
        <4>1. f[j - 1] = f[k - 1] /\ j - 1 \in 1 .. m /\ k - 1 \in 1 .. m
          BY <2>4, <3>1, <3>4
        <4>2. j - 1 = k - 1
          BY <1>1, <4>1
        <4> QED
          BY <1>1, <4>2
      <3> QED
        BY <3>3, <3>4
    <2> QED
      BY <2>1, <2>2, <2>3, <2>4 DEF FreeList, List
  <1>8. ASSUME NEW x \in Level, x # l
        PROVE  /\ List(ns2, q2[x], lv2[x].count, lv2[x].head)
               /\ lv2[x].tail = IF lv2[x].count = 0 THEN NIL ELSE q2[x][lv2[x].count]
    <2>1. lv2[x] = lv[x] /\ q2[x] = q[x]
      BY <1>8
    <2>2. ASSUME NEW k \in 1 .. lv[x].count
          PROVE  ns2[q[x][k]].next = ns[q[x][k]].next
      BY <1>2, <1>5, <1>8
    <2>3. List(ns, q[x], lv[x].count, lv[x].head)
      BY DEF Whole, Queues
    <2>4. List(ns2, q[x], lv[x].count, lv[x].head)
      BY <2>2, <2>3, SameList
    <2>5. lv[x].tail = IF lv[x].count = 0 THEN NIL ELSE q[x][lv[x].count]
      BY <1>2
    <2> QED
      BY <2>1, <2>4, <2>5, Zenon
  <1>9. /\ List(ns2, q2[l], lv2[l].count, lv2[l].head)
        /\ lv2[l].tail = IF lv2[l].count = 0 THEN NIL ELSE q2[l][lv2[l].count]
    <2>1. q2[l] \in [1 .. n - 1 -> DOMAIN ns2] /\ n - 1 \in Nat
      <3>1. \A k \in 1 .. n - 1 : k + 1 \in 1 .. n
        BY <1>3
      <3>2. q[l] \in [1 .. n -> DOMAIN ns]
        BY <1>2
      <3>3. \A k \in 1 .. n - 1 : q[l][k + 1] \in DOMAIN ns2
        BY <3>1, <3>2
      <3>4. n - 1 \in Nat
        BY <1>3
      <3> QED
        BY <3>3, <3>4
    <2>2. ns[i].next = IF n = 1 THEN NIL ELSE q[l][2]
      BY <1>2, <1>3
    <2>3. lv2[l].head = IF n - 1 = 0 THEN NIL ELSE q2[l][1]
      BY <1>3, <2>2
    <2>4. ASSUME NEW k \in 1 .. n - 1
          PROVE  ns2[q2[l][k]].next = IF k = n - 1 THEN NIL ELSE q2[l][k + 1]
      <3>1. q2[l][k] = q[l][k + 1] /\ k + 1 \in 1 .. n /\ k + 1 # 1
        BY <1>3
      <3>2. q[l][k + 1] \in DOMAIN ns /\ q[l][k + 1] # i
        BY <1>2, <1>5, <3>1
      <3>3. ns2[q2[l][k]].next = ns[q[l][k + 1]].next
        BY <3>1, <3>2
      <3>4. ns[q[l][k + 1]].next = IF k + 1 = n THEN NIL ELSE q[l][(k + 1) + 1]
        BY <1>2, <3>1
      <3>5. k # n - 1 => q2[l][k + 1] = q[l][(k + 1) + 1]
        BY <1>3
      <3> QED
        BY <1>3, <3>3, <3>4, <3>5
    <2>5. List(ns2, q2[l], n - 1, lv2[l].head)
      BY <2>1, <2>3, <2>4 DEF List
    <2>6. lv2[l].tail = IF n - 1 = 0 THEN NIL ELSE q2[l][n - 1]
      <3>1. CASE n = 1
        BY <1>3, <2>2, <3>1
      <3>2. CASE n # 1
        <4>1. 2 \in 1 .. n /\ q[l][2] \in DOMAIN ns
          BY <1>2, <1>3, <3>2
        <4>2. ns[i].next # NIL
          BY <1>3, <2>2, <3>2, <4>1
        <4>3. lv2[l].tail = q[l][n]
          BY <1>2, <1>3, <4>2
        <4>4. q2[l][n - 1] = q[l][n]
          BY <1>3, <3>2
        <4> QED
          BY <1>3, <3>2, <4>3, <4>4
      <3> QED
        BY <3>1, <3>2
    <2> QED
      BY <2>5, <2>6
  <1>10. Queues(ns2, lv2, q2)
    BY <1>8, <1>9 DEF Queues
  <1>11. Apart(lv2, q2, f2, m + 1)
    <2>1. ASSUME NEW x \in Level, NEW k \in 1 .. lv2[x].count, NEW j \in 1 .. m + 1
          PROVE  q2[x][k] # f2[j]
      <3>1. CASE j = 1
        BY <1>6, <3>1
      <3>2. CASE j # 1
        <4>1. j - 1 \in 1 .. m /\ f2[j] = f[j - 1]
          BY <1>1, <3>2
        <4>2. \E a \in 1 .. lv[x].count : q2[x][k] = q[x][a]
          BY <1>6
        <4> QED
          BY <1>4, <4>1, <4>2
      <3> QED
        BY <3>1, <3>2
    <2>2. ASSUME NEW x \in Level, NEW y \in Level,
                 NEW k \in 1 .. lv2[x].count, NEW j \in 1 .. lv2[y].count, q2[x][k] = q2[y][j]
          PROVE  x = y /\ k = j
      <3>1. PICK a \in 1 .. lv[x].count : q2[x][k] = q[x][a] /\ a = IF x = l THEN k + 1 ELSE k
        BY <1>6
      <3>2. PICK b \in 1 .. lv[y].count : q2[y][j] = q[y][b] /\ b = IF y = l THEN j + 1 ELSE j
        BY <1>6
      <3>3. q[x][a] = q[y][b]
        BY <2>2, <3>1, <3>2
      <3>4. x = y /\ a = b
        BY <3>3, OnePlace DEF Whole
      <3>5. k \in Int /\ j \in Int
        OBVIOUS
      <3> QED
        BY <3>1, <3>2, <3>4, <3>5
    <2> QED
      BY <2>1, <2>2 DEF Apart
  <1>12. Covered(ns2, lv2, q2, f2, m + 1)
    <2> SUFFICES ASSUME NEW a \in DOMAIN ns
                 PROVE  \/ \E j \in 1 .. m + 1 : f2[j] = a
                        \/ \E x \in Level : \E k \in 1 .. lv2[x].count : q2[x][k] = a
      BY DEF Covered
    <2>1. CASE \E j \in 1 .. m : f[j] = a
      <3>1. PICK j \in 1 .. m : f[j] = a
        BY <2>1
      <3>2. j + 1 \in 1 .. m + 1 /\ f2[j + 1] = a
        BY <1>1, <3>1
      <3> QED
        BY <3>2
    <2>2. CASE \E x \in Level : \E k \in 1 .. lv[x].count : q[x][k] = a
      <3>1. PICK x \in Level : \E k \in 1 .. lv[x].count : q[x][k] = a
        BY <2>2
      <3>2. PICK k \in 1 .. lv[x].count : q[x][k] = a
        BY <3>1
      <3>3. CASE x # l
        <4>1. k \in 1 .. lv2[x].count /\ q2[x][k] = a
          BY <3>2, <3>3
        <4> QED
          BY <4>1
      <3>4. CASE x = l /\ k = 1
        <4>1. 1 \in 1 .. m + 1 /\ f2[1] = a
          BY <1>1, <1>3, <3>2, <3>4
        <4> QED
          BY <4>1
      <3>5. CASE x = l /\ k # 1
        <4>1. k - 1 \in 1 .. n - 1 /\ q2[l][k - 1] = a
          BY <1>3, <3>2, <3>5
        <4>2. k - 1 \in 1 .. lv2[l].count
          BY <4>1
        <4> QED
          BY <4>1, <4>2
      <3> QED
        BY <3>3, <3>4, <3>5
    <2> QED
      BY <2>1, <2>2 DEF Whole, Covered
  <1>13. Filled(ns2, lv2, q2)
    <2>1. ASSUME NEW x \in Level, NEW k \in 1 .. lv2[x].count
          PROVE  ns2[q2[x][k]].order = ns[q2[x][k]].order
      BY <1>6
    <2>2. ASSUME NEW x \in Level, NEW k \in 1 .. lv2[x].count
          PROVE  ns2[q2[x][k]].order \in Order
      <3>1. PICK a \in 1 .. lv[x].count : q2[x][k] = q[x][a]
        BY <1>6
      <3> QED
        BY <2>1, <3>1 DEF Whole, Filled
    <2>3. ASSUME NEW x \in Level, NEW y \in Level,
                 NEW k \in 1 .. lv2[x].count, NEW j \in 1 .. lv2[y].count,
                 ns2[q2[x][k]].order = ns2[q2[y][j]].order
          PROVE  x = y /\ k = j
      <3>1. PICK a \in 1 .. lv[x].count : q2[x][k] = q[x][a] /\ a = IF x = l THEN k + 1 ELSE k
        BY <1>6
      <3>2. PICK b \in 1 .. lv[y].count : q2[y][j] = q[y][b] /\ b = IF y = l THEN j + 1 ELSE j
        BY <1>6
      <3>3. ns[q[x][a]].order = ns[q[y][b]].order
        <4>1. ns2[q2[x][k]].order = ns[q[x][a]].order
          BY <2>1, <3>1
        <4>2. ns2[q2[y][j]].order = ns[q[y][b]].order
          BY <2>1, <3>2
        <4> QED
          BY <2>3, <4>1, <4>2
      <3>4. x = y /\ a = b
        BY <3>3, OneOrder DEF Whole
      <3>5. k \in Int /\ j \in Int
        OBVIOUS
      <3> QED
        BY <3>1, <3>2, <3>4, <3>5
    <2> QED
      BY <2>2, <2>3 DEF Filled
  <1> QED
    BY <1>3, <1>7, <1>10, <1>11, <1>12, <1>13 DEF Whole

\* A vector without a free node gets c nodes more, which become the free list.
LEMMA SupplyWhole ==
  ASSUME NEW ns, NEW lv, NEW q, NEW f, Whole(ns, lv, NIL, q, f, 0),
         NEW s \in Nat, NEW c \in Nat, c > 0, DOMAIN ns = 0 .. s - 1,
         NEW ns2, DOMAIN ns2 = 0 .. s + c - 1, NIL \notin DOMAIN ns2,
         \A i \in DOMAIN ns : ns2[i] = ns[i],
         \A i \in s .. s + c - 1 : ns2[i].next = IF i = s + c - 1 THEN NIL ELSE i + 1,
         NEW f2, f2 = [k \in 1 .. c |-> s + k - 1]
  PROVE  Whole(ns2, lv, s, q, f2, c)
  <1>1. ASSUME NEW x \in Level
        PROVE  /\ lv[x].count \in Nat /\ q[x] \in [1 .. lv[x].count -> DOMAIN ns]
               /\ lv[x].head = IF lv[x].count = 0 THEN NIL ELSE q[x][1]
               /\ \A k \in 1 .. lv[x].count :
                    ns[q[x][k]].next = IF k = lv[x].count THEN NIL ELSE q[x][k + 1]
               /\ lv[x].tail = IF lv[x].count = 0 THEN NIL ELSE q[x][lv[x].count]
    BY DEF Whole, Queues, List
  <1>2. FreeList(ns2, s, f2, c)
    <2>1. f2 \in [1 .. c -> DOMAIN ns2]
      OBVIOUS
    <2>2. s = IF c = 0 THEN NIL ELSE f2[1]
      OBVIOUS
    <2>3. ASSUME NEW k \in 1 .. c
          PROVE  ns2[f2[k]].next = IF k = c THEN NIL ELSE f2[k + 1]
      <3>1. s + k - 1 \in s .. s + c - 1 /\ f2[k] = s + k - 1
        OBVIOUS
      <3>2. k # c => f2[k + 1] = s + k
        OBVIOUS
      <3> QED
        BY <3>1, <3>2
    <2>4. \A j, k \in 1 .. c : f2[j] = f2[k] => j = k
      OBVIOUS
    <2> QED
      BY <2>1, <2>2, <2>3, <2>4 DEF FreeList, List
  <1>3. DOMAIN ns \subseteq DOMAIN ns2
    OBVIOUS
  <1>4. Queues(ns2, lv, q)
    <2> SUFFICES ASSUME NEW x \in Level
                 PROVE  /\ List(ns2, q[x], lv[x].count, lv[x].head)
                        /\ lv[x].tail = IF lv[x].count = 0 THEN NIL ELSE q[x][lv[x].count]
      BY DEF Queues
    <2>1. ASSUME NEW k \in 1 .. lv[x].count
          PROVE  ns2[q[x][k]].next = ns[q[x][k]].next
      BY <1>1
    <2>2. List(ns, q[x], lv[x].count, lv[x].head)
      BY DEF Whole, Queues
    <2>3. List(ns2, q[x], lv[x].count, lv[x].head)
      BY <1>3, <2>1, <2>2, SameList
    <2>4. lv[x].tail = IF lv[x].count = 0 THEN NIL ELSE q[x][lv[x].count]
      BY <1>1
    <2> QED
      BY <2>3, <2>4, Zenon
  <1>5. Apart(lv, q, f2, c)
    <2>1. ASSUME NEW x \in Level, NEW k \in 1 .. lv[x].count, NEW j \in 1 .. c
          PROVE  q[x][k] # f2[j]
      <3>1. q[x][k] \in 0 .. s - 1
        BY <1>1
      <3>2. f2[j] = s + j - 1
        OBVIOUS
      <3> QED
        BY <3>1, <3>2
    <2>2. \A l, x \in Level : \A k \in 1 .. lv[l].count, j \in 1 .. lv[x].count :
            q[l][k] = q[x][j] => l = x /\ k = j
      BY DEF Whole, Apart
    <2> QED
      BY <2>1, <2>2 DEF Apart
  <1>6. Covered(ns2, lv, q, f2, c)
    <2> SUFFICES ASSUME NEW a \in DOMAIN ns2
                 PROVE  \/ \E j \in 1 .. c : f2[j] = a
                        \/ \E x \in Level : \E k \in 1 .. lv[x].count : q[x][k] = a
      BY DEF Covered
    <2>1. CASE a \in DOMAIN ns
      BY <2>1 DEF Whole, Covered
    <2>2. CASE a \notin DOMAIN ns
      <3>1. a - s + 1 \in 1 .. c /\ f2[a - s + 1] = a
        BY <2>2
      <3> QED
        BY <3>1
    <2> QED
      BY <2>1, <2>2
  <1>7. Filled(ns2, lv, q)
    <2>1. ASSUME NEW x \in Level, NEW k \in 1 .. lv[x].count
          PROVE  ns2[q[x][k]].order = ns[q[x][k]].order
      BY <1>1
    <2>2. ASSUME NEW x \in Level, NEW y \in Level,
                 NEW k \in 1 .. lv[x].count, NEW j \in 1 .. lv[y].count,
                 ns2[q[x][k]].order = ns2[q[y][j]].order
          PROVE  x = y /\ k = j
      <3>1. ns[q[x][k]].order = ns[q[y][j]].order
        BY <2>1, <2>2
      <3> QED
        BY <3>1, OneOrder DEF Whole
    <2>3. \A x \in Level : \A k \in 1 .. lv[x].count : ns2[q[x][k]].order \in Order
      BY <2>1 DEF Whole, Filled
    <2> QED
      BY <2>2, <2>3 DEF Filled
  <1> QED
    BY <1>2, <1>4, <1>5, <1>6, <1>7 DEF Whole
-----------------------------------------------------------------------------
(* The lists of a state *)

\* However a state is linked, its walks give the orders' lists and no other.
QueuesFollow ==
  \A q, f, m : Whole(nodes, lvl, free_head, q, f, m) => \A l \in Level : Queue(l) = q[l]

LEMMA FollowQueues == QueuesFollow
  <1> SUFFICES ASSUME NEW q, NEW f, NEW m, Whole(nodes, lvl, free_head, q, f, m),
                      NEW l \in Level
               PROVE  Queue(l) = q[l]
    BY DEF QueuesFollow
  <1>1. PICK n, i : n = lvl[l].count /\ i = lvl[l].head
    OBVIOUS
  <1>2. PICK c : c = q[l]
    OBVIOUS
  <1>3. /\ n \in Nat /\ c \in [1 .. n -> DOMAIN nodes]
        /\ i = IF n = 0 THEN NIL ELSE c[1]
        /\ \A k \in 1 .. n : nodes[c[k]].next = IF k = n THEN NIL ELSE c[k + 1]
    BY <1>1, <1>2 DEF Whole, Queues, List
  <1>4. n > 0 => c[1] = i
    BY <1>3
  <1>5. ASSUME NEW k \in 1 .. n, k # 1
        PROVE  c[k] = Following(c[k - 1])
    <2>1. k - 1 \in 1 .. n /\ k - 1 # n /\ (k - 1) + 1 = k
      BY <1>3, <1>5
    <2>2. nodes[c[k - 1]].next = c[k] /\ c[k - 1] \in DOMAIN nodes
      BY <1>3, <2>1
    <2> QED
      BY <2>2 DEF Following, Node
  <1>6. c = [k \in 1 .. n |-> c[k]]
    BY <1>3
  <1>7. Walk(i, n) = c
    <2>1. Follows(i, n, c)
      BY <1>4, <1>5, <1>6 DEF Follows
    <2> QED
      BY <1>3, <2>1, WalkIs
  <1> QED
    BY <1>1, <1>2, <1>7 DEF Queue

\* The free list leads to its nodes, and then to none.
LEMMA FollowFree ==
  ASSUME NEW q, NEW f, NEW m, Whole(nodes, lvl, free_head, q, f, m), NEW n \in Nat
  PROVE  Walk(free_head, n) = [k \in 1 .. n |-> IF k <= m THEN f[k] ELSE NIL]
  <1>1. PICK i : i = free_head
    OBVIOUS
  <1>2. /\ m \in Nat /\ f \in [1 .. m -> DOMAIN nodes]
        /\ i = IF m = 0 THEN NIL ELSE f[1]
        /\ \A k \in 1 .. m : nodes[f[k]].next = IF k = m THEN NIL ELSE f[k + 1]
        /\ NIL \notin DOMAIN nodes
    BY <1>1 DEF Whole, FreeList, List
  <1>3. PICK c : c = [k \in 1 .. n |-> IF k <= m THEN f[k] ELSE NIL]
    OBVIOUS
  <1>4. n > 0 => c[1] = i
    BY <1>2, <1>3
  <1>5. ASSUME NEW k \in 1 .. n, k # 1
        PROVE  c[k] = Following(c[k - 1])
    <2>1. k - 1 \in 1 .. n /\ (k - 1) + 1 = k
      BY <1>5
    <2>2. CASE k - 1 <= m
      <3>1. k - 1 \in 1 .. m /\ c[k - 1] = f[k - 1]
        BY <1>2, <1>3, <2>1, <2>2
      <3>2. nodes[f[k - 1]].next = (IF k - 1 = m THEN NIL ELSE f[k]) /\ f[k - 1] \in DOMAIN nodes
        BY <1>2, <2>1, <3>1
      <3>3. c[k] = IF k - 1 = m THEN NIL ELSE f[k]
        BY <1>2, <1>3, <3>1
      <3> QED
        BY <3>1, <3>2, <3>3 DEF Following, Node
    <2>3. CASE ~(k - 1 <= m)
      <3>1. ~(k <= m)
        BY <1>2, <2>3
      <3>2. c[k - 1] = NIL /\ c[k] = NIL
        BY <1>3, <2>1, <2>3, <3>1
      <3> QED
        BY <1>2, <3>2 DEF Following, Node
    <2> QED
      BY <2>2, <2>3
  <1>6. c = [k \in 1 .. n |-> c[k]]
    BY <1>3
  <1>7. Walk(i, n) = c
    <2>1. Follows(i, n, c)
      BY <1>4, <1>5, <1>6 DEF Follows
    <2> QED
      BY <2>1, WalkIs
  <1> QED
    BY <1>1, <1>3, <1>7

-----------------------------------------------------------------------------
(* The vector *)

Link(s) == 0 .. s - 1 \union {NIL}

\* A vector of s nodes, whose links stay in it.
Vector(ns, s) ==
  /\ s \in 0 .. ORDER_POOL_MAX_CAP
  /\ ns \in [0 .. s - 1 -> [order : Order \union {NIL}, prev : Link(s), next : Link(s)]]

Levels(lv, s) == lv \in [Level -> [head : Link(s), tail : Link(s), count : Nat]]

LEMMA VectorSize ==
  ASSUME NEW ns, NEW s \in Nat, DOMAIN ns = 0 .. s - 1
  PROVE  Size(ns) = s
  <1>1. Cardinality(0 .. s - 1) = s
    <2>1. 0 \in Int /\ s - 1 \in Int
      OBVIOUS
    <2>2. Cardinality(0 .. s - 1) = IF 0 > s - 1 THEN 0 ELSE (s - 1) - 0 + 1
      BY <2>1, FS_Interval
    <2> QED
      BY <2>2
  <1> QED
    BY <1>1 DEF Size, Node

\* g has c nodes more than the s of ns, each leading to the next.
Longer(g, ns, s, c) ==
  /\ DOMAIN g = 0 .. s + c - 1
  /\ \A i \in DOMAIN ns : g[i] = ns[i]
  /\ \A i \in s .. s + c - 1 :
       g[i] = [order |-> NIL, prev |-> NIL,
               next |-> IF i = s + c - 1 THEN NIL ELSE i + 1]

LEMMA Grown ==
  ASSUME NEW ns, NEW s \in Nat, DOMAIN ns = 0 .. s - 1, NEW c \in Nat, c > 0,
         NEW g, g = grow(ns, c, NIL)
  PROVE  Longer(g, ns, s, c)
  <1>1. Size(ns) = s
    BY VectorSize
  <1>2. g = [i \in 0 .. s + c - 1 |->
               IF i \in 0 .. s - 1 THEN ns[i]
               ELSE [order |-> NIL, prev |-> NIL,
                     next |-> IF i = s + c - 1 THEN NIL ELSE i + 1]]
    BY <1>1 DEF grow, Node
  <1>3. \A i \in 0 .. s - 1 : i \in 0 .. s + c - 1
    OBVIOUS
  <1>4. \A i \in s .. s + c - 1 : i \in 0 .. s + c - 1 /\ i \notin 0 .. s - 1
    OBVIOUS
  <1> QED
    BY <1>2, <1>3, <1>4 DEF Longer

LEMMA GrownVector ==
  ASSUME Capacities, NEW ns, NEW s, Vector(ns, s), NEW c \in Nat, c > 0,
         s + c <= ORDER_POOL_MAX_CAP, NEW g, g = grow(ns, c, NIL)
  PROVE  Vector(g, s + c)
  <1>1. s \in Nat /\ s + c \in 0 .. ORDER_POOL_MAX_CAP /\ DOMAIN ns = 0 .. s - 1
    BY DEF Vector, Capacities
  <1>2. /\ DOMAIN g = 0 .. s + c - 1
        /\ \A i \in DOMAIN ns : g[i] = ns[i]
        /\ \A i \in s .. s + c - 1 :
             g[i] = [order |-> NIL, prev |-> NIL,
                     next |-> IF i = s + c - 1 THEN NIL ELSE i + 1]
    <2>1. Longer(g, ns, s, c)
      BY <1>1, Grown
    <2> QED
      BY <2>1 DEF Longer
  <1>3. Link(s) \subseteq Link(s + c)
    BY <1>1 DEF Link
  <1>4. ASSUME NEW i \in 0 .. s + c - 1
        PROVE  g[i] \in [order : Order \union {NIL}, prev : Link(s + c), next : Link(s + c)]
    <2>1. CASE i \in 0 .. s - 1
      <3>1. ns[i] \in [order : Order \union {NIL}, prev : Link(s), next : Link(s)]
        BY <2>1 DEF Vector
      <3>2. g[i] = ns[i]
        BY <1>1, <1>2, <2>1
      <3> QED
        BY <1>3, <3>1, <3>2
    <2>2. CASE i \in s .. s + c - 1
      <3>1. (IF i = s + c - 1 THEN NIL ELSE i + 1) \in Link(s + c) /\ NIL \in Link(s + c)
        BY <1>1, <2>2 DEF Link
      <3>2. g[i] = [order |-> NIL, prev |-> NIL,
                    next |-> IF i = s + c - 1 THEN NIL ELSE i + 1]
        BY <1>2, <2>2
      <3> HIDE DEF Link
      <3> QED
        BY <3>1, <3>2
    <2> QED
      BY <1>1, <2>1, <2>2
  <1>5. g = [i \in 0 .. s + c - 1 |-> g[i]]
    <2>1. g = [i \in 0 .. Size(ns) + c - 1 |-> g[i]]
      BY DEF grow
    <2> QED
      BY <1>1, <2>1, VectorSize
  <1> QED
    BY <1>1, <1>4, <1>5 DEF Vector
-----------------------------------------------------------------------------
(* Steps of the pool *)

\* What the variables hold: s nodes, in the queues q and the free list f.
Held(s, q, f, m) ==
  /\ Vector(nodes, s) /\ Levels(lvl, s)
  /\ Whole(nodes, lvl, free_head, q, f, m)

LEMMA FreeHead ==
  ASSUME NEW ns, NEW lv, NEW free, NEW q, NEW f, NEW m, Whole(ns, lv, free, q, f, m)
  PROVE  /\ m \in Nat /\ NIL \notin DOMAIN ns
         /\ m = 0 => free = NIL
         /\ m # 0 => free = f[1] /\ free \in DOMAIN ns
  BY DEF Whole, FreeList, List

\* Unless the pool is full, acquire has a free node, at the head of its list.
LEMMA SupplyHeld ==
  ASSUME Capacities, NEW s, NEW q, NEW f, NEW m, Held(s, q, f, m), ~Full
  PROVE  \E s2, f2, m2 :
           /\ s2 \in Nat /\ s <= s2 /\ m2 > 0
           /\ Vector(Supplied, s2) /\ Whole(Supplied, lvl, Acquired, q, f2, m2)
           /\ \A i \in 0 .. s - 1 : Supplied[i] = nodes[i]
  <1>1. PICK ns, lv, free : ns = nodes /\ lv = lvl /\ free = free_head
    OBVIOUS
  <1>2. Vector(ns, s) /\ Whole(ns, lv, free, q, f, m)
    BY <1>1 DEF Held
  <1>3. s \in Nat /\ DOMAIN ns = 0 .. s - 1 /\ s <= ORDER_POOL_MAX_CAP
    BY <1>2 DEF Vector, Capacities
  <1>4. /\ m \in Nat /\ NIL \notin DOMAIN ns
        /\ m = 0 => free = NIL
        /\ m # 0 => free \in DOMAIN ns
    BY <1>2, FreeHead
  <1>5. CASE free # NIL
    <2>1. Supplied = ns /\ Acquired = free
      BY <1>1, <1>5 DEF Supplied, Acquired
    <2>2. m > 0
      BY <1>4, <1>5
    <2> QED
      BY <1>1, <1>2, <1>3, <2>1, <2>2
  <1>6. CASE free = NIL
    <2>1. m = 0
      BY <1>4, <1>6
    <2>2. Size(ns) = s
      BY <1>3, VectorSize
    <2>3. s < ORDER_POOL_MAX_CAP
      BY <1>1, <1>3, <1>6, <2>2 DEF Full, Capacities
    <2>4. PICK c : c = Chunk(ns)
      OBVIOUS
    <2>5. c \in Nat /\ c > 0 /\ s + c <= ORDER_POOL_MAX_CAP
      BY <1>3, <2>2, <2>3, <2>4 DEF Chunk, Capacities
    <2>6. PICK g : g = grow(ns, c, NIL)
      OBVIOUS
    <2>7. Supplied = g /\ Acquired = s
      BY <1>1, <1>6, <2>2, <2>4, <2>6 DEF Supplied, Acquired
    <2>8. /\ DOMAIN g = 0 .. s + c - 1
          /\ \A i \in DOMAIN ns : g[i] = ns[i]
          /\ \A i \in s .. s + c - 1 :
               g[i] = [order |-> NIL, prev |-> NIL,
                       next |-> IF i = s + c - 1 THEN NIL ELSE i + 1]
      <3>1. Longer(g, ns, s, c)
        BY <1>3, <2>5, <2>6, Grown
      <3> QED
        BY <3>1 DEF Longer
    <2>9. Vector(g, s + c)
      BY <1>2, <2>5, <2>6, GrownVector
    <2>10. NIL \notin DOMAIN g
      BY <1>3, <2>5, <2>8 DEF Capacities, Index
    <2>11. PICK f2 : f2 = [k \in 1 .. c |-> s + k - 1]
      OBVIOUS
    <2>12. ASSUME NEW i \in s .. s + c - 1
           PROVE  g[i].next = IF i = s + c - 1 THEN NIL ELSE i + 1
      <3>1. g[i] = [order |-> NIL, prev |-> NIL,
                    next |-> IF i = s + c - 1 THEN NIL ELSE i + 1]
        BY <2>8
      <3> QED
        BY <3>1
    <2>13. Whole(ns, lv, NIL, q, f, 0)
      BY <1>2, <1>6, <2>1
    <2>14. Whole(g, lv, s, q, f2, c)
      BY <1>3, <2>5, <2>8, <2>10, <2>11, <2>12, <2>13, SupplyWhole
    <2>15. s + c \in Nat /\ s <= s + c
      BY <1>3, <2>5
    <2>16. /\ s + c \in Nat /\ s <= s + c /\ c > 0
           /\ Vector(Supplied, s + c) /\ Whole(Supplied, lvl, Acquired, q, f2, c)
           /\ \A i \in 0 .. s - 1 : Supplied[i] = nodes[i]
      BY <1>1, <1>3, <2>5, <2>7, <2>8, <2>9, <2>14, <2>15
    <2> QED
      BY <2>16
  <1> QED
    BY <1>5, <1>6

\* Node i has the order o and is linked behind node t; no more has changed.
Behind(s, ns, i, t, o, g) ==
  /\ Vector(g, s) /\ DOMAIN g = DOMAIN ns
  /\ g[i].order = o /\ g[i].next = NIL /\ g[t].next = i
  /\ \A j \in 0 .. s - 1 : j # i => g[j].order = ns[j].order
  /\ \A j \in 0 .. s - 1 : j # i /\ j # t => g[j].next = ns[j].next

LEMMA LinkedNode ==
  ASSUME NEW s, NEW ns, Vector(ns, s), NEW i \in 0 .. s - 1, NEW t \in 0 .. s - 1, i # t,
         NEW o \in Order,
         NEW fresh, fresh = [ns EXCEPT ![i] = [order |-> o, prev |-> NIL, next |-> NIL]],
         NEW g, g = Linked(fresh, t, i)
  PROVE  Behind(s, ns, i, t, o, g)
  <1> DEFINE R == [order : Order \union {NIL}, prev : Link(s), next : Link(s)]
  <1>1. ns \in [0 .. s - 1 -> R] /\ s \in 0 .. ORDER_POOL_MAX_CAP
    BY DEF Vector
  <1>2. NIL \in Link(s) /\ i \in Link(s) /\ t \in Link(s)
    BY DEF Link
  <1> HIDE DEF R
  <1>3. /\ fresh[i] = [order |-> o, prev |-> NIL, next |-> NIL]
        /\ \A j \in 0 .. s - 1 : j # i => fresh[j] = ns[j]
        /\ DOMAIN fresh = 0 .. s - 1
    BY <1>1
  <1>4. g = [[fresh EXCEPT ![t] = [@ EXCEPT !.next = i]] EXCEPT ![i] = [@ EXCEPT !.prev = t]]
    BY DEF Linked
  <1>5. g[i] = [fresh[i] EXCEPT !.prev = t]
    BY <1>3, <1>4
  <1>6. g[t] = [fresh[t] EXCEPT !.next = i]
    BY <1>3, <1>4
  <1>7. \A j \in 0 .. s - 1 : j # i /\ j # t => g[j] = fresh[j]
    BY <1>3, <1>4
  <1>8. DOMAIN g = 0 .. s - 1 /\ g = [j \in 0 .. s - 1 |-> g[j]]
    <2>1. PICK h : h = [fresh EXCEPT ![t] = [@ EXCEPT !.next = i]]
      OBVIOUS
    <2>2. DOMAIN h = 0 .. s - 1
      BY <1>3, <2>1
    <2>3. g = [h EXCEPT ![i] = [@ EXCEPT !.prev = t]]
      BY <1>4, <2>1
    <2> QED
      BY <2>2, <2>3
  <1>9. g[i] = [order |-> o, prev |-> t, next |-> NIL]
    BY <1>3, <1>5
  <1>10. g[t].next = i /\ g[t].order = ns[t].order /\ g[t] \in R
    <2>1. ns[t] \in R /\ g[t] = [ns[t] EXCEPT !.next = i]
      BY <1>1, <1>3, <1>6
    <2> QED
      BY <1>2, <2>1 DEF R
  <1>11. \A j \in 0 .. s - 1 : j # i /\ j # t => g[j] = ns[j]
    BY <1>3, <1>7
  <1>12. g[i] \in R
    BY <1>2, <1>9 DEF R
  <1>13. g \in [0 .. s - 1 -> R]
    <2>1. \A j \in 0 .. s - 1 : g[j] \in R
      BY <1>1, <1>10, <1>11, <1>12
    <2> QED
      BY <1>8, <2>1
  <1>14. Vector(g, s)
    BY <1>1, <1>13 DEF Vector, R
  <1>15. g[i].order = o /\ g[i].next = NIL
    BY <1>9
  <1>16. DOMAIN g = DOMAIN ns
    BY <1>1, <1>8
  <1>17. ASSUME NEW j \in 0 .. s - 1, j # i
         PROVE  g[j].order = ns[j].order /\ (j # t => g[j].next = ns[j].next)
    BY <1>10, <1>11, <1>17
  <1> QED
    BY <1>10, <1>14, <1>15, <1>16, <1>17 DEF Behind

LEMMA FilledNode ==
  ASSUME NEW s, NEW ns, Vector(ns, s), NEW i \in 0 .. s - 1, NEW o \in Order,
         NEW g, g = [ns EXCEPT ![i] = [order |-> o, prev |-> NIL, next |-> NIL]]
  PROVE  /\ Vector(g, s) /\ DOMAIN g = DOMAIN ns
         /\ g[i].order = o /\ g[i].next = NIL
         /\ \A j \in 0 .. s - 1 : j # i => g[j] = ns[j]
  <1> DEFINE R == [order : Order \union {NIL}, prev : Link(s), next : Link(s)]
  <1>1. ns \in [0 .. s - 1 -> R] /\ s \in 0 .. ORDER_POOL_MAX_CAP
    BY DEF Vector
  <1>2. [order |-> o, prev |-> NIL, next |-> NIL] \in R
    BY DEF Link
  <1> HIDE DEF R
  <1>3. /\ g[i] = [order |-> o, prev |-> NIL, next |-> NIL]
        /\ \A j \in 0 .. s - 1 : j # i => g[j] = ns[j]
        /\ DOMAIN g = DOMAIN ns
    BY <1>1
  <1>4. g \in [0 .. s - 1 -> R]
    BY <1>1, <1>2
  <1>5. Vector(g, s)
    BY <1>1, <1>4 DEF Vector, R
  <1> QED
    BY <1>3, <1>5
\* A link of a shorter vector is one of a longer.
LEMMA LongerLevels ==
  ASSUME NEW lv, NEW s \in Nat, NEW s2 \in Nat, s <= s2, Levels(lv, s)
  PROVE  Levels(lv, s2)
  <1>1. Link(s) \subseteq Link(s2)
    BY DEF Link
  <1> QED
    BY <1>1 DEF Levels

\* The queues q2 of a state after those of ns and lv, with o at the end of l.
Queued(ns, lv, q, ns2, lv2, q2, l, o) ==
  /\ \A x \in Level : lv2[x].count = IF x = l THEN lv[x].count + 1 ELSE lv[x].count
  /\ \A x \in Level : \A k \in 1 .. lv[x].count : ns2[q2[x][k]].order = ns[q[x][k]].order
  /\ ns2[q2[l][lv2[l].count]].order = o

\* The same without the front of l.
Unqueued(ns, lv, q, ns2, lv2, q2, l) ==
  /\ lv[l].count > 0
  /\ \A x \in Level : lv2[x].count = IF x = l THEN lv[x].count - 1 ELSE lv[x].count
  /\ \A x \in Level : \A k \in 1 .. lv2[x].count :
       ns2[q2[x][k]].order = ns[q[x][IF x = l THEN k + 1 ELSE k]].order

\* No queue holds an order that does not rest.
LEMMA NotQueued ==
  ASSUME NEW q, NEW f, NEW m, Whole(nodes, lvl, free_head, q, f, m), NEW o, o \notin Resting,
         NEW x \in Level, NEW k \in 1 .. lvl[x].count
  PROVE  nodes[q[x][k]].order # o
  <1>1. Queue(x) = q[x]
    BY FollowQueues DEF QueuesFollow
  <1>2. q[x][k] \in DOMAIN nodes
    BY DEF Whole, Queues, List
  <1>3. OrderAt(Queue(x)[k]) = nodes[q[x][k]].order
    BY <1>1, <1>2 DEF OrderAt, Node
  <1>4. OrderAt(Queue(x)[k]) \in Resting
    BY DEF Resting
  <1> QED
    BY <1>3, <1>4

LEMMA PushHeld ==
  ASSUME Capacities, NEW s, NEW q, NEW f, NEW m, Held(s, q, f, m),
         NEW l \in Level, NEW o \in Order, o \notin Resting, level_push_back(l, o)
  PROVE  \E s2, q2, f2, m2 : /\ Held(s2, q2, f2, m2)'
                             /\ Queued(nodes, lvl, q, nodes', lvl', q2, l, o)
  <1>1. PICK ns, lv, i, n, tail : /\ ns = nodes /\ lv = lvl /\ i = Acquired
                                  /\ n = lv[l].count /\ tail = lv[l].tail
    OBVIOUS
  <1>2. PICK s2, f2, m2 :
          /\ s2 \in Nat /\ s <= s2 /\ m2 > 0
          /\ Vector(Supplied, s2) /\ Whole(Supplied, lvl, Acquired, q, f2, m2)
          /\ \A j \in 0 .. s - 1 : Supplied[j] = nodes[j]
    BY SupplyHeld DEF level_push_back
  <1>3. PICK g : g = Supplied
    OBVIOUS
  <1>4. /\ Vector(g, s2) /\ Whole(g, lv, i, q, f2, m2)
        /\ \A j \in 0 .. s - 1 : g[j] = ns[j]
    BY <1>1, <1>2, <1>3
  <1>5. DOMAIN g = 0 .. s2 - 1 /\ DOMAIN ns = 0 .. s - 1 /\ s \in Nat
    BY <1>1, <1>4 DEF Vector, Held, Capacities
  <1>6. Levels(lv, s2)
    BY <1>1, <1>2, <1>5, LongerLevels DEF Held
  <1>7. i \in 0 .. s2 - 1 /\ NIL \notin DOMAIN g /\ i = f2[1] /\ m2 \in Nat
    <2>1. m2 # 0
      BY <1>2
    <2>2. Whole(g, lv, i, q, f2, m2)
      BY <1>4
    <2>3. /\ m2 \in Nat /\ NIL \notin DOMAIN g
          /\ m2 # 0 => i = f2[1] /\ i \in DOMAIN g
      BY <2>2, FreeHead
    <2> QED
      BY <1>5, <2>1, <2>3
  <1>8. /\ n \in Nat
        /\ n = 0 => tail = NIL
        /\ n > 0 => tail = q[l][n] /\ tail \in 0 .. s2 - 1
    BY <1>1, <1>4, <1>5 DEF Whole, Queues, List
  <1>9. tail # i
    <2>1. CASE n = 0
      BY <1>5, <1>7, <1>8, <2>1
    <2>2. CASE n > 0
      <3>1. n \in 1 .. lv[l].count /\ 1 \in 1 .. m2
        BY <1>1, <1>2, <1>7, <1>8, <2>2
      <3> QED
        BY <1>4, <1>7, <1>8, <2>2, <3>1 DEF Whole, Apart
    <2> QED
      BY <1>8, <2>1, <2>2
  <1>10. PICK fresh : fresh = [g EXCEPT ![i] = [order |-> o, prev |-> NIL, next |-> NIL]]
    OBVIOUS
  <1>11. PICK g2, lv2 : g2 = nodes' /\ lv2 = lvl'
    OBVIOUS
  <1>12. /\ n = 0 => /\ g2 = fresh
                     /\ lv2 = [lv EXCEPT ![l] = [head |-> i, tail |-> i, count |-> @.count + 1]]
         /\ n > 0 => /\ g2 = Linked(fresh, tail, i)
                     /\ lv2 = [lv EXCEPT ![l].tail = i, ![l].count = @ + 1]
    <2>1. n > 0 => tail # NIL
      BY <1>5, <1>7, <1>8
    <2> QED
      BY <1>1, <1>3, <1>8, <1>10, <1>11, <2>1 DEF level_push_back
  <1>13. /\ Vector(g2, s2) /\ DOMAIN g2 = DOMAIN g
         /\ g2[i].order = o /\ g2[i].next = NIL
         /\ n > 0 => g2[tail].next = i
         /\ \A j \in 0 .. s2 - 1 : j # i => g2[j].order = g[j].order
         /\ \A j \in 0 .. s2 - 1 : j # i /\ j # tail => g2[j].next = g[j].next
    <2>1. CASE n = 0
      BY <1>4, <1>7, <1>10, <1>12, <2>1, FilledNode
    <2>2. CASE n > 0
      <3>1. tail \in 0 .. s2 - 1 /\ g2 = Linked(fresh, tail, i) /\ i # tail
        BY <1>8, <1>9, <1>12, <2>2
      <3>2. Behind(s2, g, i, tail, o, g2)
        BY <1>4, <1>7, <1>10, <3>1, LinkedNode
      <3> QED
        BY <3>2 DEF Behind
    <2> QED
      BY <1>8, <2>1, <2>2
  <1>14. /\ Levels(lv2, s2)
         /\ lv2[l].count = n + 1 /\ lv2[l].tail = i
         /\ lv2[l].head = IF n = 0 THEN i ELSE lv[l].head
         /\ \A x \in Level : x # l => lv2[x] = lv[x]
    <2>1. lv[l] \in [head : Link(s2), tail : Link(s2), count : Nat] /\ i \in Link(s2)
      BY <1>6, <1>7 DEF Levels, Link
    <2>2. CASE n = 0
      <3>1. lv2 = [lv EXCEPT ![l] = [head |-> i, tail |-> i, count |-> n + 1]]
        BY <1>1, <1>12, <2>2
      <3>2. [head |-> i, tail |-> i, count |-> n + 1]
              \in [head : Link(s2), tail : Link(s2), count : Nat]
        BY <1>8, <2>1
      <3> QED
        BY <1>6, <2>2, <3>1, <3>2 DEF Levels
    <2>3. CASE n > 0
      <3>1. lv2 = [lv EXCEPT ![l] = [head |-> lv[l].head, tail |-> i, count |-> n + 1]]
        BY <1>1, <1>6, <1>12, <2>1, <2>3 DEF Levels
      <3>2. [head |-> lv[l].head, tail |-> i, count |-> n + 1]
              \in [head : Link(s2), tail : Link(s2), count : Nat]
        BY <1>8, <2>1
      <3> QED
        BY <1>6, <2>3, <3>1, <3>2 DEF Levels
    <2> QED
      BY <1>8, <2>2, <2>3
  <1>15. PICK q2 : q2 = [x \in Level |->
                           IF x = l THEN [k \in 1 .. n + 1 |-> IF k = n + 1 THEN i ELSE q[l][k]]
                           ELSE q[x]]
    OBVIOUS
  <1>16. PICK f3 : f3 = [k \in 1 .. m2 - 1 |-> f2[k + 1]]
    OBVIOUS
  <1>17. ASSUME NEW x \in Level, NEW k \in 1 .. lv[x].count
         PROVE  /\ q[x][k] \in 0 .. s - 1
                /\ ns[q[x][k]].order # o /\ g[q[x][k]].order = ns[q[x][k]].order
    <2>1. q[x][k] \in 0 .. s - 1
      BY <1>1, <1>5 DEF Held, Whole, Queues, List
    <2>2. ns[q[x][k]].order # o
      BY <1>1, NotQueued DEF Held
    <2> QED
      BY <1>4, <2>1, <2>2
  <1>18. Whole(g2, lv2, g[i].next, q2, f3, m2 - 1)
    <2>1. q2[l] = [k \in 1 .. n + 1 |-> IF k = n + 1 THEN i ELSE q[l][k]]
      BY <1>15
    <2>2. \A x \in Level : x # l => q2[x] = q[x]
      BY <1>15
    <2>3. \A x \in Level : \A k \in 1 .. lv[x].count : g[q[x][k]].order # o
      BY <1>17
    <2> QED
      BY <1>1, <1>2, <1>4, <1>5, <1>13, <1>14, <1>16, <2>1, <2>2, <2>3, PushWhole
  <1>19. g[i].next = free_head'
    BY <1>1, <1>3 DEF level_push_back
  <1>20. Held(s2, q2, f3, m2 - 1)'
    BY <1>11, <1>13, <1>14, <1>18, <1>19 DEF Held
  <1>21. Queued(ns, lv, q, g2, lv2, q2, l, o)
    <2>1. \A x \in Level : lv2[x].count = IF x = l THEN lv[x].count + 1 ELSE lv[x].count
      BY <1>1, <1>14
    <2>2. ASSUME NEW x \in Level, NEW k \in 1 .. lv[x].count
          PROVE  g2[q2[x][k]].order = ns[q[x][k]].order
      <3>1. q2[x][k] = q[x][k]
        BY <1>1, <1>8, <1>15
      <3>2. q[x][k] # i
        <4>1. 1 \in 1 .. m2
          BY <1>2, <1>7
        <4> QED
          BY <1>4, <1>7, <4>1 DEF Whole, Apart
      <3>3. q[x][k] \in 0 .. s2 - 1
        BY <1>2, <1>5, <1>17
      <3> QED
        BY <1>13, <1>17, <3>1, <3>2, <3>3
    <2>3. q2[l][n + 1] = i
      BY <1>8, <1>15
    <2>4. g2[q2[l][lv2[l].count]].order = o
      BY <1>13, <1>14, <2>3
    <2> QED
      BY <2>1, <2>2, <2>4 DEF Queued
  <1> QED
    BY <1>1, <1>11, <1>20, <1>21
LEMMA PopHeld ==
  ASSUME Capacities, NEW s, NEW q, NEW f, NEW m, Held(s, q, f, m),
         NEW l \in Level, level_pop_front(l)
  PROVE  \E q2, f2, m2 : /\ Held(s, q2, f2, m2)'
                         /\ Unqueued(nodes, lvl, q, nodes', lvl', q2, l)
  <1>1. PICK ns, lv, free, i, n, nxt : /\ ns = nodes /\ lv = lvl /\ free = free_head
                                       /\ i = lv[l].head /\ n = lv[l].count
                                       /\ nxt = ns[i].next
    OBVIOUS
  <1>2. Vector(ns, s) /\ Levels(lv, s) /\ Whole(ns, lv, free, q, f, m)
    BY <1>1 DEF Held
  <1>3. DOMAIN ns = 0 .. s - 1 /\ s \in Nat
    BY <1>2 DEF Vector, Capacities
  <1>4. n > 0
    BY <1>1 DEF level_pop_front
  <1>5. /\ n \in Nat /\ i \in 0 .. s - 1 /\ q[l] \in [1 .. n -> 0 .. s - 1] /\ i = q[l][1]
        /\ NIL \notin 0 .. s - 1 /\ nxt = IF n = 1 THEN NIL ELSE q[l][2]
    <2>1. /\ n \in Nat /\ q[l] \in [1 .. n -> 0 .. s - 1]
          /\ i = IF n = 0 THEN NIL ELSE q[l][1]
          /\ \A k \in 1 .. n : ns[q[l][k]].next = IF k = n THEN NIL ELSE q[l][k + 1]
          /\ NIL \notin 0 .. s - 1
      BY <1>1, <1>2, <1>3 DEF Whole, Queues, List
    <2>2. 1 \in 1 .. n
      BY <1>4, <2>1
    <2>3. i = q[l][1] /\ i \in 0 .. s - 1
      BY <1>4, <2>1, <2>2
    <2> QED
      BY <1>1, <2>1, <2>2, <2>3
  <1>6. nxt # i
    <2>1. CASE n = 1
      BY <1>5, <2>1
    <2>2. CASE n # 1
      <3>1. 1 \in 1 .. lv[l].count /\ 2 \in 1 .. lv[l].count /\ nxt = q[l][2]
        BY <1>1, <1>4, <1>5, <2>2
      <3>2. q[l][2] # q[l][1]
        BY <1>2, <3>1, OnePlace DEF Whole
      <3> QED
        BY <1>5, <3>1, <3>2
    <2> QED
      BY <2>1, <2>2
  <1>7. nxt = NIL \/ nxt \in 0 .. s - 1
    BY <1>4, <1>5
  <1>8. PICK mid : mid = IF nxt = NIL THEN ns ELSE [ns EXCEPT ![nxt].prev = NIL]
    OBVIOUS
  <1>9. PICK g2, lv2 : g2 = nodes' /\ lv2 = lvl'
    OBVIOUS
  <1>10. /\ g2 = [mid EXCEPT ![i].next = free] /\ free_head' = i
         /\ lv2 = [lv EXCEPT ![l] = [head |-> nxt, tail |-> TailAfterPop(l, nxt),
                                     count |-> @.count - 1]]
    BY <1>1, <1>8, <1>9 DEF level_pop_front, Released
  <1> DEFINE R == [order : Order \union {NIL}, prev : Link(s), next : Link(s)]
  <1>11. ns \in [0 .. s - 1 -> R] /\ NIL \in Link(s)
    BY <1>2 DEF Vector, Link
  <1>12. free \in Link(s) /\ nxt \in Link(s) /\ i \in Link(s)
    <2>1. free = NIL \/ free \in DOMAIN ns
      BY <1>2, FreeHead
    <2> QED
      BY <1>3, <1>5, <1>7, <2>1 DEF Link
  <1>13. /\ mid \in [0 .. s - 1 -> R]
         /\ \A j \in 0 .. s - 1 : mid[j].order = ns[j].order /\ mid[j].next = ns[j].next
    <2>1. CASE nxt = NIL
      BY <1>8, <1>11, <2>1
    <2>2. CASE nxt # NIL
      <3>1. nxt \in 0 .. s - 1 /\ mid = [ns EXCEPT ![nxt] = [@ EXCEPT !.prev = NIL]]
        BY <1>7, <1>8, <2>2
      <3>2. ns[nxt] \in R
        BY <1>11, <3>1
      <3>3. /\ [ns[nxt] EXCEPT !.prev = NIL] \in R
            /\ [ns[nxt] EXCEPT !.prev = NIL].order = ns[nxt].order
            /\ [ns[nxt] EXCEPT !.prev = NIL].next = ns[nxt].next
        BY <1>11, <3>2
      <3>4. mid[nxt] = [ns[nxt] EXCEPT !.prev = NIL]
        BY <1>11, <3>1
      <3>5. \A j \in 0 .. s - 1 : j # nxt => mid[j] = ns[j]
        BY <1>11, <3>1
      <3> HIDE DEF R
      <3>6. mid \in [0 .. s - 1 -> R]
        BY <1>11, <3>1, <3>3
      <3>7. ASSUME NEW j \in 0 .. s - 1
            PROVE  mid[j].order = ns[j].order /\ mid[j].next = ns[j].next
        BY <3>3, <3>4, <3>5
      <3> QED
        BY <3>6, <3>7
    <2> QED
      BY <2>1, <2>2
  <1>14. /\ g2 \in [0 .. s - 1 -> R]
         /\ g2[i].next = free
         /\ \A j \in 0 .. s - 1 : g2[j].order = ns[j].order
         /\ \A j \in 0 .. s - 1 : j # i => g2[j].next = ns[j].next
    <2>1. g2 = [mid EXCEPT ![i] = [@ EXCEPT !.next = free]]
      BY <1>10
    <2>2. mid[i] \in R
      BY <1>5, <1>13
    <2>3. /\ [mid[i] EXCEPT !.next = free] \in R
          /\ [mid[i] EXCEPT !.next = free].order = mid[i].order
          /\ [mid[i] EXCEPT !.next = free].next = free
      BY <1>12, <2>2
    <2> HIDE DEF R
    <2>4. g2[i] = [mid[i] EXCEPT !.next = free]
      BY <1>5, <1>13, <2>1
    <2>5. \A j \in 0 .. s - 1 : j # i => g2[j] = mid[j]
      BY <1>13, <2>1
    <2>6. g2 \in [0 .. s - 1 -> R]
      BY <1>5, <1>13, <2>1, <2>3
    <2>7. ASSUME NEW j \in 0 .. s - 1
          PROVE  g2[j].order = ns[j].order /\ (j # i => g2[j].next = ns[j].next)
      BY <1>13, <2>3, <2>4, <2>5
    <2> QED
      BY <2>3, <2>4, <2>6, <2>7
  <1>15. Vector(g2, s) /\ DOMAIN g2 = DOMAIN ns
    BY <1>2, <1>3, <1>14 DEF Vector
  <1> HIDE DEF R
  <1>16. PICK t : t = TailAfterPop(l, nxt)
    OBVIOUS
  <1>17. t = IF nxt = NIL THEN NIL ELSE lv[l].tail
    BY <1>1, <1>16 DEF TailAfterPop
  <1>18. /\ Levels(lv2, s)
         /\ lv2[l].count = n - 1 /\ lv2[l].head = nxt /\ lv2[l].tail = t
         /\ \A x \in Level : x # l => lv2[x] = lv[x]
    <2>1. lv2 = [lv EXCEPT ![l] = [head |-> nxt, tail |-> t, count |-> n - 1]]
      BY <1>1, <1>10, <1>16
    <2>2. lv[l].tail \in Link(s)
      BY <1>2 DEF Levels
    <2>3. t \in Link(s)
      BY <1>11, <1>17, <2>2
    <2>4. [head |-> nxt, tail |-> t, count |-> n - 1]
            \in [head : Link(s), tail : Link(s), count : Nat]
      BY <1>4, <1>5, <1>12, <2>3
    <2> QED
      BY <1>2, <2>1, <2>4 DEF Levels
  <1>19. PICK q2 : q2 = [x \in Level |-> IF x = l THEN [k \in 1 .. n - 1 |-> q[l][k + 1]]
                                         ELSE q[x]]
    OBVIOUS
  <1>20. PICK f2 : f2 = [k \in 1 .. m + 1 |-> IF k = 1 THEN i ELSE f[k - 1]]
    OBVIOUS
  <1>21. Whole(g2, lv2, i, q2, f2, m + 1)
    <2>1. q2[l] = [k \in 1 .. n - 1 |-> q[l][k + 1]]
      BY <1>19
    <2>2. \A x \in Level : x # l => q2[x] = q[x]
      BY <1>19
    <2>3. /\ \A j \in DOMAIN ns : g2[j].order = ns[j].order
          /\ \A j \in DOMAIN ns : j # i => g2[j].next = ns[j].next
      BY <1>3, <1>14
    <2>4. lv2[l].head = ns[i].next
      BY <1>1, <1>18
    <2>5. lv2[l].tail = IF ns[i].next = NIL THEN NIL ELSE lv[l].tail
      BY <1>1, <1>17, <1>18
    <2>6. n = lv[l].count /\ i = lv[l].head /\ DOMAIN g2 = DOMAIN ns /\ g2[i].next = free
      BY <1>1, <1>14, <1>15
    <2>7. lv2[l].count = n - 1 /\ \A x \in Level : x # l => lv2[x] = lv[x]
      BY <1>18
    <2>8. Whole(ns, lv, free, q, f, m)
      BY <1>2
    <2> QED
      BY <1>4, <1>20, <2>1, <2>2, <2>3, <2>4, <2>5, <2>6, <2>7, <2>8, PopWhole
  <1>22. Held(s, q2, f2, m + 1)'
    BY <1>9, <1>10, <1>15, <1>18, <1>21 DEF Held
  <1>23. Unqueued(ns, lv, q, g2, lv2, q2, l)
    <2>1. \A x \in Level : lv2[x].count = IF x = l THEN lv[x].count - 1 ELSE lv[x].count
      BY <1>1, <1>18
    <2>2. ASSUME NEW x \in Level, NEW k \in 1 .. lv2[x].count
          PROVE  g2[q2[x][k]].order = ns[q[x][IF x = l THEN k + 1 ELSE k]].order
      <3>1. CASE x = l
        <4>1. k \in 1 .. n - 1 /\ k + 1 \in 1 .. n
          BY <1>5, <1>18, <3>1
        <4>2. q2[x][k] = q[l][k + 1] /\ q[l][k + 1] \in 0 .. s - 1
          BY <1>5, <1>19, <3>1, <4>1
        <4> QED
          BY <1>14, <3>1, <4>2
      <3>2. CASE x # l
        <4>1. q2[x][k] = q[x][k] /\ k \in 1 .. lv[x].count
          BY <1>18, <1>19, <3>2
        <4>2. q[x][k] \in 0 .. s - 1
          BY <1>2, <1>3, <4>1 DEF Whole, Queues, List
        <4> QED
          BY <1>14, <3>2, <4>1, <4>2
      <3> QED
        BY <3>1, <3>2
    <2> QED
      BY <1>1, <1>4, <2>1, <2>2 DEF Unqueued
  <1> QED
    BY <1>1, <1>9, <1>22, <1>23
-----------------------------------------------------------------------------
(* The invariant *)

\* The nodes of the vector are the queues of the levels and the free list: it
\* is these lists that a step keeps, and what a walk gives follows from them.
Inv == halted \in BOOLEAN /\ \E s, q, f, m : Held(s, q, f, m)

LEMMA InitInv == ASSUME Capacities PROVE Init => Inv
  <1> SUFFICES ASSUME Init
               PROVE  Inv
    OBVIOUS
  <1>1. PICK e, c, g, lv, q, f, f2 :
          /\ e = [i \in {} |-> {}] /\ c = ORDER_POOL_INITIAL_CAP /\ g = grow(e, c, NIL)
          /\ lv = [l \in Level |-> [head |-> NIL, tail |-> NIL, count |-> 0]]
          /\ q = [l \in Level |-> [k \in 1 .. 0 |-> NIL]] /\ f = [k \in 1 .. 0 |-> NIL]
          /\ f2 = [k \in 1 .. c |-> 0 + k - 1]
    OBVIOUS
  <1>2. nodes = g /\ lvl = lv /\ free_head = 0 /\ halted = FALSE
    BY <1>1 DEF Init
  <1>3. c \in Nat /\ c > 0 /\ 0 + c <= ORDER_POOL_MAX_CAP /\ 0 \in 0 .. ORDER_POOL_MAX_CAP
    BY <1>1 DEF Capacities
  <1>4. DOMAIN e = {} /\ 0 .. 0 - 1 = {} /\ 1 .. 0 = {}
    BY <1>1
  <1>5. Vector(e, 0)
    BY <1>1, <1>3, <1>4 DEF Vector
  <1>6. Whole(e, lv, NIL, q, f, 0)
    <2>1. FreeList(e, NIL, f, 0)
      BY <1>1, <1>4 DEF FreeList, List
    <2>2. ASSUME NEW l \in Level
          PROVE  lv[l].count = 0 /\ lv[l].head = NIL /\ lv[l].tail = NIL
                 /\ q[l] = [k \in 1 .. 0 |-> NIL]
      BY <1>1
    <2>3. List(e, [k \in 1 .. 0 |-> NIL], 0, NIL)
      BY <1>4 DEF List
    <2>4. Queues(e, lv, q)
      BY <2>2, <2>3 DEF Queues
    <2>5. Apart(lv, q, f, 0)
      BY <1>4, <2>2 DEF Apart
    <2>6. Covered(e, lv, q, f, 0)
      BY <1>4 DEF Covered
    <2>7. Filled(e, lv, q)
      BY <1>4, <2>2 DEF Filled
    <2> QED
      BY <1>4, <2>1, <2>4, <2>5, <2>6, <2>7 DEF Whole
  <1>7. Vector(g, 0 + c)
    BY <1>1, <1>3, <1>5, GrownVector
  <1>8. /\ DOMAIN g = 0 .. 0 + c - 1
        /\ \A i \in DOMAIN e : g[i] = e[i]
        /\ \A i \in 0 .. 0 + c - 1 :
             g[i] = [order |-> NIL, prev |-> NIL,
                     next |-> IF i = 0 + c - 1 THEN NIL ELSE i + 1]
    <2>1. PICK z \in Nat : z = 0 /\ DOMAIN e = 0 .. z - 1
      BY <1>4
    <2>2. g = grow(e, c, NIL)
      BY <1>1
    <2>3. Longer(g, e, z, c)
      BY <1>3, <2>1, <2>2, Grown
    <2> QED
      BY <2>1, <2>3 DEF Longer
  <1>9. Whole(g, lv, 0, q, f2, c)
    <2>1. DOMAIN e = 0 .. 0 - 1 /\ 0 \in Nat
      BY <1>4
    <2>2. NIL \notin DOMAIN g
      BY <1>3, <1>8 DEF Capacities, Index
    <2>3. ASSUME NEW i \in 0 .. 0 + c - 1
          PROVE  g[i].next = IF i = 0 + c - 1 THEN NIL ELSE i + 1
      <3>1. g[i] = [order |-> NIL, prev |-> NIL,
                    next |-> IF i = 0 + c - 1 THEN NIL ELSE i + 1]
        BY <1>8
      <3> QED
        BY <3>1
    <2>4. DOMAIN g = 0 .. 0 + c - 1 /\ \A i \in DOMAIN e : g[i] = e[i]
      BY <1>8
    <2> QED
      BY <1>1, <1>3, <1>6, <2>1, <2>2, <2>3, <2>4, SupplyWhole
  <1>10. Levels(lv, 0 + c)
    <2>1. [head |-> NIL, tail |-> NIL, count |-> 0]
            \in [head : Link(0 + c), tail : Link(0 + c), count : Nat]
      BY DEF Link
    <2> QED
      BY <1>1, <2>1 DEF Levels
  <1>11. Held(0 + c, q, f2, c)
    BY <1>2, <1>7, <1>9, <1>10 DEF Held
  <1> QED
    BY <1>2, <1>11 DEF Inv

LEMMA NextInv == ASSUME Capacities PROVE Inv /\ [Next]_vars => Inv'
  <1> SUFFICES ASSUME Inv, [Next]_vars
               PROVE  Inv'
    OBVIOUS
  <1>1. PICK s, q, f, m : Held(s, q, f, m)
    BY DEF Inv
  <1>2. ASSUME NEW l \in Level, NEW o \in Order \ Resting, level_push_back(l, o)
        PROVE  Inv'
    <2>1. \E s2, q2, f2, m2 : Held(s2, q2, f2, m2)'
      BY <1>1, <1>2, PushHeld
    <2>2. halted' = halted
      BY <1>2 DEF level_push_back
    <2> QED
      BY <2>1, <2>2 DEF Inv
  <1>3. ASSUME NEW l \in Level, level_pop_front(l)
        PROVE  Inv'
    <2>1. \E q2, f2, m2 : Held(s, q2, f2, m2)'
      BY <1>1, <1>3, PopHeld
    <2>2. halted' = halted
      BY <1>3 DEF level_pop_front
    <2> QED
      BY <2>1, <2>2 DEF Inv
  <1>4. CASE Exhausted
    BY <1>1, <1>4 DEF Exhausted, Inv, Held
  <1>5. CASE UNCHANGED vars
    BY <1>1, <1>5 DEF vars, Inv, Held
  <1> QED
    BY <1>2, <1>3, <1>4, <1>5 DEF Next

LEMMA PoolInvariant == ASSUME Capacities PROVE Spec => []Inv
  BY InitInv, NextInv, PTL DEF Spec

\* Only the level of the step counts one order more, or one less.
LEMMA PushCounts ==
  ASSUME Capacities, Inv, NEW l \in Level, NEW o \in Order, o \notin Resting,
         level_push_back(l, o)
  PROVE  \A x \in Level : /\ lvl[x].count \in Nat
                          /\ lvl'[x].count = IF x = l THEN lvl[x].count + 1 ELSE lvl[x].count
  <1>1. PICK s, q, f, m : Held(s, q, f, m)
    BY DEF Inv
  <1>2. PICK s2, q2, f2, m2 : /\ Held(s2, q2, f2, m2)'
                              /\ Queued(nodes, lvl, q, nodes', lvl', q2, l, o)
    BY <1>1, PushHeld
  <1> QED
    BY <1>1, <1>2 DEF Queued, Held, Whole, Queues, List

LEMMA PopCounts ==
  ASSUME Capacities, Inv, NEW l \in Level, level_pop_front(l)
  PROVE  \A x \in Level : /\ lvl[x].count \in Nat
                          /\ lvl'[x].count = IF x = l THEN lvl[x].count - 1 ELSE lvl[x].count
  <1>1. PICK s, q, f, m : Held(s, q, f, m)
    BY DEF Inv
  <1>2. PICK q2, f2, m2 : /\ Held(s, q2, f2, m2)'
                          /\ Unqueued(nodes, lvl, q, nodes', lvl', q2, l)
    BY <1>1, PopHeld
  <1> QED
    BY <1>1, <1>2 DEF Unqueued, Held, Whole, Queues, List

-----------------------------------------------------------------------------
(* What it says of the pool *)

LEMMA HeldSize ==
  ASSUME Capacities, NEW s, NEW q, NEW f, NEW m, Held(s, q, f, m)
  PROVE  s \in 0 .. ORDER_POOL_MAX_CAP /\ Node(nodes) = 0 .. s - 1 /\ Size(nodes) = s
  <1>1. PICK ns : ns = nodes
    OBVIOUS
  <1>2. s \in 0 .. ORDER_POOL_MAX_CAP /\ s \in Nat /\ DOMAIN ns = 0 .. s - 1
    BY <1>1 DEF Held, Vector, Capacities
  <1>3. Size(ns) = s
    BY <1>2, VectorSize
  <1> QED
    BY <1>1, <1>2, <1>3 DEF Node

LEMMA HeldTyped == ASSUME Capacities PROVE Inv => TypeOK
  <1> SUFFICES ASSUME Inv
               PROVE  TypeOK
    OBVIOUS
  <1>1. PICK s, q, f, m : Held(s, q, f, m)
    BY DEF Inv
  <1>2. s \in 0 .. ORDER_POOL_MAX_CAP /\ Node(nodes) = 0 .. s - 1 /\ Size(nodes) = s
    BY <1>1, HeldSize
  <1>3. Node(nodes) \union {NIL} = Link(s)
    BY <1>2 DEF Link
  <1>4. free_head \in Link(s)
    <2>1. free_head = NIL \/ free_head \in DOMAIN nodes
      BY <1>1, FreeHead DEF Held
    <2> QED
      BY <1>2, <2>1 DEF Link, Node
  <1>5. Node(nodes) \subseteq Index
    BY <1>2 DEF Index, Capacities
  <1> HIDE DEF Link
  <1>6. nodes \in [Node(nodes) -> [order : Order \union {NIL}, prev : Link(s), next : Link(s)]]
    BY <1>1, <1>2 DEF Held, Vector
  <1>7. lvl \in [Level -> [head : Link(s), tail : Link(s), count : Nat]]
    BY <1>1 DEF Held, Levels
  <1> QED
    BY <1>2, <1>3, <1>4, <1>5, <1>6, <1>7 DEF TypeOK, Inv

LEMMA HeldPartitioned == ASSUME Capacities PROVE Inv => NodesPartitioned
  <1> SUFFICES ASSUME Inv
               PROVE  NodesPartitioned
    OBVIOUS
  <1>1. PICK s, q, f, m : Held(s, q, f, m)
    BY DEF Inv
  <1>2. s \in Nat /\ Node(nodes) = 0 .. s - 1 /\ Size(nodes) = s
    BY <1>1, HeldSize DEF Capacities
  <1>3. PICK ns, lv, free : ns = nodes /\ lv = lvl /\ free = free_head
    OBVIOUS
  <1>4. Whole(ns, lv, free, q, f, m) /\ DOMAIN ns = 0 .. s - 1
    BY <1>1, <1>2, <1>3 DEF Held, Node
  <1>5. /\ m \in Nat /\ f \in [1 .. m -> 0 .. s - 1]
        /\ \A j, k \in 1 .. m : f[j] = f[k] => j = k
        /\ NIL \notin 0 .. s - 1
    BY <1>4 DEF Whole, FreeList, List
  <1>6. m <= s
    BY <1>2, <1>5, Shorter
  <1>7. FreeNodes = {f[k] : k \in 1 .. m}
    <2>1. Walk(free_head, s) = [k \in 1 .. s |-> IF k <= m THEN f[k] ELSE NIL]
      BY <1>1, <1>2, FollowFree DEF Held
    <2>2. FreeNodes = {(IF k <= m THEN f[k] ELSE NIL) : k \in 1 .. s} \ {NIL}
      BY <1>2, <2>1 DEF FreeNodes
    <2>3. \A k \in 1 .. m : k \in 1 .. s /\ k <= m /\ f[k] # NIL
      BY <1>2, <1>5, <1>6
    <2>4. \A k \in 1 .. s : k <= m => k \in 1 .. m
      BY <1>5
    <2> QED
      BY <2>2, <2>3, <2>4
  <1>8. Walk(free_head, s + 1)[s + 1] = NIL
    <2>1. s + 1 \in Nat /\ s + 1 \in 1 .. s + 1 /\ ~(s + 1 <= m)
      BY <1>2, <1>5, <1>6
    <2>2. PICK n \in Nat : n = s + 1
      BY <2>1
    <2>3. Walk(free_head, n) = [k \in 1 .. n |-> IF k <= m THEN f[k] ELSE NIL]
      BY <1>1, FollowFree DEF Held
    <2> QED
      BY <2>1, <2>2, <2>3
  <1>9. ASSUME NEW l \in Level
        PROVE  /\ QueueNodes(l) = {q[l][k] : k \in 1 .. lv[l].count}
               /\ lv[l].count \in Nat /\ q[l] \in [1 .. lv[l].count -> 0 .. s - 1]
    <2>1. Queue(l) = q[l]
      BY <1>1, FollowQueues DEF QueuesFollow, Held
    <2>2. lv[l].count \in Nat /\ q[l] \in [1 .. lv[l].count -> 0 .. s - 1]
      BY <1>4 DEF Whole, Queues, List
    <2> QED
      BY <1>3, <2>1, <2>2 DEF QueueNodes
  <1>10. (UNION {QueueNodes(l) : l \in Level}) \union FreeNodes = 0 .. s - 1
    <2>1. UNION {QueueNodes(l) : l \in Level} \subseteq 0 .. s - 1
      BY <1>9
    <2>2. FreeNodes \subseteq 0 .. s - 1
      BY <1>5, <1>7
    <2>3. ASSUME NEW i \in 0 .. s - 1
          PROVE  i \in FreeNodes \/ \E l \in Level : i \in QueueNodes(l)
      <3>1. CASE \E j \in 1 .. m : f[j] = i
        BY <1>7, <3>1
      <3>2. CASE \E l \in Level : \E k \in 1 .. lv[l].count : q[l][k] = i
        BY <1>9, <3>2
      <3> QED
        BY <1>4, <3>1, <3>2 DEF Whole, Covered
    <2>4. PICK A : A = UNION {QueueNodes(l) : l \in Level}
      OBVIOUS
    <2>5. ASSUME NEW l \in Level
          PROVE  QueueNodes(l) \subseteq A
      <3>1. QueueNodes(l) \in {QueueNodes(x) : x \in Level}
        OBVIOUS
      <3> QED
        BY <2>4, <3>1, Zenon
    <2>6. A \subseteq 0 .. s - 1
      BY <2>1, <2>4
    <2>7. \A i \in 0 .. s - 1 : i \in FreeNodes \/ i \in A
      BY <2>3, <2>5
    <2>8. A \union FreeNodes = 0 .. s - 1
      BY <2>2, <2>6, <2>7
    <2> QED
      BY <2>4, <2>8, Zenon
  <1>11. ASSUME NEW l \in Level
         PROVE  /\ QueueNodes(l) \intersect FreeNodes = {}
                /\ Cardinality(QueueNodes(l)) = lvl[l].count
    <2>1. \A k \in 1 .. lv[l].count, j \in 1 .. m : q[l][k] # f[j]
      BY <1>4 DEF Whole, Apart
    <2>2. QueueNodes(l) \intersect FreeNodes = {}
      BY <1>7, <1>9, <2>1
    <2>3. PICK n, c, S : n = lv[l].count /\ c = q[l] /\ S = {q[l][k] : k \in 1 .. lv[l].count}
      OBVIOUS
    <2>4. n \in Nat /\ c \in [1 .. n -> S]
      BY <1>9, <2>3
    <2>5. \A j, k \in 1 .. n : c[j] = c[k] => j = k
      BY <1>4, <2>3, OnePlace DEF Whole
    <2>6. \A x \in S : \E k \in 1 .. n : c[k] = x
      BY <2>3
    <2>7. Cardinality(S) = n
      BY <2>4, <2>5, <2>6, Counted
    <2> QED
      BY <1>3, <1>9, <2>2, <2>3, <2>7
  <1>12. ASSUME NEW l \in Level, NEW x \in Level, l # x
         PROVE  QueueNodes(l) \intersect QueueNodes(x) = {}
    <2>1. \A k \in 1 .. lv[l].count, j \in 1 .. lv[x].count : q[l][k] # q[x][j]
      BY <1>4, <1>12, OnePlace DEF Whole
    <2> QED
      BY <1>9, <2>1
  <1> QED
    BY <1>2, <1>8, <1>10, <1>11, <1>12 DEF NodesPartitioned

\* Every node is used once: the free list and the queues of the levels have
\* all the nodes of the vector and share none, however they were handed out.
THEOREM PoolPartitioned == ASSUME Capacities PROVE Spec => []NodesPartitioned
  <1>1. Inv => NodesPartitioned
    BY HeldPartitioned
  <1> QED
    BY <1>1, PoolInvariant, PTL

\* Every link of the pool is NIL or a node of the vector as it is.
THEOREM PoolTypeOK == ASSUME Capacities PROVE Spec => []TypeOK
  <1>1. Inv => TypeOK
    BY HeldTyped
  <1> QED
    BY <1>1, PoolInvariant, PTL
-----------------------------------------------------------------------------
(* The pool implements LevelQueues *)

\* The queues that the properties of OrderPool are about.
Orders == [l \in Level |-> [k \in 1 .. lvl[l].count |-> OrderAt(Queue(l)[k])]]

\* The orders in the nodes of the queues q.
Shown(ns, lv, q) == [l \in Level |-> [k \in 1 .. lv[l].count |-> ns[q[l][k]].order]]

OrdersShow ==
  \A q, f, m : Whole(nodes, lvl, free_head, q, f, m) => Orders = Shown(nodes, lvl, q)

LEMMA ShowOrders == OrdersShow
  <1> SUFFICES ASSUME NEW q, NEW f, NEW m, Whole(nodes, lvl, free_head, q, f, m)
               PROVE  Orders = Shown(nodes, lvl, q)
    BY DEF OrdersShow
  <1>1. ASSUME NEW l \in Level, NEW k \in 1 .. lvl[l].count
        PROVE  OrderAt(Queue(l)[k]) = nodes[q[l][k]].order
    <2>1. Queue(l) = q[l]
      BY FollowQueues DEF QueuesFollow
    <2>2. q[l][k] \in DOMAIN nodes
      BY DEF Whole, Queues, List
    <2> QED
      BY <2>1, <2>2 DEF OrderAt, Node
  <1>2. ASSUME NEW l \in Level
        PROVE  [k \in 1 .. lvl[l].count |-> OrderAt(Queue(l)[k])]
               = [k \in 1 .. lvl[l].count |-> nodes[q[l][k]].order]
    BY <1>1
  <1> QED
    BY <1>2 DEF Orders, Shown

LEMMA AppendIs ==
  ASSUME NEW S, NEW n \in Nat, NEW a, a \in [1 .. n -> S], NEW o \in S,
         NEW b, b = [k \in 1 .. n + 1 |-> IF k = n + 1 THEN o ELSE a[k]]
  PROVE  b = Append(a, o)
  <1>1. a \in Seq(S) /\ Len(a) = n
    OBVIOUS
  <1>2. b \in Seq(S) /\ Len(b) = n + 1
    OBVIOUS
  <1>3. PICK t : t = Append(a, o)
    OBVIOUS
  <1>4. /\ t \in Seq(S) /\ Len(t) = n + 1
        /\ \A i \in 1 .. n : t[i] = a[i]
        /\ t[n + 1] = o
    BY <1>1, <1>3, AppendProperties
  <1>5. \A i \in 1 .. Len(b) : b[i] = t[i]
    BY <1>2, <1>4
  <1>6. b = t
    BY <1>2, <1>4, <1>5, SeqEqual
  <1> QED
    BY <1>3, <1>6

LEMMA TailIs ==
  ASSUME NEW S, NEW n \in Nat, n > 0, NEW a, a \in [1 .. n -> S],
         NEW b, b = [k \in 1 .. n - 1 |-> a[k + 1]]
  PROVE  b = Tail(a) /\ a # <<>>
  <1>1. a \in Seq(S) /\ Len(a) = n
    OBVIOUS
  <1>2. a # <<>>
    BY <1>1
  <1>3. b \in Seq(S) /\ Len(b) = n - 1
    OBVIOUS
  <1>4. PICK t : t = Tail(a)
    OBVIOUS
  <1>5. /\ t \in Seq(S) /\ Len(t) = n - 1
        /\ \A i \in 1 .. Len(t) : t[i] = a[i + 1]
    BY <1>1, <1>2, <1>4, HeadTailProperties
  <1>6. \A i \in 1 .. Len(b) : b[i] = t[i]
    BY <1>3, <1>5
  <1>7. b = t
    BY <1>3, <1>5, <1>6, SeqEqual
  <1> QED
    BY <1>2, <1>4, <1>7

\* A level's queue is a sequence of orders, as long as its count.
LEMMA ShownSequences ==
  ASSUME NEW ns, NEW lv, NEW free, NEW q, NEW f, NEW m, Whole(ns, lv, free, q, f, m),
         NEW l \in Level
  PROVE  /\ lv[l].count \in Nat
         /\ Shown(ns, lv, q)[l] \in [1 .. lv[l].count -> Order]
         /\ Shown(ns, lv, q)[l] \in Seq(Order)
         /\ Len(Shown(ns, lv, q)[l]) = lv[l].count
  <1>1. lv[l].count \in Nat
    BY DEF Whole, Queues, List
  <1>2. \A k \in 1 .. lv[l].count : ns[q[l][k]].order \in Order
    BY DEF Whole, Filled
  <1>3. Shown(ns, lv, q)[l] = [k \in 1 .. lv[l].count |-> ns[q[l][k]].order]
    BY DEF Shown
  <1>4. Shown(ns, lv, q)[l] \in [1 .. lv[l].count -> Order]
    BY <1>2, <1>3
  <1>5. PICK n, c : n = lv[l].count /\ c = Shown(ns, lv, q)[l]
    OBVIOUS
  <1>6. n \in Nat /\ c \in [1 .. n -> Order]
    BY <1>1, <1>4, <1>5
  <1>7. c \in Seq(Order) /\ Len(c) = n
    BY <1>6
  <1> QED
    BY <1>1, <1>4, <1>5, <1>7

LEMMA ShownResting ==
  ASSUME NEW s, NEW q, NEW f, NEW m, Held(s, q, f, m)
  PROVE  /\ Resting = UNION {{nodes[q[l][k]].order : k \in 1 .. lvl[l].count} : l \in Level}
         /\ Promise!Resting = Resting
  <1>1. Orders = Shown(nodes, lvl, q)
    BY ShowOrders DEF OrdersShow, Held
  <1>2. ASSUME NEW l \in Level
        PROVE  /\ Len(Orders[l]) = lvl[l].count
               /\ Orders[l] = [k \in 1 .. lvl[l].count |-> nodes[q[l][k]].order]
               /\ Orders[l] = [k \in 1 .. lvl[l].count |-> OrderAt(Queue(l)[k])]
    <2>1. PICK ns, lv, free : ns = nodes /\ lv = lvl /\ free = free_head
      OBVIOUS
    <2>2. Whole(ns, lv, free, q, f, m)
      BY <2>1 DEF Held
    <2>3. Len(Shown(ns, lv, q)[l]) = lv[l].count
      BY <2>2, ShownSequences
    <2>4. Orders[l] = [k \in 1 .. lvl[l].count |-> nodes[q[l][k]].order]
      BY <1>1 DEF Shown
    <2>5. Orders[l] = [k \in 1 .. lvl[l].count |-> OrderAt(Queue(l)[k])]
      BY DEF Orders
    <2> QED
      BY <1>1, <2>1, <2>3, <2>4, <2>5
  <1>3. ASSUME NEW l \in Level, NEW k \in 1 .. lvl[l].count
        PROVE  /\ Orders[l][k] = nodes[q[l][k]].order
               /\ Orders[l][k] = OrderAt(Queue(l)[k])
    BY <1>2
  <1>4. \A o : o \in Resting <=> \E l \in Level : \E k \in 1 .. lvl[l].count : o = Orders[l][k]
    <2>1. \A o : o \in Resting <=> \E l \in Level : \E k \in 1 .. lvl[l].count :
                                    o = OrderAt(Queue(l)[k])
      BY DEF Resting
    <2> QED
      BY <1>3, <2>1
  <1>5. PICK R : R = UNION {{nodes[q[l][k]].order : k \in 1 .. lvl[l].count} : l \in Level}
    OBVIOUS
  <1>6. \A o : o \in R <=> \E l \in Level : \E k \in 1 .. lvl[l].count : o = Orders[l][k]
    <2>1. \A o : o \in R <=> \E l \in Level : \E k \in 1 .. lvl[l].count :
                              o = nodes[q[l][k]].order
      BY <1>5
    <2> QED
      BY <1>3, <2>1
  <1>7. PICK P : P = Promise!Resting
    OBVIOUS
  <1>8. \A o : o \in P <=> \E l \in Level : \E k \in 1 .. lvl[l].count : o = Orders[l][k]
    <2>1. P = UNION {{Orders[l][k] : k \in 1 .. Len(Orders[l])} : l \in Level}
      BY <1>7 DEF Promise!Resting, Orders
    <2>2. \A o : o \in P <=> \E l \in Level : \E k \in 1 .. Len(Orders[l]) : o = Orders[l][k]
      BY <2>1
    <2>3. \A l \in Level : Len(Orders[l]) = lvl[l].count
      BY <1>2
    <2> QED
      BY <2>2, <2>3
  <1>9. Resting = R
    BY <1>4, <1>6
  <1>10. P = Resting
    BY <1>4, <1>8
  <1> QED
    BY <1>5, <1>7, <1>9, <1>10

\* As many orders rest as there are nodes that are not free.
LEMMA RestingCount ==
  ASSUME Capacities, NEW s, NEW q, NEW f, NEW m, Held(s, q, f, m)
  PROVE  Cardinality(Resting) = Cardinality(0 .. s - 1 \ {f[j] : j \in 1 .. m})
  <1>1. PICK ns, lv, free, R, Q :
          /\ ns = nodes /\ lv = lvl /\ free = free_head /\ R = Resting
          /\ Q = 0 .. s - 1 \ {f[j] : j \in 1 .. m}
    OBVIOUS
  <1>2. Whole(ns, lv, free, q, f, m) /\ DOMAIN ns = 0 .. s - 1 /\ s \in Nat
    BY <1>1 DEF Held, Vector, Capacities
  <1>3. R = UNION {{ns[q[l][k]].order : k \in 1 .. lv[l].count} : l \in Level}
    BY <1>1, ShownResting
  <1>4. ASSUME NEW i \in Q
        PROVE  \E l \in Level : \E k \in 1 .. lv[l].count : q[l][k] = i
    BY <1>1, <1>2 DEF Whole, Covered
  <1>5. ASSUME NEW l \in Level, NEW k \in 1 .. lv[l].count
        PROVE  q[l][k] \in Q
    <2>1. q[l][k] \in 0 .. s - 1
      BY <1>2 DEF Whole, Queues, List
    <2>2. \A j \in 1 .. m : q[l][k] # f[j]
      BY <1>2 DEF Whole, Apart
    <2> QED
      BY <1>1, <2>1, <2>2
  <1>6. PICK o : o = [i \in Q |-> ns[i].order]
    OBVIOUS
  <1>7. o \in [Q -> R]
    <2>1. ASSUME NEW i \in Q
          PROVE  ns[i].order \in R
      <3>1. PICK l \in Level : \E k \in 1 .. lv[l].count : q[l][k] = i
        BY <1>4
      <3>2. ns[i].order \in {ns[q[l][k]].order : k \in 1 .. lv[l].count}
        BY <3>1
      <3> QED
        BY <1>3, <3>2
    <2> QED
      BY <1>6, <2>1
  <1>8. ASSUME NEW i \in Q, NEW j \in Q, o[i] = o[j]
        PROVE  i = j
    <2>1. PICK l \in Level : \E k \in 1 .. lv[l].count : q[l][k] = i
      BY <1>4
    <2>2. PICK k \in 1 .. lv[l].count : q[l][k] = i
      BY <2>1
    <2>3. PICK x \in Level : \E h \in 1 .. lv[x].count : q[x][h] = j
      BY <1>4
    <2>4. PICK h \in 1 .. lv[x].count : q[x][h] = j
      BY <2>3
    <2>5. ns[q[l][k]].order = ns[q[x][h]].order
      BY <1>6, <1>8, <2>2, <2>4
    <2>6. l = x /\ k = h
      BY <1>2, <2>5, OneOrder DEF Whole
    <2> QED
      BY <2>2, <2>4, <2>6
  <1>9. ASSUME NEW t \in R
        PROVE  \E i \in Q : o[i] = t
    <2>1. PICK l \in Level : t \in {ns[q[l][k]].order : k \in 1 .. lv[l].count}
      BY <1>3
    <2>2. PICK k \in 1 .. lv[l].count : ns[q[l][k]].order = t
      BY <2>1
    <2>3. q[l][k] \in Q
      BY <1>5
    <2> QED
      BY <1>6, <2>2, <2>3
  <1>10. IsFiniteSet(Q)
    <2>1. IsFiniteSet(0 .. s - 1)
      BY <1>2, FS_Interval
    <2> QED
      BY <1>1, <2>1, FS_Subset
  <1>11. Cardinality(R) = Cardinality(Q)
    BY <1>7, <1>8, <1>9, <1>10, Paired
  <1> QED
    BY <1>1, <1>11
\* LevelQueues counts as this module does.
LEMMA SameCount ==
  ASSUME NEW S
  PROVE  Promise!Cardinality(S) = Cardinality(S)
  BY Zenon DEF Promise!Cardinality, Cardinality

LEMMA PushRefined ==
  ASSUME Capacities, NEW s, NEW q, NEW f, NEW m, Held(s, q, f, m),
         NEW l \in Level, NEW o \in Order, o \notin Resting, level_push_back(l, o)
  PROVE  Promise!PushBack(l, o) /\ o \in Order \ Promise!Resting
  <1>1. PICK s2, q2, f2, m2 : /\ Held(s2, q2, f2, m2)'
                              /\ Queued(nodes, lvl, q, nodes', lvl', q2, l, o)
    BY PushHeld
  <1>2. PICK ns, lv, free, ns2, lv2 :
          /\ ns = nodes /\ lv = lvl /\ free = free_head /\ ns2 = nodes' /\ lv2 = lvl'
    OBVIOUS
  <1>3. Whole(ns, lv, free, q, f, m) /\ Queued(ns, lv, q, ns2, lv2, q2, l, o)
    BY <1>1, <1>2 DEF Held
  <1>4. Orders = Shown(ns, lv, q)
    BY <1>2, ShowOrders DEF OrdersShow, Held
  <1>5. OrdersShow'
    BY ShowOrders, PTL
  <1>6. Orders' = Shown(ns2, lv2, q2)
    BY <1>1, <1>2, <1>5 DEF OrdersShow, Held
  <1>7. PICK a, n : a = Shown(ns, lv, q)[l] /\ n = lv[l].count
    OBVIOUS
  <1>8. n \in Nat /\ a \in [1 .. n -> Order] /\ a = [k \in 1 .. n |-> ns[q[l][k]].order]
    <2>1. n \in Nat /\ a \in [1 .. n -> Order]
      BY <1>3, <1>7, ShownSequences
    <2> QED
      BY <1>7, <2>1 DEF Shown
  <1>9. Shown(ns2, lv2, q2)[l] = Append(a, o)
    <2>1. lv2[l].count = n + 1
      BY <1>3, <1>7 DEF Queued
    <2>2. \A k \in 1 .. n : ns2[q2[l][k]].order = a[k]
      BY <1>3, <1>7, <1>8 DEF Queued
    <2>3. ns2[q2[l][n + 1]].order = o
      BY <1>3, <2>1 DEF Queued
    <2>4. PICK b : b = [k \in 1 .. n + 1 |-> IF k = n + 1 THEN o ELSE a[k]]
      OBVIOUS
    <2>5. b = Append(a, o)
      BY <1>8, <2>4, AppendIs
    <2>6. Shown(ns2, lv2, q2)[l] = [k \in 1 .. n + 1 |-> ns2[q2[l][k]].order]
      BY <2>1 DEF Shown
    <2>7. \A k \in 1 .. n + 1 : ns2[q2[l][k]].order = IF k = n + 1 THEN o ELSE a[k]
      BY <1>8, <2>2, <2>3
    <2> QED
      BY <2>4, <2>5, <2>6, <2>7
  <1>10. ASSUME NEW x \in Level, x # l
         PROVE  Shown(ns2, lv2, q2)[x] = Shown(ns, lv, q)[x]
    <2>1. /\ lv2[x].count = lv[x].count
          /\ \A k \in 1 .. lv[x].count : ns2[q2[x][k]].order = ns[q[x][k]].order
      BY <1>3, <1>10 DEF Queued
    <2> QED
      BY <2>1 DEF Shown
  <1>11. Orders' = [Orders EXCEPT ![l] = Append(@, o)]
    <2>1. PICK A, B : A = Shown(ns, lv, q) /\ B = Shown(ns2, lv2, q2)
      OBVIOUS
    <2>2. A = [x \in Level |-> A[x]] /\ B = [x \in Level |-> B[x]]
      BY <2>1 DEF Shown
    <2>3. B[l] = Append(A[l], o) /\ \A x \in Level : x # l => B[x] = A[x]
      BY <1>7, <1>9, <1>10, <2>1
    <2>4. B = [A EXCEPT ![l] = Append(@, o)]
      BY <2>2, <2>3
    <2> QED
      BY <1>4, <1>6, <2>1, <2>4
  <1>12. Cardinality(Resting) < ORDER_POOL_MAX_CAP
    <2>1. /\ s \in 0 .. ORDER_POOL_MAX_CAP /\ s \in Nat /\ DOMAIN ns = 0 .. s - 1
          /\ Size(nodes) = s
      BY <1>2, HeldSize DEF Node, Capacities
    <2>2. PICK Q, R : Q = 0 .. s - 1 \ {f[j] : j \in 1 .. m} /\ R = 0 .. s - 1
      OBVIOUS
    <2>3. IsFiniteSet(R) /\ Cardinality(R) = s
      BY <2>1, <2>2, FS_Interval
    <2>4. Cardinality(Resting) = Cardinality(Q)
      BY <2>2, RestingCount
    <2>5. ~(free = NIL /\ s >= ORDER_POOL_MAX_CAP)
      BY <1>2, <2>1 DEF level_push_back, Full
    <2>6. CASE free = NIL
      <3>1. Cardinality(Q) <= Cardinality(R)
        BY <2>2, <2>3, FS_Subset
      <3>2. IsFiniteSet(Q)
        BY <2>2, <2>3, FS_Subset
      <3>3. Cardinality(Q) \in Nat
        BY <3>2, FS_CardinalityType
      <3> QED
        BY <2>1, <2>3, <2>4, <2>5, <2>6, <3>1, <3>3 DEF Capacities
    <2>7. CASE free # NIL
      <3>1. /\ m \in Nat /\ m # 0 /\ free = f[1] /\ free \in R
        <4>1. /\ m \in Nat
              /\ m = 0 => free = NIL
              /\ m # 0 => free = f[1] /\ free \in DOMAIN ns
          BY <1>3, FreeHead
        <4> QED
          BY <2>1, <2>2, <2>7, <4>1
      <3>2. Q \subseteq R \ {free}
        <4>1. 1 \in 1 .. m
          BY <3>1
        <4> QED
          BY <2>2, <3>1, <4>1
      <3>3. IsFiniteSet(R \ {free}) /\ Cardinality(R \ {free}) = s - 1
        BY <2>3, <3>1, FS_RemoveElement
      <3>4. IsFiniteSet(Q) /\ Cardinality(Q) <= Cardinality(R \ {free})
        BY <3>2, <3>3, FS_Subset
      <3>5. Cardinality(Q) \in Nat
        BY <3>4, FS_CardinalityType
      <3> QED
        BY <2>1, <2>4, <3>3, <3>4, <3>5 DEF Capacities
    <2> QED
      BY <2>6, <2>7
  <1>13. Promise!Resting = Resting
    BY ShownResting
  <1>14. ~halted /\ halted' = halted
    BY DEF level_push_back
  <1>15. Promise!PushBack(l, o)
    <2>1. Promise!Cardinality(Promise!Resting) < ORDER_POOL_MAX_CAP
      BY <1>12, <1>13, SameCount, Zenon
    <2> QED
      BY <1>11, <1>14, <2>1 DEF Promise!PushBack, Orders
  <1> QED
    BY <1>13, <1>15

LEMMA PopRefined ==
  ASSUME Capacities, NEW s, NEW q, NEW f, NEW m, Held(s, q, f, m),
         NEW l \in Level, level_pop_front(l)
  PROVE  Promise!PopFront(l)
  <1>1. PICK q2, f2, m2 : /\ Held(s, q2, f2, m2)'
                          /\ Unqueued(nodes, lvl, q, nodes', lvl', q2, l)
    BY PopHeld
  <1>2. PICK ns, lv, free, ns2, lv2 :
          /\ ns = nodes /\ lv = lvl /\ free = free_head /\ ns2 = nodes' /\ lv2 = lvl'
    OBVIOUS
  <1>3. Whole(ns, lv, free, q, f, m) /\ Unqueued(ns, lv, q, ns2, lv2, q2, l)
    BY <1>1, <1>2 DEF Held
  <1>4. Orders = Shown(ns, lv, q)
    BY <1>2, ShowOrders DEF OrdersShow, Held
  <1>5. OrdersShow'
    BY ShowOrders, PTL
  <1>6. Orders' = Shown(ns2, lv2, q2)
    BY <1>1, <1>2, <1>5 DEF OrdersShow, Held
  <1>7. PICK a, n : a = Shown(ns, lv, q)[l] /\ n = lv[l].count
    OBVIOUS
  <1>8. n \in Nat /\ a \in [1 .. n -> Order] /\ a = [k \in 1 .. n |-> ns[q[l][k]].order]
    <2>1. n \in Nat /\ a \in [1 .. n -> Order]
      BY <1>3, <1>7, ShownSequences
    <2> QED
      BY <1>7, <2>1 DEF Shown
  <1>9. Shown(ns2, lv2, q2)[l] = Tail(a) /\ a # <<>>
    <2>1. lv2[l].count = n - 1 /\ n > 0
      BY <1>3, <1>7 DEF Unqueued
    <2>2. \A k \in 1 .. n - 1 : ns2[q2[l][k]].order = ns[q[l][k + 1]].order
      BY <1>3, <2>1 DEF Unqueued
    <2>3. \A k \in 1 .. n - 1 : ns2[q2[l][k]].order = a[k + 1]
      <3>1. \A k \in 1 .. n - 1 : k + 1 \in 1 .. n
        BY <1>8
      <3> QED
        BY <1>8, <2>2, <3>1
    <2>4. PICK b : b = [k \in 1 .. n - 1 |-> a[k + 1]]
      OBVIOUS
    <2>5. b = Tail(a) /\ a # <<>>
      <3>1. n \in Nat /\ n > 0 /\ a \in [1 .. n -> Order]
        BY <1>8, <2>1
      <3> QED
        BY <2>4, <3>1, TailIs
    <2>6. Shown(ns2, lv2, q2)[l] = [k \in 1 .. n - 1 |-> ns2[q2[l][k]].order]
      BY <2>1 DEF Shown
    <2> QED
      BY <2>3, <2>4, <2>5, <2>6
  <1>10. ASSUME NEW x \in Level, x # l
         PROVE  Shown(ns2, lv2, q2)[x] = Shown(ns, lv, q)[x]
    <2>1. lv2[x].count = lv[x].count
      BY <1>3, <1>10 DEF Unqueued
    <2>2. \A k \in 1 .. lv[x].count : ns2[q2[x][k]].order = ns[q[x][k]].order
      BY <1>3, <1>10, <2>1 DEF Unqueued
    <2> QED
      BY <2>1, <2>2 DEF Shown
  <1>11. Orders' = [Orders EXCEPT ![l] = Tail(@)] /\ Orders[l] # <<>>
    <2>1. PICK A, B : A = Shown(ns, lv, q) /\ B = Shown(ns2, lv2, q2)
      OBVIOUS
    <2>2. A = [x \in Level |-> A[x]] /\ B = [x \in Level |-> B[x]]
      BY <2>1 DEF Shown
    <2>3. B[l] = Tail(A[l]) /\ A[l] # <<>> /\ \A x \in Level : x # l => B[x] = A[x]
      BY <1>7, <1>9, <1>10, <2>1
    <2>4. B = [A EXCEPT ![l] = Tail(@)]
      BY <2>2, <2>3
    <2> QED
      BY <1>4, <1>6, <2>1, <2>3, <2>4
  <1>12. ~halted /\ halted' = halted
    BY DEF level_pop_front
  <1> QED
    BY <1>11, <1>12 DEF Promise!PopFront, Orders

LEMMA ExhaustedRefined ==
  ASSUME Capacities, NEW s, NEW q, NEW f, NEW m, Held(s, q, f, m), Exhausted
  PROVE  Promise!Exhausted
  <1>1. PICK ns, lv, free : ns = nodes /\ lv = lvl /\ free = free_head
    OBVIOUS
  <1>2. /\ s \in 0 .. ORDER_POOL_MAX_CAP /\ s \in Nat /\ DOMAIN ns = 0 .. s - 1
        /\ Size(nodes) = s
    BY <1>1, HeldSize DEF Node, Capacities
  <1>3. free = NIL /\ s >= ORDER_POOL_MAX_CAP
    BY <1>1, <1>2 DEF Exhausted, Full
  <1>4. m = 0
    <2>1. /\ m \in Nat /\ NIL \notin DOMAIN ns
          /\ m # 0 => free \in DOMAIN ns
      BY <1>1, FreeHead DEF Held
    <2> QED
      BY <1>3, <2>1
  <1>5. 0 .. s - 1 \ {f[j] : j \in 1 .. m} = 0 .. s - 1
    BY <1>4
  <1>6. Cardinality(0 .. s - 1) = s
    BY <1>2, FS_Interval
  <1>7. Cardinality(Resting) = s
    <2>1. PICK Q : Q = 0 .. s - 1 \ {f[j] : j \in 1 .. m}
      OBVIOUS
    <2>2. Cardinality(Resting) = Cardinality(Q)
      BY <2>1, RestingCount
    <2> QED
      BY <1>5, <1>6, <2>1, <2>2
  <1>8. s = ORDER_POOL_MAX_CAP
    BY <1>2, <1>3 DEF Capacities
  <1>9. Promise!Resting = Resting
    BY ShownResting
  <1>10. Orders' = Orders
    BY DEF Exhausted, Orders, OrderAt, Queue, Walk, Following, Node
  <1>11. ~halted /\ halted' = TRUE
    BY DEF Exhausted
  <1> QED
    <2>1. Promise!Cardinality(Promise!Resting) = ORDER_POOL_MAX_CAP
      BY <1>7, <1>8, <1>9, SameCount, Zenon
    <2> QED
      BY <1>10, <1>11, <2>1 DEF Promise!Exhausted, Orders

LEMMA StepRefined ==
  ASSUME Capacities, Inv, [Next]_vars
  PROVE  [Promise!Next]_(Promise!vars)
  <1>1. PICK s, q, f, m : Held(s, q, f, m)
    BY DEF Inv
  <1>2. ASSUME NEW l \in Level, NEW o \in Order \ Resting, level_push_back(l, o)
        PROVE  Promise!Next
    <2>1. Promise!PushBack(l, o) /\ o \in Order \ Promise!Resting
      BY <1>1, <1>2, PushRefined
    <2> QED
      BY <2>1 DEF Promise!Next
  <1>3. ASSUME NEW l \in Level, level_pop_front(l)
        PROVE  Promise!Next
    <2>1. Promise!PopFront(l)
      BY <1>1, <1>3, PopRefined
    <2> QED
      BY <2>1 DEF Promise!Next
  <1>4. CASE Exhausted
    <2>1. Promise!Exhausted
      BY <1>1, <1>4, ExhaustedRefined
    <2> QED
      BY <2>1 DEF Promise!Next
  <1>5. CASE UNCHANGED vars
    <2>1. Orders' = Orders /\ halted' = halted
      BY <1>5 DEF vars, Orders, OrderAt, Queue, Walk, Following, Node
    <2> QED
      BY <2>1 DEF Promise!vars, Orders
  <1> QED
    BY <1>2, <1>3, <1>4, <1>5 DEF Next

LEMMA InitRefined == ASSUME Capacities PROVE Init => Promise!Init
  <1> SUFFICES ASSUME Init
               PROVE  Promise!Init
    OBVIOUS
  <1>1. \A l \in Level : lvl[l].count = 0
    BY DEF Init
  <1>2. Orders = [l \in Level |-> <<>>]
    <2>1. \A l \in Level : [k \in 1 .. lvl[l].count |-> OrderAt(Queue(l)[k])] = <<>>
      BY <1>1
    <2> QED
      BY <2>1 DEF Orders
  <1>3. halted = FALSE
    BY DEF Init
  <1> QED
    BY <1>2, <1>3 DEF Promise!Init, Orders

\* However nodes are handed out, reused and added, the pool and the levels are
\* queues of orders, and acquire throws only when as many orders rest as the
\* pool may ever have nodes.
THEOREM PoolRefines == ASSUME Capacities PROVE Spec => ImplementsLevelQueues
  <1>1. Inv /\ [Next]_vars => [Promise!Next]_(Promise!vars)
    BY StepRefined
  <1> QED
    BY <1>1, InitRefined, PoolInvariant, PTL DEF Spec, ImplementsLevelQueues, Promise!Spec

=============================================================================

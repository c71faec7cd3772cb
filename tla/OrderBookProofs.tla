--------------------------- MODULE OrderBookProofs ---------------------------
(***************************************************************************)
(* Proofs about module OrderBook and the snapshots of BookSnapshot, for      *)
(* every set of ids, prices, quantities and sessions and every window size.  *)
(***************************************************************************)
EXTENDS BookSnapshot, FiniteSetTheorems, WellFoundedInduction, TLAPS

Assumptions ==
  /\ Price \subseteq Nat \ {0}
  /\ Qty \subseteq Nat \ {0}
  /\ PRICE_WINDOW \in Nat \ {0}

LEMMA AssumptionsHold == Assumptions
  BY PriceAssumption, QtyAssumption, WindowAssumption DEF Assumptions

\* index_of never leaves the arrays of price levels.
LEMMA IndexInWindow == \A p \in Price : index_of(p) \in Slot
  BY AssumptionsHold DEF Assumptions, index_of, Slot

\* A queue without its front order: what level_pop_front leaves.
LEMMA TailFacts ==
  ASSUME NEW S, NEW q \in Seq(S), q # <<>>
  PROVE  /\ Len(q) \in Nat \ {0}
         /\ Head(q) = q[1]
         /\ Tail(q) \in Seq(S)
         /\ Len(Tail(q)) = Len(q) - 1
         /\ \A k \in 1 .. Len(q) - 1 : Tail(q)[k] = q[k + 1]
  OBVIOUS

\* There is at most one best slot, and it is marked.
LEMMA BestUnique ==
  ASSUME TypeOK, NEW side \in Side,
         NEW s \in Best(side), NEW t \in Best(side)
  PROVE  s = t /\ s \in Slot /\ s \in bitmap[side]
  BY DEF TypeOK, Best, Slot

\* Where an order rests: at some place of the queue its price leads to.
LEMMA Place ==
  ASSUME TypeOK, QueuesWellFormed, NEW side \in Side, NEW i \in On(side)
  PROVE  /\ i \in Booked
         /\ order[i].side = side
         /\ order[i].qty > 0
         /\ index_of(order[i].price) \in Slot
         /\ \E k \in 1 .. Len(level[side][index_of(order[i].price)]) :
              level[side][index_of(order[i].price)][k] = i
  <1>0. PICK s \in Slot : \E k \in 1 .. Len(level[side][s]) : level[side][s][k] = i
    BY DEF On
  <1>1. PICK k \in 1 .. Len(level[side][s]) : level[side][s][k] = i
    BY <1>0
  <1>2. i \in Booked /\ order[i].side = side /\ index_of(order[i].price) = s /\ order[i].qty > 0
    BY <1>1 DEF QueuesWellFormed
  <1> QED
    BY <1>1, <1>2

\* The front order of a best slot.
LEMMA Front ==
  ASSUME TypeOK, BitmapMarksLevels, QueuesWellFormed,
         NEW side \in Side, NEW s \in Best(side)
  PROVE  /\ s \in Slot
         /\ level[side][s] # <<>>
         /\ level[side][s] \in Seq(OrderId)
         /\ Len(level[side][s]) \in Nat \ {0}
         /\ level_front(side, s) = level[side][s][1]
         /\ level_front(side, s) \in On(side)
         /\ level_front(side, s) \in Booked
         /\ level_front(side, s) \in OrderId
         /\ order[level_front(side, s)].side = side
         /\ order[level_front(side, s)].qty \in Nat
         /\ order[level_front(side, s)].qty > 0
         /\ index_of(order[level_front(side, s)].price) = s
  <1>1. s \in Slot /\ level[side][s] # <<>>
    BY BestUnique DEF BitmapMarksLevels
  <1>2. level[side][s] \in Seq(OrderId)
    BY <1>1 DEF TypeOK
  <1>3. Len(level[side][s]) \in Nat \ {0} /\ level_front(side, s) = level[side][s][1]
    BY <1>1, <1>2, TailFacts DEF level_front
  <1>4. 1 \in 1 .. Len(level[side][s])
    BY <1>3
  <1>5. level_front(side, s) \in OrderId
    BY <1>2, <1>3, <1>4
  <1>6. level_front(side, s) \in On(side)
    BY <1>1, <1>3, <1>4, <1>5 DEF On
  <1>7. /\ level_front(side, s) \in Booked
        /\ order[level_front(side, s)].side = side
        /\ index_of(order[level_front(side, s)].price) = s
        /\ order[level_front(side, s)].qty > 0
    BY <1>1, <1>3, <1>4 DEF QueuesWellFormed
  <1>8. order[level_front(side, s)].qty \in Nat
    BY <1>7 DEF TypeOK, Order
  <1> QED
    BY <1>1, <1>2, <1>3, <1>5, <1>6, <1>7, <1>8

\* An order rests in one place only, so a popped one rests no more.
LEMMA OnePlace ==
  ASSUME TypeOK, QueuesWellFormed,
         NEW side \in Side, NEW s \in Slot, NEW k \in 1 .. Len(level[side][s]),
         NEW sd \in Side, NEW t \in Slot, NEW l \in 1 .. Len(level[sd][t]),
         level[side][s][k] = level[sd][t][l]
  PROVE  side = sd /\ s = t /\ k = l
  <1>a. /\ order[level[side][s][k]].side = side
        /\ index_of(order[level[side][s][k]].price) = s
    BY Zenon DEF QueuesWellFormed
  <1>b. /\ order[level[sd][t][l]].side = sd
        /\ index_of(order[level[sd][t][l]].price) = t
    BY Zenon DEF QueuesWellFormed
  <1>1. side = sd /\ s = t
    BY <1>a, <1>b, Zenon
  <1>2. level[side][s] \in Seq(OrderId)
    BY DEF TypeOK
  <1>3. Len(level[side][s]) \in Nat /\ k \in Nat /\ l \in Nat
    BY <1>1, <1>2
  <1>4. order[level[side][s][k]].at \in Nat
    BY DEF QueuesWellFormed, TypeOK, Order
  <1>5. ~(k < l) /\ ~(l < k)
    BY <1>1, <1>4 DEF QueuesWellFormed
  <1> QED
    BY <1>1, <1>3, <1>5

-----------------------------------------------------------------------------
(***************************************************************************)
(* What popping the fronts of some queues does to the book; gone holds the  *)
(* places popped from. An eviction pops one queue, a fill none, one or two. *)
(***************************************************************************)
PopFronts(gone) ==
  /\ level' = [side \in Side |-> [s \in Slot |->
                 IF <<side, s>> \in gone THEN Tail(level[side][s]) ELSE level[side][s]]]
  /\ bitmap' = [side \in Side |->
                  {s \in bitmap[side] : <<side, s>> \in gone => Tail(level[side][s]) # <<>>}]

\* How far the orders of a queue move up.
Shift(gone, side, s) == IF <<side, s>> \in gone THEN 1 ELSE 0

\* Every order but the popped fronts keeps its queue, and moves up in it.
LEMMA PopQueues ==
  ASSUME TypeOK, NEW gone \in SUBSET (Side \X Slot), PopFronts(gone),
         \A side \in Side, s \in Slot : <<side, s>> \in gone => level[side][s] # <<>>,
         NEW side \in Side, NEW s \in Slot
  PROVE  /\ Shift(gone, side, s) \in {0, 1}
         /\ level'[side][s] \in Seq(OrderId)
         /\ Len(level[side][s]) \in Nat
         /\ Len(level'[side][s]) = Len(level[side][s]) - Shift(gone, side, s)
         /\ \A k \in 1 .. Len(level'[side][s]) :
              /\ k + Shift(gone, side, s) \in 1 .. Len(level[side][s])
              /\ level'[side][s][k] = level[side][s][k + Shift(gone, side, s)]
  <1>1. level[side][s] \in Seq(OrderId)
    BY DEF TypeOK
  <1>2. CASE <<side, s>> \in gone
    <2>1. level'[side][s] = Tail(level[side][s]) /\ level[side][s] # <<>>
      BY <1>2 DEF PopFronts
    <2> QED
      BY <1>1, <1>2, <2>1, TailFacts DEF Shift
  <1>3. CASE <<side, s>> \notin gone
    <2>1. level'[side][s] = level[side][s]
      BY <1>3 DEF PopFronts
    <2> QED
      BY <1>1, <1>3, <2>1 DEF Shift
  <1> QED
    BY <1>2, <1>3

\* What rests after the pop is what rested before, less the popped fronts.
LEMMA PopResting ==
  ASSUME TypeOK, QueuesWellFormed,
         NEW gone \in SUBSET (Side \X Slot), PopFronts(gone),
         \A side \in Side, s \in Slot : <<side, s>> \in gone => level[side][s] # <<>>,
         NEW side \in Side, NEW i
  PROVE  i \in On(side)' <=>
           /\ i \in On(side)
           /\ \A s \in Slot : <<side, s>> \in gone => level_front(side, s) # i
  <1>1. ASSUME i \in On(side)'
        PROVE  i \in On(side) /\ \A s \in Slot : <<side, s>> \in gone => level_front(side, s) # i
    <2>0. PICK t \in Slot : i \in OrderId /\ \E k \in 1 .. Len(level'[side][t]) : level'[side][t][k] = i
      BY <1>1 DEF On
    <2>1. PICK k \in 1 .. Len(level'[side][t]) : level'[side][t][k] = i
      BY <2>0
    <2> DEFINE d == Shift(gone, side, t)
    <2>2. k + d \in 1 .. Len(level[side][t]) /\ level[side][t][k + d] = i
      BY <2>1, PopQueues
    <2>3. i \in On(side)
      BY <2>0, <2>2 DEF On
    <2>4. ASSUME NEW s \in Slot, <<side, s>> \in gone, level_front(side, s) = i
          PROVE  FALSE
      <3>1. level[side][s] \in Seq(OrderId) /\ level[side][s] # <<>>
        BY <2>4 DEF TypeOK
      <3>2. 1 \in 1 .. Len(level[side][s]) /\ level[side][s][1] = i
        BY <2>4, <3>1, TailFacts DEF level_front
      <3>3. s = t /\ k + d = 1
        BY <2>2, <3>2, OnePlace
      <3> QED
        BY <2>1, <2>4, <3>3 DEF Shift
    <2> QED
      BY <2>3, <2>4
  <1>2. ASSUME i \in On(side),
               \A s \in Slot : <<side, s>> \in gone => level_front(side, s) # i
        PROVE  i \in On(side)'
    <2>0. PICK t \in Slot : i \in OrderId /\ \E k \in 1 .. Len(level[side][t]) : level[side][t][k] = i
      BY <1>2 DEF On
    <2>1. PICK k \in 1 .. Len(level[side][t]) : level[side][t][k] = i
      BY <2>0
    <2>2. level[side][t] \in Seq(OrderId)
      BY DEF TypeOK
    <2> DEFINE d == Shift(gone, side, t)
    <2>3. <<side, t>> \in gone => k # 1
      <3> SUFFICES ASSUME <<side, t>> \in gone, k = 1
                   PROVE  FALSE
        OBVIOUS
      <3>1. level_front(side, t) = level[side][t][1]
        BY <2>2, TailFacts DEF level_front
      <3> QED
        BY <1>2, <2>1, <3>1
    <2>4. k - d \in 1 .. Len(level'[side][t])
      <3>1. d = 1 => k # 1
        BY <2>3 DEF Shift
      <3> HIDE DEF d
      <3>2. d \in {0, 1} /\ Len(level'[side][t]) = Len(level[side][t]) - d
        BY PopQueues DEF d
      <3> QED
        BY <2>2, <3>1, <3>2
    <2>5. level'[side][t][k - d] = i
      <3>1. level'[side][t][k - d] = level[side][t][(k - d) + d]
        BY <2>4, PopQueues
      <3>2. (k - d) + d = k
        BY <2>2, PopQueues
      <3> QED
        BY <2>1, <3>1, <3>2
    <2> QED
      BY <2>0, <2>4, <2>5 DEF On
  <1> QED
    BY <1>1, <1>2

\* The bitmap follows the queues, and the queues keep their order, whatever
\* else the step does to the orders that stay.
LEMMA PopKeepsQueues ==
  ASSUME TypeOK, BitmapMarksLevels, QueuesWellFormed,
         NEW gone \in SUBSET (Side \X Slot), PopFronts(gone),
         \A side \in Side, s \in Slot : <<side, s>> \in gone => level[side][s] # <<>>,
         Booked' = Booked,
         \A i \in Booked : /\ order'[i].side = order[i].side
                           /\ order'[i].price = order[i].price
                           /\ order'[i].at = order[i].at,
         \A i \in Resting' : order'[i].qty > 0,
         seq_len' = seq_len
  PROVE  /\ level' \in [Side -> [Slot -> Seq(OrderId)]]
         /\ bitmap' \in [Side -> SUBSET Slot]
         /\ BitmapMarksLevels'
         /\ QueuesWellFormed'
  <1>1. level' \in [Side -> [Slot -> Seq(OrderId)]]
    <2>1. \A side \in Side, s \in Slot : level'[side][s] \in Seq(OrderId)
      BY PopQueues
    <2> QED
      BY <2>1 DEF PopFronts
  <1>2. bitmap' \in [Side -> SUBSET Slot]
    BY DEF TypeOK, PopFronts
  <1>3. BitmapMarksLevels'
    <2> SUFFICES ASSUME NEW side \in Side, NEW s \in Slot
                 PROVE  s \in bitmap'[side] <=> level'[side][s] # <<>>
      BY <1>2 DEF BitmapMarksLevels
    <2>1. s \in bitmap[side] <=> level[side][s] # <<>>
      BY DEF BitmapMarksLevels
    <2>2. level'[side][s] = IF <<side, s>> \in gone THEN Tail(level[side][s]) ELSE level[side][s]
      BY DEF PopFronts
    <2>3. s \in bitmap'[side] <=>
            s \in bitmap[side] /\ (<<side, s>> \in gone => Tail(level[side][s]) # <<>>)
      BY DEF PopFronts
    <2> QED
      BY <2>1, <2>2, <2>3
  <1>4. QueuesWellFormed'
    <2> SUFFICES ASSUME NEW side \in Side, NEW s \in Slot
                 PROVE  /\ \A k \in 1 .. Len(level'[side][s]) :
                             LET i == level'[side][s][k]
                             IN  /\ i \in Booked'
                                 /\ order'[i].side = side
                                 /\ index_of(order'[i].price) = s
                                 /\ order'[i].qty > 0
                                 /\ order'[i].at <= seq_len'
                        /\ \A k, l \in 1 .. Len(level'[side][s]) :
                             k < l => order'[level'[side][s][k]].at < order'[level'[side][s][l]].at
      BY DEF QueuesWellFormed, index_of
    <2> DEFINE d == Shift(gone, side, s)
    <2>1. \A k \in 1 .. Len(level'[side][s]) :
            k + d \in 1 .. Len(level[side][s]) /\ level'[side][s][k] = level[side][s][k + d]
      BY PopQueues
    <2>2. ASSUME NEW k \in 1 .. Len(level'[side][s])
          PROVE  LET i == level'[side][s][k]
                 IN  /\ i \in Booked'
                     /\ order'[i].side = side
                     /\ index_of(order'[i].price) = s
                     /\ order'[i].qty > 0
                     /\ order'[i].at <= seq_len'
      <3> DEFINE i == level'[side][s][k]
      <3>1. i \in Booked /\ order[i].side = side /\ index_of(order[i].price) = s /\ order[i].at <= seq_len
        <4>1. PICK m \in 1 .. Len(level[side][s]) : i = level[side][s][m]
          BY <2>1
        <4> HIDE DEF i
        <4> QED
          BY <4>1 DEF QueuesWellFormed
      <3>2. level'[side][s] \in Seq(OrderId)
        BY PopQueues
      <3>3. i \in OrderId
        BY <3>2
      <3>4. i \in Resting'
        BY <3>3 DEF Resting, On, Side
      <3> QED
        BY <3>1, <3>4
    <2>3. ASSUME NEW k \in 1 .. Len(level'[side][s]), NEW l \in 1 .. Len(level'[side][s]), k < l
          PROVE  order'[level'[side][s][k]].at < order'[level'[side][s][l]].at
      <3>1. k + d < l + d
        BY <2>3, PopQueues
      <3>2. order[level[side][s][k + d]].at < order[level[side][s][l + d]].at
        BY <2>1, <3>1 DEF QueuesWellFormed
      <3>3. level[side][s][k + d] \in Booked /\ level[side][s][l + d] \in Booked
        BY <2>1 DEF QueuesWellFormed
      <3> QED
        BY <2>1, <3>2, <3>3
    <2> QED
      BY <2>2, <2>3
  <1> QED
    BY <1>1, <1>2, <1>3, <1>4

-----------------------------------------------------------------------------
(* What a new order does to the book. *)

\* A booked order is one of the queue its price leads to, the last.
LEMMA InsertQueues ==
  ASSUME TypeOK, NEW i \in OrderId, NEW side \in Side, NEW price \in Price,
         NEW qty \in Qty, NEW session \in Session,
         insert(i, side, price, qty, session),
         NEW sd \in Side, NEW s \in Slot
  PROVE  /\ level[sd][s] \in Seq(OrderId)
         /\ level'[sd][s] = IF sd = side /\ s = index_of(price)
                            THEN Append(level[sd][s], i) ELSE level[sd][s]
         /\ Len(level[sd][s]) \in Nat
         /\ sd = side /\ s = index_of(price) =>
              /\ level'[sd][s] \in Seq(OrderId)
              /\ level'[sd][s] # <<>>
              /\ Len(level'[sd][s]) = Len(level[sd][s]) + 1
              /\ \A k \in 1 .. Len(level[sd][s]) : level'[sd][s][k] = level[sd][s][k]
              /\ level'[sd][s][Len(level[sd][s]) + 1] = i
         /\ \A k \in 1 .. Len(level'[sd][s]) :
              \/ k \in 1 .. Len(level[sd][s]) /\ level'[sd][s][k] = level[sd][s][k]
              \/ /\ sd = side /\ s = index_of(price)
                 /\ k = Len(level[sd][s]) + 1
                 /\ level'[sd][s][k] = i
  <1>1. level[sd][s] \in Seq(OrderId)
    BY DEF TypeOK
  <1>2. level'[sd][s] = IF sd = side /\ s = index_of(price)
                        THEN Append(level[sd][s], i) ELSE level[sd][s]
    BY DEF TypeOK, insert, level_push_back
  <1>3. CASE sd = side /\ s = index_of(price)
    BY <1>1, <1>2, <1>3
  <1>4. CASE ~(sd = side /\ s = index_of(price))
    BY <1>1, <1>2, <1>4
  <1> QED
    BY <1>3, <1>4

LEMMA InsertOrder ==
  ASSUME TypeOK, NEW i \in OrderId, i \notin Booked, NEW side \in Side,
         NEW price \in Price, NEW qty \in Qty, NEW session \in Session,
         seq_len' = seq_len + 1, insert(i, side, price, qty, session)
  PROVE  /\ Booked' = Booked \union {i}
         /\ \A j \in Booked : order'[j] = order[j]
         /\ order'[i] = [side |-> side, price |-> price, qty |-> qty,
                         session |-> session, at |-> seq_len + 1, placed |-> qty]
         /\ \A j \in Booked' : order'[j] \in Order
  <1>1. /\ Booked' = Booked \union {i}
        /\ \A j \in Booked : order'[j] = order[j]
        /\ order'[i] = [side |-> side, price |-> price, qty |-> qty,
                        session |-> session, at |-> seq_len + 1, placed |-> qty]
    BY DEF insert, Booked
  <1>2. order'[i] \in Order
    BY <1>1, AssumptionsHold DEF Assumptions, TypeOK, Order
  <1>3. \A j \in Booked : order'[j] \in Order
    BY <1>1 DEF TypeOK
  <1> QED
    BY <1>1, <1>2, <1>3

LEMMA InsertResting ==
  ASSUME TypeOK, NEW i \in OrderId, NEW side \in Side, NEW price \in Price,
         NEW qty \in Qty, NEW session \in Session,
         insert(i, side, price, qty, session)
  PROVE  Resting' = Resting \union {i}
  <1>1. index_of(price) \in Slot
    BY IndexInWindow
  <1>2. ASSUME NEW j \in Resting'
        PROVE  j \in Resting \union {i}
    <2>1. PICK sd \in Side : j \in On(sd)'
      BY <1>2 DEF Resting, Side
    <2>2. PICK s \in Slot : j \in OrderId /\ \E k \in 1 .. Len(level'[sd][s]) : level'[sd][s][k] = j
      BY <2>1 DEF On
    <2>3. PICK k \in 1 .. Len(level'[sd][s]) : level'[sd][s][k] = j
      BY <2>2
    <2>4. j = i \/ (k \in 1 .. Len(level[sd][s]) /\ level[sd][s][k] = j)
      BY <2>3, InsertQueues
    <2>5. j = i \/ j \in On(sd)
      BY <2>2, <2>4 DEF On
    <2> QED
      BY <2>5 DEF Resting, Side
  <1>3. ASSUME NEW j \in Resting
        PROVE  j \in Resting'
    <2>1. PICK sd \in Side : j \in On(sd)
      BY <1>3 DEF Resting, Side
    <2>2. PICK s \in Slot : j \in OrderId /\ \E k \in 1 .. Len(level[sd][s]) : level[sd][s][k] = j
      BY <2>1 DEF On
    <2>3. PICK k \in 1 .. Len(level[sd][s]) : level[sd][s][k] = j
      BY <2>2
    <2>4. k \in 1 .. Len(level'[sd][s]) /\ level'[sd][s][k] = j
      <3>1. CASE sd = side /\ s = index_of(price)
        <4>1. /\ Len(level[sd][s]) \in Nat
              /\ Len(level'[sd][s]) = Len(level[sd][s]) + 1
              /\ \A l \in 1 .. Len(level[sd][s]) : level'[sd][s][l] = level[sd][s][l]
          BY <3>1, InsertQueues
        <4> QED
          BY <2>3, <4>1
      <3>2. CASE ~(sd = side /\ s = index_of(price))
        <4>1. level'[sd][s] = level[sd][s]
          BY <3>2, InsertQueues
        <4> QED
          BY <2>3, <4>1
      <3> QED
        BY <3>1, <3>2
    <2>5. j \in On(sd)'
      BY <2>2, <2>4 DEF On
    <2> QED
      BY <2>5 DEF Resting, Side
  <1>4. i \in Resting'
    <2> DEFINE s == index_of(price)
               k == Len(level[side][s]) + 1
    <2>1. Len(level[side][s]) \in Nat /\ Len(level'[side][s]) = k /\ level'[side][s][k] = i
      BY <1>1, InsertQueues
    <2>2. k \in 1 .. Len(level'[side][s])
      BY <2>1
    <2> HIDE DEF k
    <2>3. i \in On(side)'
      BY <1>1, <2>1, <2>2 DEF On
    <2> QED
      BY <2>3 DEF Resting, Side
  <1> QED
    BY <1>2, <1>3, <1>4

LEMMA InsertKeepsQueues ==
  ASSUME TypeOK, BitmapMarksLevels, QueuesWellFormed,
         NEW i \in OrderId, i \notin Booked, NEW side \in Side,
         NEW price \in Price, NEW qty \in Qty, NEW session \in Session,
         seq_len' = seq_len + 1, insert(i, side, price, qty, session)
  PROVE  /\ level' \in [Side -> [Slot -> Seq(OrderId)]]
         /\ bitmap' \in [Side -> SUBSET Slot]
         /\ BitmapMarksLevels'
         /\ QueuesWellFormed'
  <1>0. index_of(price) \in Slot
    BY IndexInWindow
  <1>1. level' \in [Side -> [Slot -> Seq(OrderId)]]
    BY <1>0 DEF TypeOK, insert, level_push_back
  <1>2. bitmap' \in [Side -> SUBSET Slot]
    BY <1>0 DEF TypeOK, insert
  <1>3. BitmapMarksLevels'
    <2> SUFFICES ASSUME NEW sd \in Side, NEW s \in Slot
                 PROVE  s \in bitmap'[sd] <=> level'[sd][s] # <<>>
      BY <1>2 DEF BitmapMarksLevels
    <2>1. s \in bitmap[sd] <=> level[sd][s] # <<>>
      BY DEF BitmapMarksLevels
    <2>2. CASE sd = side /\ s = index_of(price)
      <3>1. level'[sd][s] # <<>>
        BY <2>2, InsertQueues
      <3>2. s \in bitmap'[sd]
        BY <2>1, <2>2 DEF TypeOK, insert
      <3> QED
        BY <3>1, <3>2
    <2>3. CASE ~(sd = side /\ s = index_of(price))
      <3>1. level'[sd][s] = level[sd][s]
        BY <2>3, InsertQueues
      <3>2. s \in bitmap'[sd] <=> s \in bitmap[sd]
        BY <2>3 DEF TypeOK, insert
      <3> QED
        BY <2>1, <3>1, <3>2
    <2> QED
      BY <2>2, <2>3
  <1>4. QueuesWellFormed'
    <2> SUFFICES ASSUME NEW sd \in Side, NEW s \in Slot
                 PROVE  /\ \A k \in 1 .. Len(level'[sd][s]) :
                             LET j == level'[sd][s][k]
                             IN  /\ j \in Booked'
                                 /\ order'[j].side = sd
                                 /\ index_of(order'[j].price) = s
                                 /\ order'[j].qty > 0
                                 /\ order'[j].at <= seq_len'
                        /\ \A k, l \in 1 .. Len(level'[sd][s]) :
                             k < l => order'[level'[sd][s][k]].at < order'[level'[sd][s][l]].at
      BY DEF QueuesWellFormed, index_of
    <2> DEFINE old(k) == k \in 1 .. Len(level[sd][s]) /\ level'[sd][s][k] = level[sd][s][k]
               new(k) == /\ sd = side /\ s = index_of(price)
                         /\ k = Len(level[sd][s]) + 1
                         /\ level'[sd][s][k] = i
    <2>1. \A k \in 1 .. Len(level'[sd][s]) : old(k) \/ new(k)
      BY InsertQueues, SMTT(20)
    <2>2. ASSUME NEW k \in 1 .. Len(level'[sd][s]), old(k)
          PROVE  LET j == level'[sd][s][k]
                 IN  /\ j \in Booked
                     /\ order'[j] = order[j]
                     /\ order[j].side = sd
                     /\ index_of(order[j].price) = s
                     /\ order[j].qty > 0
                     /\ order[j].at \in Nat
                     /\ order[j].at <= seq_len
      <3> DEFINE j == level[sd][s][k]
      <3>1. /\ j \in Booked
            /\ order[j].side = sd
            /\ index_of(order[j].price) = s
            /\ order[j].qty > 0
            /\ order[j].at <= seq_len
        BY <2>2 DEF QueuesWellFormed
      <3>2. order[j].at \in Nat
        BY <3>1 DEF TypeOK, Order
      <3>3. order'[j] = order[j]
        BY <3>1, InsertOrder
      <3> QED
        BY <2>2, <3>1, <3>2, <3>3
    <2>3. seq_len \in Nat
      BY DEF TypeOK
    <2>4. ASSUME NEW k \in 1 .. Len(level'[sd][s]), new(k)
          PROVE  LET j == level'[sd][s][k]
                 IN  /\ j \in Booked'
                     /\ order'[j].side = sd
                     /\ index_of(order'[j].price) = s
                     /\ order'[j].qty > 0
                     /\ order'[j].at = seq_len + 1
      <3>1. i \in Booked' /\ order'[i] = [side |-> side, price |-> price, qty |-> qty,
                        session |-> session, at |-> seq_len + 1, placed |-> qty]
        BY InsertOrder
      <3> QED
        BY <2>4, <3>1, AssumptionsHold DEF Assumptions
    <2>5. ASSUME NEW k \in 1 .. Len(level'[sd][s])
          PROVE  LET j == level'[sd][s][k]
                 IN  /\ j \in Booked'
                     /\ order'[j].side = sd
                     /\ index_of(order'[j].price) = s
                     /\ order'[j].qty > 0
                     /\ order'[j].at <= seq_len'
      <3>1. CASE old(k)
        <4>1. level'[sd][s][k] \in Booked'
          BY <2>2, <3>1, InsertOrder
        <4> DEFINE j == level'[sd][s][k]
        <4>2. /\ order'[j] = order[j]
              /\ order[j].side = sd
              /\ index_of(order[j].price) = s
              /\ order[j].qty > 0
              /\ order[j].at \in Nat
              /\ order[j].at <= seq_len
          BY <2>2, <3>1
        <4> HIDE DEF j
        <4>3. order[j].at <= seq_len'
          BY <2>3, <4>2
        <4> QED
          BY <4>1, <4>2, <4>3 DEF j
      <3>2. CASE new(k)
        <4> DEFINE j == level'[sd][s][k]
        <4>1. /\ j \in Booked'
              /\ order'[j].side = sd
              /\ index_of(order'[j].price) = s
              /\ order'[j].qty > 0
              /\ order'[j].at = seq_len + 1
          BY <2>4, <3>2
        <4> HIDE DEF j
        <4>2. order'[j].at <= seq_len'
          BY <2>3, <4>1
        <4> QED
          BY <4>1, <4>2 DEF j
      <3> QED
        BY <2>1, <3>1, <3>2
    <2>6. ASSUME NEW k \in 1 .. Len(level'[sd][s]), NEW l \in 1 .. Len(level'[sd][s]), k < l
          PROVE  order'[level'[sd][s][k]].at < order'[level'[sd][s][l]].at
      <3>1. old(k)
        <4>1. ~new(k)
          BY <2>6, InsertQueues
        <4> QED
          BY <2>1, <4>1
      <3>2. CASE old(l)
        <4>1. order[level[sd][s][k]].at < order[level[sd][s][l]].at
          BY <2>6, <3>1, <3>2 DEF QueuesWellFormed
        <4> QED
          BY <2>2, <3>1, <3>2, <4>1
      <3>3. CASE new(l)
        <4> DEFINE j == level'[sd][s][k]
                   m == level'[sd][s][l]
        <4>1. order'[j] = order[j] /\ order[j].at \in Nat /\ order[j].at <= seq_len
          BY <2>2, <3>1
        <4>2. order'[m].at = seq_len + 1
          BY <2>4, <3>3
        <4> HIDE DEF j, m
        <4>3. order'[j].at < order'[m].at
          BY <2>3, <4>1, <4>2
        <4> QED
          BY <4>3 DEF j, m
      <3> QED
        BY <2>1, <3>2, <3>3
    <2> QED
      BY <2>5, <2>6
  <1> QED
    BY <1>1, <1>2, <1>3, <1>4

-----------------------------------------------------------------------------
(***************************************************************************)
(* The inductive invariant. TypeOK and the shape of queues and bitmap make  *)
(* every front an order that is booked and open; FlagsMatchBook makes a     *)
(* KILL find it; TopsSettled is what a fill relies on.                      *)
(***************************************************************************)
Inv ==
  /\ TypeOK
  /\ BitmapMarksLevels
  /\ QueuesWellFormed
  /\ FlagsMatchBook
  /\ TopsSettled

\* Writing to a client keeps the sockets well typed.
LEMMA DeliverType ==
  ASSUME NEW inbox \in [Session -> Seq(Message)], NEW session \in Session,
         NEW messages \in Seq(Message)
  PROVE  Deliver(inbox, session, messages) \in [Session -> Seq(Message)]
  BY DEF Deliver

\* A KILL changes no entry but d's, and neither adds nor removes one.
LEMMA KillFacts ==
  ASSUME TypeOK, NEW d \in OrderId, NEW session \in Session
  PROVE  /\ Marked(d) \in [OrderId -> Flag]
         /\ \A j \in OrderId : Marked(d)[j] = "absent" <=> killed_orders[j] = "absent"
         /\ KillReply(d, session) \in [Session -> Seq(Message)]
  <1>1. /\ Marked(d) \in [OrderId -> Flag]
        /\ \A j \in OrderId : Marked(d)[j] = "absent" <=> killed_orders[j] = "absent"
    BY DEF TypeOK, Marked, Flag
  <1>2. <<Msg("J", d, 0)>> \in Seq(Message)
    BY DEF Msg, Message
  <1>3. KillReply(d, session) \in [Session -> Seq(Message)]
    BY <1>2, DeliverType DEF KillReply, TypeOK
  <1> QED
    BY <1>1, <1>3

\* Resting orders are booked ones.
LEMMA RestingBooked ==
  ASSUME TypeOK, QueuesWellFormed
  PROVE  \A i \in Resting : i \in Booked /\ i \in OrderId /\ order[i].qty > 0
  BY Place DEF Resting, On, Side

LEMMA InitInv == Init => Inv
  <1> SUFFICES ASSUME Init
               PROVE  Inv
    OBVIOUS
  <1>1. TypeOK
    BY DEF Init, TypeOK, Booked, Flag
  <1>2. \A side \in Side, s \in Slot : level[side][s] = <<>>
    BY DEF Init
  <1>3. \A side \in Side : On(side) = {}
    BY <1>2 DEF On
  <1>4. BitmapMarksLevels
    BY <1>2 DEF Init, BitmapMarksLevels
  <1>5. QueuesWellFormed
    BY <1>2 DEF QueuesWellFormed
  <1>6. FlagsMatchBook
    BY <1>3 DEF Init, FlagsMatchBook, Resting, Side
  <1>7. TopsSettled
    BY DEF Init, TopsSettled, Best, Side
  <1> QED
    BY <1>1, <1>4, <1>5, <1>6, <1>7 DEF Inv

LEMMA KillInv ==
  ASSUME Inv, NEW d \in OrderId, NEW session \in Session, KILL_ORDER(d, session)
  PROVE  Inv'
  <1> USE DEF Inv
  <1>1. TypeOK'
    BY KillFacts DEF KILL_ORDER, Take, TypeOK, Booked
  <1>2. Resting' = Resting
    BY DEF KILL_ORDER, Resting, On
  <1>3. BitmapMarksLevels'
    BY DEF KILL_ORDER, BitmapMarksLevels
  <1>4. QueuesWellFormed'
    <2>1. /\ level' = level /\ order' = order /\ seq_len' = seq_len + 1 /\ seq_len \in Nat
      BY DEF KILL_ORDER, Take, TypeOK
    <2> SUFFICES ASSUME NEW side \in Side, NEW s \in Slot,
                        NEW k \in 1 .. Len(level[side][s])
                 PROVE  order[level[side][s][k]].at <= seq_len'
      BY <2>1 DEF QueuesWellFormed, Booked, index_of
    <2>2. order[level[side][s][k]].at \in Nat /\ order[level[side][s][k]].at <= seq_len
      BY DEF QueuesWellFormed, TypeOK, Order
    <2> QED
      BY <2>1, <2>2
  <1>5. FlagsMatchBook'
    <2>1. \A j \in OrderId : killed_orders'[j] = "absent" <=> killed_orders[j] = "absent"
      BY KillFacts DEF KILL_ORDER
    <2> QED
      BY <1>2, <2>1, RestingBooked DEF FlagsMatchBook, KILL_ORDER, Booked
  <1>6. TopsSettled'
    BY DEF KILL_ORDER, Take, TopsSettled
  <1> QED
    BY <1>1, <1>3, <1>4, <1>5, <1>6

\* SEND_ORDER and MODIFY_ORDER book an order over flags that are old ones, or
\* old ones with one order marked.
LEMMA SendInv ==
  ASSUME Inv, NEW i \in OrderId, i \notin Booked, NEW side \in Side,
         NEW price \in Price, NEW qty \in Qty, NEW session \in Session,
         Take, insert(i, side, price, qty, session),
         NEW flags \in [OrderId -> Flag],
         \A j \in OrderId : flags[j] = "absent" <=> killed_orders[j] = "absent",
         killed_orders' = [flags EXCEPT ![i] = "alive"],
         sent' \in [Session -> Seq(Message)]
  PROVE  Inv'
  <1> USE DEF Inv
  <1>1. seq_len' = seq_len + 1 /\ pc' = "drain_bids"
    BY DEF Take
  <1>2. /\ level' \in [Side -> [Slot -> Seq(OrderId)]]
        /\ bitmap' \in [Side -> SUBSET Slot]
        /\ BitmapMarksLevels'
        /\ QueuesWellFormed'
    BY <1>1, InsertKeepsQueues
  <1>3. TypeOK'
    <2>1. killed_orders' \in [OrderId -> Flag]
      BY DEF Flag
    <2>2. Booked' = Booked \union {i} /\ \A j \in Booked' : order'[j] \in Order
      BY <1>1, InsertOrder
    <2>3. Booked' \subseteq OrderId
      BY <2>2 DEF TypeOK
    <2> QED
      BY <1>1, <1>2, <2>1, <2>2, <2>3 DEF TypeOK
  <1>4. FlagsMatchBook'
    <2>1. Resting' = Resting \union {i}
      BY InsertResting
    <2>2. \A j \in Booked : j \in Booked' /\ order'[j] = order[j]
      BY <1>1, InsertOrder
    <2>3. \A j \in OrderId \ {i} : killed_orders'[j] = "absent" <=> killed_orders[j] = "absent"
      OBVIOUS
    <2>4. killed_orders'[i] # "absent"
      OBVIOUS
    <2>5. \A j \in Resting : j \in OrderId
      BY RestingBooked
    <2> QED
      BY <2>1, <2>2, <2>3, <2>4, <2>5 DEF FlagsMatchBook
  <1>5. TopsSettled'
    BY <1>1 DEF TopsSettled
  <1> QED
    BY <1>2, <1>3, <1>4, <1>5

\* What an eviction from slot s does: its front f, killed, leaves the book.
Evicted(side, s, f) ==
  /\ s \in Slot /\ f \in On(side) /\ f \in Booked /\ f \in OrderId
  /\ order[f].side = side
  /\ order[f].qty \in Nat
  /\ killed_orders[f] = "killed"
  /\ sent' = Deliver(sent, order[f].session, <<Msg("K", f, order[f].qty)>>)
  /\ killed_orders' = [killed_orders EXCEPT ![f] = "absent"]
  /\ level' = Popped(level, side, s)
  /\ bitmap' = Unmarked(bitmap, side, s)
  /\ \A i : i \in Resting' <=> i \in Resting /\ i # f

LEMMA EvictShape ==
  ASSUME Inv, NEW side \in Side, Evict(side)
  PROVE  \E s \in Best(side) :
           /\ Evicted(side, s, level_front(side, s))
           /\ level' \in [Side -> [Slot -> Seq(OrderId)]]
           /\ bitmap' \in [Side -> SUBSET Slot]
           /\ BitmapMarksLevels'
           /\ QueuesWellFormed'
  <1> USE DEF Inv
  <1>1. PICK s \in Best(side) :
          /\ killed_orders[level_front(side, s)] = "killed"
          /\ sent' = Deliver(sent, order[level_front(side, s)].session,
                       <<Msg("K", level_front(side, s), order[level_front(side, s)].qty)>>)
          /\ killed_orders' = [killed_orders EXCEPT ![level_front(side, s)] = "absent"]
          /\ level' = Popped(level, side, s)
          /\ bitmap' = Unmarked(bitmap, side, s)
    BY DEF Evict
  <1>2. order' = order /\ seq_len' = seq_len /\ pc' = pc /\ pc = DrainPc[side]
    BY DEF Evict
  <1> DEFINE f == level_front(side, s)
             gone == {<<side, s>>}
  <1>3. /\ s \in Slot /\ level[side][s] # <<>>
        /\ f \in On(side) /\ f \in Booked /\ f \in OrderId
        /\ order[f].side = side
        /\ order[f].qty \in Nat
    BY Front
  <1>4. PopFronts(gone)
    <2>1. level' = [sd \in Side |-> [t \in Slot |->
                      IF <<sd, t>> \in gone THEN Tail(level[sd][t]) ELSE level[sd][t]]]
      BY <1>1, <1>3 DEF TypeOK, Popped
    <2>2. bitmap' = [sd \in Side |->
                      {t \in bitmap[sd] : <<sd, t>> \in gone => Tail(level[sd][t]) # <<>>}]
      BY <1>1, <1>3 DEF TypeOK, Unmarked
    <2> QED
      BY <2>1, <2>2 DEF PopFronts
  <1>5. gone \in SUBSET (Side \X Slot)
    BY <1>3
  <1>6. \A sd \in Side, t \in Slot : <<sd, t>> \in gone => level[sd][t] # <<>>
    BY <1>3
  <1>7. \A sd \in Side : \A i : i \in On(sd)' <=> i \in On(sd) /\ (sd = side => i # f)
    <2> SUFFICES ASSUME NEW sd \in Side, NEW i
                 PROVE  i \in On(sd)' <=> i \in On(sd) /\ (sd = side => i # f)
      OBVIOUS
    <2>1. i \in On(sd)' <=>
            i \in On(sd) /\ \A t \in Slot : <<sd, t>> \in gone => level_front(sd, t) # i
      BY <1>4, <1>5, <1>6, PopResting
    <2> QED
      BY <1>3, <2>1
  <1> HIDE DEF gone
  <1>8. \A i : i \in Resting' <=> i \in Resting /\ i # f
    <2>1. \A sd \in Side : f \in On(sd) => sd = side
      BY <1>3, Place
    <2> QED
      BY <1>7, <2>1 DEF Resting, Side
  <1>9. \A i \in Resting' : order'[i].qty > 0
    BY <1>2, <1>8, RestingBooked
  <1>10. /\ level' \in [Side -> [Slot -> Seq(OrderId)]]
         /\ bitmap' \in [Side -> SUBSET Slot]
         /\ BitmapMarksLevels'
         /\ QueuesWellFormed'
    BY <1>2, <1>4, <1>5, <1>6, <1>9, PopKeepsQueues DEF Booked
  <1>11. Evicted(side, s, f)
    BY <1>1, <1>3, <1>8 DEF Evicted
  <1> QED
    BY <1>10, <1>11

\* An eviction takes the front of one queue, and its flag.
LEMMA EvictInv ==
  ASSUME Inv, NEW side \in Side, Evict(side)
  PROVE  Inv'
  <1> USE DEF Inv
  <1>1. PICK s \in Best(side) :
          /\ Evicted(side, s, level_front(side, s))
          /\ level' \in [Side -> [Slot -> Seq(OrderId)]]
          /\ bitmap' \in [Side -> SUBSET Slot]
          /\ BitmapMarksLevels'
          /\ QueuesWellFormed'
    BY EvictShape, Zenon
  <1>2. order' = order /\ seq_len' = seq_len /\ pc' = pc /\ pc = DrainPc[side]
    BY DEF Evict
  <1> DEFINE f == level_front(side, s)
  <1>3. /\ s \in Slot /\ f \in Booked /\ f \in OrderId
        /\ order[f].qty \in Nat
        /\ sent' = Deliver(sent, order[f].session, <<Msg("K", f, order[f].qty)>>)
        /\ killed_orders' = [killed_orders EXCEPT ![f] = "absent"]
        /\ level' = Popped(level, side, s)
        /\ bitmap' = Unmarked(bitmap, side, s)
        /\ \A i : i \in Resting' <=> i \in Resting /\ i # f
    BY <1>1 DEF Evicted
  <1> HIDE DEF f
  <1>4. TypeOK'
    <2>1. killed_orders' \in [OrderId -> Flag]
      BY <1>3 DEF TypeOK, Flag
    <2>2. order[f].session \in Session
      BY <1>3 DEF TypeOK, Order
    <2>3. <<Msg("K", f, order[f].qty)>> \in Seq(Message)
      BY <1>3 DEF Msg, Message
    <2>4. sent' \in [Session -> Seq(Message)]
      BY <1>3, <2>2, <2>3, DeliverType DEF TypeOK
    <2> QED
      BY <1>2, <1>1, <2>1, <2>4 DEF TypeOK, Booked
  <1>5. killed_orders'[f] = "absent" /\ \A i \in OrderId \ {f} : killed_orders'[i] = killed_orders[i]
    BY <1>3 DEF TypeOK
  <1>6. FlagsMatchBook'
    <2>1. \A i \in Resting : i \in OrderId
      BY RestingBooked
    <2> QED
      BY <1>2, <1>3, <1>5, <2>1 DEF FlagsMatchBook, Booked
  <1>7. TopsSettled'
    <2>1. pc' \in {"drain_bids", "drain_asks"} /\ (pc' = "drain_asks" => side = "SELL")
      BY <1>2 DEF DrainPc, Side
    <2>2. ASSUME side = "SELL", NEW t \in Best("BUY")'
          PROVE  killed_orders'[level_front("BUY", t)'] # "killed"
      <3>1. level'["BUY"] = level["BUY"] /\ bitmap'["BUY"] = bitmap["BUY"]
        BY <1>3, <2>2 DEF Popped, Unmarked, TypeOK, Side
      <3>2. t \in Best("BUY") /\ level_front("BUY", t)' = level_front("BUY", t)
        BY <2>2, <3>1 DEF Best, level_front
      <3>3. level_front("BUY", t) \in OrderId
        BY <3>2, Front DEF Side
      <3>4. pc = "drain_asks"
        BY <1>2, <2>2 DEF DrainPc, Side
      <3>5. killed_orders[level_front("BUY", t)] # "killed"
        BY <3>2, <3>4 DEF TopsSettled
      <3> QED
        BY <1>5, <3>2, <3>3, <3>5
    <2> QED
      BY <2>1, <2>2 DEF TopsSettled
  <1> QED
    BY <1>1, <1>4, <1>6, <1>7

\* A step that only moves the book on to its next loop leaves what rests as it was.
LEMMA BookUntouched ==
  ASSUME Inv, UNCHANGED <<level, bitmap, order, killed_orders, seq_len, sent>>,
         pc' \in {"idle", "drain_bids", "drain_asks", "match"}
  PROVE  TypeOK' /\ BitmapMarksLevels' /\ QueuesWellFormed' /\ FlagsMatchBook'
  <1> USE DEF Inv
  <1>1. Booked' = Booked
    BY DEF Booked
  <1>2. Resting' = Resting
    BY DEF Resting, On
  <1>3. TypeOK'
    BY <1>1 DEF TypeOK
  <1>4. BitmapMarksLevels'
    BY DEF BitmapMarksLevels
  <1>5. QueuesWellFormed'
    BY <1>1 DEF QueuesWellFormed, index_of
  <1>6. FlagsMatchBook'
    BY <1>1, <1>2 DEF FlagsMatchBook
  <1> QED
    BY <1>3, <1>4, <1>5, <1>6

\* The two ways out of a drain, and the two out of the matching loop, each
\* leave the top orders as TopsSettled says.
LEMMA EndDrainInv ==
  ASSUME Inv, NEW side \in Side, EndDrain(side)
  PROVE  Inv'
  <1> USE DEF Inv
  <1>1. /\ UNCHANGED <<level, bitmap, order, killed_orders, seq_len, sent>>
        /\ pc = DrainPc[side] /\ pc' = AfterDrain[side]
    BY DEF EndDrain
  <1>2. TypeOK' /\ BitmapMarksLevels' /\ QueuesWellFormed' /\ FlagsMatchBook'
    BY <1>1, BookUntouched DEF AfterDrain, Side
  <1>3. \A s \in Best(side) : killed_orders[level_front(side, s)] # "killed"
    <2>1. CASE bitmap[side] = {}
      BY <2>1 DEF Best
    <2>2. CASE \E s \in Best(side) : killed_orders[level_front(side, s)] # "killed"
      BY <2>2, BestUnique
    <2> QED
      BY <2>1, <2>2 DEF EndDrain
  <1>4. TopsSettled'
    <2>1. \A sd \in Side : Best(sd)' = Best(sd)
      BY <1>1 DEF Best
    <2>2. \A sd \in Side : \A s : level_front(sd, s)' = level_front(sd, s)
      BY <1>1 DEF level_front
    <2>3. CASE side = "BUY"
      <3>1. pc' = "drain_asks"
        BY <1>1, <2>3 DEF AfterDrain, Side
      <3> QED
        BY <1>1, <1>3, <2>1, <2>2, <2>3, <3>1 DEF TopsSettled, Side
    <2>4. CASE side = "SELL"
      <3>1. pc = "drain_asks" /\ pc' = "match"
        BY <1>1, <2>4 DEF DrainPc, AfterDrain, Side
      <3> QED
        BY <1>1, <1>3, <2>1, <2>2, <2>4, <3>1 DEF TopsSettled, Side
    <2> QED
      BY <2>3, <2>4 DEF Side
  <1> QED
    BY <1>2, <1>4

\* The loop breaks only when the top orders of the two sides do not meet.
LEMMA FrontsApart ==
  ASSUME Inv, EndMatch
  PROVE  \A bs \in Best("BUY"), as \in Best("SELL") :
           order[level_front("BUY", bs)].price < order[level_front("SELL", as)].price
  <1> SUFFICES ASSUME NEW bs \in Best("BUY"), NEW as \in Best("SELL")
               PROVE  order[level_front("BUY", bs)].price < order[level_front("SELL", as)].price
    OBVIOUS
  <1> USE DEF Inv
  <1>1. bs \in bitmap["BUY"] /\ as \in bitmap["SELL"]
    BY DEF Best
  <1>2. ~Crosses(level_front("BUY", bs), level_front("SELL", as))
    <2>1. PICK t \in Best("BUY"), u \in Best("SELL") :
            ~Crosses(level_front("BUY", t), level_front("SELL", u))
      BY <1>1 DEF EndMatch
    <2>2. t = bs
      BY BestUnique DEF Side
    <2>3. u = as
      BY BestUnique DEF Side
    <2> QED
      BY <2>1, <2>2, <2>3
  <1>3. level_front("BUY", bs) \in Booked /\ level_front("SELL", as) \in Booked
    BY Front DEF Side
  <1>4. /\ order[level_front("BUY", bs)].price \in Nat
        /\ order[level_front("SELL", as)].price \in Nat
    BY <1>3, AssumptionsHold DEF TypeOK, Order, Assumptions
  <1> DEFINE p == order[level_front("BUY", bs)].price
             q == order[level_front("SELL", as)].price
  <1>5. ~(p >= q)
    BY <1>2 DEF Crosses
  <1>6. p \in Nat /\ q \in Nat
    BY <1>4
  <1> HIDE DEF p, q
  <1>7. p < q
    BY <1>5, <1>6
  <1> QED
    BY <1>7 DEF p, q

LEMMA EndMatchInv ==
  ASSUME Inv, EndMatch
  PROVE  Inv'
  <1> USE DEF Inv
  <1>1. /\ UNCHANGED <<level, bitmap, order, killed_orders, seq_len, sent>>
        /\ pc = "match" /\ pc' = "idle"
    BY DEF EndMatch
  <1>2. TypeOK' /\ BitmapMarksLevels' /\ QueuesWellFormed' /\ FlagsMatchBook'
    BY <1>1, BookUntouched
  <1>3. \A bs \in Best("BUY"), as \in Best("SELL") :
          order[level_front("BUY", bs)].price < order[level_front("SELL", as)].price
    BY FrontsApart
  <1>4. TopsSettled'
    <2>1. \A sd \in Side : Best(sd)' = Best(sd)
      BY <1>1 DEF Best
    <2>2. \A sd \in Side : \A s : level_front(sd, s)' = level_front(sd, s)
      BY <1>1 DEF level_front
    <2> QED
      BY <1>1, <1>3, <2>1, <2>2 DEF TopsSettled, Side
  <1> QED
    BY <1>2, <1>4

\* The quantity of a fill.
LEMMA SmallerFacts ==
  ASSUME NEW m \in Nat \ {0}, NEW n \in Nat \ {0}
  PROVE  /\ Smaller(m, n) \in Nat \ {0}
         /\ Smaller(m, n) = m \/ Smaller(m, n) = n
         /\ m - Smaller(m, n) \in Nat
         /\ n - Smaller(m, n) \in Nat
  BY DEF Smaller

\* An order whose quantity changes is otherwise what it was.
WithQty(r, n) == [r EXCEPT !.qty = n]

LEMMA NewQty ==
  ASSUME NEW r \in Order, NEW n \in Nat
  PROVE  /\ WithQty(r, n) \in Order
         /\ WithQty(r, n).qty = n
         /\ WithQty(r, n).side = r.side
         /\ WithQty(r, n).price = r.price
         /\ WithQty(r, n).at = r.at
         /\ WithQty(r, n).session = r.session
         /\ WithQty(r, n).placed = r.placed
  BY DEF Order, WithQty

\* A fill reduces two orders by the smaller of their quantities.
Reduced(bo, ao, q) == order' = [order EXCEPT ![bo].qty = @ - q, ![ao].qty = @ - q]

LEMMA FillFacts ==
  ASSUME TypeOK, NEW bo \in Booked, NEW ao \in Booked, bo # ao,
         order[bo].qty > 0, order[ao].qty > 0,
         NEW q, q = Smaller(order[bo].qty, order[ao].qty),
         Reduced(bo, ao, q)
  PROVE  /\ q \in Nat \ {0}
         /\ order[bo].qty \in Nat /\ order[ao].qty \in Nat
         /\ order'[bo].qty = order[bo].qty - q /\ order'[bo].qty \in Nat
         /\ order'[ao].qty = order[ao].qty - q /\ order'[ao].qty \in Nat
         /\ Booked' = Booked
         /\ \A i \in Booked \ {bo, ao} : order'[i] = order[i]
         /\ \A i \in Booked : /\ order'[i] \in Order
                              /\ order'[i].side = order[i].side
                              /\ order'[i].price = order[i].price
                              /\ order'[i].at = order[i].at
                              /\ order'[i].session = order[i].session
                              /\ order'[i].placed = order[i].placed
  <1>1. \A i \in Booked : order[i] \in Order
    BY DEF TypeOK
  <1>2. order[bo].qty \in Nat \ {0} /\ order[ao].qty \in Nat \ {0}
    BY <1>1 DEF Order
  <1>3. q \in Nat \ {0} /\ order[bo].qty - q \in Nat /\ order[ao].qty - q \in Nat
    BY <1>2, SmallerFacts
  <1>4. /\ Booked' = Booked
        /\ order'[bo] = WithQty(order[bo], order[bo].qty - q)
        /\ order'[ao] = WithQty(order[ao], order[ao].qty - q)
        /\ \A i \in Booked \ {bo, ao} : order'[i] = order[i]
    BY DEF Booked, Reduced, WithQty
  <1>5. order[bo] \in Order /\ order[ao] \in Order
    BY <1>1
  <1>6. /\ order'[bo] \in Order
        /\ order'[bo].qty = order[bo].qty - q
        /\ order'[bo].side = order[bo].side
        /\ order'[bo].price = order[bo].price
        /\ order'[bo].at = order[bo].at
        /\ order'[bo].session = order[bo].session
        /\ order'[bo].placed = order[bo].placed
    <2>1. PICK n \in Nat : n = order[bo].qty - q
      BY <1>3
    <2>2. order'[bo] = WithQty(order[bo], n)
      BY <1>4, <2>1
    <2>3. /\ order'[bo] \in Order /\ order'[bo].qty = n
          /\ order'[bo].side = order[bo].side
          /\ order'[bo].price = order[bo].price
          /\ order'[bo].at = order[bo].at
          /\ order'[bo].session = order[bo].session
          /\ order'[bo].placed = order[bo].placed
      BY <1>5, <2>2, NewQty
    <2> QED
      BY <2>1, <2>3
  <1>7. /\ order'[ao] \in Order
        /\ order'[ao].qty = order[ao].qty - q
        /\ order'[ao].side = order[ao].side
        /\ order'[ao].price = order[ao].price
        /\ order'[ao].at = order[ao].at
        /\ order'[ao].session = order[ao].session
        /\ order'[ao].placed = order[ao].placed
    <2>1. PICK n \in Nat : n = order[ao].qty - q
      BY <1>3
    <2>2. order'[ao] = WithQty(order[ao], n)
      BY <1>4, <2>1
    <2>3. /\ order'[ao] \in Order /\ order'[ao].qty = n
          /\ order'[ao].side = order[ao].side
          /\ order'[ao].price = order[ao].price
          /\ order'[ao].at = order[ao].at
          /\ order'[ao].session = order[ao].session
          /\ order'[ao].placed = order[ao].placed
      BY <1>5, <2>2, NewQty
    <2> QED
      BY <2>1, <2>3
  <1>8. \A i \in Booked \ {bo, ao} : order'[i] = order[i] /\ order'[i] \in Order
    BY <1>1, <1>4
  <1>9. \A i \in Booked : /\ order'[i] \in Order
                          /\ order'[i].side = order[i].side
                          /\ order'[i].price = order[i].price
                          /\ order'[i].at = order[i].at
                          /\ order'[i].session = order[i].session
                          /\ order'[i].placed = order[i].placed
    BY <1>6, <1>7, <1>8
  <1> QED
    BY <1>2, <1>3, <1>4, <1>6, <1>7, <1>9

\* The book after the front of one queue is popped.
LEMMA PoppedFacts ==
  ASSUME NEW queues \in [Side -> [Slot -> Seq(OrderId)]], NEW side \in Side,
         NEW s \in Slot, queues[side][s] # <<>>
  PROVE  /\ Popped(queues, side, s) \in [Side -> [Slot -> Seq(OrderId)]]
         /\ Popped(queues, side, s)[side][s] = Tail(queues[side][s])
         /\ \A sd \in Side, t \in Slot :
              sd # side \/ t # s => Popped(queues, side, s)[sd][t] = queues[sd][t]
  <1>1. Tail(queues[side][s]) \in Seq(OrderId)
    BY TailFacts
  <1> QED
    BY <1>1 DEF Popped

LEMMA UnmarkedFacts ==
  ASSUME NEW bits \in [Side -> SUBSET Slot], NEW side \in Side, NEW s \in Slot
  PROVE  /\ Unmarked(bits, side, s) \in [Side -> SUBSET Slot]
         /\ \A sd \in Side, t \in Slot :
              t \in Unmarked(bits, side, s)[sd] <=>
                t \in bits[sd] /\ (sd = side /\ t = s => Tail(level[sd][t]) # <<>>)
  BY DEF Unmarked

\* What a fill of q between the two fronts bo and ao does.
Filled(bo, ao, q) ==
  /\ bo \in On("BUY") /\ bo \in Booked /\ bo \in OrderId
  /\ ao \in On("SELL") /\ ao \in Booked /\ ao \in OrderId
  /\ bo # ao
  /\ Crosses(bo, ao)
  /\ q = Smaller(order[bo].qty, order[ao].qty) /\ q \in Nat \ {0}
  /\ order[bo].qty \in Nat /\ order'[bo].qty = order[bo].qty - q /\ order'[bo].qty \in Nat
  /\ order[ao].qty \in Nat /\ order'[ao].qty = order[ao].qty - q /\ order'[ao].qty \in Nat
  /\ Booked' = Booked
  /\ \A i \in Booked \ {bo, ao} : order'[i] = order[i]
  /\ \A i \in Booked : /\ order'[i] \in Order
                       /\ order'[i].side = order[i].side
                       /\ order'[i].price = order[i].price
                       /\ order'[i].at = order[i].at
                       /\ order'[i].session = order[i].session
                       /\ order'[i].placed = order[i].placed
  /\ sent' = Deliver(Deliver(sent, order[bo].session, FillMsg(bo, q)),
                     order[ao].session, FillMsg(ao, q))
  /\ killed_orders' = Forgotten(Forgotten(killed_orders, bo, q), ao, q)
  /\ \A i : i \in Resting' <=>
              /\ i \in Resting
              /\ i = bo => order[bo].qty # q
              /\ i = ao => order[ao].qty # q

LEMMA FillShape ==
  ASSUME Inv, Fill
  PROVE  \E bs \in Best("BUY"), as \in Best("SELL") :
           /\ Filled(level_front("BUY", bs), level_front("SELL", as),
                     Smaller(order[level_front("BUY", bs)].qty,
                             order[level_front("SELL", as)].qty))
           /\ level' \in [Side -> [Slot -> Seq(OrderId)]]
           /\ bitmap' \in [Side -> SUBSET Slot]
           /\ BitmapMarksLevels'
           /\ QueuesWellFormed'
  <1> USE DEF Inv
  <1>1. PICK bs \in Best("BUY"), as \in Best("SELL") :
          LET bo == level_front("BUY", bs)
              ao == level_front("SELL", as)
              q  == Smaller(order[bo].qty, order[ao].qty)
              noBid == order[bo].qty = q
              noAsk == order[ao].qty = q
              withoutBid == IF noBid THEN Popped(level, "BUY", bs) ELSE level
              bidBits == IF noBid THEN Unmarked(bitmap, "BUY", bs) ELSE bitmap
          IN  /\ Crosses(bo, ao)
              /\ order' = [order EXCEPT ![bo].qty = @ - q, ![ao].qty = @ - q]
              /\ sent' = Deliver(Deliver(sent, order[bo].session, FillMsg(bo, q)),
                                 order[ao].session, FillMsg(ao, q))
              /\ killed_orders' = Forgotten(Forgotten(killed_orders, bo, q), ao, q)
              /\ level' = IF noAsk THEN Popped(withoutBid, "SELL", as) ELSE withoutBid
              /\ bitmap' = IF noAsk THEN Unmarked(bidBits, "SELL", as) ELSE bidBits
    BY Zenon DEF Fill
  <1>2. seq_len' = seq_len /\ pc' = "drain_bids"
    BY DEF Fill
  <1> DEFINE bo == level_front("BUY", bs)
             ao == level_front("SELL", as)
             q  == Smaller(order[bo].qty, order[ao].qty)
             gone == {p \in Side \X Slot :
                        \/ p[1] = "BUY" /\ p[2] = bs /\ order[bo].qty = q
                        \/ p[1] = "SELL" /\ p[2] = as /\ order[ao].qty = q}
  <1>3. /\ bs \in Slot /\ level["BUY"][bs] # <<>> /\ bo \in On("BUY") /\ bo \in OrderId
        /\ as \in Slot /\ level["SELL"][as] # <<>> /\ ao \in On("SELL") /\ ao \in OrderId
    BY Front DEF Side
  <1>4. /\ bo # ao /\ bo \in Booked /\ ao \in Booked
        /\ q \in Nat \ {0}
        /\ order'[bo].qty = order[bo].qty - q /\ order'[bo].qty \in Nat
        /\ order'[ao].qty = order[ao].qty - q /\ order'[ao].qty \in Nat
        /\ Booked' = Booked
        /\ \A i \in Booked \ {bo, ao} : order'[i] = order[i]
        /\ \A i \in Booked : /\ order'[i] \in Order
                             /\ order'[i].side = order[i].side
                             /\ order'[i].price = order[i].price
                             /\ order'[i].at = order[i].at
                             /\ order'[i].session = order[i].session
                             /\ order'[i].placed = order[i].placed
    <2>0. "BUY" \in Side /\ "SELL" \in Side
      BY DEF Side
    <2>1. /\ bo \in Booked /\ order[bo].side = "BUY" /\ order[bo].qty > 0
          /\ ao \in Booked /\ order[ao].side = "SELL" /\ order[ao].qty > 0
      <3>1. bo \in Booked /\ order[bo].side = "BUY" /\ order[bo].qty > 0
        BY <2>0, Front
      <3>2. ao \in Booked /\ order[ao].side = "SELL" /\ order[ao].qty > 0
        BY <2>0, Front
      <3> QED
        BY <3>1, <3>2
    <2>2. Reduced(bo, ao, q)
      BY <1>1 DEF Reduced
    <2>3. bo # ao
      BY <2>1
    <2>4. q = Smaller(order[bo].qty, order[ao].qty)
      OBVIOUS
    <2> HIDE DEF bo, ao, q
    <2> QED
      BY <2>1, <2>2, <2>3, <2>4, FillFacts
  <1>5. \A sd \in Side, t \in Slot : <<sd, t>> \in gone <=>
          \/ sd = "BUY" /\ t = bs /\ order[bo].qty = q
          \/ sd = "SELL" /\ t = as /\ order[ao].qty = q
    OBVIOUS
  <1>6. gone \in SUBSET (Side \X Slot)
    OBVIOUS
  <1>7. order[bo].qty \in Nat /\ order[ao].qty \in Nat
    BY <1>4 DEF TypeOK, Order
  <1>8. /\ Crosses(bo, ao)
        /\ order' = [order EXCEPT ![bo].qty = @ - q, ![ao].qty = @ - q]
        /\ sent' = Deliver(Deliver(sent, order[bo].session, FillMsg(bo, q)),
                           order[ao].session, FillMsg(ao, q))
        /\ killed_orders' = Forgotten(Forgotten(killed_orders, bo, q), ao, q)
        /\ level' = IF order[ao].qty = q
                    THEN Popped(IF order[bo].qty = q THEN Popped(level, "BUY", bs) ELSE level, "SELL", as)
                    ELSE IF order[bo].qty = q THEN Popped(level, "BUY", bs) ELSE level
        /\ bitmap' = IF order[ao].qty = q
                     THEN Unmarked(IF order[bo].qty = q THEN Unmarked(bitmap, "BUY", bs) ELSE bitmap, "SELL", as)
                     ELSE IF order[bo].qty = q THEN Unmarked(bitmap, "BUY", bs) ELSE bitmap
    BY <1>1
  <1>14. q = Smaller(order[bo].qty, order[ao].qty)
    OBVIOUS
  <1>15. bo \in On("BUY") /\ ao \in On("SELL")
    BY <1>3
  <1> HIDE DEF gone, q
  <1>9. PopFronts(gone)
    <2> DEFINE bidPopped == IF order[bo].qty = q THEN Popped(level, "BUY", bs) ELSE level
               bidBits == IF order[bo].qty = q THEN Unmarked(bitmap, "BUY", bs) ELSE bitmap
    <2>0. "BUY" \in Side /\ "SELL" \in Side
      BY DEF Side
    <2>1. /\ bidPopped \in [Side -> [Slot -> Seq(OrderId)]]
          /\ \A sd \in Side, t \in Slot : bidPopped[sd][t] =
               IF sd = "BUY" /\ t = bs /\ order[bo].qty = q THEN Tail(level[sd][t]) ELSE level[sd][t]
      <3>0. level \in [Side -> [Slot -> Seq(OrderId)]]
        BY DEF TypeOK
      <3>1. CASE order[bo].qty = q
        <4>1. bidPopped = Popped(level, "BUY", bs)
          BY <3>1
        <4>2. /\ Popped(level, "BUY", bs) \in [Side -> [Slot -> Seq(OrderId)]]
              /\ Popped(level, "BUY", bs)["BUY"][bs] = Tail(level["BUY"][bs])
              /\ \A sd \in Side, t \in Slot :
                   sd # "BUY" \/ t # bs => Popped(level, "BUY", bs)[sd][t] = level[sd][t]
          BY <1>3, <2>0, <3>0, PoppedFacts
        <4> HIDE DEF bidPopped
        <4> QED
          BY <3>1, <4>1, <4>2
      <3>2. CASE order[bo].qty # q
        <4>1. bidPopped = level
          BY <3>2
        <4> HIDE DEF bidPopped
        <4> QED
          BY <3>0, <3>2, <4>1
      <3> QED
        BY <3>1, <3>2
    <2>2. /\ bidBits \in [Side -> SUBSET Slot]
          /\ \A sd \in Side, t \in Slot : t \in bidBits[sd] <=>
               /\ t \in bitmap[sd]
               /\ sd = "BUY" /\ t = bs /\ order[bo].qty = q => Tail(level[sd][t]) # <<>>
      BY <1>3, <2>0, UnmarkedFacts DEF TypeOK
    <2>3. /\ level' = IF order[ao].qty = q THEN Popped(bidPopped, "SELL", as) ELSE bidPopped
          /\ bitmap' = IF order[ao].qty = q THEN Unmarked(bidBits, "SELL", as) ELSE bidBits
      BY <1>8
    <2>4. bidPopped["SELL"][as] # <<>>
      BY <1>3, <2>0, <2>1
    <2> HIDE DEF bidPopped, bidBits
    <2>5. /\ level' \in [Side -> [Slot -> Seq(OrderId)]]
          /\ \A sd \in Side, t \in Slot : level'[sd][t] =
               IF sd = "SELL" /\ t = as /\ order[ao].qty = q THEN Tail(bidPopped[sd][t]) ELSE bidPopped[sd][t]
      <3>1. CASE order[ao].qty = q
        <4>1. level' = Popped(bidPopped, "SELL", as)
          BY <2>3, <3>1
        <4>2. /\ Popped(bidPopped, "SELL", as) \in [Side -> [Slot -> Seq(OrderId)]]
              /\ Popped(bidPopped, "SELL", as)["SELL"][as] = Tail(bidPopped["SELL"][as])
              /\ \A sd \in Side, t \in Slot :
                   sd # "SELL" \/ t # as => Popped(bidPopped, "SELL", as)[sd][t] = bidPopped[sd][t]
          BY <1>3, <2>0, <2>1, <2>4, PoppedFacts
        <4> QED
          BY <3>1, <4>1, <4>2
      <3>2. CASE order[ao].qty # q
        BY <2>1, <2>3, <3>2
      <3> QED
        BY <3>1, <3>2
    <2>6. /\ bitmap' \in [Side -> SUBSET Slot]
          /\ \A sd \in Side, t \in Slot : t \in bitmap'[sd] <=>
               /\ t \in bidBits[sd]
               /\ sd = "SELL" /\ t = as /\ order[ao].qty = q => Tail(level[sd][t]) # <<>>
      <3>1. CASE order[ao].qty = q
        <4>1. bitmap' = Unmarked(bidBits, "SELL", as)
          BY <2>3, <3>1
        <4> QED
          BY <1>3, <2>0, <2>2, <3>1, <4>1, UnmarkedFacts
      <3>2. CASE order[ao].qty # q
        BY <2>2, <2>3, <3>2
      <3> QED
        BY <3>1, <3>2
    <2>7. ASSUME NEW sd \in Side, NEW t \in Slot
          PROVE  level'[sd][t] = IF <<sd, t>> \in gone THEN Tail(level[sd][t]) ELSE level[sd][t]
      <3>1. <<sd, t>> \in gone <=> \/ sd = "BUY" /\ t = bs /\ order[bo].qty = q
                                   \/ sd = "SELL" /\ t = as /\ order[ao].qty = q
        BY <1>5
      <3>2. bidPopped[sd][t] = IF sd = "BUY" /\ t = bs /\ order[bo].qty = q
                               THEN Tail(level[sd][t]) ELSE level[sd][t]
        BY <2>1
      <3>3. level'[sd][t] = IF sd = "SELL" /\ t = as /\ order[ao].qty = q
                            THEN Tail(bidPopped[sd][t]) ELSE bidPopped[sd][t]
        BY <2>5
      <3>4. CASE sd = "BUY"
        BY <3>1, <3>2, <3>3, <3>4
      <3>5. CASE sd = "SELL"
        BY <3>1, <3>2, <3>3, <3>5
      <3> QED
        BY <3>4, <3>5 DEF Side
    <2>8. level' = [sd \in Side |-> [t \in Slot |->
                      IF <<sd, t>> \in gone THEN Tail(level[sd][t]) ELSE level[sd][t]]]
      BY <2>5, <2>7
    <2>9. ASSUME NEW sd \in Side, NEW t \in Slot
          PROVE  t \in bitmap'[sd] <=>
                   t \in bitmap[sd] /\ (<<sd, t>> \in gone => Tail(level[sd][t]) # <<>>)
      BY <1>5, <2>2, <2>6
    <2>10. bitmap' = [sd \in Side |->
                      {t \in bitmap[sd] : <<sd, t>> \in gone => Tail(level[sd][t]) # <<>>}]
      BY <2>6, <2>9 DEF TypeOK
    <2> QED
      BY <2>8, <2>10 DEF PopFronts
  <1>10. \A sd \in Side, t \in Slot : <<sd, t>> \in gone => level[sd][t] # <<>>
    BY <1>3, <1>5
  <1>11. \A i : i \in Resting' <=>
                  /\ i \in Resting
                  /\ i = bo => order[bo].qty # q
                  /\ i = ao => order[ao].qty # q
    <2>1. \A sd \in Side : \A i : i \in On(sd)' <=>
            i \in On(sd) /\ \A t \in Slot : <<sd, t>> \in gone => level_front(sd, t) # i
      BY <1>6, <1>9, <1>10, PopResting
    <2>0. "BUY" \in Side /\ "SELL" \in Side
      BY DEF Side
    <2>2. \A i : i \in On("BUY")' <=> i \in On("BUY") /\ (order[bo].qty = q => i # bo)
      <3>1. \A t \in Slot : <<"BUY", t>> \in gone <=> t = bs /\ order[bo].qty = q
        BY <1>5, <2>0
      <3> QED
        BY <1>3, <2>0, <2>1, <3>1
    <2>3. \A i : i \in On("SELL")' <=> i \in On("SELL") /\ (order[ao].qty = q => i # ao)
      <3>1. \A t \in Slot : <<"SELL", t>> \in gone <=> t = as /\ order[ao].qty = q
        BY <1>5, <2>0
      <3> QED
        BY <1>3, <2>0, <2>1, <3>1
    <2>4. bo \notin On("SELL") /\ ao \notin On("BUY")
      BY <1>3, Place DEF Side
    <2> QED
      BY <2>2, <2>3, <2>4 DEF Resting
  <1> HIDE DEF bo, ao
  <1>12. \A i \in Resting' : order'[i].qty > 0
    <2> SUFFICES ASSUME NEW i \in Resting'
                 PROVE  order'[i].qty > 0
      OBVIOUS
    <2>1. i \in Booked /\ order[i].qty > 0
      BY <1>11, RestingBooked
    <2>2. CASE i = bo
      BY <1>4, <1>7, <1>11, <2>2
    <2>3. CASE i = ao
      BY <1>4, <1>7, <1>11, <2>3
    <2>4. CASE i \notin {bo, ao}
      BY <1>4, <2>1, <2>4
    <2> QED
      BY <2>2, <2>3, <2>4
  <1>13. /\ level' \in [Side -> [Slot -> Seq(OrderId)]]
         /\ bitmap' \in [Side -> SUBSET Slot]
         /\ BitmapMarksLevels'
         /\ QueuesWellFormed'
    BY <1>2, <1>4, <1>6, <1>9, <1>10, <1>12, PopKeepsQueues
  <1>16. Filled(bo, ao, q)
    BY <1>3, <1>4, <1>7, <1>8, <1>11, <1>14, <1>15, Zenon DEF Filled
  <1> QED
    BY <1>13, <1>16 DEF bo, ao, q

\* A fill reduces the two fronts and takes off those it leaves nothing of.
LEMMA FillInv ==
  ASSUME Inv, Fill
  PROVE  Inv'
  <1> USE DEF Inv
  <1>1. PICK bs \in Best("BUY"), as \in Best("SELL") :
          /\ Filled(level_front("BUY", bs), level_front("SELL", as),
                    Smaller(order[level_front("BUY", bs)].qty,
                            order[level_front("SELL", as)].qty))
          /\ level' \in [Side -> [Slot -> Seq(OrderId)]]
          /\ bitmap' \in [Side -> SUBSET Slot]
          /\ BitmapMarksLevels'
          /\ QueuesWellFormed'
    BY FillShape, Zenon
  <1>2. seq_len' = seq_len /\ pc' = "drain_bids"
    BY DEF Fill
  <1>3. PICK bo, ao, q : Filled(bo, ao, q)
    BY <1>1
  <1> USE DEF Filled
  <1>4. TypeOK'
    <2>1. killed_orders' \in [OrderId -> Flag]
      BY <1>3 DEF TypeOK, Forgotten, Flag
    <2>2. FillMsg(bo, q) \in Seq(Message) /\ FillMsg(ao, q) \in Seq(Message)
      BY <1>3 DEF FillMsg, Msg, Message
    <2>3. order[bo].session \in Session /\ order[ao].session \in Session
      BY <1>3 DEF TypeOK, Order
    <2>4. sent' \in [Session -> Seq(Message)]
      BY <1>3, <2>2, <2>3, DeliverType DEF TypeOK
    <2>5. Booked' \subseteq OrderId /\ \A i \in Booked' : order'[i] \in Order
      BY <1>3 DEF TypeOK
    <2> QED
      BY <1>2, <1>1, <2>1, <2>4, <2>5 DEF TypeOK
  <1>5. FlagsMatchBook'
    <2>0. killed_orders \in [OrderId -> Flag]
      BY DEF TypeOK
    <2>1. \A i \in OrderId \ {bo, ao} : killed_orders'[i] = killed_orders[i]
      BY <1>3, <2>0 DEF Forgotten
    <2>2. killed_orders'[bo] = IF order[bo].qty = q /\ order[bo].session \in Registered
                               THEN "absent" ELSE killed_orders[bo]
      BY <1>3, <2>0 DEF Forgotten
    <2>3. killed_orders'[ao] = IF order[ao].qty = q /\ order[ao].session \in Registered
                               THEN "absent" ELSE killed_orders[ao]
      BY <1>3, <2>0 DEF Forgotten
    <2>4. bo \in Resting /\ ao \in Resting
      BY <1>3 DEF Resting, Filled
    <2>5. \A i \in Resting : i \in OrderId
      BY RestingBooked
    <2>6. ASSUME NEW i \in Resting'
          PROVE  killed_orders'[i] # "absent"
      BY <1>3, <2>1, <2>2, <2>3, <2>5, <2>6 DEF FlagsMatchBook
    <2>7. ASSUME NEW i \in OrderId, i \notin Resting', killed_orders'[i] # "absent"
          PROVE  i \in Booked' /\ order'[i].qty = 0 /\ order'[i].session \notin Registered
      <3>1. CASE i = bo
        <4>1. order[bo].qty = q
          BY <1>3, <2>4, <2>7, <3>1
        <4>2. order'[bo].qty = 0
          BY <1>3, <4>1
        <4> QED
          BY <1>3, <2>2, <2>7, <3>1, <4>1, <4>2
      <3>2. CASE i = ao
        <4>1. order[ao].qty = q
          BY <1>3, <2>4, <2>7, <3>2
        <4>2. order'[ao].qty = 0
          BY <1>3, <4>1
        <4> QED
          BY <1>3, <2>3, <2>7, <3>2, <4>1, <4>2
      <3>3. CASE i \notin {bo, ao}
        <4>1. i \notin Resting /\ killed_orders[i] # "absent"
          BY <1>3, <2>1, <2>7, <3>3
        <4>2. i \in Booked /\ order[i].qty = 0 /\ order[i].session \notin Registered
          BY <4>1 DEF FlagsMatchBook
        <4> QED
          BY <1>3, <3>3, <4>2
      <3> QED
        BY <3>1, <3>2, <3>3
    <2> QED
      BY <2>6, <2>7 DEF FlagsMatchBook
  <1>6. TopsSettled'
    BY <1>2 DEF TopsSettled
  <1> QED
    BY <1>1, <1>4, <1>5, <1>6

LEMMA StutterInv ==
  ASSUME Inv, UNCHANGED vars
  PROVE  Inv'
  <1>1. UNCHANGED <<level, bitmap, order, killed_orders, seq_len, pc, sent>>
    BY DEF vars
  <1>2. TypeOK' /\ BitmapMarksLevels' /\ QueuesWellFormed' /\ FlagsMatchBook'
    BY <1>1, BookUntouched DEF Inv, TypeOK
  <1>3. TopsSettled'
    BY <1>1, Zenon DEF Inv, TopsSettled, Best, level_front
  <1> QED
    BY <1>2, <1>3 DEF Inv

LEMMA NextInv == Inv /\ [Next]_vars => Inv'
  <1> SUFFICES ASSUME Inv, [Next]_vars
               PROVE  Inv'
    OBVIOUS
  <1>1. ASSUME NEW c \in Session, NEW d \in OrderId, KILL_ORDER(d, c)
        PROVE  Inv'
    BY <1>1, KillInv
  <1>2. ASSUME NEW c \in Session, NEW i \in OrderId, NEW side \in Side,
               NEW price \in Price, NEW qty \in Qty, SEND_ORDER(i, side, price, qty, c)
        PROVE  Inv'
    <2>1. /\ i \notin Booked /\ Take /\ insert(i, side, price, qty, c)
          /\ killed_orders' = [killed_orders EXCEPT ![i] = "alive"]
          /\ sent' = sent
      BY <1>2 DEF SEND_ORDER
    <2>2. killed_orders \in [OrderId -> Flag] /\ sent \in [Session -> Seq(Message)]
      BY DEF Inv, TypeOK
    <2> QED
      BY <2>1, <2>2, SendInv
  <1>3. ASSUME NEW c \in Session, NEW i \in OrderId, NEW d \in OrderId, NEW side \in Side,
               NEW price \in Price, NEW qty \in Qty, MODIFY_ORDER(i, d, side, price, qty, c)
        PROVE  Inv'
    <2>1. /\ i \notin Booked /\ Take /\ insert(i, side, price, qty, c)
          /\ killed_orders' = [Marked(d) EXCEPT ![i] = "alive"]
          /\ sent' = KillReply(d, c)
      BY <1>3 DEF MODIFY_ORDER
    <2>2. /\ Marked(d) \in [OrderId -> Flag]
          /\ \A j \in OrderId : Marked(d)[j] = "absent" <=> killed_orders[j] = "absent"
          /\ KillReply(d, c) \in [Session -> Seq(Message)]
      BY KillFacts DEF Inv
    <2> QED
      BY <2>1, <2>2, SendInv
  <1>4. ASSUME NEW side \in Side, Evict(side)
        PROVE  Inv'
    BY <1>4, EvictInv
  <1>5. ASSUME NEW side \in Side, EndDrain(side)
        PROVE  Inv'
    BY <1>5, EndDrainInv
  <1>6. CASE Fill
    BY <1>6, FillInv
  <1>7. CASE EndMatch
    BY <1>7, EndMatchInv
  <1>8. CASE DrainNothing
    BY <1>8, StutterInv DEF DrainNothing
  <1>9. CASE UNCHANGED vars
    BY <1>9, StutterInv
  <1> QED
    BY <1>1, <1>2, <1>3, <1>4, <1>5, <1>6, <1>7, <1>8, <1>9 DEF Next, Request, UPDATE_BOOK

\* The book keeps its invariant: queues, bitmap and kill flags always agree,
\* whatever the requests and however the market thread is interrupted.
THEOREM BookInvariant == Spec => []Inv
  BY InitInv, NextInv, PTL DEF Spec

\* Every variable keeps its type; no slot is ever outside the window.
THEOREM TypeCorrect == Spec => []TypeOK
  <1>1. Inv => TypeOK
    BY DEF Inv
  <1> QED
    BY <1>1, BookInvariant, PTL

\* A marked slot always has a front, so the fronts that drain_dead and the
\* matching loop read are always there.
THEOREM BitmapIsExact == Spec => []BitmapMarksLevels
  <1>1. Inv => BitmapMarksLevels
    BY DEF Inv
  <1> QED
    BY <1>1, BookInvariant, PTL

\* Each level is a queue in arrival order of open orders of its own slot.
THEOREM LevelsAreFifo == Spec => []QueuesWellFormed
  <1>1. Inv => QueuesWellFormed
    BY DEF Inv
  <1> QED
    BY <1>1, BookInvariant, PTL

\* Every resting order can be killed, and only a filled order whose session
\* was not found leaves a flag behind.
THEOREM FlagsAreExact == Spec => []FlagsMatchBook
  <1>1. Inv => FlagsMatchBook
    BY DEF Inv
  <1> QED
    BY <1>1, BookInvariant, PTL

\* The two fronts a fill is made of are alive, and UPDATE_BOOK returns only
\* when the tops of the two sides do not meet.
THEOREM TopsAreSettled == Spec => []TopsSettled
  <1>1. Inv => TopsSettled
    BY DEF Inv
  <1> QED
    BY <1>1, BookInvariant, PTL

\* No step fills an order that a KILL or a MODIFY has marked.
THEOREM NeverFilledOnceKilled == Spec => KilledNeverFilled
  <1>1. ASSUME Inv, [Next]_vars, NEW i \in Booked, killed_orders[i] = "killed"
        PROVE  order'[i].qty = order[i].qty
    <2> USE <1>1 DEF Inv
    <2>1. CASE Fill
      <3>1. PICK bs \in Best("BUY"), as \in Best("SELL") :
              LET bo == level_front("BUY", bs)
                  ao == level_front("SELL", as)
                  q  == Smaller(order[bo].qty, order[ao].qty)
              IN  order' = [order EXCEPT ![bo].qty = @ - q, ![ao].qty = @ - q]
        BY <2>1 DEF Fill
      <3>2. pc = "match"
        BY <2>1 DEF Fill
      <3>3. /\ killed_orders[level_front("BUY", bs)] # "killed"
            /\ killed_orders[level_front("SELL", as)] # "killed"
        BY <3>2 DEF TopsSettled
      <3>4. i # level_front("BUY", bs) /\ i # level_front("SELL", as)
        BY <3>3
      <3>5. order'[i] = order[i]
        BY <3>1, <3>4 DEF Booked
      <3> QED
        BY <3>5
    <2>2. CASE \E c \in Session, j \in OrderId, side \in Side, price \in Price, qty \in Qty :
                 j \notin Booked /\ insert(j, side, price, qty, c)
      BY <2>2 DEF insert, Booked
    <2>3. CASE order' = order
      BY <2>3
    <2> QED
      BY <2>1, <2>2, <2>3 DEF Next, Request, UPDATE_BOOK, SEND_ORDER, KILL_ORDER,
         MODIFY_ORDER, Evict, EndDrain, EndMatch, DrainNothing, vars
  <1>2. Inv /\ [Next]_vars =>
          [\A i \in Booked : killed_orders[i] = "killed" => order'[i].qty = order[i].qty]_vars
    BY <1>1
  <1> QED
    BY <1>2, BookInvariant, PTL DEF Spec, KilledNeverFilled

-----------------------------------------------------------------------------
(***************************************************************************)
(* What a client sees: prices, priority and an uncrossed book. They need    *)
(* that the prices of the book lie in one aligned window (NoWrap); the run  *)
(* orderbook_wrap shows why.                                                *)
(***************************************************************************)

LEMMA LeastNumber ==
  ASSUME NEW T, T \subseteq Nat, T # {}
  PROVE  \E m \in T : \A n \in T : m <= n
  <1>1. PICK m \in T : \A n \in T : <<n, m>> \notin OpToRel(<, Nat)
    BY WFMin, NatLessThanWellFounded, Zenon
  <1>2. ASSUME NEW n \in T, n < m
        PROVE  FALSE
    <2>1. <<n, m>> \in OpToRel(<, Nat)
      BY <1>2, Zenon DEF OpToRel
    <2> QED
      BY <1>1, <2>1
  <1>3. \A n \in T : m <= n
    BY <1>2
  <1> QED
    BY <1>3

\* A side that is not empty has a best level, at least as good as any other.
LEMMA BestExists ==
  ASSUME TypeOK, NEW side \in Side, bitmap[side] # {}
  PROVE  Best(side) # {}
  <1>1. bitmap[side] \subseteq Slot /\ PRICE_WINDOW \in Nat
    BY AssumptionsHold DEF TypeOK, Assumptions
  <1>2. CASE side = "BUY"
    <2> DEFINE T == {PRICE_WINDOW - s : s \in bitmap[side]}
    <2>1. T \subseteq Nat /\ T # {}
      BY <1>1 DEF Slot
    <2> HIDE DEF T
    <2>2. PICK m \in T : \A n \in T : m <= n
      BY <2>1, LeastNumber
    <2>3. PICK s \in bitmap[side] : m = PRICE_WINDOW - s
      BY <2>2 DEF T
    <2>4. ASSUME NEW t \in bitmap[side]
          PROVE  t <= s
      <3>1. PRICE_WINDOW - s <= PRICE_WINDOW - t
        BY <2>2, <2>3 DEF T
      <3> QED
        BY <1>1, <3>1 DEF Slot
    <2> QED
      BY <1>2, <2>3, <2>4 DEF Best
  <1>3. CASE side = "SELL"
    <2>1. bitmap[side] \subseteq Nat
      BY <1>1 DEF Slot
    <2>2. PICK s \in bitmap[side] : \A t \in bitmap[side] : s <= t
      BY <2>1, LeastNumber
    <2> QED
      BY <1>3, <2>2 DEF Best
  <1> QED
    BY <1>2, <1>3 DEF Side

\* If the prices lie in one window, the front of the best level has a
\* price no other order of its side beats, and came first at that price.
LEMMA BestFront ==
  ASSUME Inv, NoWrap, NEW side \in Side, NEW s \in Best(side), NEW j \in On(side),
         j # level_front(side, s)
  PROVE  LET i == level_front(side, s)
         IN  /\ order[i].price \in Nat /\ order[j].price \in Nat
             /\ \/ side = "BUY" /\ order[i].price > order[j].price
                \/ side = "SELL" /\ order[i].price < order[j].price
                \/ order[i].price = order[j].price /\ order[i].at < order[j].at
  <1> USE DEF Inv
  <1> DEFINE i == level_front(side, s)
             p == order[i].price
             t == index_of(order[j].price)
  <1>1. /\ s \in Slot /\ i \in Booked /\ index_of(p) = s /\ i = level[side][s][1]
        /\ level[side][s] \in Seq(OrderId)
    BY Front
  <1>2. /\ j \in Booked /\ t \in Slot
        /\ \E k \in 1 .. Len(level[side][t]) : level[side][t][k] = j
    BY Place
  <1>3. PICK k \in 1 .. Len(level[side][t]) : level[side][t][k] = j
    BY <1>2
  <1>4. p \in Price /\ order[j].price \in Price /\ Price \subseteq Nat
    BY <1>1, <1>2, AssumptionsHold DEF TypeOK, Order, Assumptions
  <1>5. t \in bitmap[side]
    <2>1. level[side][t] \in Seq(OrderId)
      BY <1>2 DEF TypeOK
    <2>2. level[side][t] # <<>>
      BY <1>3, <2>1
    <2> QED
      BY <1>2, <2>2 DEF BitmapMarksLevels
  <1>6. (side = "BUY" => t <= s) /\ (side = "SELL" => s <= t)
    BY <1>5 DEF Best
  <1>7. s \in Nat /\ t \in Nat
    BY <1>1, <1>2 DEF Slot
  <1>8. /\ p < order[j].price => s < t
        /\ order[j].price < p => t < s
    BY <1>1, <1>4 DEF NoWrap
  <1> HIDE DEF p
  <1>9. CASE order[j].price = p
    <2>1. t = s
      BY <1>1, <1>9
    <2>2. Len(level[side][s]) \in Nat \ {0} /\ k \in 1 .. Len(level[side][s])
      BY <1>1, <1>3, <2>1
    <2>3. k # 1
      BY <1>1, <1>3, <2>1
    <2>4. 1 < k /\ 1 \in 1 .. Len(level[side][s])
      BY <2>2, <2>3
    <2>5. order[level[side][s][1]].at < order[level[side][s][k]].at
      BY <1>1, <2>2, <2>4 DEF QueuesWellFormed
    <2>6. order[i].at < order[j].at
      BY <1>1, <1>3, <2>1, <2>5
    <2> QED
      BY <1>4, <1>9, <2>6 DEF p
  <1>10. CASE order[j].price # p
    <2>1. PICK n \in Nat : n = order[j].price
      BY <1>4
    <2>2. p \in Nat /\ n # p /\ (p < n => s < t) /\ (n < p => t < s)
      BY <1>4, <1>8, <1>10, <2>1
    <2> HIDE DEF t
    <2>3. side = "BUY" => p > n
      BY <1>6, <1>7, <2>2
    <2>4. side = "SELL" => p < n
      BY <1>6, <1>7, <2>2
    <2> QED
      BY <1>4, <2>1, <2>3, <2>4 DEF p, Side
  <1> QED
    BY <1>9, <1>10

\* Once the two top orders do not meet, no two resting orders do.
LEMMA TopsDecide ==
  ASSUME NoWrap, Inv,
         \A bs \in Best("BUY"), as \in Best("SELL") :
           order[level_front("BUY", bs)].price < order[level_front("SELL", as)].price,
         NEW b \in On("BUY"), NEW a \in On("SELL")
  PROVE  order[b].price < order[a].price
  <1> USE DEF Inv
  <1>0. "BUY" \in Side /\ "SELL" \in Side
    BY DEF Side
  <1>1. \A side \in Side : On(side) # {} => Best(side) # {}
    <2> SUFFICES ASSUME NEW side \in Side, NEW i \in On(side)
                 PROVE  Best(side) # {}
      OBVIOUS
    <2>1. PICK s \in Slot : \E k \in 1 .. Len(level[side][s]) : level[side][s][k] = i
      BY DEF On
    <2>2. level[side][s] # <<>>
      BY <2>1
    <2>3. bitmap[side] # {}
      BY <2>2 DEF BitmapMarksLevels
    <2> QED
      BY <2>3, BestExists
  <1>2. PICK bs \in Best("BUY") : TRUE
    BY <1>0, <1>1
  <1>3. PICK as \in Best("SELL") : TRUE
    BY <1>0, <1>1
  <1> DEFINE bo == level_front("BUY", bs)
             ao == level_front("SELL", as)
  <1>4. order[bo].price < order[ao].price
    OBVIOUS
  <1>5. /\ order[bo].price \in Nat /\ order[ao].price \in Nat
        /\ order[b].price \in Nat /\ order[a].price \in Nat
    <2>1. bo \in Booked /\ ao \in Booked /\ b \in Booked /\ a \in Booked
      BY <1>0, Front, Place
    <2> QED
      BY <2>1, AssumptionsHold DEF TypeOK, Order, Assumptions
  <1>6. b = bo \/ order[b].price <= order[bo].price
    <2>1. b # bo => order[bo].price > order[b].price \/ order[bo].price = order[b].price
      BY <1>0, BestFront
    <2> HIDE DEF bo
    <2> QED
      BY <1>5, <2>1
  <1>7. a = ao \/ order[ao].price <= order[a].price
    <2>1. a # ao => order[ao].price < order[a].price \/ order[ao].price = order[a].price
      BY <1>0, BestFront
    <2> HIDE DEF ao
    <2> QED
      BY <1>5, <2>1
  <1> HIDE DEF bo, ao
  <1> QED
    BY <1>4, <1>5, <1>6, <1>7

\* After UPDATE_BOOK no bid that rests, killed or not, reaches an ask that
\* rests: the matching loop and the lazy eviction leave nothing tradable.
THEOREM BookUncrossed ==
  ASSUME NoWrap
  PROVE  Spec => []Uncrossed
  <1>1. Inv => Uncrossed
    BY TopsDecide DEF Inv, TopsSettled, Uncrossed
  <1> QED
    BY <1>1, BookInvariant, PTL

\* Only the first live order of its side, by price and then arrival, is filled.
THEOREM FilledInPriority ==
  ASSUME NoWrap
  PROVE  Spec => PriceTimePriority
  <1>1. ASSUME Inv, [Next]_vars, NEW i \in Booked, order'[i].qty # order[i].qty,
               NEW j \in Live \ {i}, order[j].side = order[i].side
        PROVE  Ahead(i, j)
    <2> USE <1>1 DEF Inv
    <2>0. "BUY" \in Side /\ "SELL" \in Side
      BY DEF Side
    <2>1. Fill
      <3>1. CASE \E c \in Session, n \in OrderId, side \in Side, price \in Price, qty \in Qty :
                   n \notin Booked /\ insert(n, side, price, qty, c)
        BY <3>1 DEF insert, Booked
      <3>2. CASE order' = order
        BY <3>2
      <3> QED
        BY <3>1, <3>2 DEF Next, Request, UPDATE_BOOK, SEND_ORDER, KILL_ORDER,
           MODIFY_ORDER, Evict, EndDrain, EndMatch, DrainNothing, vars
    <2>2. PICK bs \in Best("BUY"), as \in Best("SELL") :
            LET bo == level_front("BUY", bs)
                ao == level_front("SELL", as)
                q  == Smaller(order[bo].qty, order[ao].qty)
            IN  order' = [order EXCEPT ![bo].qty = @ - q, ![ao].qty = @ - q]
      BY <2>1 DEF Fill
    <2>3. i = level_front("BUY", bs) \/ i = level_front("SELL", as)
      BY <2>2 DEF Booked
    <2>4. PICK side \in Side : j \in On(side)
      BY DEF Live, Resting, Side
    <2>5. order[j].side = side
      BY <2>4, Place
    <2>6. PICK s \in Best(side) : i = level_front(side, s)
      <3>1. CASE i = level_front("BUY", bs)
        <4>1. order[i].side = "BUY"
          BY <2>0, <3>1, Front
        <4> QED
          BY <2>5, <3>1, <4>1
      <3>2. CASE i = level_front("SELL", as)
        <4>1. order[i].side = "SELL"
          BY <2>0, <3>2, Front
        <4> QED
          BY <2>5, <3>2, <4>1
      <3> QED
        BY <2>3, <3>1, <3>2
    <2>7. /\ \/ side = "BUY" /\ order[i].price > order[j].price
             \/ side = "SELL" /\ order[i].price < order[j].price
             \/ order[i].price = order[j].price /\ order[i].at < order[j].at
      BY <2>4, <2>6, BestFront
    <2> QED
      BY <2>5, <2>7 DEF Ahead
  <1>2. Inv /\ [Next]_vars =>
          [\A i \in Booked :
             order'[i].qty # order[i].qty =>
               \A j \in Live \ {i} : order[j].side = order[i].side => Ahead(i, j)]_vars
    BY <1>1
  <1> QED
    BY <1>2, BookInvariant, PTL DEF Spec, PriceTimePriority

-----------------------------------------------------------------------------
(* The book implements LimitOrderBook: every step of it is a step of the     *)
(* price-time book of its live orders, or changes nothing of that book.      *)

\* The live orders as the abstract book has them.
AliveBook ==
  [i \in Alive |-> [side |-> order[i].side, price |-> order[i].price,
                    qty |-> order[i].qty, at |-> order[i].at]]

LEMMA AliveFacts ==
  ASSUME TypeOK, QueuesWellFormed
  PROVE  /\ Alive \subseteq OrderId
         /\ Alive \subseteq Booked
         /\ \A i \in Alive : killed_orders[i] = "alive" /\ order[i].qty > 0
  BY RestingBooked DEF Alive

LEMMA InitRefined == Init => Promise!Init
  <1> SUFFICES ASSUME Init
               PROVE  Promise!Init
    OBVIOUS
  <1>1. \A side \in Side : On(side) = {}
    BY DEF Init, On
  <1>2. Alive = {}
    BY <1>1 DEF Alive, Resting, Side
  <1>3. AliveBook = [i \in {} |-> {}]
    BY <1>2 DEF AliveBook
  <1>4. seq_len = 0 /\ (pc # "idle") = FALSE
    BY DEF Init
  <1> QED
    BY <1>3, <1>4 DEF Promise!Init, AliveBook

\* A request finds the book between two rounds, and is stamped.
LEMMA TakeRefined == Take => Promise!Take
  BY DEF Take, Promise!Take

\* SEND_ORDER and MODIFY_ORDER: the order enters over flags that are the old
\* ones but for the orders they cancel.
LEMMA EnterRefined ==
  ASSUME Inv, NEW i \in OrderId, i \notin Booked, NEW side \in Side,
         NEW price \in Price, NEW qty \in Qty, NEW session \in Session,
         Take, insert(i, side, price, qty, session),
         NEW flags \in [OrderId -> Flag], NEW cancelled,
         \A j \in Resting : flags[j] = "alive" <=> killed_orders[j] = "alive" /\ j \notin cancelled,
         killed_orders' = [flags EXCEPT ![i] = "alive"]
  PROVE  Promise!Enter(i, side, price, qty, cancelled)
  <1> USE DEF Inv
  <1>1. seq_len' = seq_len + 1
    BY DEF Take
  <1>2. /\ \A j \in Booked : order'[j] = order[j]
        /\ order'[i] = [side |-> side, price |-> price, qty |-> qty,
                        session |-> session, at |-> seq_len', placed |-> qty]
    BY <1>1, InsertOrder
  <1>3. Resting' = Resting \union {i}
    BY InsertResting
  <1>4. Alive' = (Alive \ cancelled) \union {i}
    <2>1. \A j \in Resting : j \in OrderId /\ j # i
      BY RestingBooked
    <2>2. killed_orders'[i] = "alive" /\ \A j \in OrderId \ {i} : killed_orders'[j] = flags[j]
      OBVIOUS
    <2> QED
      BY <1>3, <2>1, <2>2 DEF Alive
  <1>5. i \notin Alive /\ Alive \subseteq Booked
    BY AliveFacts
  <1>6. DOMAIN AliveBook = Alive
    BY DEF AliveBook
  <1>7. AliveBook' = [j \in (Alive \ cancelled) \union {i} |->
                    IF j = i
                    THEN [side |-> side, price |-> price, qty |-> qty, at |-> seq_len']
                    ELSE AliveBook[j]]
    <2>1. \A j \in Alive : j # i /\ order'[j] = order[j]
      BY <1>2, <1>5
    <2> QED
      BY <1>2, <1>4, <2>1 DEF AliveBook
  <1> QED
    BY <1>5, <1>6, <1>7 DEF Promise!Enter, Promise!Live, AliveBook

\* KILL_ORDER: an order that rests is live no more; no other is touched.
LEMMA CancelRefined ==
  ASSUME Inv, NEW d \in OrderId, NEW session \in Session, KILL_ORDER(d, session)
  PROVE  Promise!Cancel(d)
  <1> USE DEF Inv
  <1>1. Take /\ killed_orders' = Marked(d) /\ order' = order /\ level' = level
    BY DEF KILL_ORDER
  <1>2. Resting' = Resting
    BY <1>1 DEF Resting, On
  <1>3. Alive' = Alive \ {d}
    <2>1. \A j \in Resting : j \in OrderId /\ killed_orders[j] # "absent"
      BY RestingBooked DEF FlagsMatchBook
    <2> QED
      BY <1>1, <1>2, <2>1 DEF Alive, Marked, TypeOK
  <1>4. AliveBook' = [j \in Alive \ {d} |-> AliveBook[j]]
    BY <1>1, <1>3 DEF AliveBook
  <1>5. DOMAIN AliveBook = Alive
    BY DEF AliveBook
  <1> QED
    BY <1>1, <1>4, <1>5, TakeRefined DEF Promise!Cancel, Promise!Live, AliveBook

\* A step that leaves orders, live orders and the clock alone is a stutter.
LEMMA StutterRefined ==
  ASSUME Alive' = Alive, order' = order, seq_len' = seq_len,
         pc' # "idle" <=> pc # "idle"
  PROVE  UNCHANGED Promise!vars
  <1>1. AliveBook' = AliveBook
    BY DEF AliveBook
  <1>2. (pc' # "idle") = (pc # "idle")
    OBVIOUS
  <1> QED
    BY <1>1, <1>2 DEF Promise!vars, AliveBook

\* An eviction takes off an order that was gone when its KILL came.
LEMMA EvictRefined ==
  ASSUME Inv, NEW side \in Side, Evict(side)
  PROVE  UNCHANGED Promise!vars
  <1> USE DEF Inv
  <1>1. PICK s \in Best(side) : Evicted(side, s, level_front(side, s))
    BY EvictShape, Zenon
  <1>2. PICK f \in OrderId :
          /\ killed_orders[f] = "killed"
          /\ killed_orders' = [killed_orders EXCEPT ![f] = "absent"]
          /\ \A i : i \in Resting' <=> i \in Resting /\ i # f
    BY <1>1 DEF Evicted
  <1>3. Alive' = Alive
    BY <1>2, RestingBooked DEF Alive, TypeOK
  <1>4. order' = order /\ seq_len' = seq_len /\ pc' = pc
    BY DEF Evict
  <1> QED
    BY <1>3, <1>4, StutterRefined

LEMMA EndDrainRefined ==
  ASSUME NEW side \in Side, EndDrain(side)
  PROVE  UNCHANGED Promise!vars
  <1>1. /\ order' = order /\ seq_len' = seq_len
        /\ level' = level /\ killed_orders' = killed_orders
        /\ pc # "idle" /\ pc' # "idle"
    BY DEF EndDrain, DrainPc, AfterDrain, Side
  <1>2. Alive' = Alive
    BY <1>1 DEF Alive, Resting, On
  <1> QED
    BY <1>1, <1>2, StutterRefined

\* The loop breaks only when no live bid reaches a live ask.
LEMMA SettleRefined ==
  ASSUME Inv, NoWrap, EndMatch
  PROVE  Promise!Settle
  <1> USE DEF Inv
  <1>1. /\ order' = order /\ seq_len' = seq_len
        /\ level' = level /\ killed_orders' = killed_orders
        /\ pc = "match" /\ pc' = "idle"
    BY DEF EndMatch
  <1>2. AliveBook' = AliveBook
    BY <1>1 DEF AliveBook, Alive, Resting, On
  <1>3. ASSUME NEW b \in Promise!On("BUY"), NEW a \in Promise!On("SELL")
        PROVE  ~Promise!Crosses(b, a)
    <2>1. /\ b \in Alive /\ order[b].side = "BUY"
          /\ a \in Alive /\ order[a].side = "SELL"
      BY DEF Promise!On, Promise!Live
    <2>2. b \in On("BUY") /\ a \in On("SELL")
      BY <2>1, Place DEF Alive, Resting, Side
    <2>3. order[b].price < order[a].price
      BY <2>2, FrontsApart, TopsDecide
    <2>4. order[b].price \in Nat /\ order[a].price \in Nat
      BY <2>1, AliveFacts, AssumptionsHold DEF TypeOK, Order, Assumptions
    <2>5. ~(order[b].price >= order[a].price)
      BY <2>3, <2>4
    <2> QED
      BY <2>1, <2>5 DEF Promise!Crosses
  <1>4. (pc # "idle") = TRUE /\ (pc' # "idle") = FALSE
    BY <1>1
  <1> QED
    BY <1>1, <1>2, <1>3, <1>4 DEF Promise!Settle, AliveBook

\* When a round has come to matching, the front of a side is the first of its
\* live orders in price-time priority.
LEMMA FrontIsBest ==
  ASSUME Inv, NoWrap, pc = "match", NEW side \in Side, NEW s \in Best(side)
  PROVE  /\ level_front(side, s) \in Alive
         /\ level_front(side, s) \in Promise!Best(side)
  <1> USE DEF Inv
  <1> DEFINE f == level_front(side, s)
  <1>1. f \in On(side) /\ f \in OrderId /\ order[f].side = side
    BY Front
  <1>2. f \in Alive
    <2>1. killed_orders[f] # "killed"
      BY DEF TopsSettled, Side
    <2>2. f \in Resting
      BY <1>1 DEF Resting, Side
    <2>3. killed_orders[f] # "absent"
      BY <2>2 DEF FlagsMatchBook
    <2>4. killed_orders[f] \in Flag
      BY <1>1 DEF TypeOK
    <2> QED
      BY <2>1, <2>2, <2>3, <2>4 DEF Alive, Flag
  <1>3. \A j : j \in Promise!On(side) <=> j \in Alive /\ order[j].side = side
    BY DEF Promise!On, Promise!Live
  <1>4. ASSUME NEW j \in Promise!On(side), j # f
        PROVE  Promise!Ahead(f, j)
    <2>1. j \in Alive /\ order[j].side = side
      BY <1>3
    <2>2. j \in On(side)
      BY <2>1, Place DEF Alive, Resting, Side
    <2>3. \/ side = "BUY" /\ order[f].price > order[j].price
          \/ side = "SELL" /\ order[f].price < order[j].price
          \/ order[f].price = order[j].price /\ order[f].at < order[j].at
      BY <1>4, <2>2, BestFront
    <2> HIDE DEF f
    <2> QED
      BY <1>1, <1>2, <2>1, <2>3 DEF Promise!Ahead
  <1> HIDE DEF f
  <1>5. f \in Promise!Best(side)
    BY <1>1, <1>2, <1>3, <1>4 DEF Promise!Best
  <1> QED
    BY <1>2, <1>5 DEF f

\* The abstract book after bo and ao have traded q.
TradedBook(bo, ao, q) ==
  [j \in {k \in Alive : k \in {bo, ao} => AliveBook[k].qty # q} |->
     IF j \in {bo, ao} THEN [AliveBook[j] EXCEPT !.qty = @ - q] ELSE AliveBook[j]]

\* The live orders after a fill: those with nothing left are gone.
LEMMA FillShown ==
  ASSUME Inv, NEW bo \in Alive, NEW ao \in Alive, NEW q, Filled(bo, ao, q)
  PROVE  AliveBook' = TradedBook(bo, ao, q)
  <1> USE DEF Inv
  <1>1. /\ bo \in OrderId /\ ao \in OrderId /\ bo # ao
        /\ order'[bo].qty = order[bo].qty - q
        /\ order'[ao].qty = order[ao].qty - q
        /\ \A i \in Booked \ {bo, ao} : order'[i] = order[i]
        /\ \A i \in Booked : /\ order'[i].side = order[i].side
                             /\ order'[i].price = order[i].price
                             /\ order'[i].at = order[i].at
        /\ killed_orders' = Forgotten(Forgotten(killed_orders, bo, q), ao, q)
        /\ \A i : i \in Resting' <=>
                    /\ i \in Resting
                    /\ i = bo => order[bo].qty # q
                    /\ i = ao => order[ao].qty # q
    BY DEF Filled
  <1>2. Alive' = {k \in Alive : k \in {bo, ao} => AliveBook[k].qty # q}
    <2>0. \A k \in Alive : AliveBook[k].qty = order[k].qty
      BY DEF AliveBook
    <2>1. killed_orders \in [OrderId -> Flag] /\ \A i \in Resting : i \in OrderId
      BY RestingBooked DEF TypeOK
    <2>2. \A i \in {bo, ao} : order[i].qty # q => killed_orders'[i] = killed_orders[i]
      BY <1>1, <2>1 DEF Forgotten
    <2>3. \A i \in OrderId \ {bo, ao} : killed_orders'[i] = killed_orders[i]
      BY <1>1, <2>1 DEF Forgotten
    <2> QED
      BY <1>1, <2>0, <2>1, <2>2, <2>3 DEF Alive
  <1>3. Alive \subseteq Booked
    BY AliveFacts
  <1>4. ASSUME NEW j \in Alive, j \in {bo, ao}
        PROVE  [side |-> order'[j].side, price |-> order'[j].price,
                qty |-> order'[j].qty, at |-> order'[j].at]
                  = [AliveBook[j] EXCEPT !.qty = @ - q]
    <2>1. /\ order'[j].side = order[j].side /\ order'[j].price = order[j].price
          /\ order'[j].at = order[j].at /\ order'[j].qty = order[j].qty - q
      BY <1>1, <1>3, <1>4
    <2>2. AliveBook[j] = [side |-> order[j].side, price |-> order[j].price,
                      qty |-> order[j].qty, at |-> order[j].at]
      BY DEF AliveBook
    <2> QED
      BY <2>1, <2>2
  <1>5. ASSUME NEW j \in Alive, j \notin {bo, ao}
        PROVE  [side |-> order'[j].side, price |-> order'[j].price,
                qty |-> order'[j].qty, at |-> order'[j].at] = AliveBook[j]
    BY <1>1, <1>3, <1>5 DEF AliveBook
  <1>6. AliveBook' = [j \in Alive' |-> [side |-> order'[j].side, price |-> order'[j].price,
                                    qty |-> order'[j].qty, at |-> order'[j].at]]
    BY DEF AliveBook
  <1> QED
    BY <1>2, <1>4, <1>5, <1>6 DEF TradedBook

LEMMA TradeRefined ==
  ASSUME Inv, NoWrap, Fill
  PROVE  Promise!Trade
  <1> USE DEF Inv
  <1>1. PICK bs \in Best("BUY"), as \in Best("SELL") :
          Filled(level_front("BUY", bs), level_front("SELL", as),
                 Smaller(order[level_front("BUY", bs)].qty,
                         order[level_front("SELL", as)].qty))
    BY FillShape, Zenon
  <1> DEFINE bo == level_front("BUY", bs)
             ao == level_front("SELL", as)
             q == Smaller(order[bo].qty, order[ao].qty)
  <1>2. pc = "match" /\ pc' = "drain_bids" /\ seq_len' = seq_len
    BY DEF Fill
  <1>3. bo \in Alive /\ bo \in Promise!Best("BUY")
    BY <1>2, FrontIsBest DEF Side
  <1>4. ao \in Alive /\ ao \in Promise!Best("SELL")
    BY <1>2, FrontIsBest DEF Side
  <1>5. Filled(bo, ao, q)
    BY <1>1
  <1> HIDE DEF bo, ao
  <1>6. Crosses(bo, ao)
    BY <1>5 DEF Filled
  <1>7. Promise!Crosses(bo, ao)
    BY <1>3, <1>4, <1>6 DEF Crosses, Promise!Crosses
  <1>8. DOMAIN AliveBook = Alive /\ \A j \in Alive : AliveBook[j].qty = order[j].qty
    BY DEF AliveBook
  <1>9. q = Promise!Smaller(AliveBook[bo].qty, AliveBook[ao].qty)
    BY <1>3, <1>4, <1>8 DEF Smaller, Promise!Smaller
  <1> HIDE DEF q
  <1> HIDE DEF Inv
  <1>10. AliveBook' = TradedBook(bo, ao, q)
    BY <1>3, <1>4, <1>5, FillShown, Zenon
  <1>11. pc # "idle" /\ UNCHANGED <<seq_len, pc # "idle">>
    <2>1. (pc # "idle") = TRUE /\ (pc' # "idle") = TRUE
      BY <1>2
    <2> QED
      BY <1>2, <2>1
  <1>12. Promise!Live = Alive
    BY <1>8 DEF Promise!Live, AliveBook
  <1>13. AliveBook' = [j \in {k \in Promise!Live : k \in {bo, ao} => AliveBook[k].qty # q} |->
                     IF j \in {bo, ao} THEN [AliveBook[j] EXCEPT !.qty = @ - q] ELSE AliveBook[j]]
    BY <1>10, <1>12, Zenon DEF TradedBook
  <1>14. \E b \in Promise!Best("BUY"), a \in Promise!Best("SELL") :
           LET r == Promise!Smaller(AliveBook[b].qty, AliveBook[a].qty)
           IN  /\ Promise!Crosses(b, a)
               /\ AliveBook' = [j \in {k \in Promise!Live : k \in {b, a} => AliveBook[k].qty # r} |->
                     IF j \in {b, a} THEN [AliveBook[j] EXCEPT !.qty = @ - r] ELSE AliveBook[j]]
    BY <1>3, <1>4, <1>7, <1>9, <1>13, Zenon
  <1> QED
    BY <1>11, <1>14, Zenon DEF Promise!Trade, AliveBook

LEMMA StepRefined ==
  ASSUME Inv, NoWrap, [Next]_vars
  PROVE  [Promise!Next]_(Promise!vars)
  <1>1. ASSUME NEW c \in Session, NEW d \in OrderId, KILL_ORDER(d, c)
        PROVE  Promise!Next
    BY <1>1, CancelRefined DEF Promise!Next
  <1>2. ASSUME NEW c \in Session, NEW i \in OrderId, NEW side \in Side,
               NEW price \in Price, NEW qty \in Qty, SEND_ORDER(i, side, price, qty, c)
        PROVE  Promise!Next
    <2>1. /\ i \notin Booked /\ Take /\ insert(i, side, price, qty, c)
          /\ killed_orders' = [killed_orders EXCEPT ![i] = "alive"]
      BY <1>2 DEF SEND_ORDER
    <2>2. killed_orders \in [OrderId -> Flag]
      BY DEF Inv, TypeOK
    <2>3. Promise!Enter(i, side, price, qty, {})
      BY <2>1, <2>2, EnterRefined
    <2>4. Promise!Place(i, side, price, qty)
      BY <2>1, <2>3, TakeRefined DEF Promise!Place
    <2> QED
      BY <2>4 DEF Promise!Next, Promise!Side, Side
  <1>3. ASSUME NEW c \in Session, NEW i \in OrderId, NEW d \in OrderId, NEW side \in Side,
               NEW price \in Price, NEW qty \in Qty, MODIFY_ORDER(i, d, side, price, qty, c)
        PROVE  Promise!Next
    <2>1. /\ i \notin Booked /\ Take /\ insert(i, side, price, qty, c)
          /\ killed_orders' = [Marked(d) EXCEPT ![i] = "alive"]
      BY <1>3 DEF MODIFY_ORDER
    <2>2. Marked(d) \in [OrderId -> Flag]
      BY KillFacts DEF Inv
    <2>3. \A j \in Resting : Marked(d)[j] = "alive" <=> killed_orders[j] = "alive" /\ j \notin {d}
      <3>1. \A j \in Resting : j \in OrderId /\ killed_orders[j] # "absent"
        BY RestingBooked DEF Inv, FlagsMatchBook
      <3> QED
        BY <3>1 DEF Inv, TypeOK, Marked
    <2>4. Promise!Enter(i, side, price, qty, {d})
      BY <2>1, <2>2, <2>3, EnterRefined
    <2>5. Promise!Replace(i, d, side, price, qty)
      BY <2>1, <2>4, TakeRefined DEF Promise!Replace
    <2> QED
      BY <2>5 DEF Promise!Next, Promise!Side, Side
  <1>4. ASSUME NEW side \in Side, Evict(side) \/ EndDrain(side)
        PROVE  UNCHANGED Promise!vars
    BY <1>4, EvictRefined, EndDrainRefined
  <1>5. CASE Fill
    BY <1>5, TradeRefined DEF Promise!Next
  <1>6. CASE EndMatch
    BY <1>6, SettleRefined DEF Promise!Next
  <1>7. ASSUME UNCHANGED vars
        PROVE  UNCHANGED Promise!vars
    <2>1. Alive' = Alive
      BY <1>7 DEF vars, Alive, Resting, On
    <2> QED
      BY <1>7, <2>1, StutterRefined DEF vars
  <1> QED
    BY <1>1, <1>2, <1>3, <1>4, <1>5, <1>6, <1>7
       DEF Next, Request, UPDATE_BOOK, DrainNothing

\* The book that ORDER_BOOK keeps, with its killed orders left queued, behaves
\* as a price-time book from which a KILL takes its order at once.
THEOREM BookKeepsPromise ==
  ASSUME NoWrap
  PROVE  Spec => ImplementsLimitOrderBook
  <1>1. Inv /\ [Next]_vars => [Promise!Next]_(Promise!vars)
    BY StepRefined
  <1> QED
    BY <1>1, InitRefined, BookInvariant, PTL
       DEF Spec, ImplementsLimitOrderBook, Promise!Spec

-----------------------------------------------------------------------------
(* What clients are told of their orders: each is reported done at most      *)
(* once, never spoken of afterwards, and for quantities that add up. The     *)
(* book keeps no record of what it sent, so the argument is about the whole  *)
(* history: an order is reported only while it rests, to its own session,    *)
(* and a report that it is done takes it off the book for good.              *)

\* Which session each booked order is from.
Owned == {p \in OrderId \X Session : p[1] \in Booked /\ order[p[1]].session = p[2]}

Done == Booked \ Resting

\* No message but a refusal is about the order of message k of session c,
\* unless it reached the same session before it.
LastWord(inbox, c, k) ==
  \A d \in Session : \A l \in 1 .. Len(inbox[d]) :
    inbox[d][l].id = inbox[c][k].id /\ inbox[d][l].type # "J" =>
      d = c /\ (l = k \/ l < k)

\* What is said of the orders in own goes to their sessions; those reported
\* done are in done, and their report is the last word on them.
Sound(inbox, own, done) ==
  \A c \in Session : \A k \in 1 .. Len(inbox[c]) :
    /\ inbox[c][k].type # "J" => <<inbox[c][k].id, c>> \in own
    /\ inbox[c][k].type \in {"F", "K"} => inbox[c][k].id \in done /\ LastWord(inbox, c, k)

\* The inductive invariant.
Reported == Inv /\ Sound(sent, Owned, Done)

\* A session's inbox after one more message.
LEMMA AppendFacts ==
  ASSUME NEW q \in Seq(Message), NEW m \in Message
  PROVE  /\ Len(q) \in Nat
         /\ Len(q \o <<m>>) = Len(q) + 1
         /\ (q \o <<m>>)[Len(q) + 1] = m
         /\ \A k \in 1 .. Len(q) : (q \o <<m>>)[k] = q[k]
         /\ \A k \in 1 .. Len(q \o <<m>>) : k \in 1 .. Len(q) \/ k = Len(q) + 1
  OBVIOUS

\* One more message keeps the inboxes sound when it is about an order of its
\* session that was not done before, and is done after if the message says so.
LEMMA DeliverSound ==
  ASSUME NEW inbox \in [Session -> Seq(Message)],
         NEW own, \A i, c, d : <<i, c>> \in own /\ <<i, d>> \in own => c = d,
         NEW done, Sound(inbox, own, done),
         NEW c \in Session, NEW m \in Message,
         m.type # "J" => <<m.id, c>> \in own /\ m.id \notin done,
         NEW after, done \subseteq after,
         m.type \in {"F", "K"} => m.id \in after
  PROVE  Sound(Deliver(inbox, c, <<m>>), own, after)
  <1>1. CASE c \notin Registered
    <2>1. Deliver(inbox, c, <<m>>) = inbox
      BY <1>1 DEF Deliver
    <2>2. \A x : x \in done => x \in after
      OBVIOUS
    <2>3. Sound(inbox, own, after)
      BY <2>2, Zenon DEF Sound
    <2> QED
      BY <2>1, <2>3
  <1>2. CASE c \in Registered
    <2> DEFINE new == Deliver(inbox, c, <<m>>)
               last == Len(inbox[c]) + 1
    <2>1. /\ new[c] = inbox[c] \o <<m>>
          /\ \A d \in Session \ {c} : new[d] = inbox[d]
      BY <1>2 DEF Deliver
    <2>2. /\ Len(inbox[c]) \in Nat
          /\ Len(new[c]) = last
          /\ new[c][last] = m
          /\ \A k \in 1 .. Len(inbox[c]) : new[c][k] = inbox[c][k]
          /\ \A k \in 1 .. Len(new[c]) : k \in 1 .. Len(inbox[c]) \/ k = last
      <3>1. inbox[c] \in Seq(Message)
        OBVIOUS
      <3> QED
        BY <2>1, <3>1, AppendFacts
    <2> HIDE DEF new
    <2>3. ASSUME NEW d \in Session, NEW k \in 1 .. Len(new[d])
          PROVE  \/ k \in 1 .. Len(inbox[d]) /\ new[d][k] = inbox[d][k]
                 \/ d = c /\ k = last /\ new[d][k] = m
      BY <2>1, <2>2
    <2>4. \A k \in 1 .. Len(inbox[c]) : k < last
      BY <2>2
    <2> HIDE DEF last
    <2> SUFFICES ASSUME NEW e \in Session, NEW k \in 1 .. Len(new[e])
                 PROVE  /\ new[e][k].type # "J" => <<new[e][k].id, e>> \in own
                        /\ new[e][k].type \in {"F", "K"} =>
                             new[e][k].id \in after /\ LastWord(new, e, k)
      BY Zenon DEF Sound, new
    <2>5. new[e][k].type # "J" => <<new[e][k].id, e>> \in own
      BY <2>3 DEF Sound
    <2>6. ASSUME new[e][k].type \in {"F", "K"}
          PROVE  new[e][k].id \in after
      BY <2>3, <2>6 DEF Sound
    <2>7. ASSUME new[e][k].type \in {"F", "K"},
                 NEW d \in Session, NEW l \in 1 .. Len(new[d]),
                 new[d][l].id = new[e][k].id, new[d][l].type # "J"
          PROVE  d = e /\ (l = k \/ l < k)
      <3>1. CASE k \in 1 .. Len(inbox[e]) /\ new[e][k] = inbox[e][k]
        <4>1. inbox[e][k].id \in done
          BY <2>7, <3>1 DEF Sound
        <4>2. l \in 1 .. Len(inbox[d]) /\ new[d][l] = inbox[d][l]
          BY <2>3, <2>7, <3>1, <4>1
        <4>3. LastWord(inbox, e, k)
          BY <2>7, <3>1 DEF Sound
        <4> QED
          BY <2>7, <3>1, <4>2, <4>3 DEF LastWord
      <3>2. CASE e = c /\ k = last /\ new[e][k] = m
        <4>1. <<m.id, c>> \in own
          BY <2>7, <3>2
        <4>2. CASE l \in 1 .. Len(inbox[d]) /\ new[d][l] = inbox[d][l]
          <5>1. <<m.id, d>> \in own
            <6>1. inbox[d][l].id = m.id /\ inbox[d][l].type # "J"
              BY <2>7, <3>2, <4>2, Zenon
            <6> QED
              BY <4>2, <6>1 DEF Sound
          <5>2. d = c
            BY <4>1, <5>1
          <5> QED
            BY <2>4, <3>2, <4>2, <5>2
        <4>3. CASE d = c /\ l = last /\ new[d][l] = m
          BY <3>2, <4>3
        <4> QED
          BY <2>3, <4>2, <4>3
      <3> QED
        BY <2>3, <3>1, <3>2
    <2> QED
      BY <2>5, <2>6, <2>7 DEF LastWord
  <1> QED
    BY <1>1, <1>2

LEMMA SoundGrows ==
  ASSUME NEW inbox, NEW own, NEW done, Sound(inbox, own, done),
         NEW own2, own \subseteq own2, NEW done2, done \subseteq done2
  PROVE  Sound(inbox, own2, done2)
  <1>1. (\A x : x \in own => x \in own2) /\ (\A x : x \in done => x \in done2)
    OBVIOUS
  <1> QED
    BY <1>1, Zenon DEF Sound

\* An order is of one session.
LEMMA OneOwner == \A i, c, d : <<i, c>> \in Owned /\ <<i, d>> \in Owned => c = d
  BY DEF Owned

\* SEND_ORDER, KILL_ORDER and MODIFY_ORDER: at most a refusal is sent, and the
\* orders booked before stay done or not done.
LEMMA RequestReports ==
  ASSUME Reported, NEW c \in Session,
         NEW d \in OrderId, sent' = sent \/ sent' = KillReply(d, c),
         Owned \subseteq Owned', Done \subseteq Done'
  PROVE  Sound(sent, Owned, Done)'
  <1> USE DEF Reported, Inv
  <1>1. Sound(sent, Owned', Done')
    BY SoundGrows
  <1>2. CASE sent' = sent
    <2>1. Sound(sent', Owned', Done')
      BY <1>1, <1>2, Zenon
    <2> QED
      BY <2>1 DEF Sound, LastWord
  <1>3. CASE sent' = KillReply(d, c) /\ sent' # sent
    <2>1. sent' = Deliver(sent, c, <<Msg("J", d, 0)>>)
      BY <1>3 DEF KillReply
    <2>2. Msg("J", d, 0) \in Message /\ Msg("J", d, 0).type = "J"
      BY DEF Msg, Message
    <2>3. sent \in [Session -> Seq(Message)]
      BY DEF TypeOK
    <2>4. Sound(Deliver(sent, c, <<Msg("J", d, 0)>>), Owned, Done)
      BY <2>2, <2>3, OneOwner, DeliverSound
    <2>5. Sound(Deliver(sent, c, <<Msg("J", d, 0)>>), Owned', Done')
      BY <2>4, SoundGrows
    <2>6. Sound(sent', Owned', Done')
      BY <2>1, <2>5, Zenon
    <2> QED
      BY <2>6 DEF Sound, LastWord
  <1> QED
    BY <1>2, <1>3

\* A step that sends nothing and leaves the orders as they were.
LEMMA QuietReports ==
  ASSUME Reported, UNCHANGED <<level, order, sent>>
  PROVE  Sound(sent, Owned, Done)'
  <1>1. Owned' = Owned /\ Done' = Done
    BY DEF Owned, Done, Booked, Resting, On
  <1> QED
    BY <1>1 DEF Reported, Sound, LastWord

\* The confirmed kill of f: f rested until now.
LEMMA EvictReports ==
  ASSUME Reported, NEW side \in Side, Evict(side)
  PROVE  Sound(sent, Owned, Done)'
  <1> USE DEF Reported, Inv
  <1>1. PICK s \in Best(side) : Evicted(side, s, level_front(side, s))
    BY EvictShape, Zenon
  <1>2. PICK f : Evicted(side, s, f)
    BY <1>1
  <1>3. order' = order
    BY DEF Evict
  <1> DEFINE m == Msg("K", f, order[f].qty)
             c == order[f].session
  <1>4. /\ f \in Booked /\ f \in OrderId /\ f \in Resting
        /\ order[f].qty \in Nat /\ c \in Session
        /\ sent' = Deliver(sent, c, <<m>>)
        /\ \A i : i \in Resting' <=> i \in Resting /\ i # f
    BY <1>2 DEF Evicted, Resting, Side, TypeOK, Order
  <1>5. Owned' = Owned /\ Done \subseteq Done' /\ f \in Done' /\ f \notin Done
    BY <1>3, <1>4 DEF Owned, Done, Booked
  <1>6. m \in Message /\ m.id = f
    BY <1>4 DEF Msg, Message
  <1>7. <<f, c>> \in Owned
    BY <1>4 DEF Owned
  <1>8. sent \in [Session -> Seq(Message)]
    BY DEF TypeOK
  <1> HIDE DEF m, c
  <1>9. Sound(Deliver(sent, c, <<m>>), Owned, Done')
    BY <1>4, <1>5, <1>6, <1>7, <1>8, OneOwner, DeliverSound
  <1>10. Sound(sent', Owned', Done')
    BY <1>4, <1>5, <1>9, Zenon
  <1> QED
    BY <1>10 DEF Sound, LastWord

\* The two reports of a fill: of bo, then of ao, both resting until now.
LEMMA FillReports ==
  ASSUME Reported, Fill
  PROVE  Sound(sent, Owned, Done)'
  <1> USE DEF Reported, Inv
  <1>1. PICK bs \in Best("BUY"), as \in Best("SELL") :
          Filled(level_front("BUY", bs), level_front("SELL", as),
                 Smaller(order[level_front("BUY", bs)].qty,
                         order[level_front("SELL", as)].qty))
    BY FillShape, Zenon
  <1>2. PICK bo, ao, q : Filled(bo, ao, q)
    BY <1>1
  <1> DEFINE Told(f) == Msg(IF order[f].qty = q THEN "F" ELSE "P", f, q)
             Ended(f) == IF order[f].qty = q THEN {f} ELSE {}
             b == order[bo].session
             a == order[ao].session
  <1>3. /\ bo \in Booked /\ bo \in OrderId /\ bo \in Resting /\ b \in Session
        /\ ao \in Booked /\ ao \in OrderId /\ ao \in Resting /\ a \in Session
        /\ bo # ao
        /\ q \in Nat
    BY <1>2 DEF Filled, Resting, TypeOK, Order
  <1>4. sent' = Deliver(Deliver(sent, b, <<Told(bo)>>), a, <<Told(ao)>>)
    BY <1>2 DEF Filled, FillMsg
  <1>5. Owned' = Owned
    BY <1>2 DEF Filled, Owned
  <1>6. Done' = Done \union Ended(bo) \union Ended(ao)
    BY <1>2, <1>3 DEF Filled, Done
  <1>7. ASSUME NEW f \in {bo, ao}
        PROVE  /\ Told(f) \in Message /\ Told(f).id = f
               /\ Told(f).type \in {"F", "K"} => f \in Ended(f)
               /\ <<f, order[f].session>> \in Owned
               /\ f \notin Done
    <2>1. f \in OrderId /\ f \in Booked /\ f \in Resting /\ order[f].session \in Session
      BY <1>3
    <2> QED
      BY <1>3, <2>1 DEF Msg, Message, Owned, Done
  <1>8. ao \notin Ended(bo)
    BY <1>3
  <1>9. sent \in [Session -> Seq(Message)]
    BY DEF TypeOK
  <1> HIDE DEF Told, Ended, Inv
  <1>10. Deliver(sent, b, <<Told(bo)>>) \in [Session -> Seq(Message)]
    <2>1. <<Told(bo)>> \in Seq(Message)
      BY <1>7
    <2> QED
      BY <1>3, <1>9, <2>1, DeliverType
  <1>11. Sound(Deliver(sent, b, <<Told(bo)>>), Owned, Done \union Ended(bo))
    BY <1>3, <1>7, <1>9, OneOwner, DeliverSound
  <1>12. Sound(Deliver(Deliver(sent, b, <<Told(bo)>>), a, <<Told(ao)>>), Owned, Done')
    <2> DEFINE inbox == Deliver(sent, b, <<Told(bo)>>)
               done == Done \union Ended(bo)
    <2>1. Sound(inbox, Owned, done) /\ inbox \in [Session -> Seq(Message)]
      BY <1>10, <1>11
    <2>2. ao \notin done /\ done \subseteq Done' /\ Ended(ao) \subseteq Done'
      BY <1>6, <1>7, <1>8
    <2> HIDE DEF inbox, done
    <2>3. Sound(Deliver(inbox, a, <<Told(ao)>>), Owned, Done')
      BY <1>3, <1>7, <2>1, <2>2, OneOwner, DeliverSound
    <2> QED
      BY <2>3 DEF inbox
  <1>13. Sound(sent', Owned', Done')
    BY <1>4, <1>5, <1>12, Zenon
  <1> QED
    BY <1>13 DEF Sound, LastWord

LEMMA InitReported == Init => Reported
  BY InitInv DEF Init, Reported, Sound

LEMMA NextReported == Reported /\ [Next]_vars => Reported'
  <1> SUFFICES ASSUME Reported, [Next]_vars
               PROVE  Sound(sent, Owned, Done)'
    BY NextInv DEF Reported
  <1>1. ASSUME NEW c \in Session, NEW d \in OrderId, KILL_ORDER(d, c)
        PROVE  Sound(sent, Owned, Done)'
    <2>1. /\ Booked' = Booked \union {} /\ Resting' = Resting \union {}
          /\ sent' = KillReply(d, c) /\ order' = order
      BY <1>1 DEF KILL_ORDER, Booked, Resting, On
    <2>2. Owned \subseteq Owned' /\ Done \subseteq Done'
      BY <2>1 DEF Owned, Done
    <2> QED
      BY <2>1, <2>2, RequestReports
  <1>2. ASSUME NEW c \in Session, NEW i \in OrderId, NEW d \in OrderId, NEW side \in Side,
               NEW price \in Price, NEW qty \in Qty,
               SEND_ORDER(i, side, price, qty, c) \/ MODIFY_ORDER(i, d, side, price, qty, c)
        PROVE  Sound(sent, Owned, Done)'
    <2>1. /\ i \notin Booked /\ insert(i, side, price, qty, c)
          /\ seq_len' = seq_len + 1
          /\ sent' = sent \/ sent' = KillReply(d, c)
      BY <1>2 DEF SEND_ORDER, MODIFY_ORDER, Take
    <2>2. Booked' = Booked \union {i} /\ \A j \in Booked : order'[j] = order[j]
      BY <2>1, InsertOrder DEF Reported, Inv
    <2>3. Resting' = Resting \union {i}
      BY <2>1, InsertResting DEF Reported, Inv
    <2>4. Owned \subseteq Owned'
      BY <2>2 DEF Owned
    <2>5. Done \subseteq Done'
      BY <2>1, <2>2, <2>3 DEF Done
    <2> QED
      BY <2>1, <2>4, <2>5, RequestReports
  <1>3. ASSUME NEW side \in Side, Evict(side)
        PROVE  Sound(sent, Owned, Done)'
    BY <1>3, EvictReports
  <1>4. CASE Fill
    BY <1>4, FillReports
  <1>5. CASE (\E side \in Side : EndDrain(side)) \/ EndMatch \/ UNCHANGED vars
    BY <1>5, QuietReports DEF EndDrain, EndMatch, vars
  <1> QED
    BY <1>1, <1>2, <1>3, <1>4, <1>5 DEF Next, Request, UPDATE_BOOK, DrainNothing

\* An order is reported done once at most, when it has left the book, and no
\* fill or kill of it is reported to anyone afterwards.
THEOREM ReportedDoneOnce == Spec => []OneFinalReport
  <1>1. Reported => OneFinalReport
    <2> SUFFICES ASSUME Reported, NEW c \in Session, NEW k \in DOMAIN sent[c],
                        sent[c][k].type \in {"F", "K"}
                 PROVE  /\ sent[c][k].id \in Booked \ Resting
                        /\ \A d \in Session : \A l \in DOMAIN sent[d] :
                             sent[d][l].id = sent[c][k].id =>
                               <<d, l>> = <<c, k>> \/ (d = c /\ l < k) \/ sent[d][l].type = "J"
      BY Zenon DEF OneFinalReport
    <2>1. \A d \in Session : DOMAIN sent[d] = 1 .. Len(sent[d])
      BY DEF Reported, Inv, TypeOK
    <2>2. sent[c][k].id \in Done /\ LastWord(sent, c, k)
      BY <2>1 DEF Reported, Sound
    <2>3. ASSUME NEW d \in Session, NEW l \in DOMAIN sent[d], sent[d][l].id = sent[c][k].id,
                 sent[d][l].type # "J"
          PROVE  <<d, l>> = <<c, k>> \/ (d = c /\ l < k)
      BY <2>1, <2>2, <2>3 DEF LastWord
    <2> QED
      BY <2>2, <2>3 DEF Done
  <1> QED
    BY <1>1, InitReported, NextReported, PTL DEF Spec

-----------------------------------------------------------------------------
(***************************************************************************)
(* The quantities add up. ReportsAddUp folds an inbox with a recursive      *)
(* function; the proof carries such a function along instead (Tally) and    *)
(* shows at the end that there is no other. A message changes the sum of    *)
(* one order of its session, by what it says.                              *)
(***************************************************************************)

\* t sums up what the messages of the inbox box say of order i, one by one.
Tally(box, i, t) ==
  /\ t \in [0 .. Len(box) -> Nat]
  /\ t[0] = 0
  /\ \A k \in 1 .. Len(box) : t[k] = t[k - 1] + Counted(box[k], i)

\* The inbox of session c has told n of order i.
Sums(inbox, c, i, n) ==
  \E t : Tally(inbox[c], i, t) /\ t[Len(inbox[c])] = n

\* What is still open of order i.
Open(i) == IF i \in Resting THEN order[i].qty ELSE 0

\* What was told of an order, and what is open, is what was placed.
AddsUp(i) ==
  order[i].session \in Registered =>
    \E n \in Nat : Sums(sent, order[i].session, i, n) /\ n + Open(i) = order[i].placed

\* The inductive invariant.
Accounted == Reported /\ \A i \in Booked : AddsUp(i)

LEMMA CountedNat ==
  ASSUME NEW m \in Message, NEW i
  PROVE  Counted(m, i) \in Nat
  BY DEF Counted, Message

\* One more message adds what it says.
LEMMA TallyAppend ==
  ASSUME NEW q \in Seq(Message), NEW m \in Message, NEW i, NEW t, Tally(q, i, t)
  PROVE  \E u : /\ Tally(q \o <<m>>, i, u)
                /\ u[Len(q \o <<m>>)] = t[Len(q)] + Counted(m, i)
  <1> DEFINE n == Len(q)
             p == q \o <<m>>
             u == [k \in 0 .. n + 1 |-> IF k = n + 1 THEN t[n] + Counted(m, i) ELSE t[k]]
  <1>1. /\ n \in Nat /\ Len(p) = n + 1 /\ p[n + 1] = m
        /\ \A k \in 1 .. n : p[k] = q[k]
    BY AppendFacts
  <1>2. /\ t \in [0 .. n -> Nat] /\ t[0] = 0
        /\ \A k \in 1 .. n : t[k] = t[k - 1] + Counted(q[k], i)
    BY DEF Tally
  <1>3. Counted(m, i) \in Nat
    BY CountedNat
  <1> HIDE DEF n, p
  <1>4. u[n + 1] = t[n] + Counted(m, i) /\ \A k \in 0 .. n : u[k] = t[k]
    BY <1>1
  <1>5. u \in [0 .. n + 1 -> Nat]
    <2>1. \A k \in 0 .. n : t[k] \in Nat
      BY <1>2
    <2>2. t[n] \in Nat
      BY <1>1, <2>1
    <2>3. t[n] + Counted(m, i) \in Nat
      BY <1>3, <2>2
    <2>4. \A k \in 0 .. n + 1 : k = n + 1 \/ k \in 0 .. n
      BY <1>1
    <2> QED
      BY <2>1, <2>3, <2>4
  <1> HIDE DEF u
  <1>6. u[0] = 0
    BY <1>1, <1>2, <1>4
  <1>7. ASSUME NEW k \in 1 .. n + 1
        PROVE  u[k] = u[k - 1] + Counted(p[k], i)
    <2>1. k - 1 \in 0 .. n
      BY <1>1
    <2>2. CASE k = n + 1
      <3>1. k - 1 = n
        BY <1>1, <2>2
      <3> QED
        BY <1>1, <1>4, <2>1, <2>2, <3>1
    <2>3. CASE k # n + 1
      <3>1. k \in 1 .. n /\ k \in 0 .. n
        BY <1>1, <2>3
      <3>2. t[k] = t[k - 1] + Counted(q[k], i)
        BY <1>2, <3>1
      <3>3. u[k] = t[k] /\ u[k - 1] = t[k - 1] /\ p[k] = q[k]
        BY <1>1, <1>4, <2>1, <3>1
      <3> QED
        BY <3>2, <3>3
    <2> QED
      BY <2>2, <2>3
  <1>8. Tally(p, i, u)
    BY <1>1, <1>5, <1>6, <1>7 DEF Tally
  <1>9. u[Len(p)] = t[n] + Counted(m, i)
    BY <1>1, <1>4
  <1> QED
    BY <1>8, <1>9 DEF n, p

\* An inbox that says nothing of i.
LEMMA TallyNone ==
  ASSUME NEW q \in Seq(Message), NEW i,
         \A k \in 1 .. Len(q) : Counted(q[k], i) = 0
  PROVE  \E u : Tally(q, i, u) /\ u[Len(q)] = 0
  <1> DEFINE u == [k \in 0 .. Len(q) |-> 0]
  <1>1. Len(q) \in Nat
    OBVIOUS
  <1>2. Tally(q, i, u)
    <2>1. \A k \in 0 .. Len(q) : u[k] = 0
      OBVIOUS
    <2>2. \A k \in 1 .. Len(q) : k \in 0 .. Len(q) /\ k - 1 \in 0 .. Len(q)
      BY <1>1
    <2>3. u \in [0 .. Len(q) -> Nat]
      OBVIOUS
    <2>4. 0 \in 0 .. Len(q)
      BY <1>1
    <2> HIDE DEF u
    <2>5. u[0] = 0
      BY <2>1, <2>4
    <2>6. \A k \in 1 .. Len(q) : u[k] = u[k - 1] + Counted(q[k], i)
      BY <2>1, <2>2
    <2> QED
      BY <2>3, <2>5, <2>6 DEF Tally
  <1>3. u[Len(q)] = 0
    BY <1>1
  <1> QED
    BY <1>2, <1>3

\* The function of ReportsAddUp.
Told(box, i) ==
  CHOOSE f : f = [k \in 0 .. Len(box) |->
                    IF k = 0 THEN 0 ELSE f[k - 1] + Counted(box[k], i)]

\* A tally is that function: two of them have no first place where they differ.
LEMMA TallyIsTold ==
  ASSUME NEW q \in Seq(Message), NEW i, NEW t, Tally(q, i, t)
  PROVE  Told(q, i)[Len(q)] = t[Len(q)]
  <1> DEFINE n == Len(q)
             Unfolds(f) == f = [k \in 0 .. n |->
                                  IF k = 0 THEN 0 ELSE f[k - 1] + Counted(q[k], i)]
             f0 == Told(q, i)
  <1>1. n \in Nat
    OBVIOUS
  <1>2. /\ t \in [0 .. n -> Nat] /\ t[0] = 0
        /\ \A k \in 1 .. n : t[k] = t[k - 1] + Counted(q[k], i)
    BY DEF Tally
  <1>3. Unfolds(t)
    <2>1. \A k \in 0 .. n : t[k] = IF k = 0 THEN 0 ELSE t[k - 1] + Counted(q[k], i)
      <3> SUFFICES ASSUME NEW k \in 0 .. n
                   PROVE  t[k] = IF k = 0 THEN 0 ELSE t[k - 1] + Counted(q[k], i)
        OBVIOUS
      <3>1. CASE k = 0
        BY <1>2, <3>1
      <3>2. CASE k # 0
        <4>1. k \in 1 .. n
          BY <1>1, <3>2
        <4> QED
          BY <1>2, <3>2, <4>1
      <3> QED
        BY <3>1, <3>2
    <2>2. t = [k \in 0 .. n |-> t[k]]
      BY <1>2
    <2> QED
      BY <2>1, <2>2, Zenon
  <1>4. Unfolds(f0)
    <2>1. \E f : Unfolds(f)
      BY <1>3
    <2> QED
      BY <2>1, Zenon DEF Told
  <1> HIDE DEF f0, n
  <1>5. /\ f0[0] = 0
        /\ \A k \in 1 .. n : f0[k] = f0[k - 1] + Counted(q[k], i)
    <2>1. \A k \in 0 .. n : f0[k] = IF k = 0 THEN 0 ELSE f0[k - 1] + Counted(q[k], i)
      <3>1. \A f : Unfolds(f) =>
              \A k \in 0 .. n : f[k] = IF k = 0 THEN 0 ELSE f[k - 1] + Counted(q[k], i)
        OBVIOUS
      <3> HIDE DEF Unfolds
      <3> QED
        BY <1>4, <3>1, Zenon
    <2>2. 0 \in 0 .. n /\ \A k \in 1 .. n : k \in 0 .. n /\ k # 0
      BY <1>1
    <2> QED
      BY <2>1, <2>2
  <1> HIDE DEF Unfolds
  <1> DEFINE T == {k \in 0 .. n : f0[k] # t[k]}
  <1>6. T = {}
    <2> SUFFICES ASSUME T # {}
                 PROVE  FALSE
      OBVIOUS
    <2>1. T \subseteq Nat
      BY <1>1
    <2>2. PICK k \in T : \A l \in T : k <= l
      BY <2>1, LeastNumber
    <2>3. k \in 0 .. n /\ f0[k] # t[k]
      OBVIOUS
    <2>4. k # 0
      BY <1>2, <1>5, <2>3
    <2>5. k \in 1 .. n /\ k - 1 \in 0 .. n /\ ~(k <= k - 1)
      BY <1>1, <2>3, <2>4
    <2>6. f0[k - 1] = t[k - 1]
      BY <2>2, <2>5
    <2>7. f0[k] = f0[k - 1] + Counted(q[k], i) /\ t[k] = t[k - 1] + Counted(q[k], i)
      BY <1>2, <1>5, <2>5
    <2> QED
      BY <2>3, <2>6, <2>7
  <1>7. n \in 0 .. n
    BY <1>1
  <1> QED
    BY <1>6, <1>7 DEF f0, n

\* A message to session c: the sum of an order of session d changes by what
\* it says of it; it says something only if c is d.
LEMMA DeliverSums ==
  ASSUME NEW inbox \in [Session -> Seq(Message)], NEW c \in Session, NEW d \in Session,
         NEW m \in Message, NEW i, NEW n \in Nat, d \in Registered,
         c = d \/ Counted(m, i) = 0,
         Sums(inbox, d, i, n)
  PROVE  Sums(Deliver(inbox, c, <<m>>), d, i, n + Counted(m, i))
  <1> DEFINE new == Deliver(inbox, c, <<m>>)
  <1>1. PICK t : Tally(inbox[d], i, t) /\ t[Len(inbox[d])] = n
    BY DEF Sums
  <1>2. CASE c = d
    <2>1. new[d] = inbox[d] \o <<m>>
      BY <1>2 DEF Deliver
    <2>2. inbox[d] \in Seq(Message)
      OBVIOUS
    <2>3. PICK u : /\ Tally(inbox[d] \o <<m>>, i, u)
                   /\ u[Len(inbox[d] \o <<m>>)] = t[Len(inbox[d])] + Counted(m, i)
      BY <1>1, <2>2, TallyAppend
    <2> HIDE DEF new
    <2>4. Tally(new[d], i, u) /\ u[Len(new[d])] = n + Counted(m, i)
      BY <1>1, <2>1, <2>3, Zenon
    <2> QED
      BY <2>4 DEF Sums, new
  <1>3. CASE c # d
    <2>1. new[d] = inbox[d]
      BY <1>3 DEF Deliver
    <2>2. Counted(m, i) = 0 /\ n + 0 = n
      BY <1>3
    <2> HIDE DEF new
    <2>3. Tally(new[d], i, t) /\ t[Len(new[d])] = n + Counted(m, i)
      BY <1>1, <2>1, <2>2
    <2> QED
      BY <2>3 DEF Sums, new
  <1> QED
    BY <1>2, <1>3

\* Nothing has been told of an order that is not booked.
LEMMA NothingTold ==
  ASSUME Reported, NEW c \in Session, NEW i, i \notin Booked
  PROVE  Sums(sent, c, i, 0)
  <1>1. sent[c] \in Seq(Message)
    BY DEF Reported, Inv, TypeOK
  <1>2. ASSUME NEW k \in 1 .. Len(sent[c])
        PROVE  Counted(sent[c][k], i) = 0
    <2>1. sent[c][k].type # "J" => sent[c][k].id \in Booked
      BY DEF Reported, Sound, Owned
    <2> QED
      BY <2>1 DEF Counted
  <1>3. PICK u : Tally(sent[c], i, u) /\ u[Len(sent[c])] = 0
    BY <1>1, <1>2, TallyNone
  <1> QED
    BY <1>3 DEF Sums

\* A refusal, or no message: no sum changes.
LEMMA ReplySums ==
  ASSUME TypeOK, NEW c \in Session, NEW e \in OrderId,
         sent' = sent \/ sent' = KillReply(e, c),
         NEW d \in Session, d \in Registered, NEW i, NEW n \in Nat, Sums(sent, d, i, n)
  PROVE  Sums(sent', d, i, n)
  <1> DEFINE m == Msg("J", e, 0)
  <1>1. CASE sent' = Deliver(sent, c, <<m>>)
    <2>1. m \in Message /\ Counted(m, i) = 0
      BY DEF Msg, Message, Counted
    <2>2. sent \in [Session -> Seq(Message)]
      BY DEF TypeOK
    <2> HIDE DEF m
    <2>3. Sums(Deliver(sent, c, <<m>>), d, i, n + Counted(m, i))
      BY <2>1, <2>2, DeliverSums
    <2>4. n + Counted(m, i) = n
      BY <2>1
    <2> QED
      BY <1>1, <2>3, <2>4, Zenon
  <1>2. CASE sent' = sent
    BY <1>2, Zenon
  <1> QED
    BY <1>1, <1>2, Zenon DEF KillReply

\* SEND_ORDER, KILL_ORDER and MODIFY_ORDER: an order booked before stays as it
\* was, on the book or off it.
LEMMA RequestAdds ==
  ASSUME Accounted, NEW c \in Session, NEW e \in OrderId,
         sent' = sent \/ sent' = KillReply(e, c),
         NEW i \in Booked, order'[i] = order[i], i \in Resting' <=> i \in Resting
  PROVE  AddsUp(i)'
  <1>1. order[i].session \in Session
    BY DEF Accounted, Reported, Inv, TypeOK, Order
  <1> DEFINE d == order[i].session
  <1>2. SUFFICES ASSUME d \in Registered
                 PROVE  \E n \in Nat : Sums(sent', d, i, n) /\ n + Open(i)' = order[i].placed
    BY Zenon DEF AddsUp
  <1>3. PICK n \in Nat : Sums(sent, d, i, n) /\ n + Open(i) = order[i].placed
    BY <1>2 DEF Accounted, AddsUp
  <1>4. Open(i)' = Open(i)
    BY DEF Open
  <1>5. TypeOK
    BY DEF Accounted, Reported, Inv
  <1> HIDE DEF d
  <1>6. Sums(sent', d, i, n)
    BY <1>1, <1>2, <1>3, <1>5, ReplySums DEF d
  <1> QED
    BY <1>3, <1>4, <1>6

\* A new order has all it placed still open, and nothing was told of it.
LEMMA NewAddsUp ==
  ASSUME Accounted, NEW c \in Session, NEW e \in OrderId,
         sent' = sent \/ sent' = KillReply(e, c),
         NEW i \in OrderId, i \notin Booked, i \in Resting',
         order'[i].session = c, order'[i].qty \in Nat, order'[i].placed = order'[i].qty
  PROVE  AddsUp(i)'
  <1>1. SUFFICES ASSUME c \in Registered
                 PROVE  \E n \in Nat : Sums(sent', c, i, n) /\ n + Open(i)' = order'[i].placed
    BY Zenon DEF AddsUp
  <1>2. Sums(sent, c, i, 0)
    BY NothingTold DEF Accounted
  <1>3. TypeOK
    BY DEF Accounted, Reported, Inv
  <1>4. Sums(sent', c, i, 0)
    BY <1>1, <1>2, <1>3, ReplySums
  <1>5. 0 + Open(i)' = order'[i].placed
    BY DEF Open
  <1> QED
    BY <1>4, <1>5

\* The confirmed kill of f tells what was open of it.
LEMMA EvictAdds ==
  ASSUME Accounted, NEW side \in Side, Evict(side), NEW i \in Booked
  PROVE  AddsUp(i)'
  <1> USE DEF Accounted, Reported, Inv
  <1>1. PICK s \in Best(side) : Evicted(side, s, level_front(side, s))
    BY EvictShape, Zenon
  <1>2. PICK f : Evicted(side, s, f)
    BY <1>1
  <1>3. order' = order
    BY DEF Evict
  <1> DEFINE m == Msg("K", f, order[f].qty)
             c == order[f].session
             d == order[i].session
  <1>4. /\ f \in Booked /\ f \in OrderId /\ f \in Resting
        /\ order[f].qty \in Nat /\ c \in Session /\ d \in Session
        /\ sent' = Deliver(sent, c, <<m>>)
        /\ \A j : j \in Resting' <=> j \in Resting /\ j # f
    BY <1>2 DEF Evicted, Resting, Side, TypeOK, Order
  <1>5. SUFFICES ASSUME d \in Registered
                 PROVE  \E n \in Nat : Sums(sent', d, i, n) /\ n + Open(i)' = order[i].placed
    BY <1>3, Zenon DEF AddsUp
  <1>6. PICK n \in Nat : Sums(sent, d, i, n) /\ n + Open(i) = order[i].placed
    BY <1>5 DEF AddsUp
  <1>7. /\ m \in Message
        /\ Counted(m, i) = IF i = f THEN order[f].qty ELSE 0
    BY <1>4 DEF Msg, Message, Counted
  <1>8. sent \in [Session -> Seq(Message)]
    BY DEF TypeOK
  <1>9. c = d \/ Counted(m, i) = 0
    BY <1>7
  <1>10. Open(i)' = (IF i = f THEN 0 ELSE Open(i)) /\ Open(f) = order[f].qty
    BY <1>3, <1>4 DEF Open
  <1> HIDE DEF m, c, d, Inv, Accounted, Reported
  <1>11. Sums(Deliver(sent, c, <<m>>), d, i, n + Counted(m, i))
    BY <1>4, <1>5, <1>6, <1>7, <1>8, <1>9, DeliverSums
  <1>12. n + Counted(m, i) \in Nat
    BY <1>4, <1>7
  <1>13. (n + Counted(m, i)) + Open(i)' = order[i].placed
    <2>1. CASE i = f
      <3>1. n + order[f].qty = order[i].placed
        BY <1>6, <1>10, <2>1
      <3>2. Counted(m, i) = order[f].qty /\ Open(i)' = 0
        BY <1>7, <1>10, <2>1
      <3> QED
        BY <1>4, <3>1, <3>2
    <2>2. CASE i # f
      BY <1>6, <1>7, <1>10, <2>2
    <2> QED
      BY <2>1, <2>2
  <1> QED
    BY <1>4, <1>11, <1>12, <1>13

\* The two reports of a fill tell each order the q that it loses.
LEMMA FillAdds ==
  ASSUME Accounted, Fill, NEW i \in Booked
  PROVE  AddsUp(i)'
  <1> USE DEF Accounted, Reported, Inv
  <1>1. PICK bs \in Best("BUY"), as \in Best("SELL") :
          Filled(level_front("BUY", bs), level_front("SELL", as),
                 Smaller(order[level_front("BUY", bs)].qty,
                         order[level_front("SELL", as)].qty))
    BY FillShape, Zenon
  <1>2. PICK bo, ao, q : Filled(bo, ao, q)
    BY <1>1
  <1> DEFINE M(f) == Msg(IF order[f].qty = q THEN "F" ELSE "P", f, q)
             b == order[bo].session
             a == order[ao].session
             d == order[i].session
             first == Deliver(sent, b, <<M(bo)>>)
  <1>3. /\ bo \in Booked /\ bo \in OrderId /\ bo \in Resting /\ b \in Session
        /\ ao \in Booked /\ ao \in OrderId /\ ao \in Resting /\ a \in Session
        /\ bo # ao /\ d \in Session
        /\ q \in Nat
    BY <1>2 DEF Filled, Resting, TypeOK, Order
  <1>4. sent' = Deliver(first, a, <<M(ao)>>)
    BY <1>2 DEF Filled, FillMsg
  <1>5. order'[i].session = d /\ order'[i].placed = order[i].placed
    BY <1>2 DEF Filled
  <1>6. SUFFICES ASSUME d \in Registered
                 PROVE  \E n \in Nat : Sums(sent', d, i, n) /\ n + Open(i)' = order[i].placed
    BY <1>5, Zenon DEF AddsUp
  <1>7. PICK n \in Nat : Sums(sent, d, i, n) /\ n + Open(i) = order[i].placed
    BY <1>6 DEF AddsUp
  <1>8. ASSUME NEW f \in {bo, ao}
        PROVE  M(f) \in Message /\ Counted(M(f), i) = IF i = f THEN q ELSE 0
    BY <1>3 DEF Msg, Message, Counted
  <1>9. sent \in [Session -> Seq(Message)]
    BY DEF TypeOK
  <1>10. b = d \/ Counted(M(bo), i) = 0
    BY <1>8
  <1>11. a = d \/ Counted(M(ao), i) = 0
    BY <1>8
  <1>12. ASSUME NEW f \in {bo, ao}, i = f
         PROVE  Open(i) = order[i].qty /\ Open(i)' = Open(i) - q /\ Open(i) \in Nat
    BY <1>2, <1>3, <1>12 DEF Filled, Open
  <1>13. i \notin {bo, ao} => Open(i)' = Open(i)
    BY <1>2 DEF Filled, Open
  <1> HIDE DEF M, b, a, d, Inv, Accounted, Reported
  <1>14. first \in [Session -> Seq(Message)]
    <2>1. <<M(bo)>> \in Seq(Message)
      BY <1>8
    <2> QED
      BY <1>3, <1>9, <2>1, DeliverType
  <1>15. Counted(M(bo), i) \in Nat /\ Counted(M(ao), i) \in Nat
    BY <1>8, CountedNat
  <1>16. Sums(first, d, i, n + Counted(M(bo), i))
    BY <1>3, <1>6, <1>7, <1>8, <1>9, <1>10, DeliverSums
  <1> HIDE DEF first
  <1>17. PICK k \in Nat : k = n + Counted(M(bo), i)
    BY <1>15
  <1>18. Sums(Deliver(first, a, <<M(ao)>>), d, i, k + Counted(M(ao), i))
    <2>1. Sums(first, d, i, k)
      BY <1>16, <1>17
    <2>2. M(ao) \in Message
      BY <1>8
    <2> QED
      BY <1>3, <1>6, <1>11, <1>14, <2>1, <2>2, DeliverSums
  <1>19. k + Counted(M(ao), i) \in Nat
    BY <1>15
  <1>20. (k + Counted(M(ao), i)) + Open(i)' = order[i].placed
    <2>1. CASE i = bo
      <3>1. Counted(M(bo), i) = q /\ Counted(M(ao), i) = 0
        BY <1>3, <1>8, <2>1
      <3>2. Open(i)' = Open(i) - q /\ Open(i) \in Nat
        BY <1>12, <2>1
      <3> QED
        BY <1>3, <1>7, <1>17, <3>1, <3>2
    <2>2. CASE i = ao
      <3>1. Counted(M(bo), i) = 0 /\ Counted(M(ao), i) = q
        BY <1>3, <1>8, <2>2
      <3>2. Open(i)' = Open(i) - q /\ Open(i) \in Nat
        BY <1>12, <2>2
      <3> QED
        BY <1>3, <1>7, <1>17, <3>1, <3>2
    <2>3. CASE i \notin {bo, ao}
      <3>1. Counted(M(bo), i) = 0 /\ Counted(M(ao), i) = 0
        BY <1>8, <2>3
      <3> QED
        BY <1>7, <1>13, <1>17, <2>3, <3>1
    <2> QED
      BY <2>1, <2>2, <2>3
  <1> QED
    BY <1>4, <1>18, <1>19, <1>20

LEMMA InitAccounted == Init => Accounted
  BY InitReported DEF Init, Accounted, Booked

LEMMA NextAccounted == Accounted /\ [Next]_vars => Accounted'
  <1> SUFFICES ASSUME Accounted, [Next]_vars
               PROVE  \A i \in Booked' : AddsUp(i)'
    BY NextReported DEF Accounted
  <1>1. ASSUME NEW c \in Session, NEW d \in OrderId, KILL_ORDER(d, c), NEW i \in Booked'
        PROVE  AddsUp(i)'
    <2>1. /\ i \in Booked /\ Resting' = Resting
          /\ sent' = KillReply(d, c) /\ order' = order
      BY <1>1 DEF KILL_ORDER, Booked, Resting, On
    <2>2. order'[i] = order[i] /\ (i \in Resting' <=> i \in Resting)
      BY <2>1
    <2> QED
      BY <2>1, <2>2, RequestAdds
  <1>2. ASSUME NEW c \in Session, NEW i \in OrderId, NEW d \in OrderId, NEW side \in Side,
               NEW price \in Price, NEW qty \in Qty,
               SEND_ORDER(i, side, price, qty, c) \/ MODIFY_ORDER(i, d, side, price, qty, c),
               NEW j \in Booked'
        PROVE  AddsUp(j)'
    <2>1. /\ i \notin Booked /\ insert(i, side, price, qty, c)
          /\ seq_len' = seq_len + 1
          /\ sent' = sent \/ sent' = KillReply(d, c)
      BY <1>2 DEF SEND_ORDER, MODIFY_ORDER, Take
    <2>2. TypeOK
      BY DEF Accounted, Reported, Inv
    <2>3. /\ Booked' = Booked \union {i} /\ \A k \in Booked : order'[k] = order[k]
          /\ order'[i] = [side |-> side, price |-> price, qty |-> qty,
                          session |-> c, at |-> seq_len + 1, placed |-> qty]
      BY <2>1, <2>2, InsertOrder
    <2>4. Resting' = Resting \union {i}
      BY <2>1, <2>2, InsertResting
    <2>5. CASE j \in Booked
      <3>1. order'[j] = order[j] /\ (j \in Resting' <=> j \in Resting)
        BY <2>1, <2>3, <2>4, <2>5
      <3> QED
        BY <2>1, <2>5, <3>1, RequestAdds
    <2>6. CASE j = i
      <3>1. /\ i \in Resting'
            /\ order'[i].session = c /\ order'[i].qty = qty /\ order'[i].placed = qty
            /\ qty \in Nat
        BY <2>3, <2>4, AssumptionsHold DEF Assumptions
      <3>2. order'[i].qty \in Nat /\ order'[i].placed = order'[i].qty
        BY <3>1
      <3> QED
        BY <2>1, <2>6, <3>1, <3>2, NewAddsUp
    <2> QED
      BY <2>3, <2>5, <2>6
  <1>3. ASSUME NEW side \in Side, Evict(side), NEW i \in Booked'
        PROVE  AddsUp(i)'
    <2>1. i \in Booked
      BY <1>3 DEF Evict, Booked
    <2> QED
      BY <1>3, <2>1, EvictAdds
  <1>4. ASSUME Fill, NEW i \in Booked'
        PROVE  AddsUp(i)'
    <2>1. Booked' = Booked
      <3>1. PICK bo, ao, q : Filled(bo, ao, q)
        BY <1>4, FillShape DEF Accounted, Reported
      <3> QED
        BY <3>1 DEF Filled
    <2> QED
      BY <1>4, <2>1, FillAdds
  <1>5. ASSUME (\E side \in Side : EndDrain(side)) \/ EndMatch \/ UNCHANGED vars,
               NEW i \in Booked'
        PROVE  AddsUp(i)'
    <2>1. UNCHANGED <<level, order, sent>>
      BY <1>5 DEF EndDrain, EndMatch, vars
    <2>2. i \in Booked /\ Open(i)' = Open(i) /\ order'[i] = order[i] /\ sent' = sent
      BY <2>1 DEF Booked, Open, Resting, On
    <2>3. AddsUp(i)
      BY <2>2 DEF Accounted
    <2> QED
      BY <2>2, <2>3, Zenon DEF AddsUp, Sums
  <1> QED
    BY <1>1, <1>2, <1>3, <1>4, <1>5 DEF Next, Request, UPDATE_BOOK, DrainNothing

\* What a client with a live session was told of an order, its fills and its
\* confirmed kill, and what is still open of it, add up to what it placed.
THEOREM QuantitiesAddUp == Spec => []ReportsAddUp
  <1>1. Accounted => ReportsAddUp
    <2> SUFFICES ASSUME Accounted, NEW i \in Booked, order[i].session \in Registered
                 PROVE  Told(sent[order[i].session], i)[Len(sent[order[i].session])] + Open(i)
                          = order[i].placed
      BY Zenon DEF ReportsAddUp, Told, Open
    <2>1. PICK n \in Nat : Sums(sent, order[i].session, i, n) /\ n + Open(i) = order[i].placed
      BY DEF Accounted, AddsUp
    <2>2. PICK t : /\ Tally(sent[order[i].session], i, t)
                   /\ t[Len(sent[order[i].session])] = n
      BY <2>1 DEF Sums
    <2>3. sent[order[i].session] \in Seq(Message)
      BY DEF Accounted, Reported, Inv, TypeOK, Order
    <2>4. Told(sent[order[i].session], i)[Len(sent[order[i].session])] = n
      BY <2>2, <2>3, TallyIsTold
    <2> QED
      BY <2>1, <2>4, Zenon
  <1> QED
    BY <1>1, InitAccounted, NextAccounted, PTL DEF Spec

-----------------------------------------------------------------------------
(***************************************************************************)
(* What a snapshot shows. Its walk is in the order of the nodes, which is  *)
(* the order of price and time; the copying loop then keeps the first live *)
(* ones of what it has passed.                                             *)
(***************************************************************************)

Before(R, a, b) == <<a, b>> \in R

StrictOrder(S, R) ==
  /\ \A a \in S : ~Before(R, a, a)
  /\ \A a, b \in S : a = b \/ Before(R, a, b) \/ Before(R, b, a)
  /\ \A a, b, c \in S : Before(R, a, b) /\ Before(R, b, c) => Before(R, a, c)

Prior(S, R, n) == {m \in S : Before(R, m, n)}

\* Of two members of a finite set, the one behind has more before it.
LEMMA PriorCounts ==
  ASSUME NEW S, IsFiniteSet(S), NEW R, StrictOrder(S, R), NEW a \in S, NEW b \in S
  PROVE  /\ Cardinality(Prior(S, R, a)) \in 0 .. Cardinality(S) - 1
         /\ Before(R, a, b) => Cardinality(Prior(S, R, a)) < Cardinality(Prior(S, R, b))
         /\ Cardinality(Prior(S, R, a)) = Cardinality(Prior(S, R, b)) => a = b
  <1>1. ASSUME NEW n \in S
        PROVE  /\ Prior(S, R, n) \in SUBSET S /\ n \notin Prior(S, R, n)
               /\ IsFiniteSet(Prior(S, R, n)) /\ Cardinality(Prior(S, R, n)) \in Nat
    <2>1. Prior(S, R, n) \in SUBSET S
      BY DEF Prior
    <2>2. n \notin Prior(S, R, n)
      BY DEF Prior, StrictOrder
    <2>3. IsFiniteSet(Prior(S, R, n))
      BY <2>1, FS_Subset
    <2> QED
      BY <2>1, <2>2, <2>3, FS_CardinalityType
  <1>2. ASSUME NEW n \in S, NEW T, T \in SUBSET S, Prior(S, R, n) \union {n} \subseteq T
        PROVE  Cardinality(Prior(S, R, n)) < Cardinality(T)
    <2> DEFINE P == Prior(S, R, n)
    <2>1. IsFiniteSet(P) /\ n \notin P /\ Cardinality(P) \in Nat
      BY <1>1
    <2>2. IsFiniteSet(T) /\ Cardinality(T) \in Nat
      BY <1>2, FS_Subset, FS_CardinalityType
    <2>3. P \union {n} \in SUBSET T
      BY <1>2
    <2> HIDE DEF P
    <2>4. Cardinality(P \union {n}) = Cardinality(P) + 1
      BY <2>1, FS_AddElement
    <2>5. Cardinality(P \union {n}) <= Cardinality(T)
      BY <2>2, <2>3, FS_Subset
    <2>6. Cardinality(P) < Cardinality(T)
      BY <2>1, <2>2, <2>4, <2>5
    <2> QED
      BY <2>6 DEF P
  <1>3. Cardinality(S) \in Nat
    BY FS_CardinalityType
  <1>4. Cardinality(Prior(S, R, a)) < Cardinality(S)
    BY <1>1, <1>2
  <1>5. ASSUME NEW x \in S, NEW y \in S, Before(R, x, y)
        PROVE  Cardinality(Prior(S, R, x)) < Cardinality(Prior(S, R, y))
    <2>1. Prior(S, R, x) \union {x} \subseteq Prior(S, R, y)
      BY <1>5 DEF Prior, StrictOrder
    <2> QED
      BY <1>1, <1>2, <2>1
  <1> DEFINE ra == Cardinality(Prior(S, R, a))
             rb == Cardinality(Prior(S, R, b))
  <1>6. a = b \/ Before(R, a, b) \/ Before(R, b, a)
    BY DEF StrictOrder
  <1>7. /\ Before(R, a, b) => ra < rb
        /\ Before(R, b, a) => rb < ra
    BY <1>5
  <1>8. ra \in Nat /\ rb \in Nat /\ ra < Cardinality(S)
    BY <1>1, <1>4
  <1> HIDE DEF ra, rb
  <1>9. ra \in 0 .. Cardinality(S) - 1 /\ (Before(R, a, b) => ra < rb) /\ (ra = rb => a = b)
    BY <1>3, <1>6, <1>7, <1>8
  <1> QED
    BY <1>9 DEF ra, rb

\* The one with k - 1 others before it.
Nth(S, R, k) == CHOOSE n \in S : Cardinality(Prior(S, R, n)) = k - 1

LEMMA NthFacts ==
  ASSUME NEW S, IsFiniteSet(S), NEW R, StrictOrder(S, R)
  PROVE  /\ Cardinality(S) \in Nat
         /\ \A k \in 1 .. Cardinality(S) : Nth(S, R, k) \in S
         /\ \A j, k \in 1 .. Cardinality(S) : j < k => Before(R, Nth(S, R, j), Nth(S, R, k))
         /\ \A s \in S : \E k \in 1 .. Cardinality(S) : Nth(S, R, k) = s
  <1> DEFINE n == Cardinality(S)
             r == [a \in S |-> Cardinality(Prior(S, R, a)) + 1]
  <1>1. n \in Nat
    BY FS_CardinalityType
  <1>2. \A a, b \in S :
          /\ Cardinality(Prior(S, R, a)) \in 0 .. n - 1
          /\ Before(R, a, b) => Cardinality(Prior(S, R, a)) < Cardinality(Prior(S, R, b))
          /\ Cardinality(Prior(S, R, a)) = Cardinality(Prior(S, R, b)) => a = b
    BY PriorCounts
  <1>3. \A a \in S : r[a] = Cardinality(Prior(S, R, a)) + 1 /\ r[a] \in 1 .. n
    BY <1>1, <1>2
  <1>4. \A a, b \in S : r[a] = r[b] => a = b
    BY <1>2, <1>3
  <1>5. r \in [S -> 1 .. n]
    BY <1>3
  <1>6. r \in Injection(S, 1 .. n)
    BY <1>4, <1>5 DEF Injection, IsInjective
  <1>7. IsFiniteSet(1 .. n) /\ Cardinality(1 .. n) = n
    BY <1>1, FS_Interval
  <1>8. r \in Surjection(S, 1 .. n)
    BY <1>6, <1>7, FS_Injection
  <1>9. \A k \in 1 .. n : \E a \in S : r[a] = k
    BY <1>8 DEF Surjection
  <1> HIDE DEF r, n
  <1>10. ASSUME NEW k \in 1 .. n
         PROVE  Nth(S, R, k) \in S /\ r[Nth(S, R, k)] = k
    <2>1. PICK a \in S : r[a] = k
      BY <1>9
    <2>2. Cardinality(Prior(S, R, a)) = k - 1
      BY <1>2, <1>3, <2>1
    <2>3. Nth(S, R, k) \in S /\ Cardinality(Prior(S, R, Nth(S, R, k))) = k - 1
      BY <2>2, Zenon DEF Nth
    <2> QED
      BY <1>1, <1>3, <2>3
  <1>11. ASSUME NEW j \in 1 .. n, NEW k \in 1 .. n, j < k
         PROVE  Before(R, Nth(S, R, j), Nth(S, R, k))
    <2> DEFINE a == Nth(S, R, j)
               b == Nth(S, R, k)
    <2>1. a \in S /\ b \in S /\ r[a] = j /\ r[b] = k
      BY <1>10
    <2> HIDE DEF a, b
    <2>2. a = b \/ Before(R, a, b) \/ Before(R, b, a)
      BY <2>1 DEF StrictOrder
    <2>3. Before(R, b, a) => Cardinality(Prior(S, R, b)) < Cardinality(Prior(S, R, a))
      BY <1>2, <2>1
    <2>4. Before(R, b, a) => r[b] < r[a]
      BY <1>1, <1>2, <1>3, <2>1, <2>3
    <2>5. ~(k < j) /\ j # k
      BY <1>11
    <2>6. Before(R, a, b)
      BY <2>1, <2>2, <2>3, <2>4, <2>5
    <2> QED
      BY <2>6 DEF a, b
  <1>12. ASSUME NEW s \in S
         PROVE  \E k \in 1 .. n : Nth(S, R, k) = s
    <2>1. r[s] \in 1 .. n
      BY <1>3
    <2>2. Nth(S, R, r[s]) = s
      BY <1>4, <1>10, <2>1
    <2> QED
      BY <2>1, <2>2
  <1> QED
    BY <1>1, <1>10, <1>11, <1>12 DEF n

\* The order of the walk, as a relation on its nodes.
WalkOrder(side) == {p \in Nodes(side) \X Nodes(side) : Sooner(side, p[1], p[2])}

At(side, n) == level[side][n[1]][n[2]]

LEMMA NodeFacts ==
  ASSUME TypeOK, NEW side \in Side, NEW n \in Nodes(side)
  PROVE  /\ n = <<n[1], n[2]>>
         /\ n[1] \in bitmap[side] /\ n[1] \in Slot /\ n[1] \in Nat
         /\ level[side][n[1]] \in Seq(OrderId) /\ Len(level[side][n[1]]) \in Nat
         /\ n[2] \in 1 .. Len(level[side][n[1]]) /\ n[2] \in Nat
  <1>1. PICK s \in bitmap[side] : n \in {s} \X (1 .. Len(level[side][s]))
    BY DEF Nodes
  <1>2. n = <<n[1], n[2]>> /\ n[1] = s /\ n[2] \in 1 .. Len(level[side][s])
    BY <1>1
  <1>3. s \in Slot /\ level[side][s] \in Seq(OrderId)
    BY DEF TypeOK
  <1>4. s \in Nat /\ Len(level[side][s]) \in Nat
    BY <1>3, AssumptionsHold DEF Assumptions, Slot
  <1> QED
    BY <1>2, <1>3, <1>4

LEMMA NodesFinite ==
  ASSUME TypeOK, NEW side \in Side
  PROVE  IsFiniteSet(Nodes(side))
  <1> DEFINE Q == {{s} \X (1 .. Len(level[side][s])) : s \in bitmap[side]}
             f == [s \in bitmap[side] |-> {s} \X (1 .. Len(level[side][s]))]
  <1>1. IsFiniteSet(bitmap[side])
    <2>1. PRICE_WINDOW - 1 \in Int /\ 0 \in Int
      BY AssumptionsHold DEF Assumptions
    <2>2. IsFiniteSet(Slot)
      BY <2>1, FS_Interval DEF Slot
    <2>3. bitmap[side] \in SUBSET Slot
      BY DEF TypeOK
    <2> QED
      BY <2>2, <2>3, FS_Subset
  <1>2. f \in Surjection(bitmap[side], Q)
    BY DEF Surjection
  <1>3. IsFiniteSet(Q)
    <2> HIDE DEF f, Q
    <2> QED
      BY <1>1, <1>2, FS_Surjection
  <1>4. ASSUME NEW s \in bitmap[side]
        PROVE  IsFiniteSet({s} \X (1 .. Len(level[side][s])))
    <2>1. Len(level[side][s]) \in Nat
      BY DEF TypeOK
    <2>2. IsFiniteSet(1 .. Len(level[side][s]))
      BY <2>1, FS_Interval
    <2>3. IsFiniteSet({s})
      BY FS_Singleton
    <2> QED
      BY <2>2, <2>3, FS_Product
  <1>5. \A T \in Q : IsFiniteSet(T)
    BY <1>4
  <1>6. Nodes(side) = UNION Q
    BY DEF Nodes
  <1> HIDE DEF Q
  <1> QED
    BY <1>3, <1>5, <1>6, FS_UNION

LEMMA WalkOrdered ==
  ASSUME TypeOK, NEW side \in Side
  PROVE  /\ \A m, n \in Nodes(side) : Before(WalkOrder(side), m, n) <=> Sooner(side, m, n)
         /\ StrictOrder(Nodes(side), WalkOrder(side))
  <1>1. ASSUME NEW m \in Nodes(side), NEW n \in Nodes(side)
        PROVE  Before(WalkOrder(side), m, n) <=> Sooner(side, m, n)
    BY DEF Before, WalkOrder
  <1>2. \A n \in Nodes(side) : n = <<n[1], n[2]>> /\ n[1] \in Nat /\ n[2] \in Nat
    BY NodeFacts
  <1>3. ASSUME NEW a \in Nodes(side)
        PROVE  ~Sooner(side, a, a)
    BY <1>2 DEF Sooner
  <1>4. ASSUME NEW a \in Nodes(side), NEW b \in Nodes(side)
        PROVE  a = b \/ Sooner(side, a, b) \/ Sooner(side, b, a)
    <2>1. PICK s \in Nat, k \in Nat : s = a[1] /\ k = a[2] /\ a = <<s, k>>
      BY <1>2
    <2>2. PICK t \in Nat, l \in Nat : t = b[1] /\ l = b[2] /\ b = <<t, l>>
      BY <1>2
    <2>3. s < t \/ t < s \/ s = t
      OBVIOUS
    <2>4. k < l \/ l < k \/ k = l
      OBVIOUS
    <2>5. side = "BUY" \/ side = "SELL"
      BY DEF Side
    <2>6. CASE s = t /\ k = l
      BY <2>1, <2>2, <2>6
    <2>7. CASE s = t /\ (k < l \/ l < k)
      BY <2>1, <2>2, <2>7 DEF Sooner
    <2>8. CASE s < t \/ t < s
      BY <2>1, <2>2, <2>5, <2>8 DEF Sooner
    <2> QED
      BY <2>3, <2>4, <2>6, <2>7, <2>8
  <1>5. ASSUME NEW a \in Nodes(side), NEW b \in Nodes(side), NEW c \in Nodes(side),
               Sooner(side, a, b), Sooner(side, b, c)
        PROVE  Sooner(side, a, c)
    <2>1. /\ a[1] \in Nat /\ a[2] \in Nat /\ b[1] \in Nat /\ b[2] \in Nat
          /\ c[1] \in Nat /\ c[2] \in Nat
      BY <1>2
    <2> QED
      BY <1>5, <2>1 DEF Sooner
  <1> HIDE DEF WalkOrder
  <1> QED
    BY <1>1, <1>3, <1>4, <1>5 DEF StrictOrder

\* What the walk passes first comes first by price and time, if prices keep
\* their order as slots.
LEMMA SoonerAhead ==
  ASSUME Inv, NoWrap, NEW side \in Side, NEW m \in Nodes(side), NEW n \in Nodes(side),
         Sooner(side, m, n)
  PROVE  Ahead(At(side, m), At(side, n))
  <1> USE DEF Inv
  <1> DEFINE i == At(side, m)
             j == At(side, n)
  <1>1. /\ m[1] \in Slot /\ m[1] \in Nat /\ m[2] \in 1 .. Len(level[side][m[1]])
        /\ n[1] \in Slot /\ n[1] \in Nat /\ n[2] \in 1 .. Len(level[side][n[1]])
    BY NodeFacts
  <1>2. /\ i \in Booked /\ order[i].side = side /\ index_of(order[i].price) = m[1]
        /\ j \in Booked /\ order[j].side = side /\ index_of(order[j].price) = n[1]
    <2>1. ASSUME NEW s \in Slot, NEW k \in 1 .. Len(level[side][s])
          PROVE  /\ level[side][s][k] \in Booked /\ order[level[side][s][k]].side = side
                 /\ index_of(order[level[side][s][k]].price) = s
      BY Zenon DEF QueuesWellFormed
    <2> QED
      BY <1>1, <2>1, Zenon DEF At
  <1>3. /\ order[i].price \in Price /\ order[j].price \in Price
        /\ order[i].price \in Nat /\ order[j].price \in Nat
    BY <1>2, AssumptionsHold DEF TypeOK, Order, Assumptions
  <1>4. m[1] = n[1] /\ m[2] < n[2] => order[i].at < order[j].at
    BY <1>1 DEF QueuesWellFormed, At
  <1> DEFINE p == order[i].price
             q == order[j].price
  <1>5. (p < q => m[1] < n[1]) /\ (q < p => n[1] < m[1])
    BY <1>2, <1>3 DEF NoWrap
  <1> HIDE DEF i, j
  <1>6. \/ side = "BUY" /\ m[1] > n[1]
        \/ side = "SELL" /\ m[1] < n[1]
        \/ m[1] = n[1] /\ m[2] < n[2]
    BY DEF Sooner
  <1>7. m[1] > n[1] => p > q
    BY <1>1, <1>2, <1>3, <1>5
  <1>8. m[1] < n[1] => p < q
    BY <1>1, <1>2, <1>3, <1>5
  <1>9. m[1] = n[1] => p = q
    BY <1>1, <1>3, <1>5
  <1>10. Ahead(i, j)
    BY <1>2, <1>4, <1>6, <1>7, <1>8, <1>9 DEF Ahead
  <1> QED
    BY <1>10 DEF i, j

\* The walk passes every resting order of its side, in that order.
LEMMA WalkFacts ==
  ASSUME Inv, NoWrap, NEW side \in Side
  PROVE  /\ Walked(side) \in Seq(OrderId)
         /\ \A k \in 1 .. Len(Walked(side)) : Walked(side)[k] \in On(side)
         /\ \A j, k \in 1 .. Len(Walked(side)) : j < k => Ahead(Walked(side)[j], Walked(side)[k])
         /\ \A i \in On(side) : \E k \in 1 .. Len(Walked(side)) : Walked(side)[k] = i
  <1> USE DEF Inv
  <1> DEFINE S == Nodes(side)
             R == WalkOrder(side)
             n == Cardinality(S)
             w == Walked(side)
  <1>1. \A a, b \in S : Before(R, a, b) <=> Sooner(side, a, b)
    BY WalkOrdered
  <1>2. /\ n \in Nat
        /\ \A k \in 1 .. n : Nth(S, R, k) \in S
        /\ \A j, k \in 1 .. n : j < k => Before(R, Nth(S, R, j), Nth(S, R, k))
        /\ \A s \in S : \E k \in 1 .. n : Nth(S, R, k) = s
    BY NodesFinite, WalkOrdered, NthFacts
  <1>3. \A a \in S : Prior(S, R, a) = Earlier(side, a)
    BY <1>1 DEF Prior, Earlier
  <1>4. ASSUME NEW k \in 1 .. n
        PROVE  w[k] = At(side, Nth(S, R, k))
    <2>1. Nth(S, R, k) = CHOOSE a \in S : Cardinality(Earlier(side, a)) = k - 1
      BY <1>3, Zenon DEF Nth
    <2> QED
      BY <2>1 DEF Walked, At
  <1>5. \A a \in S : At(side, a) \in On(side)
    BY NodeFacts DEF On, At
  <1>6. w = [k \in 1 .. n |-> w[k]]
    BY DEF Walked
  <1> HIDE DEF w, n, R, S
  <1>7. \A k \in 1 .. n : w[k] \in On(side)
    BY <1>2, <1>4, <1>5
  <1>8. w \in Seq(OrderId) /\ Len(w) = n
    <2>1. On(side) \subseteq OrderId
      BY DEF On
    <2>2. w \in [1 .. n -> OrderId]
      BY <1>6, <1>7, <2>1
    <2> QED
      BY <1>2, <2>2
  <1>9. ASSUME NEW j \in 1 .. n, NEW k \in 1 .. n, j < k
        PROVE  Ahead(w[j], w[k])
    <2>1. Nth(S, R, j) \in S /\ Nth(S, R, k) \in S
      BY <1>2
    <2>2. Sooner(side, Nth(S, R, j), Nth(S, R, k))
      BY <1>1, <1>2, <1>9, <2>1
    <2>3. Ahead(At(side, Nth(S, R, j)), At(side, Nth(S, R, k)))
      BY <2>1, <2>2, SoonerAhead DEF S
    <2> QED
      BY <1>4, <2>3
  <1>10. ASSUME NEW i \in On(side)
         PROVE  \E k \in 1 .. n : w[k] = i
    <2>0. PICK s \in Slot : \E k \in 1 .. Len(level[side][s]) : level[side][s][k] = i
      BY DEF On
    <2>1. PICK k \in 1 .. Len(level[side][s]) : level[side][s][k] = i
      BY <2>0
    <2>2. s \in bitmap[side]
      BY <2>1 DEF BitmapMarksLevels
    <2>3. <<s, k>> \in S /\ At(side, <<s, k>>) = i
      BY <2>1, <2>2 DEF S, Nodes, At
    <2>4. PICK x \in 1 .. n : Nth(S, R, x) = <<s, k>>
      BY <1>2, <2>3
    <2> QED
      BY <1>4, <2>3, <2>4
  <1> QED
    BY <1>7, <1>8, <1>9, <1>10 DEF w

\* f[k] is what the loop of Shown has copied after k orders of w.
Picks(f, w, n) ==
  /\ f = [k \in 0 .. n |-> f[k]]
  /\ f[0] = <<>>
  /\ \A k \in 1 .. n :
       f[k] = IF Len(f[k - 1]) < SNAPSHOT_LEN /\ NotKilled(w[k])
              THEN Append(f[k - 1], w[k]) ELSE f[k - 1]

LEMMA Climb ==
  ASSUME NEW n \in Nat, NEW S, 0 \in S, \A m \in 0 .. n - 1 : m \in S => m + 1 \in S
  PROVE  n \in S
  <1> SUFFICES ASSUME n \notin S
               PROVE  FALSE
    OBVIOUS
  <1>1. PICK m \in (0 .. n) \ S : \A k \in (0 .. n) \ S : m <= k
    <2>1. (0 .. n) \ S \subseteq Nat /\ (0 .. n) \ S # {}
      OBVIOUS
    <2> QED
      BY <2>1, LeastNumber
  <1>2. m - 1 \in 0 .. n - 1 /\ m = (m - 1) + 1
    BY <1>1
  <1>3. m - 1 \in S
    BY <1>1, <1>2
  <1> QED
    BY <1>1, <1>2, <1>3

LEMMA PicksExist ==
  ASSUME NEW n \in Nat, NEW w
  PROVE  \E f : Picks(f, w, n)
  <1> DEFINE S == {m \in 0 .. n : \E f : Picks(f, w, m)}
  <1>1. 0 \in S
    <2> DEFINE f == [k \in 0 .. 0 |-> <<>>]
    <2>1. Picks(f, w, 0)
      <3>1. f = [k \in 0 .. 0 |-> f[k]] /\ f[0] = <<>>
        OBVIOUS
      <3>2. 1 .. 0 = {}
        OBVIOUS
      <3> HIDE DEF f
      <3> QED
        BY <3>1, <3>2 DEF Picks
    <2> QED
      BY <2>1
  <1>2. ASSUME NEW m \in 0 .. n - 1, m \in S
        PROVE  m + 1 \in S
    <2>1. PICK f : Picks(f, w, m)
      BY <1>2
    <2> DEFINE last == IF Len(f[m]) < SNAPSHOT_LEN /\ NotKilled(w[m + 1])
                       THEN Append(f[m], w[m + 1]) ELSE f[m]
               g == [k \in 0 .. m + 1 |-> IF k = m + 1 THEN last ELSE f[k]]
    <2>2. m + 1 \in 0 .. n /\ m \in Nat
      OBVIOUS
    <2> HIDE DEF last
    <2>3. g[m + 1] = last /\ \A k \in 0 .. m : g[k] = f[k]
      BY <2>2
    <2>4. g = [k \in 0 .. m + 1 |-> g[k]]
      OBVIOUS
    <2> HIDE DEF g
    <2>5. ASSUME NEW k \in 1 .. m + 1
          PROVE  g[k] = IF Len(g[k - 1]) < SNAPSHOT_LEN /\ NotKilled(w[k])
                        THEN Append(g[k - 1], w[k]) ELSE g[k - 1]
      <3>1. k - 1 \in 0 .. m /\ (k = m + 1 \/ k \in 1 .. m)
        BY <2>2
      <3>2. g[k - 1] = f[k - 1]
        BY <2>3, <3>1
      <3>3. CASE k = m + 1
        <4>1. k - 1 = m
          BY <2>2, <3>3
        <4> QED
          BY <2>3, <3>2, <3>3, <4>1, Zenon DEF last
      <3>4. CASE k \in 1 .. m
        <4>1. k \in 0 .. m
          BY <3>4
        <4>2. g[k] = f[k]
          BY <2>3, <4>1
        <4> QED
          BY <2>1, <3>2, <3>4, <4>2, Zenon DEF Picks
      <3> QED
        BY <3>1, <3>3, <3>4
    <2>6. 0 \in 0 .. m
      BY <2>2
    <2>7. g[0] = <<>>
      BY <2>1, <2>3, <2>6 DEF Picks
    <2>8. Picks(g, w, m + 1)
      BY <2>4, <2>5, <2>7, Zenon DEF Picks
    <2> QED
      BY <2>2, <2>8
  <1> HIDE DEF S
  <1>3. n \in S
    BY <1>1, <1>2, Climb
  <1> QED
    BY <1>3 DEF S

\* The recursive function of Shown is such an f.
LEMMA ShownPicks ==
  ASSUME NEW w, NEW n \in Nat, Len(w) = n
  PROVE  \E f : Picks(f, w, n) /\ Shown(w) = f[n]
  <1> DEFINE Unfolds(g) ==
               g = [k \in 0 .. n |->
                      IF k = 0 THEN <<>>
                      ELSE IF Len(g[k - 1]) < SNAPSHOT_LEN /\ NotKilled(w[k])
                           THEN Append(g[k - 1], w[k]) ELSE g[k - 1]]
             g0 == CHOOSE g : Unfolds(g)
  <1>1. Shown(w) = g0[n]
    BY Zenon DEF Shown
  <1>2. \E g : Unfolds(g)
    <2>1. PICK f : Picks(f, w, n)
      BY PicksExist
    <2>2. ASSUME NEW k \in 0 .. n
          PROVE  f[k] = IF k = 0 THEN <<>>
                        ELSE IF Len(f[k - 1]) < SNAPSHOT_LEN /\ NotKilled(w[k])
                             THEN Append(f[k - 1], w[k]) ELSE f[k - 1]
      <3>1. CASE k = 0
        BY <2>1, <3>1 DEF Picks
      <3>2. CASE k # 0
        <4>1. k \in 1 .. n
          BY <3>2
        <4> QED
          BY <2>1, <3>2, <4>1, Zenon DEF Picks
      <3> QED
        BY <3>1, <3>2
    <2>3. f = [k \in 0 .. n |-> f[k]]
      BY <2>1, Zenon DEF Picks
    <2>4. Unfolds(f)
      BY <2>2, <2>3, Zenon
    <2> QED
      BY <2>4
  <1>3. Unfolds(g0)
    BY <1>2, Zenon
  <1> HIDE DEF g0
  <1>4. \A k \in 0 .. n : g0[k] = IF k = 0 THEN <<>>
                                  ELSE IF Len(g0[k - 1]) < SNAPSHOT_LEN /\ NotKilled(w[k])
                                       THEN Append(g0[k - 1], w[k]) ELSE g0[k - 1]
    <2>1. \A g : Unfolds(g) =>
            \A k \in 0 .. n : g[k] = IF k = 0 THEN <<>>
                                     ELSE IF Len(g[k - 1]) < SNAPSHOT_LEN /\ NotKilled(w[k])
                                          THEN Append(g[k - 1], w[k]) ELSE g[k - 1]
      BY Zenon
    <2> HIDE DEF Unfolds
    <2> QED
      BY <1>3, <2>1, Zenon
  <1>5. g0 = [k \in 0 .. n |-> g0[k]]
    <2>1. \A g : Unfolds(g) => g = [k \in 0 .. n |-> g[k]]
      OBVIOUS
    <2> HIDE DEF Unfolds
    <2> QED
      BY <1>3, <2>1, Zenon
  <1>6. g0[0] = <<>>
    <2>1. 0 \in 0 .. n
      OBVIOUS
    <2> QED
      BY <1>4, <2>1, Zenon
  <1>7. ASSUME NEW k \in 1 .. n
        PROVE  g0[k] = IF Len(g0[k - 1]) < SNAPSHOT_LEN /\ NotKilled(w[k])
                       THEN Append(g0[k - 1], w[k]) ELSE g0[k - 1]
    <2>1. k \in 0 .. n /\ k # 0
      OBVIOUS
    <2> QED
      BY <1>4, <2>1, Zenon
  <1>8. Picks(g0, w, n)
    BY <1>5, <1>6, <1>7, Zenon DEF Picks
  <1> QED
    BY <1>1, <1>8

\* s holds the first live orders of the first k of w: all of them, or as many as
\* a snapshot shows, and then the others are behind.
Top(s, w, k) ==
  /\ s \in Seq(OrderId) /\ Len(s) <= SNAPSHOT_LEN
  /\ \A x \in 1 .. Len(s) : NotKilled(s[x]) /\ \E j \in 1 .. k : w[j] = s[x]
  /\ \A x, y \in 1 .. Len(s) : x < y => Ahead(s[x], s[y])
  /\ \A j \in 1 .. k :
       NotKilled(w[j]) =>
         \/ \E x \in 1 .. Len(s) : s[x] = w[j]
         \/ Len(s) = SNAPSHOT_LEN /\ \A x \in 1 .. Len(s) : Ahead(s[x], w[j])

LEMMA TopGrows ==
  ASSUME NEW w, NEW n \in Nat, \A j \in 1 .. n : w[j] \in OrderId,
         \A i, j \in 1 .. n : i < j => Ahead(w[i], w[j]),
         NEW k \in 1 .. n, NEW s, Top(s, w, k - 1)
  PROVE  Top(IF Len(s) < SNAPSHOT_LEN /\ NotKilled(w[k]) THEN Append(s, w[k]) ELSE s, w, k)
  <1>1. /\ s \in Seq(OrderId) /\ Len(s) <= SNAPSHOT_LEN
        /\ \A x \in 1 .. Len(s) : NotKilled(s[x]) /\ \E j \in 1 .. k - 1 : w[j] = s[x]
        /\ \A x, y \in 1 .. Len(s) : x < y => Ahead(s[x], s[y])
        /\ \A j \in 1 .. k - 1 :
             NotKilled(w[j]) =>
               \/ \E x \in 1 .. Len(s) : s[x] = w[j]
               \/ Len(s) = SNAPSHOT_LEN /\ \A x \in 1 .. Len(s) : Ahead(s[x], w[j])
    BY Zenon DEF Top
  <1>2. /\ \A j \in 1 .. k - 1 : j \in 1 .. k /\ j \in 1 .. n /\ j < k
        /\ \A j \in 1 .. k : j = k \/ j \in 1 .. k - 1
        /\ k \in 1 .. k /\ Len(s) \in Nat /\ SNAPSHOT_LEN \in Nat
    BY <1>1, SnapshotAssumption
  <1>3. \A x \in 1 .. Len(s) : Ahead(s[x], w[k])
    <2> SUFFICES ASSUME NEW x \in 1 .. Len(s)
                 PROVE  Ahead(s[x], w[k])
      OBVIOUS
    <2>1. PICK j \in 1 .. k - 1 : w[j] = s[x]
      BY <1>1
    <2> QED
      BY <1>2, <2>1
  <1>4. CASE Len(s) < SNAPSHOT_LEN /\ NotKilled(w[k])
    <2> DEFINE l == Len(s)
               t == Append(s, w[k])
    <2>1. /\ t \in Seq(OrderId) /\ Len(t) = l + 1 /\ t[l + 1] = w[k]
          /\ \A x \in 1 .. l : t[x] = s[x]
      <3>1. w[k] \in OrderId
        OBVIOUS
      <3> QED
        BY <1>1, <3>1
    <2> HIDE DEF l, t
    <2>2. l \in Nat /\ l + 1 <= SNAPSHOT_LEN
      BY <1>2, <1>4 DEF l
    <2>3. \A x \in 1 .. l + 1 : x = l + 1 \/ x \in 1 .. l
      BY <2>2
    <2>4. \A x \in 1 .. l + 1 : NotKilled(t[x]) /\ \E j \in 1 .. k : w[j] = t[x]
      <3> SUFFICES ASSUME NEW x \in 1 .. l + 1
                   PROVE  NotKilled(t[x]) /\ \E j \in 1 .. k : w[j] = t[x]
        OBVIOUS
      <3>1. CASE x = l + 1
        BY <1>2, <1>4, <2>1, <3>1
      <3>2. CASE x \in 1 .. l
        <4>1. NotKilled(s[x]) /\ \E j \in 1 .. k - 1 : w[j] = s[x]
          BY <1>1, <3>2 DEF l
        <4> QED
          BY <1>2, <2>1, <3>2, <4>1
      <3> QED
        BY <2>3, <3>1, <3>2
    <2>5. \A x, y \in 1 .. l + 1 : x < y => Ahead(t[x], t[y])
      <3> SUFFICES ASSUME NEW x \in 1 .. l + 1, NEW y \in 1 .. l + 1, x < y
                   PROVE  Ahead(t[x], t[y])
        OBVIOUS
      <3>1. x \in 1 .. l
        BY <2>2
      <3>2. CASE y = l + 1
        BY <1>3, <2>1, <3>1, <3>2, Zenon DEF l
      <3>3. CASE y \in 1 .. l
        <4>1. Ahead(s[x], s[y])
          BY <1>1, <3>1, <3>3 DEF l
        <4> QED
          BY <2>1, <3>1, <3>3, <4>1, Zenon
      <3> QED
        BY <2>3, <3>2, <3>3
    <2>6. \A j \in 1 .. k : NotKilled(w[j]) => \E x \in 1 .. l + 1 : t[x] = w[j]
      <3> SUFFICES ASSUME NEW j \in 1 .. k, NotKilled(w[j])
                   PROVE  \E x \in 1 .. l + 1 : t[x] = w[j]
        OBVIOUS
      <3>1. l + 1 \in 1 .. l + 1 /\ \A x \in 1 .. l : x \in 1 .. l + 1
        BY <2>2
      <3>2. CASE j = k
        BY <2>1, <3>1, <3>2
      <3>3. CASE j \in 1 .. k - 1
        <4>1. Len(s) # SNAPSHOT_LEN
          BY <1>2, <1>4
        <4>2. PICK x \in 1 .. l : s[x] = w[j]
          BY <1>1, <3>3, <4>1, Zenon DEF l
        <4> QED
          BY <2>1, <3>1, <4>2
      <3> QED
        BY <1>2, <3>2, <3>3
    <2>7. Top(t, w, k)
      BY <2>1, <2>2, <2>4, <2>5, <2>6 DEF Top
    <2> QED
      BY <1>4, <2>7 DEF t
  <1>5. CASE ~(Len(s) < SNAPSHOT_LEN /\ NotKilled(w[k]))
    <2>1. \A x \in 1 .. Len(s) : NotKilled(s[x]) /\ \E j \in 1 .. k : w[j] = s[x]
      BY <1>1, <1>2, Zenon
    <2>2. NotKilled(w[k]) => Len(s) = SNAPSHOT_LEN
      BY <1>1, <1>2, <1>5
    <2>3. \A j \in 1 .. k :
             NotKilled(w[j]) =>
               \/ \E x \in 1 .. Len(s) : s[x] = w[j]
               \/ Len(s) = SNAPSHOT_LEN /\ \A x \in 1 .. Len(s) : Ahead(s[x], w[j])
      <3> SUFFICES ASSUME NEW j \in 1 .. k, NotKilled(w[j])
                   PROVE  \/ \E x \in 1 .. Len(s) : s[x] = w[j]
                          \/ Len(s) = SNAPSHOT_LEN /\ \A x \in 1 .. Len(s) : Ahead(s[x], w[j])
        OBVIOUS
      <3>1. CASE j = k
        BY <1>3, <2>2, <3>1, Zenon
      <3>2. CASE j \in 1 .. k - 1
        BY <1>1, <3>2, Zenon
      <3> QED
        BY <1>2, <3>1, <3>2
    <2>4. Top(s, w, k)
      BY <1>1, <2>1, <2>3, Zenon DEF Top
    <2> QED
      BY <1>5, <2>4
  <1> QED
    BY <1>4, <1>5

\* What is shown of a walk is its top.
LEMMA ShownTop ==
  ASSUME NEW w \in Seq(OrderId),
         \A i, j \in 1 .. Len(w) : i < j => Ahead(w[i], w[j])
  PROVE  Top(Shown(w), w, Len(w))
  <1>1. PICK n \in Nat : n = Len(w)
    OBVIOUS
  <1>2. PICK f : Picks(f, w, n) /\ Shown(w) = f[n]
    BY <1>1, ShownPicks
  <1>3. /\ f[0] = <<>>
        /\ \A k \in 1 .. n :
             f[k] = IF Len(f[k - 1]) < SNAPSHOT_LEN /\ NotKilled(w[k])
                    THEN Append(f[k - 1], w[k]) ELSE f[k - 1]
    BY <1>2, Zenon DEF Picks
  <1>4. \A j \in 1 .. n : w[j] \in OrderId
    BY <1>1
  <1> DEFINE S == {k \in 0 .. n : Top(f[k], w, k)}
  <1>5. 0 \in S
    <2>1. f[0] \in Seq(OrderId) /\ Len(f[0]) = 0 /\ 1 .. 0 = {}
      BY <1>3
    <2>2. 0 <= SNAPSHOT_LEN
      BY SnapshotAssumption
    <2>3. Top(f[0], w, 0)
      BY <2>1, <2>2 DEF Top
    <2> QED
      BY <2>3
  <1>6. ASSUME NEW m \in 0 .. n - 1, m \in S
        PROVE  m + 1 \in S
    <2>1. PICK k \in 1 .. n : k = m + 1 /\ k - 1 = m
      OBVIOUS
    <2>2. Top(f[k - 1], w, k - 1)
      BY <1>6, <2>1
    <2>3. \A i, j \in 1 .. n : i < j => Ahead(w[i], w[j])
      BY <1>1
    <2>4. Top(IF Len(f[k - 1]) < SNAPSHOT_LEN /\ NotKilled(w[k])
              THEN Append(f[k - 1], w[k]) ELSE f[k - 1], w, k)
      BY <1>4, <2>2, <2>3, TopGrows
    <2>5. Top(f[k], w, k)
      BY <1>3, <2>4, Zenon
    <2>6. k \in 0 .. n
      OBVIOUS
    <2> QED
      BY <2>1, <2>5, <2>6
  <1> HIDE DEF S
  <1>7. n \in S
    BY <1>5, <1>6, Climb
  <1> QED
    BY <1>1, <1>2, <1>7 DEF S

\* No order is ahead of itself, so what a snapshot shows is shown once.
LEMMA AheadStrict ==
  ASSUME TypeOK, NEW i \in Booked
  PROVE  ~Ahead(i, i)
  <1>1. order[i].price \in Nat /\ order[i].at \in Nat
    BY AssumptionsHold DEF TypeOK, Order, Assumptions
  <1> QED
    BY <1>1 DEF Ahead

\* Whatever lies killed in the queues, a snapshot is the top of each side's live
\* orders, in price-time priority, for books and snapshots of any size.
THEOREM SnapshotShowsTop ==
  ASSUME NoWrap
  PROVE  Spec => []SnapshotIsTop
  <1>1. Inv => SnapshotIsTop
    <2> SUFFICES ASSUME Inv, NEW side \in Side
                 PROVE  LET shown == CREATE_SNAPSHOT[side]
                        IN  /\ Len(shown) = Smaller(Cardinality(LiveOn(side)), SNAPSHOT_LEN)
                            /\ \A k \in 1 .. Len(shown) :
                                 /\ shown[k] \in LiveOn(side)
                                 /\ \A j \in LiveOn(side) :
                                      j \in {shown[l] : l \in 1 .. k} \/ Ahead(shown[k], j)
      BY DEF SnapshotIsTop
    <2> DEFINE w == Walked(side)
               s == Shown(w)
               n == Len(w)
    <2>1. CREATE_SNAPSHOT[side] = s
      BY DEF CREATE_SNAPSHOT
    <2>2. /\ w \in Seq(OrderId)
          /\ \A k \in 1 .. n : w[k] \in On(side)
          /\ \A j, k \in 1 .. n : j < k => Ahead(w[j], w[k])
          /\ \A i \in On(side) : \E k \in 1 .. n : w[k] = i
      BY WalkFacts
    <2> HIDE DEF w
    <2>3. Top(s, w, n)
      BY <2>2, ShownTop
    <2> HIDE DEF s, n
    <2>4. /\ s \in Seq(OrderId) /\ Len(s) <= SNAPSHOT_LEN
          /\ \A x \in 1 .. Len(s) : NotKilled(s[x]) /\ \E j \in 1 .. n : w[j] = s[x]
          /\ \A x, y \in 1 .. Len(s) : x < y => Ahead(s[x], s[y])
          /\ \A j \in 1 .. n :
               NotKilled(w[j]) =>
                 \/ \E x \in 1 .. Len(s) : s[x] = w[j]
                 \/ Len(s) = SNAPSHOT_LEN /\ \A x \in 1 .. Len(s) : Ahead(s[x], w[j])
      BY <2>3, Zenon DEF Top
    <2>5. \A i : i \in LiveOn(side) <=> i \in On(side) /\ NotKilled(i)
      <3>1. side = "BUY" \/ side = "SELL"
        BY DEF Side
      <3> QED
        BY <3>1 DEF LiveOn, Live, Resting, NotKilled
    <2>6. \A x \in 1 .. Len(s) : s[x] \in LiveOn(side)
      BY <2>2, <2>4, <2>5, Zenon
    <2>7. \A i \in LiveOn(side) :
            \/ \E x \in 1 .. Len(s) : s[x] = i
            \/ Len(s) = SNAPSHOT_LEN /\ \A x \in 1 .. Len(s) : Ahead(s[x], i)
      BY <2>2, <2>4, <2>5, Zenon
    <2>8. ASSUME NEW k \in 1 .. Len(s), NEW j \in LiveOn(side)
          PROVE  j \in {s[l] : l \in 1 .. k} \/ Ahead(s[k], j)
      <3>1. CASE Ahead(s[k], j)
        BY <3>1
      <3>2. CASE \E x \in 1 .. Len(s) : s[x] = j
        <4>1. PICK x \in 1 .. Len(s) : s[x] = j
          BY <3>2
        <4>2. x \in 1 .. k \/ k < x
          OBVIOUS
        <4> QED
          BY <2>4, <4>1, <4>2
      <3> QED
        BY <2>7, <3>1, <3>2
    <2>9. Len(s) = Smaller(Cardinality(LiveOn(side)), SNAPSHOT_LEN)
      <3> DEFINE T == {s[x] : x \in 1 .. Len(s)}
                 g == [x \in 1 .. Len(s) |-> s[x]]
      <3>1. Len(s) \in Nat /\ SNAPSHOT_LEN \in Nat
        BY <2>4, SnapshotAssumption
      <3>2. \A x \in 1 .. Len(s) : s[x] \in Booked
        BY <2>5, <2>6, Place DEF Inv
      <3>3. ASSUME NEW x \in 1 .. Len(s), NEW y \in 1 .. Len(s), s[x] = s[y]
            PROVE  x = y
        <4>1. x < y \/ y < x \/ x = y
          BY <3>1
        <4>2. ~Ahead(s[x], s[x])
          BY <3>2, AheadStrict DEF Inv
        <4> QED
          BY <2>4, <3>3, <4>1, <4>2
      <3>4. g \in Injection(1 .. Len(s), T)
        BY <3>3 DEF Injection, IsInjective
      <3>5. g \in Surjection(1 .. Len(s), T)
        BY DEF Surjection
      <3>6. ExistsBijection(1 .. Len(s), T)
        BY <3>4, <3>5 DEF ExistsBijection, Bijection
      <3>7. IsFiniteSet(1 .. Len(s)) /\ Cardinality(1 .. Len(s)) = Len(s)
        <4>1. PICK m \in Nat : m = Len(s)
          BY <3>1
        <4>2. IsFiniteSet(1 .. m) /\ Cardinality(1 .. m) = m
          BY FS_Interval
        <4> QED
          BY <4>1, <4>2
      <3> HIDE DEF T, g
      <3>8. IsFiniteSet(T) /\ Cardinality(T) = Len(s)
        BY <3>6, <3>7, FS_Bijection
      <3>9. T \in SUBSET LiveOn(side)
        BY <2>6 DEF T
      <3>10. IsFiniteSet(LiveOn(side))
        <4> DEFINE h == [k \in 1 .. n |-> w[k]]
                   U == {w[k] : k \in 1 .. n}
        <4>1. n \in Nat
          BY <2>2 DEF n
        <4>2. IsFiniteSet(1 .. n)
          BY <4>1, FS_Interval
        <4>3. h \in Surjection(1 .. n, U)
          BY DEF Surjection
        <4>4. LiveOn(side) \in SUBSET U
          BY <2>2, <2>5
        <4> HIDE DEF h, U
        <4>5. IsFiniteSet(U)
          BY <4>2, <4>3, FS_Surjection
        <4> QED
          BY <4>4, <4>5, FS_Subset
      <3>11. Cardinality(LiveOn(side)) \in Nat /\ Len(s) <= Cardinality(LiveOn(side))
        BY <3>8, <3>9, <3>10, FS_Subset, FS_CardinalityType
      <3>12. CASE Len(s) = SNAPSHOT_LEN
        <4>1. ~(Cardinality(LiveOn(side)) <= SNAPSHOT_LEN) \/ Cardinality(LiveOn(side)) = SNAPSHOT_LEN
          BY <3>1, <3>11, <3>12
        <4> QED
          BY <3>12, <4>1 DEF Smaller
      <3>13. CASE Len(s) # SNAPSHOT_LEN
        <4>1. T = LiveOn(side)
          <5>1. \A i \in LiveOn(side) : i \in T
            BY <2>7, <3>13 DEF T
          <5> QED
            BY <3>9, <5>1
        <4> QED
          BY <2>4, <3>8, <4>1 DEF Smaller
      <3> QED
        BY <3>12, <3>13
    <2> QED
      BY <2>1, <2>6, <2>8, <2>9, Zenon
  <1> QED
    BY <1>1, BookInvariant, PTL

=============================================================================

-------------------------- MODULE BookLevelsProofs --------------------------
(***************************************************************************)
(* The levels, the bitmaps and the pool of a book, together, for any number *)
(* of orders, any window and any capacities. Each of the three keeps what   *)
(* its own module proves of it; here they are shown to agree.               *)
(***************************************************************************)
EXTENDS BookLevels, PriceBitmapProofs, FiniteSetTheorems

BookPool  == INSTANCE OrderPoolProofs WITH Level <- Side \X Slot
AskBitmap == INSTANCE PriceBitmapProofs WITH l0 <- ask_l0, l1 <- ask_l1

-----------------------------------------------------------------------------
(* A step of the book is a step of each structure, or leaves it alone. *)

LEMMA PoolCapacities == BookPool!Capacities
  BY CapAssumption, NilAssumption DEF BookPool!Capacities, BookPool!Index

LEMMA StepOfBids == [BookNext]_bookVars => [Next]_vars
  <1> SUFFICES ASSUME [BookNext]_bookVars
               PROVE  [Next]_vars
    OBVIOUS
  <1>1. ASSUME NEW side \in Side, NEW s \in Slot, MarkNew(side, s)
        PROVE  [Next]_vars
    BY <1>1 DEF MarkNew, bid_bitmap, ask_bitmap, vars, Next
  <1>2. ASSUME NEW side \in Side, NEW s \in Slot, Unmark(side, s)
        PROVE  [Next]_vars
    BY <1>2 DEF Unmark, bid_bitmap, ask_bitmap, vars, Next
  <1>3. \A side \in Side : find_best(side) \subseteq Slot
    BY DEF find_best, find_highest, Asks!find_lowest, Asks!Slot, Slot
  <1>4. CASE UNCHANGED bookVars
    BY <1>4 DEF bookVars, bid_bitmap, vars
  <1> QED
    BY <1>1, <1>2, <1>3, <1>4 DEF BookNext, insert, insert_throws, pop_best

LEMMA StepOfAsks == [BookNext]_bookVars => [AskBitmap!Next]_(AskBitmap!vars)
  <1> SUFFICES ASSUME [BookNext]_bookVars
               PROVE  [AskBitmap!Next]_(AskBitmap!vars)
    OBVIOUS
  <1>1. ASSUME NEW s \in Slot
        PROVE  /\ Asks!set(s) => AskBitmap!Next
               /\ Asks!clear(s) => AskBitmap!Next
    BY DEF Asks!set, Asks!clear, Asks!Marked, Asks!Slot, Asks!SummaryBit, Asks!Summary, Slot,
           AskBitmap!Next, AskBitmap!set, AskBitmap!clear, AskBitmap!Marked, AskBitmap!Slot,
           AskBitmap!SummaryBit, AskBitmap!Summary
  <1>2. ASSUME NEW side \in Side, NEW s \in Slot, MarkNew(side, s)
        PROVE  [AskBitmap!Next]_(AskBitmap!vars)
    BY <1>1, <1>2 DEF MarkNew, bid_bitmap, ask_bitmap, AskBitmap!vars
  <1>3. ASSUME NEW side \in Side, NEW s \in Slot, Unmark(side, s)
        PROVE  [AskBitmap!Next]_(AskBitmap!vars)
    BY <1>1, <1>3 DEF Unmark, bid_bitmap, ask_bitmap, AskBitmap!vars
  <1>4. \A side \in Side : find_best(side) \subseteq Slot
    BY DEF find_best, find_highest, Asks!find_lowest, Asks!Slot, Slot
  <1>5. CASE UNCHANGED bookVars
    BY <1>5 DEF bookVars, ask_bitmap, AskBitmap!vars
  <1> QED
    BY <1>2, <1>3, <1>4, <1>5 DEF BookNext, insert, insert_throws, pop_best

\* The actions of the pool are the same under both names of its module.
LEMMA SameResting == Pool!Resting = BookPool!Resting
  BY DEF Pool!Resting, Pool!OrderAt, Pool!Queue, Pool!Walk, Pool!Following, Pool!Node,
         BookPool!Resting, BookPool!OrderAt, BookPool!Queue, BookPool!Walk,
         BookPool!Following, BookPool!Node

LEMMA SamePush ==
  ASSUME NEW l, NEW o
  PROVE  Pool!level_push_back(l, o) <=> BookPool!level_push_back(l, o)
  BY DEF Pool!level_push_back, Pool!Acquired, Pool!Supplied, Pool!Full, Pool!Linked,
         Pool!grow, Pool!Chunk, Pool!Size, Pool!Node, Pool!Cardinality,
         BookPool!level_push_back, BookPool!Acquired, BookPool!Supplied, BookPool!Full,
         BookPool!Linked, BookPool!grow, BookPool!Chunk, BookPool!Size, BookPool!Node,
         BookPool!Cardinality

LEMMA SamePop ==
  ASSUME NEW l
  PROVE  Pool!level_pop_front(l) <=> BookPool!level_pop_front(l)
  BY DEF Pool!level_pop_front, Pool!TailAfterPop, Pool!Released,
         BookPool!level_pop_front, BookPool!TailAfterPop, BookPool!Released

LEMMA SameExhausted == Pool!Exhausted <=> BookPool!Exhausted
  BY DEF Pool!Exhausted, Pool!Full, Pool!Size, Pool!Node, Pool!Cardinality,
         BookPool!Exhausted, BookPool!Full, BookPool!Size, BookPool!Node, BookPool!Cardinality

LEMMA StepOfPool == [BookNext]_bookVars => [BookPool!Next]_(BookPool!vars)
  <1> SUFFICES ASSUME [BookNext]_bookVars
               PROVE  [BookPool!Next]_(BookPool!vars)
    OBVIOUS
  <1>1. ASSUME NEW side \in Side, NEW s \in Slot, NEW o \in Order, insert(side, s, o)
        PROVE  BookPool!Next
    <2>1. o \in Order \ BookPool!Resting /\ BookPool!level_push_back(<<side, s>>, o)
      BY <1>1, SameResting, SamePush DEF insert
    <2>2. <<side, s>> \in Side \X Slot
      OBVIOUS
    <2> QED
      BY <2>1, <2>2 DEF BookPool!Next
  <1>2. ASSUME NEW side \in Side, NEW s \in Slot, insert_throws(side, s)
        PROVE  BookPool!Next
    BY <1>2, SameExhausted DEF insert_throws, BookPool!Next
  <1>3. ASSUME NEW side \in Side, pop_best(side)
        PROVE  BookPool!Next
    <2>1. PICK s \in find_best(side) : Pool!level_pop_front(<<side, s>>)
      BY <1>3 DEF pop_best
    <2>2. s \in Slot
      BY DEF find_best, find_highest, Asks!find_lowest, Asks!Slot, Slot
    <2>3. <<side, s>> \in Side \X Slot /\ BookPool!level_pop_front(<<side, s>>)
      BY <2>1, <2>2, SamePop
    <2> QED
      BY <2>3 DEF BookPool!Next
  <1>4. CASE UNCHANGED bookVars
    BY <1>4 DEF bookVars, BookPool!vars
  <1> QED
    BY <1>1, <1>2, <1>3, <1>4 DEF BookNext
-----------------------------------------------------------------------------
(* What each structure keeps *)

\* The invariants of the two bitmaps and of the pool.
Parts == Inv /\ AskBitmap!Inv /\ BookPool!Inv

LEMMA PartsInvariant == BookSpec => []Parts
  <1>1. BookInit => Init /\ AskBitmap!Init /\ BookPool!Init
    <2>1. Asks!Init => AskBitmap!Init
      BY DEF Asks!Init, Asks!L0Word, Asks!L1Word, Asks!L0_WORDS, Asks!L1_WORDS,
             AskBitmap!Init, AskBitmap!L0Word, AskBitmap!L1Word, AskBitmap!L0_WORDS,
             AskBitmap!L1_WORDS
    <2>2. Pool!Init => BookPool!Init
      BY DEF Pool!Init, Pool!grow, Pool!Size, Pool!Node, Pool!Cardinality,
             BookPool!Init, BookPool!grow, BookPool!Size, BookPool!Node, BookPool!Cardinality
    <2> QED
      BY <2>1, <2>2 DEF BookInit
  <1>2. Init /\ [][Next]_vars => []Inv
    BY InitInv, NextInv, PTL
  <1>3. AskBitmap!Init /\ [][AskBitmap!Next]_(AskBitmap!vars) => []AskBitmap!Inv
    <2>1. AskBitmap!Spec => []AskBitmap!Inv
      BY AskBitmap!BitmapInvariant, WordAssumption, WholeWords
    <2> QED
      BY <2>1, PTL DEF AskBitmap!Spec
  <1>4. BookPool!Init /\ [][BookPool!Next]_(BookPool!vars) => []BookPool!Inv
    <2>1. BookPool!Spec => []BookPool!Inv
      BY BookPool!PoolInvariant, PoolCapacities
    <2> QED
      BY <2>1, PTL DEF BookPool!Spec
  <1> QED
    BY <1>1, <1>2, <1>3, <1>4, StepOfBids, StepOfAsks, StepOfPool, PTL DEF BookSpec, Parts

LEMMA PartsTyped ==
  ASSUME Parts
  PROVE  TypeOK /\ AskBitmap!TypeOK /\ BookPool!TypeOK
  BY BookPool!HeldTyped, PoolCapacities DEF Parts, Inv, AskBitmap!Inv

\* Words are sets of bits, links lead into the vector as it is, and levels
\* count their orders, whatever the book has been through.
THEOREM BookTyped == BookSpec => []BookTypeOK
  <1>1. Parts => BookTypeOK
    <2> SUFFICES ASSUME Parts
                 PROVE  BookTypeOK
      OBVIOUS
    <2>1. TypeOK /\ AskBitmap!TypeOK /\ BookPool!TypeOK
      BY PartsTyped
    <2>2. Asks!TypeOK
      BY <2>1 DEF Asks!TypeOK, Asks!L0Word, Asks!L1Word, Asks!L0_WORDS, Asks!L1_WORDS, Asks!Bit,
                  AskBitmap!TypeOK, AskBitmap!L0Word, AskBitmap!L1Word, AskBitmap!L0_WORDS,
                  AskBitmap!L1_WORDS, AskBitmap!Bit
    <2>3. Pool!TypeOK
      BY <2>1 DEF Pool!TypeOK, Pool!Node, Pool!Size, Pool!Index, Pool!Cardinality,
                  BookPool!TypeOK, BookPool!Node, BookPool!Size, BookPool!Index,
                  BookPool!Cardinality
    <2> QED
      BY <2>1, <2>2, <2>3 DEF BookTypeOK
  <1> QED
    BY <1>1, PartsInvariant, PTL

\* No node of the vector is lost or used twice, whichever levels of whichever
\* side the orders of the book come to and leave.
THEOREM BookNodesPartitioned == BookSpec => []NodesPartitioned
  <1>1. Parts => NodesPartitioned
    <2> SUFFICES ASSUME Parts
                 PROVE  NodesPartitioned
      OBVIOUS
    <2>1. BookPool!NodesPartitioned
      BY BookPool!HeldPartitioned, PoolCapacities DEF Parts
    <2> QED
      BY <2>1 DEF NodesPartitioned, Pool!NodesPartitioned, Pool!QueueNodes, Pool!FreeNodes,
           Pool!Queue, Pool!Walk, Pool!Following, Pool!Node, Pool!Size, Pool!Cardinality,
           BookPool!NodesPartitioned, BookPool!QueueNodes, BookPool!FreeNodes,
           BookPool!Queue, BookPool!Walk, BookPool!Following, BookPool!Node, BookPool!Size,
           BookPool!Cardinality
  <1> QED
    BY <1>1, PartsInvariant, PTL

\* The levels of a book are queues of orders, and an insert throws only when
\* ORDER_POOL_MAX_CAP orders rest in it.
THEOREM BookImplementsQueues == BookSpec => ImplementsLevelQueues
  <1>1. BookSpec => BookPool!Spec
    <2>1. BookInit => BookPool!Init
      BY DEF BookInit, Pool!Init, Pool!grow, Pool!Size, Pool!Node, Pool!Cardinality,
             BookPool!Init, BookPool!grow, BookPool!Size, BookPool!Node, BookPool!Cardinality
    <2> QED
      BY <2>1, StepOfPool, PTL DEF BookSpec, BookPool!Spec
  <1>2. BookPool!Spec => BookPool!ImplementsLevelQueues
    BY BookPool!PoolRefines, PoolCapacities
  <1>3. BookPool!ImplementsLevelQueues => ImplementsLevelQueues
    <2>1. BookPool!Promise!Init => Pool!Promise!Init
      BY DEF BookPool!Promise!Init, Pool!Promise!Init, BookPool!OrderAt, BookPool!Queue,
             BookPool!Walk, BookPool!Following, BookPool!Node,
             Pool!OrderAt, Pool!Queue, Pool!Walk, Pool!Following, Pool!Node
    <2>2. [BookPool!Promise!Next]_(BookPool!Promise!vars) => [Pool!Promise!Next]_(Pool!Promise!vars)
      BY DEF BookPool!Promise!Next, BookPool!Promise!vars, BookPool!Promise!PushBack,
             BookPool!Promise!PopFront, BookPool!Promise!Exhausted, BookPool!Promise!Resting,
             BookPool!Promise!Cardinality,
             BookPool!OrderAt, BookPool!Queue, BookPool!Walk, BookPool!Following, BookPool!Node,
             Pool!Promise!Next, Pool!Promise!vars, Pool!Promise!PushBack,
             Pool!Promise!PopFront, Pool!Promise!Exhausted, Pool!Promise!Resting,
             Pool!Promise!Cardinality,
             Pool!OrderAt, Pool!Queue, Pool!Walk, Pool!Following, Pool!Node
    <2> QED
      BY <2>1, <2>2, PTL DEF ImplementsLevelQueues, Pool!ImplementsLevelQueues,
         BookPool!ImplementsLevelQueues, Pool!Promise!Spec, BookPool!Promise!Spec
  <1> QED
    BY <1>1, <1>2, <1>3, PTL
-----------------------------------------------------------------------------
(* The bitmaps and the levels *)

Occupied(side) == {s \in Slot : ~Empty(side, s)}

Marks(side) == IF side = "BUY" THEN Marked ELSE AskBitmap!Marked

\* BitmapsAgree as steps keep it: after an insert that threw, one side has one
\* mark that may be too many.
Agree ==
  \/ ~halted /\ \A side \in Side : Marks(side) = Occupied(side)
  \/ /\ halted
     /\ \E side \in Side, s \in Slot :
          /\ Marks(side) = Occupied(side) \union {s}
          /\ \A other \in Side : other # side => Marks(other) = Occupied(other)

LEMMA MarkNewMarks ==
  ASSUME Parts, Agree, ~halted, NEW side \in Side, NEW s \in Slot, MarkNew(side, s)
  PROVE  /\ Marks(side)' = Marks(side) \union {s}
         /\ \A other \in Side : other # side => Marks(other)' = Marks(other)
  <1>1. TypeOK /\ AskBitmap!TypeOK
    BY PartsTyped
  <1>2. ASSUME UNCHANGED bid_bitmap
        PROVE  Marked' = Marked
    BY <1>2 DEF bid_bitmap, Marked
  <1>3. ASSUME UNCHANGED ask_bitmap
        PROVE  AskBitmap!Marked' = AskBitmap!Marked
    BY <1>3 DEF ask_bitmap, AskBitmap!Marked
  <1>4. CASE ~Empty(side, s) /\ UNCHANGED <<bid_bitmap, ask_bitmap>>
    <2>1. s \in Marks(side)
      BY <1>4 DEF Agree, Occupied
    <2>2. Marked' = Marked /\ AskBitmap!Marked' = AskBitmap!Marked
      BY <1>2, <1>3, <1>4
    <2> QED
      BY <2>1, <2>2 DEF Marks
  <1>5. CASE side = "BUY" /\ set(s) /\ UNCHANGED ask_bitmap
    <2>1. Marked' = Marked \union {s}
      BY <1>1, <1>5, SetMarks
    <2> QED
      BY <1>3, <1>5, <2>1 DEF Marks, Side
  <1>6. CASE side = "SELL" /\ Asks!set(s) /\ UNCHANGED bid_bitmap
    <2>1. AskBitmap!set(s) /\ s \in AskBitmap!Slot
      BY <1>6 DEF Asks!set, Asks!Marked, Asks!Slot, Asks!SummaryBit, Slot,
                  AskBitmap!set, AskBitmap!Marked, AskBitmap!Slot, AskBitmap!SummaryBit
    <2>2. AskBitmap!Marked' = AskBitmap!Marked \union {s}
      BY <1>1, <2>1, AskBitmap!SetMarks, WordAssumption, WholeWords
    <2> QED
      BY <1>2, <1>6, <2>2 DEF Marks, Side
  <1> QED
    BY <1>4, <1>5, <1>6 DEF MarkNew

LEMMA UnmarkMarks ==
  ASSUME Parts, NEW side \in Side, NEW s \in Slot, Unmark(side, s)
  PROVE  /\ Marks(side)' = IF Empty(side, s)' THEN Marks(side) \ {s} ELSE Marks(side)
         /\ \A other \in Side : other # side => Marks(other)' = Marks(other)
  <1>1. TypeOK /\ AskBitmap!TypeOK
    BY PartsTyped
  <1>2. ASSUME UNCHANGED bid_bitmap
        PROVE  Marked' = Marked
    BY <1>2 DEF bid_bitmap, Marked
  <1>3. ASSUME UNCHANGED ask_bitmap
        PROVE  AskBitmap!Marked' = AskBitmap!Marked
    BY <1>3 DEF ask_bitmap, AskBitmap!Marked
  <1>4. CASE ~Empty(side, s)' /\ UNCHANGED <<bid_bitmap, ask_bitmap>>
    <2>1. Marked' = Marked /\ AskBitmap!Marked' = AskBitmap!Marked
      BY <1>2, <1>3, <1>4
    <2> QED
      BY <1>4, <2>1 DEF Marks
  <1>5. CASE Empty(side, s)' /\ side = "BUY" /\ clear(s) /\ UNCHANGED ask_bitmap
    <2>1. Marked' = Marked \ {s}
      BY <1>1, <1>5, ClearMarks
    <2> QED
      BY <1>3, <1>5, <2>1 DEF Marks, Side
  <1>6. CASE Empty(side, s)' /\ side = "SELL" /\ Asks!clear(s) /\ UNCHANGED bid_bitmap
    <2>1. AskBitmap!clear(s) /\ s \in AskBitmap!Slot
      BY <1>6 DEF Asks!clear, Asks!Marked, Asks!Slot, Asks!Summary, Slot,
                  AskBitmap!clear, AskBitmap!Marked, AskBitmap!Slot, AskBitmap!Summary
    <2>2. AskBitmap!Marked' = AskBitmap!Marked \ {s}
      BY <1>1, <2>1, AskBitmap!ClearMarks, WordAssumption, WholeWords
    <2> QED
      BY <1>2, <1>6, <2>2 DEF Marks, Side
  <1> QED
    BY <1>4, <1>5, <1>6 DEF Unmark

LEMMA AgreeInit == BookInit => Agree
  <1> SUFFICES ASSUME BookInit
               PROVE  Agree
    OBVIOUS
  <1>1. halted = FALSE /\ \A l \in Side \X Slot : lvl[l].count = 0
    BY DEF BookInit, Pool!Init
  <1>2. \A side \in Side : Occupied(side) = {}
    BY <1>1 DEF Occupied, Empty
  <1>3. Marked = {}
    BY Addressing DEF BookInit, Init, Marked, W
  <1>4. AskBitmap!Marked = {}
    <2>1. ask_l0 = [w \in L0Word |-> {}]
      BY DEF BookInit, Asks!Init, Asks!L0Word, Asks!L0_WORDS, L0Word, L0_WORDS
    <2>2. \A s \in Slot : s \div WORD_BITS \in L0Word
      BY Addressing DEF W
    <2> QED
      BY <2>1, <2>2 DEF AskBitmap!Marked, AskBitmap!Slot, Slot
  <1> QED
    BY <1>1, <1>2, <1>3, <1>4 DEF Agree, Marks

LEMMA AgreeNext ==
  ASSUME Parts, Agree, [BookNext]_bookVars
  PROVE  Agree'
  <1>1. ASSUME NEW side \in Side, NEW s \in Slot, NEW o \in Order, insert(side, s, o)
        PROVE  Agree'
    <2>1. BookPool!level_push_back(<<side, s>>, o) /\ o \notin BookPool!Resting
      BY <1>1, SamePush, SameResting DEF insert
    <2>2. ~halted /\ halted' = halted
      BY <2>1 DEF BookPool!level_push_back
    <2>3. /\ Marks(side)' = Marks(side) \union {s}
          /\ \A other \in Side : other # side => Marks(other)' = Marks(other)
      BY <1>1, <2>2, MarkNewMarks DEF insert
    <2>4. \A x \in Side \X Slot :
            /\ lvl[x].count \in Nat
            /\ lvl'[x].count = IF x = <<side, s>> THEN lvl[x].count + 1 ELSE lvl[x].count
      <3>1. <<side, s>> \in Side \X Slot
        OBVIOUS
      <3> QED
        BY <2>1, <3>1, BookPool!PushCounts, PoolCapacities DEF Parts
    <2>5. ASSUME NEW other \in Side, NEW t \in Slot
          PROVE  Empty(other, t)' <=> Empty(other, t) /\ ~(other = side /\ t = s)
      <3>1. /\ <<other, t>> \in Side \X Slot
            /\ <<other, t>> = <<side, s>> <=> other = side /\ t = s
        OBVIOUS
      <3>2. /\ lvl[<<other, t>>].count \in Nat
            /\ lvl'[<<other, t>>].count =
                 IF <<other, t>> = <<side, s>> THEN lvl[<<other, t>>].count + 1
                                               ELSE lvl[<<other, t>>].count
        BY <2>4, <3>1
      <3> QED
        BY <3>1, <3>2 DEF Empty
    <2>6. /\ Occupied(side)' = Occupied(side) \union {s}
          /\ \A other \in Side : other # side => Occupied(other)' = Occupied(other)
      BY <2>5 DEF Occupied
    <2>7. \A other \in Side : Marks(other) = Occupied(other)
      BY <2>2 DEF Agree
    <2>8. \A other \in Side : Marks(other)' = Occupied(other)'
      BY <2>3, <2>6, <2>7
    <2> QED
      BY <2>2, <2>8 DEF Agree
  <1>2. ASSUME NEW side \in Side, NEW s \in Slot, insert_throws(side, s)
        PROVE  Agree'
    <2>1. ~halted /\ halted' = TRUE /\ lvl' = lvl
      BY <1>2 DEF insert_throws, Pool!Exhausted
    <2>2. /\ Marks(side)' = Marks(side) \union {s}
          /\ \A other \in Side : other # side => Marks(other)' = Marks(other)
      BY <1>2, <2>1, MarkNewMarks DEF insert_throws
    <2>3. \A other \in Side : Occupied(other)' = Occupied(other)
      BY <2>1 DEF Occupied, Empty
    <2>4. \A other \in Side : Marks(other) = Occupied(other)
      BY <2>1 DEF Agree
    <2>5. /\ Marks(side)' = Occupied(side)' \union {s}
          /\ \A other \in Side : other # side => Marks(other)' = Occupied(other)'
      BY <2>2, <2>3, <2>4
    <2> QED
      BY <2>1, <2>5 DEF Agree
  <1>3. ASSUME NEW side \in Side, pop_best(side)
        PROVE  Agree'
    <2>1. PICK s \in find_best(side) : Pool!level_pop_front(<<side, s>>) /\ Unmark(side, s)
      BY <1>3 DEF pop_best
    <2>2. s \in Slot /\ <<side, s>> \in Side \X Slot
      BY DEF find_best, find_highest, Asks!find_lowest, Asks!Slot, Slot
    <2>3. BookPool!level_pop_front(<<side, s>>)
      BY <2>1, SamePop
    <2>4. ~halted /\ halted' = halted
      BY <2>3 DEF BookPool!level_pop_front
    <2>5. /\ Marks(side)' = IF Empty(side, s)' THEN Marks(side) \ {s} ELSE Marks(side)
          /\ \A other \in Side : other # side => Marks(other)' = Marks(other)
      BY <2>1, <2>2, UnmarkMarks
    <2>6. \A x \in Side \X Slot :
            /\ lvl[x].count \in Nat
            /\ lvl'[x].count = IF x = <<side, s>> THEN lvl[x].count - 1 ELSE lvl[x].count
      BY <2>2, <2>3, BookPool!PopCounts, PoolCapacities DEF Parts
    <2>7. ASSUME NEW other \in Side, NEW t \in Slot, ~(other = side /\ t = s)
          PROVE  Empty(other, t)' <=> Empty(other, t)
      <3>1. <<other, t>> \in Side \X Slot /\ <<other, t>> # <<side, s>>
        BY <2>7
      <3>2. lvl'[<<other, t>>].count = lvl[<<other, t>>].count
        BY <2>6, <3>1
      <3> QED
        BY <3>2 DEF Empty
    <2>8. ~Empty(side, s)
      <3>1. lvl[<<side, s>>].count > 0
        BY ONLY <2>3 DEF BookPool!level_pop_front
      <3>2. lvl[<<side, s>>].count # 0
        BY <2>2, <2>6, <3>1
      <3> QED
        BY <3>2, Zenon DEF Empty
    <2>9. /\ Occupied(side)' = IF Empty(side, s)' THEN Occupied(side) \ {s} ELSE Occupied(side)
          /\ \A other \in Side : other # side => Occupied(other)' = Occupied(other)
      BY <2>2, <2>7, <2>8 DEF Occupied
    <2>10. \A other \in Side : Marks(other) = Occupied(other)
      BY <2>4 DEF Agree
    <2>11. \A other \in Side : Marks(other)' = Occupied(other)'
      BY <2>5, <2>9, <2>10
    <2> QED
      BY <2>4, <2>11 DEF Agree
  <1>4. CASE UNCHANGED bookVars
    BY <1>4 DEF bookVars, bid_bitmap, ask_bitmap, Agree, Marks, Occupied, Empty, Marked,
                AskBitmap!Marked
  <1> QED
    BY <1>1, <1>2, <1>3, <1>4 DEF BookNext

LEMMA AgreeInvariant == BookSpec => [](Parts /\ Agree)
  BY AgreeInit, AgreeNext, PartsInvariant, PTL DEF BookSpec

\* A bit is set exactly for the levels that have an order, so a search that
\* finds a level finds a front there; only after an insert that threw may one
\* bit more be set.
THEOREM BookBitmapsAgree == BookSpec => []BitmapsAgree
  <1>1. Agree => BitmapsAgree
    <2> SUFFICES ASSUME Agree
                 PROVE  BitmapsAgree
      OBVIOUS
    <2>1. PICK bids, asks : /\ bids = Marks("BUY") \ Occupied("BUY")
                            /\ asks = Marks("SELL") \ Occupied("SELL")
      OBVIOUS
    <2>2. Asks!Marked = Marks("SELL") /\ Marked = Marks("BUY")
      BY DEF Marks, Asks!Marked, Asks!Slot, AskBitmap!Marked, AskBitmap!Slot
    <2>3. \A side \in Side : Occupied(side) \subseteq Marks(side)
      BY DEF Agree
    <2>4. ~halted => bids = {} /\ asks = {}
      BY <2>1 DEF Agree, Side
    <2>5. halted => Cardinality(bids) + Cardinality(asks) <= 1
      <3> SUFFICES ASSUME halted
                   PROVE  Cardinality(bids) + Cardinality(asks) <= 1
        OBVIOUS
      <3>1. PICK s : \/ bids \subseteq {s} /\ asks = {}
                     \/ asks \subseteq {s} /\ bids = {}
        BY <2>1 DEF Agree, Side
      <3>2. \A S : S \subseteq {s} => S = {} \/ S = {s}
        OBVIOUS
      <3>3. Cardinality({}) = 0 /\ Cardinality({s}) = 1
        BY FS_EmptySet, FS_Singleton
      <3> QED
        BY <3>1, <3>2, <3>3
    <2> QED
      BY <2>1, <2>2, <2>3, <2>4, <2>5 DEF BitmapsAgree, Occupied, Side
  <1> QED
    BY <1>1, AgreeInvariant, PTL

\* Until acquire has thrown, find_best leads to the highest bid level and to the
\* lowest ask level with an order, and to none only if its side has no order.
BestHasFront ==
  ~halted => /\ find_best("BUY") =
                  {s \in Occupied("BUY") : \A t \in Occupied("BUY") : t <= s}
             /\ find_best("SELL") =
                  {s \in Occupied("SELL") : \A t \in Occupied("SELL") : s <= t}

\* The search of a side never leads matching, or drain_dead, to a level that
\* has no front order, and never past a better level that has one.
THEOREM BestLevelHasFront == BookSpec => []BestHasFront
  <1>1. Parts /\ Agree => BestHasFront
    <2> SUFFICES ASSUME Parts, Agree, ~halted
                 PROVE  /\ find_best("BUY") =
                             {s \in Occupied("BUY") : \A t \in Occupied("BUY") : t <= s}
                        /\ find_best("SELL") =
                             {s \in Occupied("SELL") : \A t \in Occupied("SELL") : s <= t}
      BY DEF BestHasFront
    <2>1. find_best("BUY") = {s \in Marked : \A t \in Marked : t <= s}
      BY HighestFound DEF find_best, Parts
    <2>2. AskBitmap!find_lowest
            = {s \in AskBitmap!Marked : \A t \in AskBitmap!Marked : s <= t}
      BY AskBitmap!LowestFound, WordAssumption, WholeWords DEF Parts
    <2>3. find_best("SELL") = AskBitmap!find_lowest
      BY DEF find_best, Asks!find_lowest, Asks!Slot, Asks!L1Word, Asks!L1_WORDS, Asks!L0_WORDS,
             Asks!ctz64, Asks!Bit, AskBitmap!find_lowest, AskBitmap!Slot, AskBitmap!L1Word,
             AskBitmap!L1_WORDS, AskBitmap!L0_WORDS, AskBitmap!ctz64, AskBitmap!Bit
    <2>4. Marked = Occupied("BUY") /\ AskBitmap!Marked = Occupied("SELL")
      BY DEF Agree, Marks, Side
    <2> QED
      BY <2>1, <2>2, <2>3, <2>4
  <1> QED
    BY <1>1, AgreeInvariant, PTL

=============================================================================

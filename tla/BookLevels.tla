------------------------------ MODULE BookLevels ------------------------------
(***************************************************************************)
(* How ORDER_BOOK of server/include/order_book.hpp puts its structures      *)
(* together: two arrays of price levels, a PriceBitmap for each, and one    *)
(* OrderPool for all. A level is a side and a slot; l0 and l1 are the       *)
(* bitmap of the bids. Orders enter any level, and leave from the front of  *)
(* the level that the bitmap calls the best: filled or evicted.             *)
(***************************************************************************)
EXTENDS PriceBitmapVisits

CONSTANTS
  Order,                    \* the orders of a book
  NIL,                      \* the index of no node
  ORDER_POOL_INITIAL_CAP,   \* 2^14 in the code
  ORDER_POOL_GROWTH_CHUNK,  \* 2^14 in the code
  ORDER_POOL_MAX_CAP        \* 2^24 in the code

ASSUME CapAssumption ==
  /\ ORDER_POOL_INITIAL_CAP \in 1 .. ORDER_POOL_MAX_CAP
  /\ ORDER_POOL_GROWTH_CHUNK \in Nat \ {0}
  /\ ORDER_POOL_MAX_CAP \in Nat

ASSUME NilAssumption == NIL \notin 0 .. ORDER_POOL_MAX_CAP - 1

VARIABLES
  ask_l0, ask_l1,           \* the bitmap of the asks
  nodes, free_head, lvl,    \* the pool and the levels: see OrderPool
  halted

bid_bitmap == <<l0, l1>>
ask_bitmap == <<ask_l0, ask_l1>>

bookVars == <<bid_bitmap, ask_bitmap, nodes, free_head, lvl, halted>>

Side == {"BUY", "SELL"}

Asks == INSTANCE PriceBitmap WITH l0 <- ask_l0, l1 <- ask_l1

Pool == INSTANCE OrderPool WITH Level <- Side \X Slot

\* Words, nodes, links and levels keep their types.
BookTypeOK == TypeOK /\ Asks!TypeOK /\ Pool!TypeOK

BookInit == Init /\ Asks!Init /\ Pool!Init

-----------------------------------------------------------------------------

\* PriceLevel::empty.
Empty(side, s) == lvl[<<side, s>>].count = 0

\* insert sets the bit of a level that was empty.
MarkNew(side, s) ==
  \/ ~Empty(side, s) /\ UNCHANGED <<bid_bitmap, ask_bitmap>>
  \/ Empty(side, s) /\ side = "BUY" /\ set(s) /\ UNCHANGED ask_bitmap
  \/ Empty(side, s) /\ side = "SELL" /\ Asks!set(s) /\ UNCHANGED bid_bitmap

insert(side, s, o) ==
  /\ o \notin Pool!Resting
  /\ MarkNew(side, s)
  /\ Pool!level_push_back(<<side, s>>, o)

\* The pool is full and acquire throws: insert has set the bit by then.
insert_throws(side, s) == MarkNew(side, s) /\ Pool!Exhausted

find_best(side) == IF side = "BUY" THEN find_highest ELSE Asks!find_lowest

\* Mutant: the bit of an emptied level stays.
Unmark_Never(side, s) == UNCHANGED <<bid_bitmap, ask_bitmap>>

\* The bit of the popped level goes when the level has become empty.
Unmark(side, s) ==
  \/ ~Empty(side, s)' /\ UNCHANGED <<bid_bitmap, ask_bitmap>>
  \/ Empty(side, s)' /\ side = "BUY" /\ clear(s) /\ UNCHANGED ask_bitmap
  \/ Empty(side, s)' /\ side = "SELL" /\ Asks!clear(s) /\ UNCHANGED bid_bitmap

\* drain_dead and UPDATE_BOOK pop the front of the best level.
pop_best(side) ==
  \E s \in find_best(side) : Pool!level_pop_front(<<side, s>>) /\ Unmark(side, s)

BookNext ==
  \E side \in Side :
    \/ \E s \in Slot : \/ \E o \in Order : insert(side, s, o)
                       \/ insert_throws(side, s)
    \/ pop_best(side)

BookSpec == BookInit /\ [][BookNext]_bookVars

-----------------------------------------------------------------------------
(* Properties *)

\* Each bitmap marks exactly the levels of its side that have an order. Only
\* when the pool has run out may one bit more be set: insert sets it before
\* acquire throws, and leaves a book whose best level may have no front.
BitmapsAgree ==
  LET occupied(side) == {s \in Slot : ~Empty(side, s)}
      bids == Marked \ occupied("BUY")
      asks == Asks!Marked \ occupied("SELL")
  IN  /\ occupied("BUY") \subseteq Marked
      /\ occupied("SELL") \subseteq Asks!Marked
      /\ IF halted THEN Cardinality(bids) + Cardinality(asks) <= 1
                   ELSE bids = {} /\ asks = {}

\* The pool's properties, of the levels of both sides.
NodesPartitioned == Pool!NodesPartitioned
ImplementsLevelQueues == Pool!ImplementsLevelQueues

=============================================================================

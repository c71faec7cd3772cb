----------------------------- MODULE PriceBitmap -----------------------------
(***************************************************************************)
(* PriceBitmap of server/include/order_book.hpp: which price levels of one  *)
(* side hold orders. l0 has a bit per level, in words; l1 has a bit per     *)
(* word of l0, and says whether that word has any bit. A word is the set of *)
(* its bits here. Module OrderBook sees it as a set of slots.               *)
(***************************************************************************)
EXTENDS Integers, Sequences

CONSTANTS
  WORD_BITS,     \* 64 in the code
  PRICE_WINDOW   \* slots of a side, 2^16 in the code

ASSUME WordAssumption == WORD_BITS \in Nat \ {0}
ASSUME WholeWords == PRICE_WINDOW \in Nat /\ PRICE_WINDOW % WORD_BITS = 0

VARIABLES l0, l1

vars == <<l0, l1>>

L0_WORDS == PRICE_WINDOW \div WORD_BITS

L1_WORDS == (L0_WORDS + WORD_BITS - 1) \div WORD_BITS

Slot   == 0 .. PRICE_WINDOW - 1
Bit    == 0 .. WORD_BITS - 1
L0Word == 0 .. L0_WORDS - 1
L1Word == 0 .. L1_WORDS - 1

\* Every word is a set of bits.
TypeOK ==
  /\ l0 \in [L0Word -> SUBSET Bit]
  /\ l1 \in [L1Word -> SUBSET Bit]

Init ==
  /\ l0 = [w \in L0Word |-> {}]
  /\ l1 = [w \in L1Word |-> {}]

-----------------------------------------------------------------------------
(* Searching *)

\* The place of the highest and of the lowest bit of a word. Both builtins are
\* undefined on a word without bits: any place then.
clz64(v) == IF v = {} THEN Bit ELSE {b \in v : \A c \in v : c <= b}

ctz64(v) == IF v = {} THEN Bit ELSE {b \in v : \A c \in v : b <= c}

\* Empty when no level is marked. The highest word of the summary that is not
\* zero leads to a word of l0, and its highest bit to the level.
find_highest ==
  {s \in Slot :
     LET w  == s \div WORD_BITS
         w1 == w \div WORD_BITS
     IN  /\ l1[w1] # {}
         /\ \A v1 \in L1Word : w1 < v1 => l1[v1] = {}
         /\ w % WORD_BITS \in clz64(l1[w1])
         /\ s % WORD_BITS \in clz64(l0[w])}

find_lowest ==
  {s \in Slot :
     LET w  == s \div WORD_BITS
         w1 == w \div WORD_BITS
     IN  /\ l1[w1] # {}
         /\ \A v1 \in L1Word : v1 < w1 => l1[v1] = {}
         /\ w % WORD_BITS \in ctz64(l1[w1])
         /\ s % WORD_BITS \in ctz64(l0[w])}

-----------------------------------------------------------------------------
(* Marking *)

\* The levels that are marked: what the bitmap is for its users.
Marked == {s \in Slot : s % WORD_BITS \in l0[s \div WORD_BITS]}

\* Mutant: the word's number is taken as its bit.
SummaryBit_Unmasked(w) == w

\* The bit of word w in its word of the summary.
SummaryBit(w) == w % WORD_BITS

\* ORDER_BOOK::insert marks a level that was empty.
set(s) ==
  LET w == s \div WORD_BITS
  IN  /\ s \notin Marked
      /\ l0' = [l0 EXCEPT ![w] = @ \union {s % WORD_BITS}]
      /\ l1' = [l1 EXCEPT ![w \div WORD_BITS] = @ \union {SummaryBit(w)}]

\* Mutants: a word loses its summary bit with any of its bits; never.
Summary_Hasty(w, left) == [l1 EXCEPT ![w \div WORD_BITS] = @ \ {w % WORD_BITS}]
Summary_Stale(w, left) == l1

\* The summary after a bit of word w is cleared and the bits left remain in it.
Summary(w, left) ==
  IF left = {} THEN [l1 EXCEPT ![w \div WORD_BITS] = @ \ {w % WORD_BITS}] ELSE l1

\* UPDATE_BOOK and drain_dead clear a level whose last order they popped.
clear(s) ==
  LET w == s \div WORD_BITS
      left == l0[w] \ {s % WORD_BITS}
  IN  /\ s \in Marked
      /\ l0' = [l0 EXCEPT ![w] = left]
      /\ l1' = Summary(w, left)

Next == \E s \in Slot : set(s) \/ clear(s)

Spec == Init /\ [][Next]_vars

-----------------------------------------------------------------------------
(* Properties *)

\* The summary marks exactly the words that have a bit: no search stops at a
\* word without bits, or passes by one that has some.
SummaryExact ==
  \A w1 \in L1Word :
    l1[w1] = {b \in Bit : LET w == WORD_BITS * w1 + b
                         IN  w \in L0Word /\ l0[w] # {}}

\* find_highest and find_lowest lead to the best bid and the best ask, and
\* find none only if no level is marked (Best in module OrderBook).
SearchesExact ==
  /\ find_highest = {s \in Marked : \A t \in Marked : t <= s}
  /\ find_lowest  = {s \in Marked : \A t \in Marked : s <= t}

=============================================================================

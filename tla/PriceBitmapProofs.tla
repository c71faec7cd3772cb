-------------------------- MODULE PriceBitmapProofs --------------------------
(***************************************************************************)
(* PriceBitmap for words of any width and any window of whole words.        *)
(***************************************************************************)
EXTENDS PriceBitmapVisits, FiniteSetTheorems, WellFoundedInduction, TLAPS

LEMMA Quotient ==
  ASSUME NEW n \in Nat, NEW m \in Nat, m > 0
  PROVE  n = m * (n \div m) + (n % m)
  OBVIOUS

LEMMA Division ==
  ASSUME NEW n \in Nat, NEW m \in Nat, m > 0
  PROVE  /\ n \div m \in Nat
         /\ n % m \in 0 .. m - 1
         /\ n = m * (n \div m) + (n % m)
  <1>1. n \div m \in Nat
    OBVIOUS
  <1>2. n % m \in 0 .. m - 1
    OBVIOUS
  <1>3. n = m * (n \div m) + (n % m)
    BY Quotient
  <1> QED
    BY <1>1, <1>2, <1>3

LEMMA DivisionUnique ==
  ASSUME NEW m \in Nat, m > 0, NEW w \in Nat, NEW b \in 0 .. m - 1
  PROVE  (m * w + b) \div m = w /\ (m * w + b) % m = b
  OBVIOUS

LEMMA DivisionMonotone ==
  ASSUME NEW m \in Nat, m > 0, NEW a \in Nat, NEW b \in Nat, a <= b
  PROVE  a \div m <= b \div m
  OBVIOUS

\* Of two numbers the greater has the greater word, or the same word and the
\* greater bit.
LEMMA WordOrder ==
  ASSUME NEW m \in Nat, m > 0, NEW a \in Nat, NEW b \in Nat
  PROVE  a <= b <=> \/ a \div m < b \div m
                    \/ a \div m = b \div m /\ a % m <= b % m
  BY Division, DivisionMonotone

\* A word below the last one is a word of the array.
LEMMA WordInArray ==
  ASSUME NEW m \in Nat, m > 0, NEW l \in Nat, NEW a \in Nat
  PROVE  a < m * l <=> a \div m < l
  BY Division

W == WORD_BITS

\* The arrays are as large as the window needs: a slot's word is a word of l0,
\* and that word's summary bit is in a word of l1; and back.
LEMMA Addressing ==
  /\ W \in Nat /\ W > 0 /\ L0_WORDS \in Nat /\ L1_WORDS \in Nat
  /\ \A s \in Slot : s \in Nat /\ s \div W \in L0Word /\ s % W \in Bit
  /\ \A w \in L0Word : w \in Nat /\ w \div W \in L1Word /\ w % W \in Bit
  /\ \A w \in L0Word, b \in Bit :
       W * w + b \in Slot /\ (W * w + b) \div W = w /\ (W * w + b) % W = b
  <1>1. W \in Nat /\ W > 0 /\ PRICE_WINDOW \in Nat /\ PRICE_WINDOW % W = 0
    BY WordAssumption, WholeWords DEF W
  <1>2. L0_WORDS \in Nat /\ PRICE_WINDOW = W * L0_WORDS
    BY <1>1, Division DEF L0_WORDS, W
  <1>3. L1_WORDS \in Nat
    BY <1>1, <1>2, Division DEF L1_WORDS, W
  <1>4. ASSUME NEW s \in Slot
        PROVE  s \in Nat /\ s \div W \in L0Word /\ s % W \in Bit
    <2>1. s \in Nat /\ s < W * L0_WORDS
      BY <1>1, <1>2, <1>4 DEF Slot
    <2>2. s \div W < L0_WORDS
      BY <1>1, <1>2, <2>1, WordInArray
    <2> QED
      BY <1>1, <1>2, <2>1, <2>2, Division DEF L0Word, Bit, W
  <1>5. ASSUME NEW w \in L0Word
        PROVE  w \in Nat /\ w \div W \in L1Word /\ w % W \in Bit
    <2>1. w \in Nat /\ w + W <= L0_WORDS + W - 1
      BY <1>1, <1>2, <1>5 DEF L0Word
    <2>2. (w + W) \div W <= L1_WORDS
      BY <1>1, <1>2, <2>1, DivisionMonotone DEF L1_WORDS, W
    <2>3. (w + W) \div W = w \div W + 1
      <3>1. w = W * (w \div W) + (w % W) /\ w \div W \in Nat /\ w % W \in 0 .. W - 1
        BY <1>1, <2>1, Division
      <3>2. w + W = W * (w \div W + 1) + (w % W)
        <4> DEFINE q == w \div W
                   r == w % W
        <4>1. q \in Nat /\ r \in Nat /\ w = W * q + r
          BY <3>1
        <4> HIDE DEF q, r
        <4>2. W * (q + 1) = W * q + W
          BY <1>1, <4>1
        <4>3. W * q \in Nat
          BY <1>1, <4>1
        <4> QED
          BY <1>1, <4>1, <4>2, <4>3 DEF q, r
      <3> DEFINE q == w \div W
                 r == w % W
      <3>3. q + 1 \in Nat /\ r \in 0 .. W - 1 /\ w + W = W * (q + 1) + r
        BY <3>1, <3>2
      <3> HIDE DEF q, r
      <3>4. (W * (q + 1) + r) \div W = q + 1
        BY <1>1, <3>3, DivisionUnique
      <3>5. (w + W) \div W = q + 1
        BY <3>3, <3>4
      <3> QED
        BY <3>5 DEF q
    <2>4. w \div W \in Nat /\ w % W \in 0 .. W - 1
      BY <1>1, <2>1, Division
    <2> QED
      BY <1>3, <2>1, <2>2, <2>3, <2>4 DEF L1Word, Bit, W
  <1>6. ASSUME NEW w \in L0Word, NEW b \in Bit
        PROVE  W * w + b \in Slot /\ (W * w + b) \div W = w /\ (W * w + b) % W = b
    <2>1. w \in Nat /\ w < L0_WORDS /\ b \in 0 .. W - 1
      BY <1>2, <1>6 DEF L0Word, Bit, W
    <2>2. (W * w + b) \div W = w /\ (W * w + b) % W = b
      BY <1>1, <2>1, DivisionUnique
    <2>3. W * w + b \in Nat
      BY <1>1, <2>1
    <2>4. W * w + b < W * L0_WORDS
      <3>1. PICK s \in Nat : s = W * w + b
        BY <2>3
      <3>2. s \div W < L0_WORDS
        BY <2>1, <2>2, <3>1
      <3>3. s < W * L0_WORDS
        BY <1>1, <1>2, <3>2, WordInArray
      <3> QED
        BY <3>1, <3>3
    <2>5. W * w + b < PRICE_WINDOW
      BY <1>2, <2>4
    <2>6. W * w + b \in Slot
      <3> DEFINE s == W * w + b
      <3>1. s \in Nat /\ s < PRICE_WINDOW
        BY <2>3, <2>5
      <3> HIDE DEF s
      <3>2. s \in Slot
        BY <1>1, <3>1 DEF Slot
      <3> QED
        BY <3>2 DEF s
    <2> QED
      BY <2>2, <2>6
  <1> QED
    BY <1>1, <1>2, <1>3, <1>4, <1>5, <1>6

-----------------------------------------------------------------------------
(* The summary *)

\* SummaryExact without products: each word's bit says whether the word has
\* bits, and there are no other bits.
SummaryByWord ==
  /\ \A w \in L0Word : w % W \in l1[w \div W] <=> l0[w] # {}
  /\ \A w1 \in L1Word : \A b \in l1[w1] :
       \E w \in L0Word : w \div W = w1 /\ w % W = b

LEMMA ByWord == TypeOK => (SummaryExact <=> SummaryByWord)
  <1> SUFFICES ASSUME TypeOK
               PROVE  SummaryExact <=> SummaryByWord
    OBVIOUS
  <1>1. W \in Nat /\ W > 0
    BY Addressing
  <1>2. \A w \in L0Word : /\ w \in Nat /\ w \div W \in L1Word /\ w % W \in Bit
                          /\ w = W * (w \div W) + (w % W)
    BY Addressing, Quotient
  <1>3. \A w1 \in L1Word, b \in Bit :
          W * w1 + b \in L0Word => (W * w1 + b) \div W = w1 /\ (W * w1 + b) % W = b
    <2> SUFFICES ASSUME NEW w1 \in L1Word, NEW b \in Bit
                 PROVE  (W * w1 + b) \div W = w1 /\ (W * w1 + b) % W = b
      OBVIOUS
    <2>1. L1_WORDS \in Nat
      BY Addressing
    <2>2. w1 \in Nat
      BY <2>1 DEF L1Word
    <2>3. b \in 0 .. W - 1
      BY DEF Bit, W
    <2> QED
      BY <1>1, <2>2, <2>3, DivisionUnique
  <1>4. ASSUME SummaryExact
        PROVE  SummaryByWord
    <2>1. ASSUME NEW w \in L0Word
          PROVE  w % W \in l1[w \div W] <=> l0[w] # {}
      BY <1>2, <1>4 DEF SummaryExact, W
    <2>2. ASSUME NEW w1 \in L1Word, NEW b \in l1[w1]
          PROVE  \E w \in L0Word : w \div W = w1 /\ w % W = b
      <3>1. b \in Bit /\ W * w1 + b \in L0Word
        BY <1>4, <2>2 DEF SummaryExact, W
      <3> QED
        BY <1>3, <3>1
    <2> QED
      BY <2>1, <2>2 DEF SummaryByWord
  <1>5. ASSUME SummaryByWord
        PROVE  SummaryExact
    <2> SUFFICES ASSUME NEW w1 \in L1Word, NEW b \in Bit
                 PROVE  b \in l1[w1] <=> W * w1 + b \in L0Word /\ l0[W * w1 + b] # {}
      BY DEF SummaryExact, TypeOK, W
    <2>1. ASSUME b \in l1[w1]
          PROVE  W * w1 + b \in L0Word /\ l0[W * w1 + b] # {}
      <3>1. PICK w \in L0Word : w \div W = w1 /\ w % W = b
        BY <1>5, <2>1 DEF SummaryByWord
      <3>2. w = W * w1 + b
        BY <1>2, <3>1
      <3>3. l0[w] # {}
        BY <1>5, <2>1, <3>1 DEF SummaryByWord
      <3> QED
        BY <3>2, <3>3
    <2>2. ASSUME W * w1 + b \in L0Word, l0[W * w1 + b] # {}
          PROVE  b \in l1[w1]
      <3> DEFINE w == W * w1 + b
      <3>1. w \in L0Word /\ l0[w] # {} /\ w \div W = w1 /\ w % W = b
        BY <1>3, <2>2
      <3> HIDE DEF w
      <3> QED
        BY <1>5, <3>1 DEF SummaryByWord
    <2> QED
      BY <2>1, <2>2
  <1> QED
    BY <1>4, <1>5

\* Two words with the same summary bit are one word.
LEMMA OneWord ==
  ASSUME NEW v \in L0Word, NEW w \in L0Word, v \div W = w \div W, v % W = w % W
  PROVE  v = w
  <1>1. W \in Nat /\ W > 0 /\ v \in Nat /\ w \in Nat
    BY Addressing
  <1>2. v = W * (v \div W) + (v % W)
    BY <1>1, Quotient
  <1>3. w = W * (w \div W) + (w % W)
    BY <1>1, Quotient
  <1> QED
    BY <1>2, <1>3

Inv == TypeOK /\ SummaryExact

LEMMA InitInv == Init => Inv
  <1> SUFFICES ASSUME Init
               PROVE  Inv
    OBVIOUS
  <1>1. TypeOK
    BY DEF Init, TypeOK
  <1>2. \A w \in L0Word : l0[w] = {} /\ l1[w \div W] = {}
    BY Addressing DEF Init
  <1>3. \A w1 \in L1Word : l1[w1] = {}
    BY DEF Init
  <1>4. SummaryByWord
    BY <1>2, <1>3 DEF SummaryByWord
  <1> QED
    BY <1>1, <1>4, ByWord DEF Inv

\* A step that changes one word, and sets or drops its summary bit as the word
\* has bits or not, keeps the summary exact.
LEMMA WordUpdate ==
  ASSUME Inv, NEW w \in L0Word, NEW v \in SUBSET Bit,
         l0' = [l0 EXCEPT ![w] = v],
         \A w1 \in L1Word : l1'[w1] =
           IF w1 # w \div W THEN l1[w1]
           ELSE IF v = {} THEN l1[w1] \ {w % W} ELSE l1[w1] \union {w % W},
         l1' \in [L1Word -> SUBSET Bit]
  PROVE  Inv'
  <1>1. TypeOK'
    BY DEF Inv, TypeOK
  <1>2. SummaryByWord
    BY ByWord DEF Inv
  <1>3. SummaryByWord'
    <2>1. ASSUME NEW u \in L0Word
          PROVE  u % W \in l1'[u \div W] <=> l0'[u] # {}
      <3>1. l0'[u] = IF u = w THEN v ELSE l0[u]
        BY DEF Inv, TypeOK
      <3>2. u % W \in l1[u \div W] <=> l0[u] # {}
        BY <1>2 DEF SummaryByWord
      <3>3. u \div W \in L1Word /\ w \div W \in L1Word
        BY Addressing
      <3>4. CASE u = w
        BY <3>1, <3>3, <3>4
      <3>5. CASE u # w
        <4>1. u \div W # w \div W \/ u % W # w % W
          BY <3>5, OneWord
        <4>2. u % W \in l1'[u \div W] <=> u % W \in l1[u \div W]
          BY <3>3, <4>1
        <4> QED
          BY <3>1, <3>2, <3>5, <4>2
      <3> QED
        BY <3>4, <3>5
    <2>2. ASSUME NEW w1 \in L1Word, NEW b \in l1'[w1]
          PROVE  \E u \in L0Word : u \div W = w1 /\ u % W = b
      <3>1. b \in l1[w1] \/ (w1 = w \div W /\ b = w % W)
        BY <2>2
      <3> QED
        BY <1>2, <3>1 DEF SummaryByWord
    <2> QED
      BY <2>1, <2>2 DEF SummaryByWord
  <1>4. TypeOK' => (SummaryExact' <=> SummaryByWord')
    BY ByWord, PTL
  <1> QED
    BY <1>1, <1>3, <1>4 DEF Inv

LEMMA NextInv == Inv /\ [Next]_vars => Inv'
  <1> SUFFICES ASSUME Inv, [Next]_vars
               PROVE  Inv'
    OBVIOUS
  <1>1. ASSUME NEW s \in Slot, set(s)
        PROVE  Inv'
    <2> DEFINE w == s \div W
               v == l0[w] \union {s % W}
    <2>1. w \in L0Word /\ s % W \in Bit /\ w \div W \in L1Word /\ w % W \in Bit
      BY Addressing
    <2>2. v \in SUBSET Bit /\ v # {}
      BY <2>1 DEF Inv, TypeOK
    <2>3. /\ l0' = [l0 EXCEPT ![w] = v]
          /\ l1' = [l1 EXCEPT ![w \div W] = @ \union {w % W}]
      BY <1>1 DEF set, SummaryBit, W
    <2>4. /\ l1' \in [L1Word -> SUBSET Bit]
          /\ \A w1 \in L1Word : l1'[w1] =
               IF w1 # w \div W THEN l1[w1] ELSE l1[w1] \union {w % W}
      BY <2>1, <2>3 DEF Inv, TypeOK
    <2> HIDE DEF w, v
    <2> QED
      BY <2>1, <2>2, <2>3, <2>4, WordUpdate
  <1>2. ASSUME NEW s \in Slot, clear(s)
        PROVE  Inv'
    <2> DEFINE w == s \div W
               v == l0[w] \ {s % W}
    <2>1. w \in L0Word /\ w \div W \in L1Word /\ w % W \in Bit
      BY Addressing
    <2>2. v \in SUBSET Bit
      BY <2>1 DEF Inv, TypeOK
    <2>3. /\ l0' = [l0 EXCEPT ![w] = v]
          /\ l1' = IF v = {} THEN [l1 EXCEPT ![w \div W] = @ \ {w % W}] ELSE l1
          /\ s % W \in l0[w]
      BY <1>2 DEF clear, Summary, Marked, W
    <2>4. w % W \in l1[w \div W]
      <3>1. SummaryByWord
        BY ByWord DEF Inv
      <3> QED
        BY <2>1, <2>3, <3>1 DEF SummaryByWord
    <2> HIDE DEF w, v
    <2>5. /\ l1' \in [L1Word -> SUBSET Bit]
          /\ \A w1 \in L1Word : l1'[w1] =
               IF w1 # w \div W THEN l1[w1]
               ELSE IF v = {} THEN l1[w1] \ {w % W} ELSE l1[w1] \union {w % W}
      <3>1. CASE v = {}
        BY <2>1, <2>3, <3>1 DEF Inv, TypeOK
      <3>2. CASE v # {}
        BY <2>1, <2>3, <2>4, <3>2 DEF Inv, TypeOK
      <3> QED
        BY <3>1, <3>2
    <2> QED
      BY <2>1, <2>2, <2>3, <2>5, WordUpdate
  <1>3. CASE UNCHANGED vars
    BY <1>3 DEF vars, Inv, TypeOK, SummaryExact
  <1> QED
    BY <1>1, <1>2, <1>3 DEF Next

THEOREM BitmapInvariant == Spec => []Inv
  BY InitInv, NextInv, PTL DEF Spec

\* The summary never lies about a word, for words of any width.
THEOREM SummaryIsExact == Spec => []SummaryExact
  <1>1. Inv => SummaryExact
    BY DEF Inv
  <1> QED
    BY <1>1, BitmapInvariant, PTL

-----------------------------------------------------------------------------
(* The searches *)

\* Slots, and words, are in the order of their words, then of their bits.
LEMMA SlotOrder ==
  /\ \A s, t \in Slot :
       s <= t <=> \/ s \div W < t \div W
                  \/ s \div W = t \div W /\ s % W <= t % W
  /\ \A v, w \in L0Word :
       v <= w <=> \/ v \div W < w \div W
                  \/ v \div W = w \div W /\ v % W <= w % W
  BY Addressing, WordOrder

\* The numbers that the searches compare.
LEMMA Numbers ==
  /\ \A s \in Slot : s \in Nat /\ s \div W \in Nat /\ s % W \in Nat
  /\ \A w \in L0Word : w \in Nat /\ w \div W \in Nat /\ w % W \in Nat
  /\ \A w1 \in L1Word : w1 \in Nat
  /\ \A b \in Bit : b \in Nat
  <1>1. W \in Nat /\ W > 0 /\ L0_WORDS \in Nat /\ L1_WORDS \in Nat
    BY Addressing
  <1>2. \A s \in Slot : s \in Nat
    BY Addressing
  <1>3. \A w \in L0Word : w \in Nat
    BY Addressing
  <1>4. (\A w1 \in L1Word : w1 \in Nat) /\ (\A b \in Bit : b \in Nat)
    BY <1>1 DEF L1Word, Bit, W
  <1> QED
    BY <1>1, <1>2, <1>3, <1>4, Division

\* From a marked slot to its word's summary bit, and from a summary bit, or a
\* bit of a word, to a marked slot.
LEMMA Paths ==
  ASSUME Inv
  PROVE  /\ \A s \in Marked :
              /\ s \in Slot /\ s \div W \in L0Word /\ (s \div W) \div W \in L1Word
              /\ s % W \in l0[s \div W]
              /\ (s \div W) % W \in l1[(s \div W) \div W]
         /\ \A w1 \in L1Word : \A b \in l1[w1] :
              \E s \in Marked : (s \div W) \div W = w1 /\ (s \div W) % W = b
         /\ \A w \in L0Word : \A b \in l0[w] :
              \E s \in Marked : s \div W = w /\ s % W = b
  <1>1. SummaryByWord /\ TypeOK
    BY ByWord DEF Inv
  <1>2. ASSUME NEW s \in Marked
        PROVE  /\ s \in Slot /\ s \div W \in L0Word /\ (s \div W) \div W \in L1Word
               /\ s % W \in l0[s \div W]
               /\ (s \div W) % W \in l1[(s \div W) \div W]
    <2>1. s \in Slot /\ s % W \in l0[s \div W]
      BY <1>2 DEF Marked, W
    <2>2. s \div W \in L0Word
      BY <2>1, Addressing
    <2>3. (s \div W) \div W \in L1Word
      BY <2>2, Addressing
    <2>4. (s \div W) % W \in l1[(s \div W) \div W]
      BY <1>1, <2>1, <2>2 DEF SummaryByWord
    <2> QED
      BY <2>1, <2>2, <2>3, <2>4
  <1>3. ASSUME NEW w \in L0Word, NEW b \in l0[w]
        PROVE  \E s \in Marked : s \div W = w /\ s % W = b
    <2>1. b \in Bit
      BY <1>1 DEF TypeOK
    <2> DEFINE s == W * w + b
    <2>2. s \in Slot /\ s \div W = w /\ s % W = b
      BY <2>1, Addressing
    <2> HIDE DEF s
    <2>3. s \in Marked
      BY <2>2 DEF Marked, W
    <2> QED
      BY <2>2, <2>3
  <1>4. ASSUME NEW w1 \in L1Word, NEW b \in l1[w1]
        PROVE  \E s \in Marked : (s \div W) \div W = w1 /\ (s \div W) % W = b
    <2>1. PICK w \in L0Word : w \div W = w1 /\ w % W = b
      BY <1>1, <1>4 DEF SummaryByWord
    <2>2. l0[w] # {}
      BY <1>1, <1>4, <2>1 DEF SummaryByWord
    <2>3. PICK c \in l0[w] : TRUE
      BY <2>2
    <2>4. PICK s \in Marked : s \div W = w
      BY <1>3, <2>3
    <2> QED
      BY <2>1, <2>4
  <1> QED
    BY <1>2, <1>3, <1>4

\* find_highest is the highest marked slot.
LEMMA HighestFound ==
  ASSUME Inv
  PROVE  find_highest = {s \in Marked : \A t \in Marked : t <= s}
  <1>1. ASSUME NEW s \in find_highest
        PROVE  s \in Marked /\ \A t \in Marked : t <= s
    <2> DEFINE w  == s \div W
               w1 == w \div W
    <2>1. /\ s \in Slot /\ l1[w1] # {}
          /\ \A v1 \in L1Word : w1 < v1 => l1[v1] = {}
          /\ w % W \in l1[w1] /\ \A c \in l1[w1] : c <= w % W
          /\ s % W \in clz64(l0[w])
      BY <1>1 DEF find_highest, clz64, W
    <2>2. w \in L0Word /\ w1 \in L1Word
      BY <2>1, Addressing
    <2>3. l0[w] # {}
      BY <2>1, <2>2, ByWord DEF Inv, SummaryByWord
    <2>4. s % W \in l0[w] /\ \A c \in l0[w] : c <= s % W
      BY <2>1, <2>3 DEF clz64
    <2>5. s \in Marked
      BY <2>1, <2>4 DEF Marked, W
    <2>6. ASSUME NEW t \in Marked
          PROVE  t <= s
      <3> DEFINE v  == t \div W
                 v1 == v \div W
      <3>1. /\ t \in Slot /\ v \in L0Word /\ v1 \in L1Word
            /\ t % W \in l0[v] /\ v % W \in l1[v1]
        BY Paths
      <3>2. ~(w1 < v1)
        BY <2>1, <3>1
      <3>3. v1 = w1 => v % W <= w % W
        BY <2>1, <3>1
      <3>4. v <= w
        BY <2>2, <3>1, <3>2, <3>3, SlotOrder, Numbers
      <3>5. v = w => t % W <= s % W
        BY <2>4, <3>1
      <3>6. s \in Nat /\ t \in Nat /\ v \in Nat /\ w \in Nat
        BY <2>1, <3>1, Numbers
      <3>7. v < w \/ v = w
        BY <3>4, <3>6
      <3> QED
        BY <2>1, <3>1, <3>5, <3>7, SlotOrder
    <2> QED
      BY <2>5, <2>6
  <1>2. ASSUME NEW s \in Marked, \A t \in Marked : t <= s
        PROVE  s \in find_highest
    <2> DEFINE w  == s \div W
               w1 == w \div W
    <2>1. /\ s \in Slot /\ w \in L0Word /\ w1 \in L1Word
          /\ s % W \in l0[w] /\ w % W \in l1[w1]
      BY Paths
    <2>2. ASSUME NEW t \in Marked
          PROVE  /\ t \div W <= w
                 /\ (t \div W) \div W <= w1
                 /\ (t \div W) \div W = w1 => (t \div W) % W <= w % W
                 /\ t \div W = w => t % W <= s % W
      <3> DEFINE v  == t \div W
                 v1 == v \div W
      <3>1. t \in Slot /\ v \in L0Word /\ v1 \in L1Word /\ t <= s
        BY <1>2, Paths
      <3>2. /\ s \in Nat /\ t \in Nat /\ v \in Nat /\ w \in Nat /\ v1 \in Nat /\ w1 \in Nat
            /\ s % W \in Nat /\ t % W \in Nat /\ v % W \in Nat /\ w % W \in Nat
        BY <2>1, <3>1, Numbers
      <3>3. v < w \/ (v = w /\ t % W <= s % W)
        BY <2>1, <3>1, SlotOrder
      <3>4. v <= w
        BY <3>2, <3>3
      <3>5. v1 < w1 \/ (v1 = w1 /\ v % W <= w % W)
        BY <2>1, <3>1, <3>4, SlotOrder
      <3>6. v1 <= w1
        BY <3>2, <3>5
      <3>7. v1 = w1 => v % W <= w % W
        BY <3>2, <3>5
      <3>8. v = w => t % W <= s % W
        BY <3>2, <3>3
      <3> QED
        BY <3>4, <3>6, <3>7, <3>8
    <2>3. ASSUME NEW v1 \in L1Word, w1 < v1
          PROVE  l1[v1] = {}
      <3> SUFFICES ASSUME NEW b \in l1[v1]
                   PROVE  FALSE
        OBVIOUS
      <3>1. PICK t \in Marked : (t \div W) \div W = v1
        BY Paths
      <3>2. v1 <= w1
        BY <2>2, <3>1
      <3>3. v1 \in Nat /\ w1 \in Nat
        BY <2>1, Numbers
      <3> QED
        BY <2>3, <3>2, <3>3
    <2>4. ASSUME NEW c \in l1[w1]
          PROVE  c <= w % W
      <3>1. PICK t \in Marked : (t \div W) \div W = w1 /\ (t \div W) % W = c
        BY <2>1, Paths
      <3> QED
        BY <2>2, <3>1
    <2>5. ASSUME NEW c \in l0[w]
          PROVE  c <= s % W
      <3>1. PICK t \in Marked : t \div W = w /\ t % W = c
        BY <2>1, Paths
      <3> QED
        BY <2>2, <3>1
    <2>6. l1[w1] # {} /\ l0[w] # {}
      BY <2>1
    <2>7. w % W \in clz64(l1[w1])
      BY <2>1, <2>4, <2>6 DEF clz64
    <2>8. s % W \in clz64(l0[w])
      BY <2>1, <2>5, <2>6 DEF clz64
    <2> QED
      BY <2>1, <2>3, <2>6, <2>7, <2>8 DEF find_highest, W
  <1>3. find_highest \subseteq Slot /\ find_lowest \subseteq Slot
    BY DEF find_highest, find_lowest
  <1> QED
    BY <1>1, <1>2, <1>3

\* find_lowest is the lowest marked slot.
LEMMA LowestFound ==
  ASSUME Inv
  PROVE  find_lowest = {s \in Marked : \A t \in Marked : s <= t}
  <1>1. ASSUME NEW s \in find_lowest
        PROVE  s \in Marked /\ \A t \in Marked : s <= t
    <2> DEFINE w  == s \div W
               w1 == w \div W
    <2>1. /\ s \in Slot /\ l1[w1] # {}
          /\ \A v1 \in L1Word : v1 < w1 => l1[v1] = {}
          /\ w % W \in l1[w1] /\ \A c \in l1[w1] : w % W <= c
          /\ s % W \in ctz64(l0[w])
      BY <1>1 DEF find_lowest, ctz64, W
    <2>2. w \in L0Word /\ w1 \in L1Word
      BY <2>1, Addressing
    <2>3. l0[w] # {}
      BY <2>1, <2>2, ByWord DEF Inv, SummaryByWord
    <2>4. s % W \in l0[w] /\ \A c \in l0[w] : s % W <= c
      BY <2>1, <2>3 DEF ctz64
    <2>5. s \in Marked
      BY <2>1, <2>4 DEF Marked, W
    <2>6. ASSUME NEW t \in Marked
          PROVE  s <= t
      <3> DEFINE v  == t \div W
                 v1 == v \div W
      <3>1. /\ t \in Slot /\ v \in L0Word /\ v1 \in L1Word
            /\ t % W \in l0[v] /\ v % W \in l1[v1]
        BY Paths
      <3>2. ~(v1 < w1)
        BY <2>1, <3>1
      <3>3. v1 = w1 => v % W >= w % W
        BY <2>1, <3>1
      <3>4. v >= w
        BY <2>2, <3>1, <3>2, <3>3, SlotOrder, Numbers
      <3>5. v = w => t % W >= s % W
        BY <2>4, <3>1
      <3>6. s \in Nat /\ t \in Nat /\ v \in Nat /\ w \in Nat
        BY <2>1, <3>1, Numbers
      <3>7. v > w \/ v = w
        BY <3>4, <3>6
      <3> QED
        BY <2>1, <3>1, <3>5, <3>7, SlotOrder
    <2> QED
      BY <2>5, <2>6
  <1>2. ASSUME NEW s \in Marked, \A t \in Marked : s <= t
        PROVE  s \in find_lowest
    <2> DEFINE w  == s \div W
               w1 == w \div W
    <2>1. /\ s \in Slot /\ w \in L0Word /\ w1 \in L1Word
          /\ s % W \in l0[w] /\ w % W \in l1[w1]
      BY Paths
    <2>2. ASSUME NEW t \in Marked
          PROVE  /\ t \div W >= w
                 /\ (t \div W) \div W >= w1
                 /\ (t \div W) \div W = w1 => (t \div W) % W >= w % W
                 /\ t \div W = w => t % W >= s % W
      <3> DEFINE v  == t \div W
                 v1 == v \div W
      <3>1. t \in Slot /\ v \in L0Word /\ v1 \in L1Word /\ s <= t
        BY <1>2, Paths
      <3>2. /\ s \in Nat /\ t \in Nat /\ v \in Nat /\ w \in Nat /\ v1 \in Nat /\ w1 \in Nat
            /\ s % W \in Nat /\ t % W \in Nat /\ v % W \in Nat /\ w % W \in Nat
        BY <2>1, <3>1, Numbers
      <3>3. v > w \/ (v = w /\ t % W >= s % W)
        BY <2>1, <3>1, SlotOrder
      <3>4. v >= w
        BY <3>2, <3>3
      <3>5. v1 > w1 \/ (v1 = w1 /\ v % W >= w % W)
        BY <2>1, <3>1, <3>4, SlotOrder
      <3>6. v1 >= w1
        BY <3>2, <3>5
      <3>7. v1 = w1 => v % W >= w % W
        BY <3>2, <3>5
      <3>8. v = w => t % W >= s % W
        BY <3>2, <3>3
      <3> QED
        BY <3>4, <3>6, <3>7, <3>8
    <2>3. ASSUME NEW v1 \in L1Word, v1 < w1
          PROVE  l1[v1] = {}
      <3> SUFFICES ASSUME NEW b \in l1[v1]
                   PROVE  FALSE
        OBVIOUS
      <3>1. PICK t \in Marked : (t \div W) \div W = v1
        BY Paths
      <3>2. v1 >= w1
        BY <2>2, <3>1
      <3>3. v1 \in Nat /\ w1 \in Nat
        BY <2>1, Numbers
      <3> QED
        BY <2>3, <3>2, <3>3
    <2>4. ASSUME NEW c \in l1[w1]
          PROVE  w % W <= c
      <3>1. PICK t \in Marked : (t \div W) \div W = w1 /\ (t \div W) % W = c
        BY <2>1, Paths
      <3> QED
        BY <2>2, <3>1
    <2>5. ASSUME NEW c \in l0[w]
          PROVE  s % W <= c
      <3>1. PICK t \in Marked : t \div W = w /\ t % W = c
        BY <2>1, Paths
      <3> QED
        BY <2>2, <3>1
    <2>6. l1[w1] # {} /\ l0[w] # {}
      BY <2>1
    <2>7. w % W \in ctz64(l1[w1])
      BY <2>1, <2>4, <2>6 DEF ctz64
    <2>8. s % W \in ctz64(l0[w])
      BY <2>1, <2>5, <2>6 DEF ctz64
    <2> QED
      BY <2>1, <2>3, <2>6, <2>7, <2>8 DEF find_lowest, W
  <1>3. find_highest \subseteq Slot /\ find_lowest \subseteq Slot
    BY DEF find_highest, find_lowest
  <1> QED
    BY <1>1, <1>2, <1>3

\* The bitmap leads the matching loop to the best bid and the best ask, in a
\* window of any number of whole words.
THEOREM BestLevelsFound == Spec => []SearchesExact
  <1>1. Inv => SearchesExact
    BY HighestFound, LowestFound DEF SearchesExact
  <1> QED
    BY <1>1, BitmapInvariant, PTL
-----------------------------------------------------------------------------
(* What the bitmap is for its users *)

LEMMA OneSlot ==
  ASSUME NEW s \in Slot, NEW t \in Slot, s \div W = t \div W, s % W = t % W
  PROVE  s = t
  <1>1. W \in Nat /\ W > 0 /\ s \in Nat /\ t \in Nat
    BY Addressing
  <1>2. s = W * (s \div W) + (s % W)
    BY <1>1, Quotient
  <1>3. t = W * (t \div W) + (t % W)
    BY <1>1, Quotient
  <1> QED
    BY <1>2, <1>3

LEMMA SetMarks ==
  ASSUME TypeOK, NEW s \in Slot, set(s)
  PROVE  Marked' = Marked \union {s}
  <1>1. s \div W \in L0Word /\ s % W \in Bit
    BY Addressing
  <1>2. l0' = [l0 EXCEPT ![s \div W] = l0[s \div W] \union {s % W}]
    BY DEF set, W
  <1>3. ASSUME NEW t \in Slot
        PROVE  t % W \in l0'[t \div W] <=> t % W \in l0[t \div W] \/ t = s
    <2>1. t \div W \in L0Word
      BY Addressing
    <2>2. CASE t \div W = s \div W
      <3>1. l0'[t \div W] = l0[t \div W] \union {s % W}
        BY <1>1, <1>2, <2>2 DEF TypeOK
      <3>2. t % W = s % W <=> t = s
        BY <2>2, OneSlot
      <3> QED
        BY <3>1, <3>2
    <2>3. CASE t \div W # s \div W
      <3>1. l0'[t \div W] = l0[t \div W]
        BY <1>1, <1>2, <2>1, <2>3 DEF TypeOK
      <3> QED
        BY <2>3, <3>1
    <2> QED
      BY <2>2, <2>3
  <1> QED
    BY <1>3 DEF Marked, W

LEMMA ClearMarks ==
  ASSUME TypeOK, NEW s \in Slot, clear(s)
  PROVE  Marked' = Marked \ {s}
  <1>1. s \div W \in L0Word /\ s % W \in Bit
    BY Addressing
  <1>2. l0' = [l0 EXCEPT ![s \div W] = l0[s \div W] \ {s % W}]
    BY DEF clear, W
  <1>3. ASSUME NEW t \in Slot
        PROVE  t % W \in l0'[t \div W] <=> t % W \in l0[t \div W] /\ t # s
    <2>1. t \div W \in L0Word
      BY Addressing
    <2>2. CASE t \div W = s \div W
      <3>1. l0'[t \div W] = l0[t \div W] \ {s % W}
        BY <1>1, <1>2, <2>2 DEF TypeOK
      <3>2. t % W = s % W <=> t = s
        BY <2>2, OneSlot
      <3> QED
        BY <3>1, <3>2
    <2>3. CASE t \div W # s \div W
      <3>1. l0'[t \div W] = l0[t \div W]
        BY <1>1, <1>2, <2>1, <2>3 DEF TypeOK
      <3> QED
        BY <2>3, <3>1
    <2> QED
      BY <2>2, <2>3
  <1> QED
    BY <1>3 DEF Marked, W

-----------------------------------------------------------------------------
(***************************************************************************)
(* The visitors. What a walk that falls or rises visits is ranked: the     *)
(* number of rank k is the one with k - 1 of the set before it.            *)
(***************************************************************************)

Before(d, n, m) == IF d = "falling" THEN m < n ELSE n < m

Passed(d, S, n) == {m \in S : Before(d, m, n)}

Ranked(d, S) == [k \in 1 .. Cardinality(S) |-> CHOOSE n \in S : Cardinality(Passed(d, S, n)) = k - 1]

LEMMA RankedSets ==
  ASSUME NEW S
  PROVE  Falling(S) = Ranked("falling", S) /\ Rising(S) = Ranked("rising", S)
  BY DEF Falling, Rising, Ranked, Passed, Before

\* The n numbers q are those of S, each once and in order.
Sorts(d, S, q, n) ==
  /\ n \in Nat
  /\ q \in [1 .. n -> S]
  /\ \A j, k \in 1 .. n : j < k => Before(d, q[j], q[k])
  /\ \A s \in S : \E k \in 1 .. n : q[k] = s

LEMMA BeforeOrder ==
  ASSUME NEW d, NEW a \in Nat, NEW b \in Nat, NEW c \in Nat
  PROVE  /\ ~Before(d, a, a)
         /\ a = b \/ Before(d, a, b) \/ Before(d, b, a)
         /\ Before(d, a, b) /\ Before(d, b, c) => Before(d, a, c)
         /\ ~(Before(d, a, b) /\ Before(d, b, a))
  BY DEF Before

\* Of two numbers of a finite set, the one behind has more before it.
LEMMA RankOrder ==
  ASSUME NEW d, NEW S, S \subseteq Nat, IsFiniteSet(S), NEW a \in S, NEW b \in S
  PROVE  /\ Cardinality(Passed(d, S, a)) \in 0 .. Cardinality(S) - 1
         /\ Before(d, a, b) => Cardinality(Passed(d, S, a)) < Cardinality(Passed(d, S, b))
         /\ Cardinality(Passed(d, S, a)) = Cardinality(Passed(d, S, b)) => a = b
  <1>1. ASSUME NEW n \in S
        PROVE  /\ Passed(d, S, n) \in SUBSET S /\ n \notin Passed(d, S, n)
               /\ IsFiniteSet(Passed(d, S, n)) /\ Cardinality(Passed(d, S, n)) \in Nat
    <2>1. Passed(d, S, n) \in SUBSET S
      BY DEF Passed
    <2>2. n \notin Passed(d, S, n)
      BY BeforeOrder DEF Passed
    <2>3. IsFiniteSet(Passed(d, S, n))
      BY <2>1, FS_Subset
    <2> QED
      BY <2>1, <2>2, <2>3, FS_CardinalityType
  <1>2. ASSUME NEW n \in S, NEW T, T \in SUBSET S, Passed(d, S, n) \union {n} \subseteq T
        PROVE  Cardinality(Passed(d, S, n)) < Cardinality(T)
    <2> DEFINE P == Passed(d, S, n)
    <2>1. IsFiniteSet(P) /\ n \notin P /\ Cardinality(P) \in Nat
      BY <1>1
    <2>2. IsFiniteSet(T) /\ Cardinality(T) \in Nat
      BY <1>2, FS_Subset, FS_CardinalityType
    <2>3. P \union {n} \in SUBSET T
      BY <1>2
    <2> HIDE DEF P
    <2>4. Cardinality(P \union {n}) = Cardinality(P) + 1
      BY <2>1, FS_AddElement
    <2>5. Cardinality(P \union {n}) <= Cardinality(T)
      BY <2>2, <2>3, FS_Subset
    <2>6. Cardinality(P) < Cardinality(T)
      BY <2>1, <2>2, <2>4, <2>5
    <2> QED
      BY <2>6 DEF P
  <1>3. Cardinality(S) \in Nat
    BY FS_CardinalityType
  <1>4. Cardinality(Passed(d, S, a)) < Cardinality(S)
    BY <1>1, <1>2
  <1>5. ASSUME NEW x \in S, NEW y \in S, Before(d, x, y)
        PROVE  Cardinality(Passed(d, S, x)) < Cardinality(Passed(d, S, y))
    <2>1. Passed(d, S, x) \union {x} \subseteq Passed(d, S, y)
      <3>1. ASSUME NEW m \in S, Before(d, m, x)
            PROVE  Before(d, m, y)
        BY <1>5, <3>1, BeforeOrder
      <3> QED
        BY <1>5, <3>1 DEF Passed
    <2> QED
      BY <1>1, <1>2, <2>1
  <1>6. a = b \/ Before(d, a, b) \/ Before(d, b, a)
    BY BeforeOrder
  <1>7. \A x, y \in S : Before(d, x, y) => Cardinality(Passed(d, S, x)) < Cardinality(Passed(d, S, y))
    BY <1>5
  <1>8. /\ Cardinality(Passed(d, S, a)) \in Nat
        /\ Cardinality(Passed(d, S, b)) \in Nat
    BY <1>1
  <1> DEFINE ra == Cardinality(Passed(d, S, a))
             rb == Cardinality(Passed(d, S, b))
  <1>9. /\ Before(d, a, b) => ra < rb
        /\ Before(d, b, a) => rb < ra
    BY <1>7
  <1> HIDE DEF ra, rb
  <1>10. ra \in Nat /\ rb \in Nat /\ ra < Cardinality(S)
    BY <1>4, <1>8 DEF ra, rb
  <1>11. ra \in 0 .. Cardinality(S) - 1 /\ (Before(d, a, b) => ra < rb) /\ (ra = rb => a = b)
    BY <1>3, <1>6, <1>9, <1>10
  <1> QED
    BY <1>11 DEF ra, rb

\* Every finite set of numbers is sorted by the ranks.
LEMMA RankedSorts ==
  ASSUME NEW d, NEW S, S \subseteq Nat, IsFiniteSet(S)
  PROVE  Sorts(d, S, Ranked(d, S), Cardinality(S))
  <1> DEFINE n == Cardinality(S)
             r == [a \in S |-> Cardinality(Passed(d, S, a)) + 1]
             q == Ranked(d, S)
  <1>1. n \in Nat
    BY FS_CardinalityType
  <1>2. \A a, b \in S : /\ Cardinality(Passed(d, S, a)) \in 0 .. n - 1
                        /\ Before(d, a, b) => Cardinality(Passed(d, S, a)) < Cardinality(Passed(d, S, b))
                        /\ Cardinality(Passed(d, S, a)) = Cardinality(Passed(d, S, b)) => a = b
    BY RankOrder
  <1>3. \A a \in S : r[a] = Cardinality(Passed(d, S, a)) + 1 /\ r[a] \in 1 .. n
    BY <1>1, <1>2
  <1>4. \A a, b \in S : r[a] = r[b] => a = b
    BY <1>2, <1>3
  <1>5. r \in [S -> 1 .. n]
    BY <1>3
  <1>6. r \in Injection(S, 1 .. n)
    BY <1>4, <1>5 DEF Injection, IsInjective
  <1>7. IsFiniteSet(1 .. n) /\ Cardinality(1 .. n) = n
    BY <1>1, FS_Interval
  <1>8. r \in Surjection(S, 1 .. n)
    BY <1>6, <1>7, FS_Injection
  <1>9. \A k \in 1 .. n : \E a \in S : r[a] = k
    BY <1>8 DEF Surjection
  <1>10. ASSUME NEW k \in 1 .. n
         PROVE  q[k] \in S /\ r[q[k]] = k
    <2>1. PICK a \in S : r[a] = k
      BY <1>9
    <2>2. Cardinality(Passed(d, S, a)) = k - 1
      BY <1>2, <1>3, <2>1
    <2>3. q[k] = CHOOSE b \in S : Cardinality(Passed(d, S, b)) = k - 1
      BY DEF Ranked
    <2>4. q[k] \in S /\ Cardinality(Passed(d, S, q[k])) = k - 1
      BY <2>2, <2>3, Zenon
    <2> QED
      BY <1>1, <1>3, <2>4
  <1>11. q \in [1 .. n -> S]
    <2>1. q = [k \in 1 .. n |-> q[k]]
      BY DEF Ranked
    <2> QED
      BY <1>10, <2>1
  <1> HIDE DEF q, r, n
  <1>12. ASSUME NEW j \in 1 .. n, NEW k \in 1 .. n, j < k
         PROVE  Before(d, q[j], q[k])
    <2>1. /\ q[j] \in S /\ q[k] \in S /\ q[j] \in Nat /\ q[k] \in Nat
          /\ r[q[j]] = j /\ r[q[k]] = k
      BY <1>10
    <2>2. q[j] = q[k] \/ Before(d, q[j], q[k]) \/ Before(d, q[k], q[j])
      BY <2>1, BeforeOrder
    <2>3. Before(d, q[k], q[j]) => r[q[k]] < r[q[j]]
      BY <1>2, <1>3, <2>1
    <2>4. j \in Nat /\ k \in Nat
      BY <1>1
    <2> QED
      BY <1>12, <2>1, <2>2, <2>3, <2>4
  <1>13. ASSUME NEW s \in S
         PROVE  \E k \in 1 .. n : q[k] = s
    <2>1. r[s] \in 1 .. n
      BY <1>3
    <2>2. q[r[s]] = s
      BY <1>4, <1>10, <2>1
    <2> QED
      BY <2>1, <2>2
  <1>14. Sorts(d, S, q, n)
    BY <1>1, <1>11, <1>12, <1>13 DEF Sorts
  <1> QED
    BY <1>14 DEF q, n

\* There is one way to sort a set.
LEMMA SortedOnce ==
  ASSUME NEW d, NEW S, S \subseteq Nat, NEW q, NEW n, Sorts(d, S, q, n)
  PROVE  IsFiniteSet(S) /\ Cardinality(S) = n /\ q = Ranked(d, S)
  <1>1. /\ n \in Nat /\ q \in [1 .. n -> S]
        /\ \A j, k \in 1 .. n : j < k => Before(d, q[j], q[k])
        /\ \A s \in S : \E k \in 1 .. n : q[k] = s
    BY DEF Sorts
  <1>2. \A k \in 1 .. n : q[k] \in S /\ q[k] \in Nat
    BY <1>1
  <1>3. ASSUME NEW j \in 1 .. n, NEW k \in 1 .. n
        PROVE  /\ Before(d, q[j], q[k]) <=> j < k
               /\ q[j] = q[k] => j = k
    <2>1. j < k \/ j = k \/ k < j
      BY <1>1
    <2>2. /\ ~Before(d, q[k], q[k]) /\ ~(Before(d, q[j], q[k]) /\ Before(d, q[k], q[j]))
          /\ q[j] \in Nat /\ q[k] \in Nat
      BY <1>2, BeforeOrder
    <2>3. (j < k => Before(d, q[j], q[k])) /\ (k < j => Before(d, q[k], q[j]))
      BY <1>1
    <2>4. j = k => ~(j < k)
      BY <1>1
    <2>5. k < j => ~(j < k)
      BY <1>1
    <2> QED
      BY <2>1, <2>2, <2>3, <2>4, <2>5
  <1>4. ASSUME NEW k \in 0 .. n
        PROVE  /\ IsFiniteSet({q[j] : j \in 1 .. k})
               /\ Cardinality({q[j] : j \in 1 .. k}) = k
    <2> DEFINE T == {q[j] : j \in 1 .. k}
               f == [j \in 1 .. k |-> q[j]]
    <2>1. \A j \in 1 .. k : j \in 1 .. n
      BY <1>1
    <2>2. f \in [1 .. k -> T]
      OBVIOUS
    <2>3. f \in Injection(1 .. k, T)
      BY <1>3, <2>1, <2>2 DEF Injection, IsInjective
    <2>4. f \in Surjection(1 .. k, T)
      BY <2>2 DEF Surjection
    <2>5. ExistsBijection(1 .. k, T)
      BY <2>3, <2>4 DEF ExistsBijection, Bijection
    <2> HIDE DEF T, f
    <2>6. IsFiniteSet(1 .. k) /\ Cardinality(1 .. k) = k
      BY <1>1, FS_Interval
    <2>7. IsFiniteSet(T) /\ Cardinality(T) = k
      BY <2>5, <2>6, FS_Bijection
    <2> QED
      BY <2>7 DEF T
  <1>5. S = {q[j] : j \in 1 .. n}
    <2>1. \A s \in S : s \in {q[j] : j \in 1 .. n}
      BY <1>1
    <2>2. \A j \in 1 .. n : q[j] \in S
      BY <1>2
    <2> QED
      BY <2>1, <2>2
  <1>6. IsFiniteSet(S) /\ Cardinality(S) = n
    <2>1. n \in 0 .. n
      BY <1>1
    <2>2. IsFiniteSet({q[j] : j \in 1 .. n}) /\ Cardinality({q[j] : j \in 1 .. n}) = n
      BY <1>4, <2>1, Zenon
    <2> QED
      BY <1>5, <2>2, Zenon
  <1>7. ASSUME NEW k \in 1 .. n
        PROVE  q[k] = CHOOSE s \in S : Cardinality(Passed(d, S, s)) = k - 1
    <2>1. Passed(d, S, q[k]) = {q[j] : j \in 1 .. k - 1}
      <3>1. \A j \in 1 .. n : j < k <=> j \in 1 .. k - 1
        BY <1>1
      <3>2. \A j \in 1 .. k - 1 : j \in 1 .. n
        BY <1>1
      <3>3. ASSUME NEW s \in Passed(d, S, q[k])
            PROVE  s \in {q[j] : j \in 1 .. k - 1}
        <4>1. s \in S /\ Before(d, s, q[k])
          BY DEF Passed
        <4>2. PICK j \in 1 .. n : q[j] = s
          BY <1>1, <4>1
        <4>3. j \in 1 .. k - 1
          BY <1>3, <3>1, <4>1, <4>2
        <4> QED
          BY <4>2, <4>3
      <3>4. ASSUME NEW j \in 1 .. k - 1
            PROVE  q[j] \in Passed(d, S, q[k])
        <4>1. j \in 1 .. n /\ j < k
          BY <3>1, <3>2
        <4> QED
          BY <1>2, <1>3, <4>1 DEF Passed
      <3> QED
        BY <3>3, <3>4
    <2>2. k - 1 \in 0 .. n
      BY <1>1
    <2>3. Cardinality(Passed(d, S, q[k])) = k - 1
      BY <1>4, <2>1, <2>2
    <2>4. \A s \in S : Cardinality(Passed(d, S, s)) = k - 1 => s = q[k]
      BY <1>2, <1>6, <2>3, RankOrder
    <2> QED
      BY <1>2, <2>3, <2>4
  <1>8. q = [k \in 1 .. n |-> CHOOSE s \in S : Cardinality(Passed(d, S, s)) = k - 1]
    BY <1>1, <1>7
  <1> QED
    BY <1>6, <1>8 DEF Ranked

LEMMA ConcatFacts ==
  ASSUME NEW S, NEW p \in Seq(S), NEW q \in Seq(S)
  PROVE  /\ p \o q \in Seq(S)
         /\ Len(p \o q) = Len(p) + Len(q)
         /\ \A k \in 1 .. Len(p) : (p \o q)[k] = p[k]
         /\ \A k \in 1 .. Len(q) : (p \o q)[Len(p) + k] = q[k]
  OBVIOUS

LEMMA SeqIsFunction ==
  ASSUME NEW S, NEW q \in Seq(S)
  PROVE  q \in [1 .. Len(q) -> S]
  OBVIOUS

LEMMA FunctionIsSeq ==
  ASSUME NEW S, NEW n \in Nat, NEW f \in [1 .. n -> S]
  PROVE  f \in Seq(S) /\ Len(f) = n
  OBVIOUS

LEMMA JoinFacts ==
  ASSUME NEW m \in Nat, NEW n \in Nat, NEW p \in [1 .. m -> Nat], NEW q \in [1 .. n -> Nat]
  PROVE  /\ p \in Seq(Nat) /\ Len(p) = m
         /\ p \o q \in [1 .. m + n -> Nat]
         /\ \A k \in 1 .. m : (p \o q)[k] = p[k]
         /\ \A k \in 1 .. n : (p \o q)[m + k] = q[k]
  <1>1. p \in Seq(Nat) /\ Len(p) = m /\ q \in Seq(Nat) /\ Len(q) = n
    BY FunctionIsSeq
  <1> DEFINE r == p \o q
  <1>2. r \in Seq(Nat) /\ Len(r) = m + n
    BY ONLY <1>1, ConcatFacts
  <1>3. /\ \A k \in 1 .. m : r[k] = p[k]
        /\ \A k \in 1 .. n : r[m + k] = q[k]
    BY ONLY <1>1, ConcatFacts
  <1> HIDE DEF r
  <1>4. r \in [1 .. m + n -> Nat]
    BY ONLY <1>2, SeqIsFunction
  <1> QED
    BY <1>1, <1>3, <1>4 DEF r

\* One walk after another.
LEMMA JoinSorts ==
  ASSUME NEW d, NEW S, NEW T, S \subseteq Nat, T \subseteq Nat,
         NEW p, NEW m, Sorts(d, S, p, m), NEW q, NEW n, Sorts(d, T, q, n),
         \A s \in S, t \in T : Before(d, s, t)
  PROVE  Sorts(d, S \union T, p \o q, m + n)
  <1>1. /\ m \in Nat /\ p \in [1 .. m -> S] /\ n \in Nat /\ q \in [1 .. n -> T]
        /\ \A j, k \in 1 .. m : j < k => Before(d, p[j], p[k])
        /\ \A j, k \in 1 .. n : j < k => Before(d, q[j], q[k])
        /\ \A s \in S : \E k \in 1 .. m : p[k] = s
        /\ \A t \in T : \E k \in 1 .. n : q[k] = t
    BY DEF Sorts
  <1>2. p \in [1 .. m -> Nat] /\ q \in [1 .. n -> Nat]
    BY <1>1
  <1> DEFINE r == p \o q
  <1>3. /\ r \in [1 .. m + n -> Nat]
        /\ \A k \in 1 .. m : r[k] = p[k]
        /\ \A k \in 1 .. n : r[m + k] = q[k]
    <2>1. m \in Nat /\ n \in Nat
      BY <1>1
    <2> QED
      BY <1>2, <2>1, JoinFacts
  <1> HIDE DEF r
  <1>4. ASSUME NEW k \in 1 .. m + n
        PROVE  k \in 1 .. m \/ \E x \in 1 .. n : k = m + x
    <2>1. k \in 1 .. m \/ (k - m \in 1 .. n /\ k = m + (k - m))
      BY <1>1
    <2> QED
      BY <2>1
  <1>5. \A k \in 1 .. m : r[k] \in S
    BY <1>1, <1>3
  <1>6. \A k \in 1 .. n : r[m + k] \in T
    BY <1>1, <1>3
  <1>7. \A k \in 1 .. m + n : r[k] \in S \union T
    BY <1>4, <1>5, <1>6
  <1>8. r \in [1 .. m + n -> S \union T]
    BY <1>3, <1>7
  <1>9. ASSUME NEW j \in 1 .. m + n, NEW k \in 1 .. m + n, j < k
        PROVE  Before(d, r[j], r[k])
    <2>1. CASE j \in 1 .. m /\ k \in 1 .. m
      BY <1>1, <1>3, <1>9, <2>1
    <2>2. CASE j \in 1 .. m /\ \E x \in 1 .. n : k = m + x
      BY <1>5, <1>6, <2>2
    <2>3. CASE \E x \in 1 .. n : j = m + x
      <3>1. PICK x \in 1 .. n : j = m + x
        BY <2>3
      <3>2. k - m \in 1 .. n /\ k = m + (k - m) /\ x < k - m
        BY <1>1, <1>9, <3>1
      <3>3. PICK y \in 1 .. n : k = m + y /\ x < y
        BY <3>2
      <3>4. Before(d, q[x], q[y])
        BY <1>1, <3>3
      <3>5. r[j] = q[x] /\ r[k] = q[y]
        BY <1>3, <3>1, <3>3
      <3> QED
        BY <3>4, <3>5
    <2> QED
      BY <1>4, <2>1, <2>2, <2>3
  <1>10. ASSUME NEW s \in S \union T
         PROVE  \E k \in 1 .. m + n : r[k] = s
    <2>1. CASE s \in S
      <3>1. PICK k \in 1 .. m : p[k] = s
        BY <1>1, <2>1
      <3>2. k \in 1 .. m + n /\ r[k] = s
        BY <1>1, <1>3, <3>1
      <3> QED
        BY <3>2
    <2>2. CASE s \in T
      <3>1. PICK k \in 1 .. n : q[k] = s
        BY <1>1, <2>2
      <3>2. m + k \in 1 .. m + n /\ r[m + k] = s
        BY <1>1, <1>3, <3>1
      <3> QED
        BY <3>2
    <2> QED
      BY <2>1, <2>2
  <1>11. m + n \in Nat
    BY <1>1
  <1>12. Sorts(d, S \union T, r, m + n)
    BY <1>8, <1>9, <1>10, <1>11 DEF Sorts
  <1> QED
    BY <1>12 DEF r

\* The function of FlattenSeq.
Flat(seqs) ==
  CHOOSE f : f = [i \in 1 .. Len(seqs) |-> IF i = 1 THEN seqs[i] ELSE f[i - 1] \o seqs[i]]

LEMMA LeastNumber ==
  ASSUME NEW T, T \subseteq Nat, T # {}
  PROVE  \E m \in T : \A n \in T : m <= n
  <1>1. PICK m \in T : \A n \in T : <<n, m>> \notin OpToRel(<, Nat)
    BY WFMin, NatLessThanWellFounded, Zenon
  <1>2. ASSUME NEW n \in T, n < m
        PROVE  FALSE
    <2>1. <<n, m>> \in OpToRel(<, Nat)
      BY <1>2, Zenon DEF OpToRel
    <2> QED
      BY <1>1, <2>1
  <1>3. \A n \in T : m <= n
    BY <1>2
  <1> QED
    BY <1>3

LEMMA FlattenFlat ==
  ASSUME NEW seqs, Len(seqs) # 0
  PROVE  FlattenSeq(seqs) = Flat(seqs)[Len(seqs)]
  BY Zenon DEF FlattenSeq, Flat

\* f joins the first n of seqs, one by one.
Joins(f, seqs, n) ==
  /\ f = [i \in 1 .. n |-> f[i]]
  /\ f[1] = seqs[1]
  /\ \A i \in 1 .. n : i # 1 => f[i] = f[i - 1] \o seqs[i]

\* Any such f ends as that function does.
LEMMA FlattenIs ==
  ASSUME NEW seqs, NEW n \in Nat, n > 0, Len(seqs) = n, NEW f, Joins(f, seqs, n)
  PROVE  FlattenSeq(seqs) = f[n]
  <1> USE DEF Joins
  <1> DEFINE Unfolds(g) ==
               g = [i \in 1 .. n |-> IF i = 1 THEN seqs[i] ELSE g[i - 1] \o seqs[i]]
             g0 == Flat(seqs)
  <1>1. Unfolds(f)
    <2>1. \A i \in 1 .. n : f[i] = IF i = 1 THEN seqs[i] ELSE f[i - 1] \o seqs[i]
      OBVIOUS
    <2> QED
      BY <2>1, Zenon
  <1>2. Unfolds(g0)
    <2>1. \E g : Unfolds(g)
      BY <1>1
    <2> QED
      BY <2>1, Zenon DEF Flat
  <1>3. \A i \in 1 .. n : g0[i] = IF i = 1 THEN seqs[i] ELSE g0[i - 1] \o seqs[i]
    <2>1. \A g : Unfolds(g) =>
            \A i \in 1 .. n : g[i] = IF i = 1 THEN seqs[i] ELSE g[i - 1] \o seqs[i]
      OBVIOUS
    <2> HIDE DEF Unfolds, g0
    <2> QED
      BY <1>2, <2>1, Zenon
  <1>4. FlattenSeq(seqs) = g0[n]
    BY FlattenFlat
  <1> HIDE DEF Unfolds, g0
  <1> DEFINE D == {i \in 1 .. n : g0[i] # f[i]}
  <1>5. D = {}
    <2> SUFFICES ASSUME D # {}
                 PROVE  FALSE
      OBVIOUS
    <2>1. D \subseteq Nat
      OBVIOUS
    <2>2. PICK i \in D : \A j \in D : i <= j
      BY <2>1, LeastNumber
    <2>3. i \in 1 .. n /\ g0[i] # f[i]
      OBVIOUS
    <2>4. i # 1
      BY <1>3, <2>3
    <2>5. i - 1 \in 1 .. n /\ ~(i <= i - 1)
      BY <2>3, <2>4
    <2>6. g0[i - 1] = f[i - 1]
      BY <2>2, <2>5
    <2>7. g0[i] = g0[i - 1] \o seqs[i] /\ f[i] = f[i - 1] \o seqs[i]
      BY <1>3, <2>3, <2>4
    <2> QED
      BY <2>3, <2>6, <2>7
  <1>6. n \in 1 .. n
    OBVIOUS
  <1> QED
    BY <1>4, <1>5, <1>6

\* The marked slots of the words V.
In(V) == {s \in Marked : s \div W \in V}

LEMMA InNumbers ==
  ASSUME NEW V
  PROVE  In(V) \subseteq Nat /\ IsFiniteSet(In(V))
  <1>1. IsFiniteSet(Slot)
    <2>1. PRICE_WINDOW - 1 \in Int /\ 0 \in Int
      BY WholeWords
    <2> QED
      BY <2>1, FS_Interval DEF Slot
  <1>2. In(V) \in SUBSET Slot
    BY DEF In, Marked
  <1>3. \A s \in Slot : s \in Nat
    BY Addressing
  <1> QED
    BY <1>1, <1>2, <1>3, FS_Subset

\* Slots of different words are in the order of the words; slots of one word in
\* the order of their bits.
LEMMA BeforeByWord ==
  ASSUME NEW d, NEW s \in Slot, NEW t \in Slot
  PROVE  /\ Before(d, s \div W, t \div W) => Before(d, s, t)
         /\ s \div W = t \div W /\ Before(d, s % W, t % W) => Before(d, s, t)
  <1>1. /\ s \in Nat /\ t \in Nat /\ s \div W \in Nat /\ t \div W \in Nat
        /\ s % W \in Nat /\ t % W \in Nat
    BY Numbers
  <1>2. /\ s <= t <=> \/ s \div W < t \div W
                      \/ s \div W = t \div W /\ s % W <= t % W
        /\ t <= s <=> \/ t \div W < s \div W
                      \/ t \div W = s \div W /\ t % W <= s % W
    BY SlotOrder
  <1> QED
    BY <1>1, <1>2 DEF Before

\* The bits of one word.
LEMMA WordSorts ==
  ASSUME Inv, NEW d, NEW w \in L0Word
  PROVE  Sorts(d, In({w}), SlotsOf(w, Ranked(d, l0[w])), Cardinality(l0[w]))
  <1> DEFINE n == Cardinality(l0[w])
             b == Ranked(d, l0[w])
             q == SlotsOf(w, b)
  <1>1. l0[w] \subseteq Bit /\ w \in Nat
    BY Addressing DEF Inv, TypeOK
  <1>2. l0[w] \subseteq Nat /\ IsFiniteSet(l0[w])
    <2>1. \A c \in Bit : c \in Nat
      BY Numbers
    <2>2. IsFiniteSet(Bit)
      <3>1. WORD_BITS - 1 \in Int /\ 0 \in Int
        BY WordAssumption
      <3> QED
        BY <3>1, FS_Interval DEF Bit
    <2> QED
      BY <1>1, <2>1, <2>2, FS_Subset
  <1>3. Sorts(d, l0[w], b, n)
    BY <1>2, RankedSorts
  <1> HIDE DEF b, n
  <1>4. /\ n \in Nat /\ b \in [1 .. n -> l0[w]]
        /\ \A j, k \in 1 .. n : j < k => Before(d, b[j], b[k])
        /\ \A c \in l0[w] : \E k \in 1 .. n : b[k] = c
    BY <1>3 DEF Sorts
  <1>5. Len(b) = n
    BY <1>4
  <1>6. q = [k \in 1 .. n |-> W * w + b[k]]
    <2>1. \A k \in 1 .. n : b[k] \in Nat
      BY <1>2, <1>4
    <2>2. W \in Nat
      BY Addressing
    <2>3. w * W = W * w
      BY <1>1, <2>2
    <2>4. q = [k \in 1 .. n |-> w * W + b[k]]
      BY <1>5 DEF SlotsOf, W
    <2> QED
      BY <2>3, <2>4
  <1> HIDE DEF q
  <1>7. ASSUME NEW k \in 1 .. n
        PROVE  q[k] \in Slot /\ q[k] \in Marked /\ q[k] \div W = w /\ q[k] % W = b[k]
    <2>1. b[k] \in l0[w] /\ b[k] \in Bit
      BY <1>1, <1>4
    <2>2. q[k] = W * w + b[k]
      BY <1>6
    <2>3. q[k] \in Slot /\ q[k] \div W = w /\ q[k] % W = b[k]
      BY <2>1, <2>2, Addressing
    <2> QED
      BY <2>1, <2>3 DEF Marked, W
  <1>8. q \in [1 .. n -> In({w})]
    <2>1. \A k \in 1 .. n : q[k] \in In({w})
      BY <1>7 DEF In
    <2> QED
      BY <1>6, <2>1
  <1>9. ASSUME NEW j \in 1 .. n, NEW k \in 1 .. n, j < k
        PROVE  Before(d, q[j], q[k])
    <2>1. Before(d, q[j] % W, q[k] % W) /\ q[j] \div W = q[k] \div W
      BY <1>4, <1>7, <1>9
    <2> QED
      BY <1>7, <2>1, BeforeByWord
  <1>10. ASSUME NEW s \in In({w})
         PROVE  \E k \in 1 .. n : q[k] = s
    <2>1. s \in Slot /\ s \div W = w /\ s % W \in l0[w]
      BY DEF In, Marked, W
    <2>2. PICK k \in 1 .. n : b[k] = s % W
      BY <1>4, <2>1
    <2>3. q[k] = s
      BY <1>7, <2>1, <2>2, OneSlot
    <2> QED
      BY <2>3
  <1>11. Sorts(d, In({w}), q, n)
    BY <1>4, <1>8, <1>9, <1>10 DEF Sorts
  <1> QED
    BY <1>11 DEF q, b, n

\* The walk over the words that the summary leads to, and over the bits of each,
\* is the sorted walk over the marked slots.
LEMMA WalkSorted ==
  ASSUME Inv, NEW d, NEW words, words = Ranked(d, Summarised), NEW seqs,
         seqs = [k \in 1 .. Len(words) |-> SlotsOf(words[k], Ranked(d, l0[words[k]]))]
  PROVE  FlattenSeq(seqs) = Ranked(d, Marked)
  <1>1. Summarised \subseteq L0Word /\ Summarised \subseteq Nat /\ IsFiniteSet(Summarised)
    <2>1. Summarised \in SUBSET L0Word
      BY DEF Summarised
    <2>2. \A w \in L0Word : w \in Nat
      BY Addressing
    <2>3. IsFiniteSet(L0Word)
      <3>1. L0_WORDS - 1 \in Int /\ 0 \in Int
        BY Addressing
      <3> QED
        BY <3>1, FS_Interval DEF L0Word
    <2> QED
      BY <2>1, <2>2, <2>3, FS_Subset
  <1>2. PICK n : Sorts(d, Summarised, words, n)
    BY <1>1, RankedSorts
  <1>3. /\ n \in Nat /\ words \in [1 .. n -> Summarised] /\ Len(words) = n
        /\ \A j, k \in 1 .. n : j < k => Before(d, words[j], words[k])
        /\ \A w \in Summarised : \E k \in 1 .. n : words[k] = w
    <2>1. /\ n \in Nat /\ words \in [1 .. n -> Summarised]
          /\ \A j, k \in 1 .. n : j < k => Before(d, words[j], words[k])
          /\ \A w \in Summarised : \E k \in 1 .. n : words[k] = w
      BY <1>2 DEF Sorts
    <2>2. Len(words) = n
      BY <2>1
    <2> QED
      BY <2>1, <2>2
  <1> DEFINE First(i) == {words[k] : k \in 1 .. i}
             f == [i \in 1 .. n |-> Ranked(d, In(First(i)))]
  <1>4. In(First(n)) = Marked
    <2>1. ASSUME NEW s \in Marked
          PROVE  s \div W \in First(n)
      <3>1. s \div W \in L0Word /\ (s \div W) % W \in l1[(s \div W) \div W]
        BY Paths
      <3>2. s \div W \in Summarised
        BY <3>1 DEF Summarised, W
      <3> QED
        BY <1>3, <3>2
    <2> QED
      BY <2>1 DEF In
  <1>5. \A k \in 1 .. n : words[k] \in L0Word /\ words[k] \in Nat
    BY <1>1, <1>3
  <1>6. /\ Len(seqs) = n
        /\ \A k \in 1 .. n : seqs[k] = SlotsOf(words[k], Ranked(d, l0[words[k]]))
    <2>1. seqs = [k \in 1 .. n |-> SlotsOf(words[k], Ranked(d, l0[words[k]]))]
      BY <1>3
    <2> HIDE DEF SlotsOf, Ranked
    <2> QED
      BY <1>3, <2>1
  <1>7. ASSUME NEW k \in 1 .. n
        PROVE  \E m : Sorts(d, In({words[k]}), seqs[k], m)
    <2>1. words[k] \in L0Word
      BY <1>5
    <2>2. Sorts(d, In({words[k]}), SlotsOf(words[k], Ranked(d, l0[words[k]])),
                Cardinality(l0[words[k]]))
      BY <2>1, WordSorts
    <2> QED
      BY <1>6, <2>2
  <1>8. ASSUME n = 0
        PROVE  FlattenSeq(seqs) = Ranked(d, Marked)
    <2>1. Marked = {}
      <3>1. First(n) = {}
        BY <1>8
      <3> QED
        BY <1>4, <3>1 DEF In
    <2>2. Cardinality({}) = 0
      BY FS_EmptySet
    <2>3. Ranked(d, Marked) = <<>>
      <3>1. Cardinality(Marked) = 0
        BY <2>1, <2>2
      <3> QED
        BY <3>1 DEF Ranked
    <2>4. Len(seqs) = 0 /\ seqs = <<>>
      BY <1>3, <1>6, <1>8
    <2> QED
      BY <2>3, <2>4 DEF FlattenSeq
  <1>9. ASSUME NEW i \in 1 .. n, i # 1
        PROVE  Ranked(d, In(First(i))) = Ranked(d, In(First(i - 1))) \o seqs[i]
    <2> DEFINE S == In(First(i - 1))
               T == In({words[i]})
    <2>1. First(i) = First(i - 1) \union {words[i]}
      <3>1. \A k \in 1 .. i : k \in 1 .. i - 1 \/ k = i
        BY <1>3
      <3>2. i \in 1 .. i /\ \A k \in 1 .. i - 1 : k \in 1 .. i
        BY <1>3
      <3> QED
        BY <3>1, <3>2
    <2>2. In(First(i)) = S \union T
      BY <2>1 DEF In
    <2>3. /\ S \subseteq Nat /\ IsFiniteSet(S) /\ T \subseteq Nat
          /\ S \union T \subseteq Nat
      BY InNumbers
    <2>4. ASSUME NEW s \in S, NEW t \in T
          PROVE  Before(d, s, t)
      <3>1. s \in Slot /\ t \in Slot /\ s \div W \in First(i - 1) /\ t \div W = words[i]
        BY DEF In, Marked
      <3>2. PICK k \in 1 .. i - 1 : words[k] = s \div W
        BY <3>1
      <3>3. k \in 1 .. n /\ k < i
        BY <1>3
      <3>4. Before(d, s \div W, t \div W)
        BY <1>3, <3>1, <3>2, <3>3
      <3> QED
        BY <3>1, <3>4, BeforeByWord
    <2> HIDE DEF S, T
    <2>5. Sorts(d, S, Ranked(d, S), Cardinality(S))
      BY <2>3, RankedSorts
    <2>6. PICK m : Sorts(d, T, seqs[i], m)
      BY <1>7 DEF T
    <2>7. Sorts(d, S \union T, Ranked(d, S) \o seqs[i], Cardinality(S) + m)
      BY <2>3, <2>4, <2>5, <2>6, JoinSorts
    <2>8. Ranked(d, S) \o seqs[i] = Ranked(d, S \union T)
      BY <2>3, <2>7, SortedOnce
    <2> QED
      BY <2>2, <2>8 DEF S
  <1>10. ASSUME n > 0
         PROVE  Ranked(d, In(First(1))) = seqs[1]
    <2>1. 1 \in 1 .. n
      BY <1>3, <1>10
    <2>2. First(1) = {words[1]}
      OBVIOUS
    <2>3. PICK m : Sorts(d, In({words[1]}), seqs[1], m)
      BY <1>7, <2>1
    <2>4. seqs[1] = Ranked(d, In({words[1]}))
      BY <2>3, InNumbers, SortedOnce
    <2> QED
      BY <2>2, <2>4
  <1>11. ASSUME n > 0
         PROVE  FlattenSeq(seqs) = Ranked(d, Marked)
    <2>1. 1 \in 1 .. n /\ n \in 1 .. n /\ \A i \in 1 .. n : i # 1 => i - 1 \in 1 .. n
      BY <1>3, <1>11
    <2>2. \A i \in 1 .. n : f[i] = Ranked(d, In(First(i)))
      OBVIOUS
    <2>3. f = [i \in 1 .. n |-> f[i]]
      OBVIOUS
    <2> HIDE DEF f
    <2>4. f[1] = seqs[1]
      BY <1>10, <1>11, <2>1, <2>2
    <2>5. \A i \in 1 .. n : i # 1 => f[i] = f[i - 1] \o seqs[i]
      BY <1>9, <2>1, <2>2
    <2>6. FlattenSeq(seqs) = f[n]
      <3>1. Len(seqs) = n /\ n \in Nat /\ n > 0
        BY <1>3, <1>6, <1>11
      <3>2. Joins(f, seqs, n)
        BY <2>3, <2>4, <2>5, Zenon DEF Joins
      <3> QED
        BY <3>1, <3>2, FlattenIs
    <2>7. f[n] = Ranked(d, Marked)
      BY <1>4, <2>1, <2>2
    <2> QED
      BY <2>6, <2>7
  <1> QED
    BY <1>3, <1>8, <1>11

\* A snapshot's visitors see every marked level once, bids falling and asks
\* rising, for words of any width and windows of any number of words.
THEOREM LevelsVisited == Spec => []VisitsInOrder
  <1>1. Inv => VisitsInOrder
    <2> SUFFICES ASSUME Inv
                 PROVE  VisitsInOrder
      OBVIOUS
    <2>1. for_each_descending = Ranked("falling", Marked)
      <3> DEFINE words == Ranked("falling", Summarised)
      <3>1. for_each_descending =
              FlattenSeq([k \in 1 .. Len(words) |->
                            SlotsOf(words[k], Ranked("falling", l0[words[k]]))])
        BY RankedSets, Zenon DEF for_each_descending
      <3> QED
        BY <3>1, WalkSorted
    <2>2. for_each_ascending = Ranked("rising", Marked)
      <3> DEFINE words == Ranked("rising", Summarised)
      <3>1. for_each_ascending =
              FlattenSeq([k \in 1 .. Len(words) |->
                            SlotsOf(words[k], Ranked("rising", l0[words[k]]))])
        BY RankedSets, Zenon DEF for_each_ascending
      <3> QED
        BY <3>1, WalkSorted
    <2> QED
      BY <2>1, <2>2, RankedSets DEF VisitsInOrder
  <1> QED
    BY <1>1, BitmapInvariant, PTL

=============================================================================

-------------------------- MODULE PriceBitmapVisits --------------------------
(***************************************************************************)
(* The two visitors of PriceBitmap, which CREATE_SNAPSHOT walks a side      *)
(* with: they peel the bits off a copy of each word, best level first. A    *)
(* visitor that stops early has seen a prefix of these sequences.           *)
(***************************************************************************)
EXTENDS PriceBitmap, SequencesExt

\* A set of numbers from the highest, and from the lowest.
Falling(S) ==
  [k \in 1 .. Cardinality(S) |-> CHOOSE n \in S : Cardinality({m \in S : n < m}) = k - 1]

Rising(S) ==
  [k \in 1 .. Cardinality(S) |-> CHOOSE n \in S : Cardinality({m \in S : m < n}) = k - 1]

\* The words of l0 that the summary leads to.
Summarised == {w \in L0Word : w % WORD_BITS \in l1[w \div WORD_BITS]}

\* The slots of the bits of word w, in the order the bits are peeled off.
SlotsOf(w, bits) == [k \in 1 .. Len(bits) |-> w * WORD_BITS + bits[k]]

\* Mutant: the bits of a word are peeled off from the lowest.
for_each_descending_BitsRising ==
  LET words == Falling(Summarised)
  IN  FlattenSeq([k \in 1 .. Len(words) |-> SlotsOf(words[k], Rising(l0[words[k]]))])

for_each_descending ==
  LET words == Falling(Summarised)
  IN  FlattenSeq([k \in 1 .. Len(words) |-> SlotsOf(words[k], Falling(l0[words[k]]))])

for_each_ascending ==
  LET words == Rising(Summarised)
  IN  FlattenSeq([k \in 1 .. Len(words) |-> SlotsOf(words[k], Rising(l0[words[k]]))])

\* A snapshot sees every marked level once, bids from the highest and asks
\* from the lowest: the two-level walk is the sorted walk over all slots.
VisitsInOrder ==
  /\ for_each_descending = Falling(Marked)
  /\ for_each_ascending  = Rising(Marked)

=============================================================================

---------------------------- MODULE KillFlagTable ----------------------------
(***************************************************************************)
(* KillFlagTable of server/include/order_book.hpp: the kill flags of a book *)
(* in an open-addressed hash table with linear probing and tombstones, which*)
(* doubles when live entries and tombstones fill 6/10 of it. Two key values *)
(* are reserved for empty slots and for tombstones. The hash is any function*)
(* from keys to numbers, fixed from the start: every collision is possible. *)
(***************************************************************************)
EXTENDS Integers, FiniteSets

CONSTANTS
  OrderId,        \* ids that entries are made for: order ids
  Named,          \* ids that are asked for: what a client may name in a KILL
  EMPTY_KEY,      \* the reserved keys, -1 and -2 in the code
  TOMBSTONE_KEY,
  CAPACITY,       \* slots to start with, 2^12 in the code
  Hash,           \* the values hash_key may take
  MaxSlots        \* bound: the table never grows beyond this many slots

ASSUME CapacityAssumption == CAPACITY \in Nat \ {0}
ASSUME HashAssumption == Hash \subseteq Nat
ASSUME ReservedAssumption ==
  EMPTY_KEY # TOMBSTONE_KEY /\ EMPTY_KEY \notin OrderId /\ TOMBSTONE_KEY \notin OrderId

VARIABLES
  hash,              \* hash_key
  slots,             \* key and value of each slot
  live_count,
  tombstone_count,
  answer             \* what the last find returned: {} for a null pointer

vars == <<hash, slots, live_count, tombstone_count, answer>>

Key == OrderId \union Named

EmptySlot == [key |-> EMPTY_KEY, value |-> FALSE]

TypeOK ==
  /\ hash \in [Key -> Hash]
  /\ slots \in [DOMAIN slots ->
                  [key : OrderId \union {EMPTY_KEY, TOMBSTONE_KEY}, value : BOOLEAN]]
  /\ live_count \in Nat
  /\ tombstone_count \in Nat
  /\ answer \subseteq BOOLEAN

Init ==
  /\ hash \in [Key -> Hash]
  /\ slots = [s \in 0 .. CAPACITY - 1 |-> EmptySlot]
  /\ live_count = 0
  /\ tombstone_count = 0
  /\ answer = {}

-----------------------------------------------------------------------------
(* Probing: from the hash, slot after slot, around the end of the table *)

Size(table) == Cardinality(DOMAIN table)

\* The slot that is visited after k others.
Visit(table, key, k) == (hash[key] + k) % Size(table)

\* A probe ends at the key or at an empty slot; without either it never ends.
Ends(table, key) ==
  {k \in 0 .. Size(table) - 1 :
     table[Visit(table, key, k)].key \in {key, EMPTY_KEY}}

Stop(table, key) ==
  CHOOSE k \in Ends(table, key) : \A l \in Ends(table, key) : k <= l

\* The slot of the key, if it has one: {} stands for INVALID.
locate_for_find(table, key) ==
  LET s == Visit(table, key, Stop(table, key))
  IN  IF table[s].key = key THEN {s} ELSE {}

\* Mutant: the first tombstone is taken without a look for the key behind it.
locate_for_insert_AtTombstone(table, key) ==
  LET stop == {k \in 0 .. Size(table) - 1 :
                 table[Visit(table, key, k)].key \in {key, EMPTY_KEY, TOMBSTONE_KEY}}
  IN  Visit(table, key, CHOOSE k \in stop : \A l \in stop : k <= l)

\* The key's slot, else the first tombstone on the way, else the empty slot.
locate_for_insert(table, key) ==
  LET last == Stop(table, key)
      passed == {k \in 0 .. last : table[Visit(table, key, k)].key = TOMBSTONE_KEY}
  IN  IF table[Visit(table, key, last)].key = key \/ passed = {}
      THEN Visit(table, key, last)
      ELSE Visit(table, key, CHOOSE k \in passed : \A l \in passed : k <= l)

-----------------------------------------------------------------------------
(* Growing *)

Reserved == {EMPTY_KEY, TOMBSTONE_KEY}

Live(table) == Cardinality({s \in DOMAIN table : table[s].key \notin Reserved})

\* Mutant: tombstones do not count.
Crowded_IgnoresTombstones == (live_count + 1) * 10 >= Size(slots) * 6

Crowded == (live_count + tombstone_count + 1) * 10 >= Size(slots) * 6

\* An entry of the old table goes to its place in the new one.
Moved(table, e) ==
  IF e.key \in Reserved THEN table ELSE [table EXCEPT ![locate_for_insert(table, e.key)] = e]

\* The live entries, in the order of their slots, put into n empty ones.
rehash(n) ==
  LET new[k \in 0 .. Size(slots)] ==
        IF k = 0 THEN [s \in 0 .. n - 1 |-> EmptySlot] ELSE Moved(new[k - 1], slots[k - 1])
  IN  new[Size(slots)]

-----------------------------------------------------------------------------
(* Operations *)

\* Mutant: the count of tombstones forgets the one that is written over.
Reused_Forgotten(was) == 0

\* How many tombstones an entry takes the place of.
Reused(was) == IF was = TOMBSTONE_KEY THEN 1 ELSE 0

set(key, value) ==
  LET table == IF Crowded THEN rehash(2 * Size(slots)) ELSE slots
      live  == IF Crowded THEN Live(table) ELSE live_count
      tombs == IF Crowded THEN 0 ELSE tombstone_count
      s     == locate_for_insert(table, key)
      was   == table[s].key
  IN  /\ Crowded => 2 * Size(slots) <= MaxSlots
      /\ slots' = [table EXCEPT ![s] = [key |-> key, value |-> value]]
      /\ live_count' = IF was = key THEN live ELSE live + 1
      /\ tombstone_count' = IF was = key THEN tombs ELSE tombs - Reused(was)
      /\ answer' = {}
      /\ UNCHANGED hash

find(key) ==
  /\ answer' = {slots[s].value : s \in locate_for_find(slots, key)}
  /\ UNCHANGED <<hash, slots, live_count, tombstone_count>>

\* KILL_ORDER writes through the pointer that find returned.
mark(key) ==
  LET found == locate_for_find(slots, key)
  IN  /\ answer' = {slots[s].value : s \in found}
      /\ slots' = [s \in DOMAIN slots |->
                     IF s \in found THEN [slots[s] EXCEPT !.value = TRUE] ELSE slots[s]]
      /\ UNCHANGED <<hash, live_count, tombstone_count>>

\* Mutant: the slot becomes empty again.
Erased_Emptied(e) == EmptySlot

Erased(e) == [e EXCEPT !.key = TOMBSTONE_KEY]

Removed(found) == Cardinality(found)

erase(key) ==
  LET found == locate_for_find(slots, key)
  IN  /\ slots' = [s \in DOMAIN slots |->
                     IF s \in found THEN Erased(slots[s]) ELSE slots[s]]
      /\ live_count' = live_count - Removed(found)
      /\ tombstone_count' = tombstone_count + Removed(found)
      /\ answer' = {}
      /\ UNCHANGED hash

Next ==
  \/ \E key \in OrderId : set(key, FALSE) \/ erase(key)
  \/ \E key \in Named : find(key) \/ mark(key)

Spec == Init /\ [][Next]_vars

-----------------------------------------------------------------------------
(* Properties *)

Holding(key) == {s \in DOMAIN slots : slots[s].key = key}

\* The counts that decide when to grow are those of the slots.
CountsExact ==
  /\ live_count = Cardinality({s \in DOMAIN slots : slots[s].key \in OrderId})
  /\ tombstone_count = Cardinality(Holding(TOMBSTONE_KEY))

\* Every probe ends, for a key that is there and for one that is not: the
\* table always keeps an empty slot, tombstones notwithstanding.
ProbesEnd == \A key \in Key : Ends(slots, key) # {}

\* An id has one slot at most, and locate_for_find reaches it: no erase and no
\* growth has broken the chain of slots that leads from its hash to it.
ChainsUnbroken ==
  \A key \in OrderId : Holding(key) # {} => locate_for_find(slots, key) = Holding(key)

\* Whatever collides, the table is the map it stands for, and find answers as
\* the map would.
Entries == {key \in OrderId : Holding(key) # {}}

Promise == INSTANCE FlagMap WITH
  flags <- [key \in Entries |-> slots[CHOOSE s \in Holding(key) : TRUE].value]

ImplementsFlagMap == Promise!Spec

=============================================================================

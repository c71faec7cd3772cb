----------------------------- MODULE BookSnapshot -----------------------------
(***************************************************************************)
(* CREATE_SNAPSHOT of server/include/order_book.hpp: what process_one copies *)
(* out of a book, once UPDATE_BOOK has returned, for the subscribers of its  *)
(* symbol. It changes nothing; it walks the same levels, with the killed     *)
(* orders that are still queued among them.                                  *)
(***************************************************************************)
EXTENDS OrderBook, FiniteSets

CONSTANTS
  SNAPSHOT_LEN,        \* orders shown of a side
  SNAPSHOT_FREQUENCY   \* requests from one snapshot to the next

ASSUME SnapshotAssumption ==
  SNAPSHOT_LEN \in Nat \ {0} /\ SNAPSHOT_FREQUENCY \in Nat \ {0}

\* process_one takes a snapshot of the book when it has updated it.
Due == pc = "idle" /\ seq_len > 0 /\ seq_len % SNAPSHOT_FREQUENCY = 0

\* The nodes that the walk passes: those in the queues of the marked levels,
\* each as its slot and its place in that queue.
Nodes(side) == UNION {{s} \X (1 .. Len(level[side][s])) : s \in bitmap[side]}

\* for_each_descending on the bids, for_each_ascending on the asks, and each
\* level's queue from its front.
Sooner(side, m, n) ==
  \/ side = "BUY"  /\ m[1] > n[1]
  \/ side = "SELL" /\ m[1] < n[1]
  \/ m[1] = n[1] /\ m[2] < n[2]

Earlier(side, n) == {m \in Nodes(side) : Sooner(side, m, n)}

\* The orders in the order of the walk.
Walked(side) ==
  [k \in 1 .. Cardinality(Nodes(side)) |->
     LET n == CHOOSE m \in Nodes(side) : Cardinality(Earlier(side, m)) = k - 1
     IN  level[side][n[1]][n[2]]]

NotKilled(i) == killed_orders[i] # "killed"

\* Mutant: a killed order counts towards SNAPSHOT_LEN.
Shown_KilledCount(walked) ==
  LET shown[k \in 0 .. Len(walked)] ==
        IF k = 0 THEN <<>>
        ELSE IF k <= SNAPSHOT_LEN /\ NotKilled(walked[k])
             THEN Append(shown[k - 1], walked[k])
             ELSE shown[k - 1]
  IN  shown[Len(walked)]

\* The walk copies what is not killed, until it has SNAPSHOT_LEN of those.
Shown(walked) ==
  LET shown[k \in 0 .. Len(walked)] ==
        IF k = 0 THEN <<>>
        ELSE IF Len(shown[k - 1]) < SNAPSHOT_LEN /\ NotKilled(walked[k])
             THEN Append(shown[k - 1], walked[k])
             ELSE shown[k - 1]
  IN  shown[Len(walked)]

CREATE_SNAPSHOT == [side \in Side |-> Shown(Walked(side))]

-----------------------------------------------------------------------------
(* Properties *)

LiveOn(side) == Live \intersect On(side)

\* A snapshot shows the first SNAPSHOT_LEN orders of each side, or all if there
\* are fewer, that nobody has killed, in price-time priority, whatever killed
\* orders still lie between them in the queues.
SnapshotIsTop ==
  Due => \A side \in Side :
    LET shown == CREATE_SNAPSHOT[side]
    IN  /\ Len(shown) = Smaller(Cardinality(LiveOn(side)), SNAPSHOT_LEN)
        /\ \A k \in 1 .. Len(shown) :
             /\ shown[k] \in LiveOn(side)
             /\ \A j \in LiveOn(side) :
                  j \in {shown[l] : l \in 1 .. k} \/ Ahead(shown[k], j)

=============================================================================

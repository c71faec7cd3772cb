------------------------------ MODULE OrderPool ------------------------------
(***************************************************************************)
(* OrderPool and the price levels of server/include/order_book.hpp: every   *)
(* resting order of a book lies in a node of one vector, which only grows.  *)
(* The nodes of a level are linked into its queue, the others into a free   *)
(* list, through the same next field. Module OrderBook sees a level as a    *)
(* sequence.                                                                *)
(***************************************************************************)
EXTENDS Integers, FiniteSets

CONSTANTS
  Order,                    \* the orders of a book
  Level,                    \* its price levels, of both sides
  NIL,                      \* the index of no node
  ORDER_POOL_INITIAL_CAP,   \* 2^14 in the code
  ORDER_POOL_GROWTH_CHUNK,  \* 2^14 in the code
  ORDER_POOL_MAX_CAP        \* 2^24 in the code

\* Module BookLevels, which puts the pool into a book, has the assumptions.

VARIABLES
  nodes,      \* the vector: order, prev and next of each node
  free_head,  \* the first free node, or NIL
  lvl,        \* head, tail and count of each level
  halted      \* TRUE once acquire has thrown: nothing catches it

vars == <<nodes, free_head, lvl, halted>>

Node(ns) == DOMAIN ns

Size(ns) == Cardinality(Node(ns))

Index == 0 .. ORDER_POOL_MAX_CAP - 1

\* Every link is NIL or a node of the vector as it is now.
TypeOK ==
  LET Link == Node(nodes) \union {NIL}
  IN  /\ Node(nodes) = 0 .. Size(nodes) - 1 /\ Node(nodes) \subseteq Index
      /\ nodes \in [Node(nodes) -> [order : Order \union {NIL}, prev : Link, next : Link]]
      /\ free_head \in Link
      /\ lvl \in [Level -> [head : Link, tail : Link, count : Nat]]
      /\ halted \in BOOLEAN

-----------------------------------------------------------------------------
(* The pool *)

\* Mutant: the whole chunk is added whatever room is left.
Chunk_Unclipped(ns) == ORDER_POOL_GROWTH_CHUNK

Chunk(ns) ==
  LET left == ORDER_POOL_MAX_CAP - Size(ns)
  IN  IF ORDER_POOL_GROWTH_CHUNK <= left THEN ORDER_POOL_GROWTH_CHUNK ELSE left

\* count nodes more, linked in order, with the free ones behind them.
grow(ns, count, free) ==
  LET last == Size(ns) + count - 1
  IN  [i \in 0 .. last |->
         IF i \in Node(ns) THEN ns[i]
         ELSE [order |-> NIL, prev |-> NIL,
               next |-> IF i = last THEN free ELSE i + 1]]

Init ==
  /\ nodes = grow([i \in {} |-> {}], ORDER_POOL_INITIAL_CAP, NIL)
  /\ free_head = 0
  /\ lvl = [l \in Level |-> [head |-> NIL, tail |-> NIL, count |-> 0]]
  /\ halted = FALSE

Full == free_head = NIL /\ Size(nodes) >= ORDER_POOL_MAX_CAP

\* acquire: the vector with a free node, and that node.
Supplied == IF free_head = NIL THEN grow(nodes, Chunk(nodes), NIL) ELSE nodes

Acquired == IF free_head = NIL THEN Size(nodes) ELSE free_head

\* Mutant: a released node does not lead to the other free ones.
Released_Alone(ns, i) == [ns EXCEPT ![i].next = NIL]

\* release: the node's next is the free list, and nothing else of it changes.
Released(ns, i) == [ns EXCEPT ![i].next = free_head]

-----------------------------------------------------------------------------
(* The queues *)

Linked(ns, tail, i) == [ns EXCEPT ![tail].next = i, ![i].prev = tail]

\* ORDER_BOOK::insert pushes an order that does not rest yet.
level_push_back(l, o) ==
  LET i == Acquired
      tail == lvl[l].tail
      fresh == [Supplied EXCEPT ![i] = [order |-> o, prev |-> NIL, next |-> NIL]]
  IN  /\ ~halted
      /\ ~Full
      /\ free_head' = Supplied[i].next
      /\ IF tail = NIL
         THEN /\ nodes' = fresh
              /\ lvl' = [lvl EXCEPT ![l] =
                           [head |-> i, tail |-> i, count |-> @.count + 1]]
         ELSE /\ nodes' = Linked(fresh, tail, i)
              /\ lvl' = [lvl EXCEPT ![l].tail = i, ![l].count = @ + 1]
      /\ UNCHANGED halted

\* acquire throws: the market thread ends, and the process with it.
Exhausted ==
  /\ ~halted
  /\ Full
  /\ halted' = TRUE
  /\ UNCHANGED <<nodes, free_head, lvl>>

\* Mutant: the tail still leads to the node that was released.
TailAfterPop_Kept(l, nxt) == lvl[l].tail

TailAfterPop(l, nxt) == IF nxt = NIL THEN NIL ELSE lvl[l].tail

\* A level is popped only when its bit is set, so when it has an order.
level_pop_front(l) ==
  LET i == lvl[l].head
      nxt == nodes[i].next
      unlinked == IF nxt = NIL THEN nodes ELSE [nodes EXCEPT ![nxt].prev = NIL]
  IN  /\ ~halted
      /\ lvl[l].count > 0
      /\ lvl' = [lvl EXCEPT ![l] = [head |-> nxt, tail |-> TailAfterPop(l, nxt),
                                    count |-> @.count - 1]]
      /\ nodes' = Released(unlinked, i)
      /\ free_head' = i
      /\ UNCHANGED halted

-----------------------------------------------------------------------------
(* Walking a list, as CREATE_SNAPSHOT does *)

Following(i) == IF i \in Node(nodes) THEN nodes[i].next ELSE NIL

\* The first n nodes of the list that starts at i.
Walk(i, n) ==
  LET at[k \in 1 .. n] == IF k = 1 THEN i ELSE Following(at[k - 1]) IN at

Queue(l) == Walk(lvl[l].head, lvl[l].count)

OrderAt(i) == IF i \in Node(nodes) THEN nodes[i].order ELSE NIL

Resting == UNION {{OrderAt(Queue(l)[k]) : k \in 1 .. lvl[l].count} : l \in Level}

Next ==
  \/ \E l \in Level : \/ \E o \in Order \ Resting : level_push_back(l, o)
                      \/ level_pop_front(l)
  \/ Exhausted

Spec == Init /\ [][Next]_vars

-----------------------------------------------------------------------------
(* Properties *)

QueueNodes(l) == {Queue(l)[k] : k \in 1 .. lvl[l].count}

FreeNodes ==
  {Walk(free_head, Size(nodes))[k] : k \in 1 .. Size(nodes)} \ {NIL}

\* No node is lost and none is used twice: each is in the free list or in one
\* queue, and no list comes back to a node it has passed.
NodesPartitioned ==
  /\ (UNION {QueueNodes(l) : l \in Level}) \union FreeNodes = Node(nodes)
  /\ \A l \in Level : /\ QueueNodes(l) \intersect FreeNodes = {}
                      /\ Cardinality(QueueNodes(l)) = lvl[l].count
  /\ \A l, m \in Level : l # m => QueueNodes(l) \intersect QueueNodes(m) = {}
  /\ Walk(free_head, Size(nodes) + 1)[Size(nodes) + 1] = NIL

\* However nodes are handed out, reused and added, a level is a queue of its
\* orders, and the pool runs out only when ORDER_POOL_MAX_CAP orders rest.
Promise == INSTANCE LevelQueues WITH
  Room <- ORDER_POOL_MAX_CAP,
  queue <- [l \in Level |-> [k \in 1 .. lvl[l].count |-> OrderAt(Queue(l)[k])]]

ImplementsLevelQueues == Promise!Spec

=============================================================================

------------------------------ MODULE OrderBook ------------------------------
(***************************************************************************)
(* ORDER_BOOK of server/include/order_book.hpp: the book of one symbol, and *)
(* the part of MARKET_BOOK::process_one that drives it. One thread owns a   *)
(* book (the market thread of its shard); it takes a request, applies it,   *)
(* and runs UPDATE_BOOK to the end before it takes the next. Each pass of   *)
(* UPDATE_BOOK's loops is a step, because each writes to client sockets     *)
(* which other threads write to as well.                                    *)
(*                                                                         *)
(* A price level is a slot of a fixed array: the slot of a price is the     *)
(* price modulo PRICE_WINDOW. A slot's intrusive list is a sequence here,   *)
(* the two-level bitmap a set of slots, the kill-flag hash table a          *)
(* function; PriceLevel.level_price is written but never read, and left out.*)
(***************************************************************************)
EXTENDS Integers, Sequences

CONSTANTS
  OrderId,       \* ids given out by MARKET_BOOK::assign_order_id
  Price,         \* prices of the orders that pass simpleReject
  Qty,           \* quantities of the orders that pass simpleReject
  PRICE_WINDOW,  \* slots per side
  Session,       \* ids of client sessions, with 0 for an order that has none
  Registered,    \* the sessions that SessionRegistry::lock resolves
  MaxRequests    \* bound: requests one behaviour makes

ASSUME PriceAssumption  == Price \subseteq Nat \ {0}
ASSUME QtyAssumption    == Qty \subseteq Nat \ {0}
ASSUME WindowAssumption == PRICE_WINDOW \in Nat \ {0}

VARIABLES
  level,          \* the two arrays of price levels: a queue of ids per slot
  bitmap,         \* bid_bitmap and ask_bitmap: the slots marked non-empty
  order,          \* the ORDER of every id booked so far
  killed_orders,  \* the kill flag of each id
  seq_len,        \* ORDER_BOOK::seq_len: requests taken
  pc,             \* where the market thread is in process_one
  sent            \* what the book has written to each session's socket

vars == <<level, bitmap, order, killed_orders, seq_len, pc, sent>>

Side == {"BUY", "SELL"}

Slot == 0 .. PRICE_WINDOW - 1

\* killed_orders.find(id): no entry, or an entry that is false or true.
Flag == {"absent", "alive", "killed"}

\* index_of: PRICE_WINDOW is a power of two in the code, and the mask a modulo.
index_of(price) == price % PRICE_WINDOW

(***************************************************************************)
(* An order keeps its open quantity in qty. The fields at (seq_len when it  *)
(* was booked) and placed (its quantity then) are history: the code does    *)
(* not keep them, and no guard reads them.                                  *)
(***************************************************************************)
Order ==
  [side : Side, price : Price, qty : Nat, session : Session,
   at : Nat, placed : Nat]

\* J: error 104 for id; P, F: a fill of qty that leaves some, or none, open;
\* K: the kill of id is confirmed, with the quantity that was still open.
Message == [type : {"J", "P", "F", "K"}, id : OrderId, qty : Nat]

Booked == DOMAIN order

-----------------------------------------------------------------------------
(* Reading the book *)

\* Mutant: the asks are searched from the top as well.
Best_AlwaysHighest(side) ==
  {s \in bitmap[side] : \A t \in bitmap[side] : t <= s}

\* find_highest on the bids, find_lowest on the asks: empty or a single slot.
Best(side) ==
  {s \in bitmap[side] : \A t \in bitmap[side] :
                          IF side = "BUY" THEN t <= s ELSE s <= t}

level_front(side, s) == Head(level[side][s])

\* Mutant: the larger quantity is filled.
Smaller_IsLarger(m, n) == IF m <= n THEN n ELSE m

Smaller(m, n) == IF m <= n THEN m ELSE n

\* Mutant: orders at equal prices do not match.
Crosses_Strictly(bo, ao) == order[bo].price > order[ao].price

\* The matching condition: the loop breaks when bo.price_level < ao.price_level.
Crosses(bo, ao) == order[bo].price >= order[ao].price

(* Writing to a client: nothing is sent to a session that is not found. *)

Deliver(inbox, session, messages) ==
  IF session \in Registered
  THEN [inbox EXCEPT ![session] = @ \o messages]
  ELSE inbox

Msg(type, id, qty) == [type |-> type, id |-> id, qty |-> qty]

-----------------------------------------------------------------------------
\* Every variable keeps its type: the two arrays have one queue per slot of
\* the window, an open quantity never becomes negative, and process_one is
\* taking a request, draining a side or matching.
TypeOK ==
  /\ level \in [Side -> [Slot -> Seq(OrderId)]]
  /\ bitmap \in [Side -> SUBSET Slot]
  /\ Booked \subseteq OrderId
  /\ \A i \in Booked : order[i] \in Order
  /\ killed_orders \in [OrderId -> Flag]
  /\ seq_len \in Nat
  /\ pc \in {"idle", "drain_bids", "drain_asks", "match"}
  /\ sent \in [Session -> Seq(Message)]

Init ==
  /\ level = [side \in Side |-> [s \in Slot |-> <<>>]]
  /\ bitmap = [side \in Side |-> {}]
  /\ order = [i \in {} |-> {}]
  /\ killed_orders = [i \in OrderId |-> "absent"]
  /\ seq_len = 0
  /\ pc = "idle"
  /\ sent = [c \in Session |-> <<>>]

-----------------------------------------------------------------------------
(* One request: the three operations of ORDER_BOOK *)

\* process_one counts the request before it applies it, and updates the book.
Take ==
  /\ pc = "idle"
  /\ seq_len < MaxRequests
  /\ seq_len' = seq_len + 1
  /\ pc' = "drain_bids"

\* Mutant: a new order goes to the front of its queue.
level_push_front(queue, i) == <<i>> \o queue

level_push_back(queue, i) == Append(queue, i)

\* insert: the slot's bit is set when its queue was empty.
insert(i, side, price, qty, session) ==
  LET s == index_of(price)
  IN  /\ level' = [level EXCEPT ![side][s] = level_push_back(@, i)]
      /\ bitmap' = IF level[side][s] = <<>>
                   THEN [bitmap EXCEPT ![side] = @ \union {s}]
                   ELSE bitmap
      /\ order' = [j \in Booked \union {i} |->
                     IF j = i
                     THEN [side |-> side, price |-> price, qty |-> qty,
                           session |-> session, at |-> seq_len', placed |-> qty]
                     ELSE order[j]]

\* The flag of d after a KILL of d, and the reply when d has none.
Marked(d) ==
  IF killed_orders[d] = "absent" THEN killed_orders
                                 ELSE [killed_orders EXCEPT ![d] = "killed"]

KillReply(d, session) ==
  IF killed_orders[d] = "absent"
  THEN Deliver(sent, session, <<Msg("J", d, 0)>>)
  ELSE sent

SEND_ORDER(i, side, price, qty, session) ==
  /\ i \notin Booked
  /\ Take
  /\ killed_orders' = [killed_orders EXCEPT ![i] = "alive"]
  /\ insert(i, side, price, qty, session)
  /\ UNCHANGED sent

KILL_ORDER(d, session) ==
  /\ Take
  /\ killed_orders' = Marked(d)
  /\ sent' = KillReply(d, session)
  /\ UNCHANGED <<level, bitmap, order>>

\* A kill, and then a send under the request's own new id, whether or not
\* the kill found its order.
MODIFY_ORDER(i, d, side, price, qty, session) ==
  /\ i \notin Booked
  /\ Take
  /\ killed_orders' = [Marked(d) EXCEPT ![i] = "alive"]
  /\ sent' = KillReply(d, session)
  /\ insert(i, side, price, qty, session)

-----------------------------------------------------------------------------
(* UPDATE_BOOK *)

DrainPc == [BUY |-> "drain_bids", SELL |-> "drain_asks"]
\* Mutants: the asks are not drained; draining starts over and never matches.
AfterDrain_SkipsAsks == [BUY |-> "match", SELL |-> "match"]
AfterDrain_StartsOver == [BUY |-> "drain_asks", SELL |-> "drain_bids"]

AfterDrain == [BUY |-> "drain_asks", SELL |-> "match"]

\* level_pop_front, and the bit cleared when the queue becomes empty.
Popped(queues, side, s) == [queues EXCEPT ![side][s] = Tail(@)]

\* Mutant: the bit of an emptied queue stays set.
Unmarked_Never(bits, side, s) == bits

Unmarked(bits, side, s) ==
  IF Tail(level[side][s]) = <<>> THEN [bits EXCEPT ![side] = @ \ {s}] ELSE bits

\* drain_dead evicts the front order of the best level, once it is killed.
Evict(side) ==
  /\ pc = DrainPc[side]
  /\ \E s \in Best(side) :
       LET f == level_front(side, s)
       IN  /\ killed_orders[f] = "killed"
           /\ sent' = Deliver(sent, order[f].session, <<Msg("K", f, order[f].qty)>>)
           /\ killed_orders' = [killed_orders EXCEPT ![f] = "absent"]
           /\ level' = Popped(level, side, s)
           /\ bitmap' = Unmarked(bitmap, side, s)
  /\ UNCHANGED <<order, seq_len, pc>>

\* drain_dead returns: the side is empty or its top order is not killed.
EndDrain(side) ==
  /\ pc = DrainPc[side]
  /\ \/ bitmap[side] = {}
     \/ \E s \in Best(side) : killed_orders[level_front(side, s)] # "killed"
  /\ pc' = AfterDrain[side]
  /\ UNCHANGED <<level, bitmap, order, killed_orders, seq_len, sent>>

\* Mutants: the report carries what is left open; every fill is a full one.
FillMsg_Remaining(f, q) ==
  <<Msg(IF order[f].qty = q THEN "F" ELSE "P", f, order[f].qty - q)>>
FillMsg_AlwaysFull(f, q) == <<Msg("F", f, q)>>

\* NOTIFY_FILL: the flag of a filled order goes only if its session is found.
FillMsg(f, q) ==
  <<Msg(IF order[f].qty = q THEN "F" ELSE "P", f, q)>>

\* Mutants: a filled order keeps its flag; a partly filled one loses it.
Forgotten_Never(flags, f, q) == flags
Forgotten_Always(flags, f, q) ==
  IF order[f].session \in Registered THEN [flags EXCEPT ![f] = "absent"] ELSE flags

Forgotten(flags, f, q) ==
  IF order[f].qty = q /\ order[f].session \in Registered
  THEN [flags EXCEPT ![f] = "absent"]
  ELSE flags

\* The best bid bo reaches the best ask ao: both give the smaller quantity,
\* bid first, and one that has nothing left is popped.
Fill ==
  /\ pc = "match"
  /\ \E bs \in Best("BUY"), as \in Best("SELL") :
       LET bo == level_front("BUY", bs)
           ao == level_front("SELL", as)
           q  == Smaller(order[bo].qty, order[ao].qty)
           noBid == order[bo].qty = q
           noAsk == order[ao].qty = q
           withoutBid == IF noBid THEN Popped(level, "BUY", bs) ELSE level
           bidBits == IF noBid THEN Unmarked(bitmap, "BUY", bs) ELSE bitmap
       IN  /\ Crosses(bo, ao)
           /\ order' = [order EXCEPT ![bo].qty = @ - q, ![ao].qty = @ - q]
           /\ sent' = Deliver(Deliver(sent, order[bo].session, FillMsg(bo, q)),
                              order[ao].session, FillMsg(ao, q))
           /\ killed_orders' = Forgotten(Forgotten(killed_orders, bo, q), ao, q)
           /\ level' = IF noAsk THEN Popped(withoutBid, "SELL", as) ELSE withoutBid
           /\ bitmap' = IF noAsk THEN Unmarked(bidBits, "SELL", as) ELSE bidBits
  /\ pc' = "drain_bids"
  /\ UNCHANGED seq_len

\* The loop breaks: a side is empty, or the best prices do not meet.
EndMatch ==
  /\ pc = "match"
  /\ \/ bitmap["BUY"] = {}
     \/ bitmap["SELL"] = {}
     \/ \E bs \in Best("BUY"), as \in Best("SELL") :
          ~Crosses(level_front("BUY", bs), level_front("SELL", as))
  /\ pc' = "idle"
  /\ UNCHANGED <<level, bitmap, order, killed_orders, seq_len, sent>>

UPDATE_BOOK ==
  \/ \E side \in Side : Evict(side) \/ EndDrain(side)
  \/ Fill
  \/ EndMatch

\* drain_one finds the shard's queue empty: the market thread polls on.
DrainNothing == pc = "idle" /\ UNCHANGED vars

Request ==
  \E c \in Session :
    \/ \E d \in OrderId : KILL_ORDER(d, c)
    \/ \E i \in OrderId, side \in Side, price \in Price, qty \in Qty :
         \/ SEND_ORDER(i, side, price, qty, c)
         \/ \E d \in OrderId : MODIFY_ORDER(i, d, side, price, qty, c)

Next == Request \/ UPDATE_BOOK \/ DrainNothing

\* The market thread never leaves UPDATE_BOOK before its loop breaks.
Spec == Init /\ [][Next]_vars /\ WF_vars(UPDATE_BOOK)

-----------------------------------------------------------------------------
(* Properties *)

On(side) ==
  {i \in OrderId : \E s \in Slot : \E k \in 1 .. Len(level[side][s]) :
                     level[side][s][k] = i}

Resting == On("BUY") \union On("SELL")

Live == {i \in Resting : killed_orders[i] # "killed"}

\* The marked slots are exactly those with orders, so that find_highest and
\* find_lowest lead to a queue that has a front (PriceBitmap against level).
BitmapMarksLevels ==
  \A side \in Side : bitmap[side] = {s \in Slot : level[side][s] # <<>>}

\* A queue holds booked orders of its side and slot that have something left
\* to trade, in the order they were booked, so none of them twice.
QueuesWellFormed ==
  \A side \in Side, s \in Slot :
    /\ \A k \in 1 .. Len(level[side][s]) :
         LET i == level[side][s][k]
         IN  /\ i \in Booked
             /\ order[i].side = side
             /\ index_of(order[i].price) = s
             /\ order[i].qty > 0
             /\ order[i].at <= seq_len
    /\ \A k, l \in 1 .. Len(level[side][s]) :
         k < l => order[level[side][s][k]].at < order[level[side][s][l]].at

\* A KILL finds the flag of every resting order, and of no other, except that
\* a filled order whose session NOTIFY_FILL could not find keeps its flag.
FlagsMatchBook ==
  /\ \A i \in Resting : killed_orders[i] # "absent"
  /\ \A i \in OrderId \ Resting :
       killed_orders[i] # "absent" =>
         i \in Booked /\ order[i].qty = 0 /\ order[i].session \notin Registered

\* Draining leaves no killed order at the top of a side, and the loop goes on
\* until the tops do not meet: what makes it safe to match only the two fronts.
TopsSettled ==
  /\ pc \in {"drain_asks", "match", "idle"} =>
       \A s \in Best("BUY") : killed_orders[level_front("BUY", s)] # "killed"
  /\ pc \in {"match", "idle"} =>
       \A s \in Best("SELL") : killed_orders[level_front("SELL", s)] # "killed"
  /\ pc = "idle" =>
       \A bs \in Best("BUY"), as \in Best("SELL") :
         order[level_front("BUY", bs)].price < order[level_front("SELL", as)].price

\* Prices keep their order as slots: they all lie in one window that starts at
\* a multiple of PRICE_WINDOW. ORDER_BOOK takes it for granted and checks it
\* nowhere.
NoWrap == \A p, q \in Price : p < q => index_of(p) < index_of(q)

\* Once UPDATE_BOOK has returned no resting bid reaches a resting ask, killed
\* orders that still wait for their eviction included.
Uncrossed ==
  pc = "idle" => \A b \in On("BUY"), a \in On("SELL") : order[b].price < order[a].price

\* An order that a KILL or MODIFY has marked is never filled again.
KilledNeverFilled ==
  [][\A i \in Booked : killed_orders[i] = "killed" => order'[i].qty = order[i].qty]_vars

Ahead(i, j) ==
  \/ order[i].side = "BUY"  /\ order[i].price > order[j].price
  \/ order[i].side = "SELL" /\ order[i].price < order[j].price
  \/ order[i].price = order[j].price /\ order[i].at < order[j].at

\* Whatever is filled was first of its side in price-time priority among the
\* orders nobody has killed.
PriceTimePriority ==
  [][\A i \in Booked :
       order'[i].qty # order[i].qty =>
         \A j \in Live \ {i} : order[j].side = order[i].side => Ahead(i, j)]_vars

\* What a message tells of the open quantity of order i: a fill or a confirmed
\* kill takes it off, a refusal says nothing.
Counted(m, i) == IF m.id = i /\ m.type # "J" THEN m.qty ELSE 0

\* A client that adds up what it was told of an order, fills and confirmed
\* kill, and what still rests, finds the quantity it placed.
ReportsAddUp ==
  \A i \in Booked :
    LET inbox == sent[order[i].session]
        told[k \in 0 .. Len(inbox)] ==
          IF k = 0 THEN 0 ELSE told[k - 1] + Counted(inbox[k], i)
    IN  order[i].session \in Registered =>
          told[Len(inbox)] + (IF i \in Resting THEN order[i].qty ELSE 0)
            = order[i].placed

\* An order is reported done, by its full fill or its confirmed kill, only when
\* it has left the book, and nothing but refusals is said of it afterwards, to
\* any session: so it is reported done at most once.
OneFinalReport ==
  \A c \in Session : \A k \in DOMAIN sent[c] :
    sent[c][k].type \in {"F", "K"} =>
      /\ sent[c][k].id \in Booked \ Resting
      /\ \A d \in Session : \A l \in DOMAIN sent[d] :
           sent[d][l].id = sent[c][k].id =>
             <<d, l>> = <<c, k>> \/ (d = c /\ l < k) \/ sent[d][l].type = "J"

\* The market thread comes back for the next request: UPDATE_BOOK's nested
\* loops end.
UpdateEnds == (pc # "idle") ~> (pc = "idle")

\* Leaving killed orders queued is never seen in what trades: without them the
\* book is the price-time book of LimitOrderBook.
Alive == {i \in Resting : killed_orders[i] = "alive"}

Promise == INSTANCE LimitOrderBook WITH
  book <- [i \in Alive |-> [side |-> order[i].side, price |-> order[i].price,
                            qty |-> order[i].qty, at |-> order[i].at]],
  clock <- seq_len,
  settling <- pc # "idle"

ImplementsLimitOrderBook == Promise!Spec

\* README.md:121 has MODIFY kill "the existing order" and then send a fresh
\* one, so a request answered with error 104 would leave the book as it was.
ErrorMeansNoOrder ==
  [][\A c \in Session :
       (\E k \in Len(sent[c]) + 1 .. Len(sent'[c]) : sent'[c][k].type = "J")
         => order' = order]_vars

=============================================================================

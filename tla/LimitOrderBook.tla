--------------------------- MODULE LimitOrderBook ---------------------------
(***************************************************************************)
(* What one symbol's order book promises its clients, whatever structures   *)
(* it is kept in: a set of live orders, cancelled at once by a KILL, and    *)
(* matched in price-time priority until the best bid no longer reaches the  *)
(* best ask. ORDER_BOOK (module OrderBook) keeps killed orders queued and   *)
(* evicts them lazily; here a killed order is simply gone.                  *)
(***************************************************************************)
EXTENDS Integers

CONSTANTS
  OrderId,   \* ids the market book hands out
  Price,     \* price levels, in ticks
  Qty        \* quantities an order may be placed with

VARIABLES
  book,      \* live order -> its side, price, open quantity and arrival time
  clock,     \* requests taken so far
  settling   \* TRUE while the last request is being matched

vars == <<book, clock, settling>>

Side == {"BUY", "SELL"}

Live == DOMAIN book

On(side) == {i \in Live : book[i].side = side}

\* Price priority first, time priority among orders of one price.
Ahead(i, j) ==
  \/ book[i].side = "BUY"  /\ book[i].price > book[j].price
  \/ book[i].side = "SELL" /\ book[i].price < book[j].price
  \/ book[i].price = book[j].price /\ book[i].at < book[j].at

Best(side) == {i \in On(side) : \A j \in On(side) \ {i} : Ahead(i, j)}

Smaller(m, n) == IF m <= n THEN m ELSE n

Crosses(b, a) == book[b].price >= book[a].price

-----------------------------------------------------------------------------

Init ==
  /\ book = [i \in {} |-> {}]
  /\ clock = 0
  /\ settling = FALSE

\* Every request is taken between two matching rounds and stamped in order.
Take ==
  /\ ~settling
  /\ settling' = TRUE
  /\ clock' = clock + 1

\* The order rests with its whole quantity; cancelled, if live, leaves.
Enter(i, side, price, qty, cancelled) ==
  /\ i \notin Live
  /\ book' = [j \in (Live \ cancelled) \union {i} |->
                IF j = i
                THEN [side |-> side, price |-> price, qty |-> qty, at |-> clock']
                ELSE book[j]]

Place(i, side, price, qty) == Take /\ Enter(i, side, price, qty, {})

\* A cancel of an order that is not live changes nothing.
Cancel(d) ==
  /\ Take
  /\ book' = [j \in Live \ {d} |-> book[j]]

Replace(i, d, side, price, qty) == Take /\ Enter(i, side, price, qty, {d})

\* The best bid and the best ask trade the smaller of their quantities; an
\* order with nothing left leaves the book.
Trade ==
  /\ settling
  /\ \E b \in Best("BUY"), a \in Best("SELL") :
       LET q == Smaller(book[b].qty, book[a].qty)
       IN  /\ Crosses(b, a)
           /\ book' = [j \in {k \in Live : k \in {b, a} => book[k].qty # q} |->
                         IF j \in {b, a} THEN [book[j] EXCEPT !.qty = @ - q]
                                         ELSE book[j]]
  /\ UNCHANGED <<clock, settling>>

\* Matching ends only when no bid reaches an ask.
Settle ==
  /\ settling
  /\ \A b \in On("BUY"), a \in On("SELL") : ~Crosses(b, a)
  /\ settling' = FALSE
  /\ UNCHANGED <<book, clock>>

Next ==
  \/ \E i \in OrderId, side \in Side, price \in Price, qty \in Qty :
       \/ Place(i, side, price, qty)
       \/ \E d \in OrderId : Replace(i, d, side, price, qty)
  \/ \E d \in OrderId : Cancel(d)
  \/ Trade
  \/ Settle

Spec == Init /\ [][Next]_vars

=============================================================================

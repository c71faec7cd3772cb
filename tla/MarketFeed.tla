------------------------------ MODULE MarketFeed ------------------------------
(***************************************************************************)
(* How snapshots leave a MARKET_BOOK: process_one of order_book.hpp counts a *)
(* request, applies it, and starts a detached thread with a copy of the      *)
(* book's top and a raw pointer to the shard's OB_MCAST_FEED. The thread     *)
(* sends one datagram; a Subscriber prints every datagram that reaches it.   *)
(* A book is the list of the orders it has taken; what CREATE_SNAPSHOT       *)
(* shows of a real one is module BookSnapshot.                               *)
(***************************************************************************)
EXTENDS Integers, Sequences, FiniteSets

CONSTANTS
  Shard,               \* shards, with one symbol each
  SNAPSHOT_LEN,        \* orders shown
  SNAPSHOT_FREQUENCY,  \* requests from one snapshot to the next
  MaxMarkets           \* bound: MARKET_BOOKs built one after the other

VARIABLES
  market,    \* which MARKET_BOOK there is
  taken,     \* per market and shard, what its book has taken
  senders,   \* snapshots whose threads have not sent them yet
  network,   \* datagrams on their way
  printed,   \* datagrams a subscriber has printed
  crashed    \* TRUE once a thread has used a feed that is gone, and it showed

feedVars == <<market, taken, senders, network, printed, crashed>>

Market == 1 .. MaxMarkets

FeedInit ==
  /\ market = 1
  /\ taken = [m \in Market |-> [s \in Shard |-> <<>>]]
  /\ senders = {} /\ network = {} /\ printed = {}
  /\ crashed = FALSE

\* The top of a book, from the first seq_len requests it took.
Top(m, s, seq_len) ==
  SubSeq(taken[m][s], 1, IF seq_len < SNAPSHOT_LEN THEN seq_len ELSE SNAPSHOT_LEN)

Snapshot(s, orders) ==
  [market |-> market, shard |-> s, seq_len |-> Len(orders),
   orders |-> SubSeq(orders, 1, IF Len(orders) < SNAPSHOT_LEN THEN Len(orders) ELSE SNAPSHOT_LEN)]

\* Every request counts, whatever became of it.
process_one(s, o) ==
  LET orders == Append(taken[market][s], o)
  IN  /\ taken' = [taken EXCEPT ![market][s] = orders]
      /\ senders' = IF Len(orders) % SNAPSHOT_FREQUENCY = 0
                    THEN senders \union {Snapshot(s, orders)}
                    ELSE senders

\* Mutant: the thread has a reference to the book, and copies it when it sends.
Copied_Late(d) == [d EXCEPT !.orders = Top(d.market, d.shard, Len(taken[d.market][d.shard]))]

\* std::thread copies the snapshot when it is started.
Copied(d) == d

\* Detached threads are in no order, and a datagram may be lost. The feed of a
\* market that has been destroyed may be anything: its thread sends what it
\* has, sends nothing, or brings the process down.
SEND_BROADCAST(d) ==
  /\ d \in senders /\ ~crashed
  /\ senders' = senders \ {d}
  /\ network' \in {network, network \union {Copied(d)}}
  /\ crashed' \in IF d.market = market THEN {FALSE} ELSE BOOLEAN
  /\ UNCHANGED <<market, taken, printed>>

\* The subscriber prints what arrives, twice if it arrives twice.
snapshotListener(d) ==
  /\ d \in network
  /\ printed' = printed \union {d}
  /\ UNCHANGED <<market, taken, senders, network, crashed>>

FeedNext ==
  \/ \E d \in senders : SEND_BROADCAST(d)
  \/ \E d \in network : snapshotListener(d)

\* Whatever a subscriber prints was true of the book when it had taken as many
\* requests as the snapshot says, however late and in whatever order the
\* datagrams come, and whatever the book has become since.
PrintedTrue ==
  \A d \in printed :
    /\ d.seq_len \in 1 .. Len(taken[d.market][d.shard])
    /\ d.orders = Top(d.market, d.shard, d.seq_len)

=============================================================================

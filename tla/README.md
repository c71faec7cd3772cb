# TLA+ models of the Market Book Exchange Simulator

A verification project for the exchange server under `server/`: TLA+ modules
of its order book, of the data structures the book is made of, and of the
threads and queues that bring requests to it; TLC configurations that check
them on small instances; and proofs, checked by TLAPS, of what matters most
for every value of the constants.

Paths below are relative to the repository. `order_book.hpp` and the other
headers without a path are in `server/include/`.

## 1. The system

One server process, any number of TCP clients, any number of UDP subscribers.

| Component | State | Operations | Called by |
|---|---|---|---|
| `MatchingEngine` (`server_classes.hpp:82`) | acceptor, next session id | accept a client, register its session | I/O threads |
| `MatchingSession` (`server_classes.hpp:51`, `server_classes.cpp:5`) | socket, read buffer | read and decode a request, `simpleReject`, ACK or ERROR, submit; `writeToClient` | I/O threads; market threads write |
| `SessionRegistry` (`server_classes.hpp:27`) | session id -> weak pointer | `add`, `lock` (`remove` is never called) | both |
| `MARKET_BOOK` (`order_book.hpp:485`) | `current_id`, shards, each with a queue and a map of books | `assign_order_id`, `submit_order`, `drain_one`, `market_listener`, `process_one` | I/O threads submit, market threads drain |
| `ORDER_BOOK` (`order_book.hpp:316`) | bids, asks, bitmaps, pool, kill flags, `seq_len` | `SEND_ORDER`, `KILL_ORDER`, `MODIFY_ORDER`, `UPDATE_BOOK`, `CREATE_SNAPSHOT` | the market thread of its shard |
| `PriceBitmap` (`:146`) | words `l0`, summary `l1` | `set`, `clear`, `find_highest`, `find_lowest`, two visitors | `ORDER_BOOK` |
| `OrderPool`, `PriceLevel` (`:70`, `:113`) | node vector, free list; head, tail, count | `acquire`, `release`, `grow`; `level_push_back`, `level_pop_front` | `ORDER_BOOK` |
| `KillFlagTable` (`:223`) | slots, two counts | `set`, `find`, `erase`, `maybe_grow`, `rehash` | `ORDER_BOOK` |
| `OB_MCAST_FEED` (`server_classes.hpp:103`) | UDP socket of a shard | `SEND_BROADCAST` in a detached thread per snapshot | `process_one` |
| `CONVERSION_PACKAGE` (three of them) | none | encode, decode | everybody |
| `ServerHandler` (`server_classes.cpp:36`) | threads | load symbols, start and partition threads | `main` |
| `StandardClient`, `Subscriber` | sockets, buffers | replay `orders.json`, listen; receive snapshots | their own processes |
| `ShardDrainer` (`bench/src/bench_main.cpp`) | `stop`, a worker | drain all shards, a last sweep, join | the multithreaded benchmarks |

A request goes client -> socket -> read handler (an I/O thread) -> the queue of
the shard its symbol hashes to -> the one market thread that listens to that
shard -> the book of its symbol. Answers go back through the socket, written by
whichever thread has one. The book has no locks; it relies on the partition of
the shards.

What is hard here:

- **Lazy kills.** A killed order is only flagged. It stays queued until it is
  the front of the best level, while orders are placed, filled and killed
  around it.
- **Four structures, one truth.** Levels, bitmap, pool and kill flags must
  change together in every operation.
- **Prices modulo a window.** A price's slot is its low 16 bits, so order of
  slots is order of prices only within one window.
- **Hand-written data structures.** A hash table with tombstones, an intrusive
  free list, a two-level bitmap: each fails only after a long history.
- **Threads.** Id, ACK and submission are three steps; shards are partitioned;
  two kinds of threads write to one socket.
- **Streams and datagrams.** A read may return a part of a request, a write
  goes out in pieces, a detached thread sends a snapshot whenever it runs, and
  three programs count the same offsets on their own.
- **Edges.** Reserved keys, signed four-byte ids, sessions that are gone,
  symbols that are not listed, the pool at its limit.

What makes each part correct:

| Component | Correct if | Properties |
|---|---|---|
| `ORDER_BOOK` | it never crosses, fills in price-time priority, never fills a killed order, keeps its four structures in agreement, and its loops end | `Uncrossed`, `PriceTimePriority`, `KilledNeverFilled`, `BitmapMarksLevels`, `QueuesWellFormed`, `FlagsMatchBook`, `TopsSettled`, `UpdateEnds`, `ImplementsLimitOrderBook` |
| its reports | quantities add up, each order is reported done once | `ReportsAddUp`, `OneFinalReport` |
| its snapshots | the true top of the book, also when printed late | `SnapshotIsTop`, `PrintedTrue` |
| `PriceBitmap` | searches and visits are exact | `SummaryExact`, `SearchesExact`, `VisitsInOrder`, `BitmapsAgree` |
| `OrderPool`, levels | levels are queues, no node is lost | `NodesPartitioned`, `ImplementsLevelQueues` |
| `KillFlagTable` | it is a map and its probes end | `CountsExact`, `ProbesEnd`, `ChainsUnbroken`, `ImplementsFlagMap` |
| `MARKET_BOOK` and threads | no request is lost, doubled or overtaken; a shard has one thread; nothing waits for ever | `NothingLost`, `SessionFifo`, `AckPrecedes`, `BookExclusive`, `EveryRequestTaken` |
| `MatchingSession` | every request is decoded as sent and answered once | `DecodedAsSent`, `AnsweredOnce`, `HeardWhole`, `EveryRequestAnswered` |
| the wire format | everybody decodes what was meant | `RequestsSurvive`, `AnswersSurvive`, `SnapshotsSurvive` |
| `ShardDrainer` | its last sweep leaves nothing, its join ends | `NothingLeft`, `JoinEnds` |

## 2. Modules

| Module | Models | Interface to the others |
|---|---|---|
| `LimitOrderBook` | abstract: a price-time book where a killed order is gone at once | `OrderBook` implements it |
| `OrderBook` | `ORDER_BOOK` and the part of `process_one` that drives it | sees bitmap, level and flag table as a set, a sequence and a function |
| `BookSnapshot`, `MCOrderBook` | `CREATE_SNAPSHOT`, over the states of `OrderBook` | extends `OrderBook` |
| `PriceBitmap`, `PriceBitmapVisits` | `PriceBitmap`: words as sets of bits; the visitors | its marked slots are `bitmap[side]` of `OrderBook` |
| `LevelQueues` | abstract: a queue per level, room for so many orders | `level` of `OrderBook` |
| `OrderPool` | pool, free list and levels | implements `LevelQueues` |
| `BookLevels`, `MCBookLevels` | both sides' levels and bitmaps on one pool | composes `PriceBitmap` (twice) and `OrderPool` |
| `FlagMap` | abstract: a map from ids to flags | `killed_orders` of `OrderBook` |
| `KillFlagTable`, `MCKillFlagTable` | the hash table | implements `FlagMap` |
| `MarketBook` | sessions' handlers, shards, queues and threads | a book is the list of ids it takes: `Request` of `OrderBook` |
| `Session`, `MCSession` | one TCP connection from both ends, with the thread that answers | bytes by their place in a message; `Codec` has what they say |
| `Codec`, `MCCodec` | the wire format of server, client and subscriber | |
| `MarketFeed` | the way of a snapshot: detached threads, datagrams, subscribers | a book is the list of what it took; `BookSnapshot` has what is shown |
| `ShardDrainer` | the multithreaded benchmarks around a market | extends `MarketFeed` |
| `OrderBookProofs` | theorems about `OrderBook` and `BookSnapshot`: structures, priority, the promise, reports, snapshots | |
| `PriceBitmapProofs` | theorems about `PriceBitmap` | |
| `OrderPoolProofs` | theorems about `OrderPool` | |
| `BookLevelsProofs` | theorems about `BookLevels` | cites the two above, once per instance |
| `KillFlagTableProofs` | theorems about `KillFlagTable` | |
| `MarketBookProofs` | theorems about `MarketBook`: routing, hand-over | |
| `SessionProofs` | theorems about `Session` and `Codec` | |
| `ShardDrainerProofs` | theorems about `ShardDrainer` and `MarketFeed` | |

### OrderBook and BookSnapshot

`level[side][slot]` is the intrusive list of a `PriceLevel`; `bitmap[side]` the
marked slots; `order[id]` the `ORDER` of every id booked so far, with its open
quantity; `killed_orders[id]` is absent, alive or killed; `sent[session]` what
the book wrote to a socket. `pc` is the place of the market thread in
`process_one`. One step is one request (`SEND_ORDER`, `KILL_ORDER` or
`MODIFY_ORDER`, whole, with the count of `seq_len`), or one pass of a loop of
`UPDATE_BOOK`: `Evict` and `EndDrain` are `drain_dead` for a side, `Fill` a
match with both notifications and pops, `EndMatch` the break. `at` and `placed`
of an order are history that no guard reads. `Registered` is the set of
sessions that `SessionRegistry::lock` resolves; session ids outside it stand
for a session that is gone and for the benchmarks' orders, which have id 0.

Messages keep type, id and quantity. Prices in reports are left out: a fill
happens at the ask's price, which the order's record has.

`CREATE_SNAPSHOT` changes nothing, so it is an operator of the state, and
`Due` says when `process_one` calls it. `Walked` has the nodes of the marked
levels in the order in which the visitor comes to them, a level at a time and
each queue from its front, the killed orders among them; `Shown` is the loop
that copies from the walk, one order a turn. `SnapshotIsTop` compares the result
with the live orders alone.

### PriceBitmap, OrderPool, BookLevels

`l0` and `l1` with `WORD_BITS` bits per word. `clz64` and `ctz64` of a word
without bits are undefined in the code: any place in the model, so that a stale
summary bit shows. `PriceBitmapVisits` adds the visitors of `CREATE_SNAPSHOT`
as the sequences of slots they visit.

`nodes`, `free_head` and the head, tail and count of each level, with the
initial capacity, the chunk and the limit as constants. `Exhausted` is the
exception of `acquire`, which nothing catches: the behaviour ends there, which
is why the run does not check for deadlock.

`BookLevels` puts two bitmaps and one pool together as `insert` and the pops
of `drain_dead` and `UPDATE_BOOK` do: the bit of an empty level is set before
the push, the bit of an emptied one cleared after the pop, and a pop is always
of the level that the bitmap calls the best. `insert_throws` is the insert that
the pool refuses, after the bit is set.

### KillFlagTable

`slots` with keys and values, the two counts, and `hash`, which is chosen once
in `Init` and may be any function: the multiplication of the code is one of
them. `set`, with growth and rehash, `find`, `mark` (the write through the
pointer that `find` returned) and `erase` are the actions. `answer` is what the
last `find` returned.

### MarketBook

Per session the handler's place (`read`, `ack`, `submit`) and request; per
shard the queue; per market thread the shard it looks at and the request it has
popped; per listed symbol the ids its book has taken. `assign_order_id` is the
handler from its start to the id, `writeAck` and `submit_order` its other two
effects; `drain_none`, `drain_one` and `process_one` are the market thread's
loop. `shard_of` is any function from symbols to shards. The lock-free queue is
a FIFO of any length: `QUEUE_SIZE` only sets how many nodes are allocated up
front, and `push` allocates more.

### Session

One connection: the client's requests as bytes on their way (`upstream`), the
read handler with its single buffer, the queue to the market thread and that
thread's answers, and the client's listener, which takes a type byte and then a
body. A byte is a pair of its request or message and its place in it, so the
model sees every way in which reads and writes can cut or mix messages, and
what bytes out of step decode to is left open. `readListener` is one call of
the handler: `async_read_some` returns any number of bytes up to the buffer's
size, the decoder for the first letter runs on whatever there is,
`simpleReject` or the malformed-request answer or the ACK goes out, and the
handler reads again (after an ACK, once it has submitted). `Write` is one piece
of `boost::asio::write`; `WriteThrows` its exception, which nothing catches.
`ReadError` is the re-armed read after an error. The session's mutex is
declared and never taken, so two writers are not kept apart.

### Codec

Each encoder and decoder of the server, the client and the subscriber is the
list of the fields it writes or reads, in its own order; the offsets in the
code are sums of widths. Numbers are encoded and decoded digit by digit, as
`number_to_bytes` and each `byte_conversion` do it, with the sign that a shift
of the top byte of an `int` gives, and the zeros that a negative number
becomes. All cells of a message but the letter of its type are bytes, so that
what stands in the wrong place is decoded too. `Asked` are the entries of
`orders.json`, where an `order_type` may be a string of any length, as the client
copies it; that it is one letter is a condition of what is checked and proved
(`OneLetterSides`) and not of the model. A frame that is longer than the server's
buffer is decoded as far as the buffer goes; that its last bytes begin the next
request is not followed here (`Session` has requests out of step). `Decode`, `writeToClient`
and `SEND_BROADCAST` take an order from the decoder to the encoders, with the
fields a decoder does not set.

### MarketFeed and ShardDrainer

`process_one` of `MarketFeed` is the part of the code's function that counts
and starts the snapshot's thread, with a copy of the book's top and a raw
pointer to a feed; `SEND_BROADCAST` is that thread, at any later time, losing
the datagram or not. Datagrams are a set: they arrive in any order and may
arrive twice. A feed whose `MARKET_BOOK` has been replaced may do anything
(`crashed`).

`ShardDrainer` is a benchmark around it: threads submit, the worker goes round
the shards until `stop`, sweeps them once more, and is joined, whereupon the
next configuration builds a new market in the same static variable.

## 3. Runs

All constants are in the `.cfg` files. Bounds that exist only in the models:
`MaxRequests` (requests of one behaviour), `MaxCuts` (short reads), `MaxSlots`
(growth of the flag table), `MaxMarkets` and `Iterations` (configurations of
the benchmark and orders per thread), and the sizes of the sets.

| Run | Checks | Shows |
|---|---|---|
| `orderbook_safety` | `TypeOK`, `BitmapMarksLevels`, `QueuesWellFormed`, `TopsSettled`, `Uncrossed`, `ReportsAddUp`, `OneFinalReport`, `SnapshotIsTop`, `KilledNeverFilled`, `PriceTimePriority` | the book is right with four requests, three ids, two prices and two quantities |
| `orderbook_promise` | `FlagsMatchBook`, `ImplementsLimitOrderBook`, `UpdateEnds` | lazy kills are invisible in what trades, also for orders without a session; the matching loops end |
| `orderbook_wrap` | `Uncrossed` | *violated*: prices 3 and 4 in a window of 4 |
| `orderbook_modify` | `ErrorMeansNoOrder` | *violated*: MODIFY of an unknown id |
| `levels` | `BookTypeOK`, `SummaryExact`, `SearchesExact`, `VisitsInOrder`, `NodesPartitioned`, `BitmapsAgree`, `ImplementsLevelQueues` | bitmaps, levels and pool agree through growth, reuse and exhaustion |
| `killflags` | `CountsExact`, `ProbesEnd`, `ChainsUnbroken`, `ImplementsFlagMap` | the table is the map, through a growth and a table full of tombstones |
| `market` | `TypeOK`, `BookExclusive`, `NothingLost`, `AckPrecedes`, `SessionFifo`, `EveryRequestTaken` | hand-over with two I/O and two market threads, three shards, an unlisted symbol |
| `codec` | `RequestsSurvive`, `AnswersSurvive`, `SnapshotsSurvive` | the three programs agree on every message |
| `codec_range` | `FieldRange` | *violated*: a quantity in the upper half of its field |
| `session` | `DecodedAsSent`, `AnsweredOnce`, `HeardWhole`, `EveryRequestAnswered` | a connection with short reads, pieces, a client that leaves, an exception |
| `drainer` | `PrintedTrue`, `NothingLeft`, `JoinEnds` | the last sweep, the join, and late or lost snapshots over two configurations |
| `bench_reuse` | `FormerMarketUnused` | *violated*: a snapshot's thread outlives its market |

Why the bounds are enough to be worth checking:

- Two prices and two quantities make levels of several orders, partial fills,
  prices that meet and that do not; both slots of the window differ from their
  prices (a window of 3, prices 4 and 5). Three ids and four requests allow an
  order to be filled in part, killed, overtaken and replaced, and a KILL of an
  id that is unknown, filled or evicted. The invariants relate two orders at a
  time, and the theorems below lift the central ones to any number. A snapshot
  of two orders out of three has to pass over killed ones and to stop early.
- `orderbook_promise` takes three requests and adds a session that is gone. Ids
  are given out in ascending order there (`InOrder`), as `assign_order_id` does,
  in place of the symmetry that a liveness property forbids.
- Words of 2 bits and a window of 6 slots give three words under two summary
  words, the last only partly used, as the code's rounding up provides for.
  The pool starts with 2 nodes and may grow to 3, by a chunk that is clipped to
  that limit. Three orders, on any of twelve levels, fill it; a fourth is
  refused, which is `insert_throws`.
- Four ids with hashes 0, 1, 6 and 7 collide in every way in 4 and in 8 slots,
  probe around the end of the table, and can leave every slot a tombstone if
  those are not counted.
- Three shards do not divide evenly between two threads, and two symbols, one
  of them unlisted, may share a shard or not: every function is tried.
- Two requests with a frame of two bytes and one short read are enough to put
  the server out of step and to have it decode a request that nobody sent; two
  writers with messages of two and three bytes are enough to mix them. More
  bytes in a message add places to cut it, and none that differ.
- Symbols of `codec` may hold the bytes of 'B' and of a blank, and the
  `order_type`s are 'B', 'S' and a third letter. Beside its runs, `MCCodec` has
  two assumptions on single frames that TLC evaluates: a SEND with an
  `order_type` of two letters arrives with another symbol, quantity and price
  (`LongSideShifts`), and "BS" arrives as a buy (`LongSideBuys`).
- A byte of base 4 with fields of two and three digits and an `int` of three
  bytes has what matters of 256 and 4: fields narrower and as wide as the
  `int`, several digits, leading zeros, the sign.
- Two shards and two threads with an order each, snapshots after every request
  of a depth of two, and two configurations: enough for two orders in one
  shard, a snapshot older than another, and a market that is replaced.

Three properties say less than their names might suggest. `AnsweredOnce` counts
the answers to a request as a set, so that one written twice byte for byte would
not be seen; the steps of `readListener` write one each. `DecodedAsSent` holds
until a read is cut short, and `HeardWhole` until two writes overlap: they say
that nothing else puts a stream out of step, not that the code recovers.
`NothingLeft` speaks of the order of each thread's requests too, which cannot go
wrong in `drainer`, where a thread has one (`Iterations`); its theorem has any
number.

Symmetry is used for ids and orders, never in a run with a liveness property,
and never for prices. Deadlock is checked except where the system really stops:
in `levels` after the exception of a full pool, in `session` after the client
has had its answers or an exception has ended the server, in `drainer` when the
benchmark is over.

### Fairness

`OrderBook!Spec` has `WF_vars(UPDATE_BOOK)`: the market thread calls
`UPDATE_BOOK` inside `process_one` and never leaves it before its loop breaks.
Nothing is assumed of requests. `MarketBook!Spec` has weak fairness of each
market thread, which never leaves `while (true)` (`order_book.hpp:503`), and of
the two later steps of a read handler, which runs to its end once it is called.
`Session!Spec` has weak fairness of the handler (re-armed, and run whenever
bytes have come), of the market thread, of writes and of a client that stays
and listens; none of sending or leaving. `ShardDrainer!Spec` has weak fairness
of the worker's loop, of the benchmark threads up to their own count, and of
thread 0's stop and join; none of the detached threads or the network.
No fairness is assumed between threads beyond that of the operating system.

### Where the code and its documents differ

The first four are properties of runs that TLC violates; `PROJECT.json` quotes
the lines.

1. Prices on either side of a multiple of 65536 leave a crossed book
   (`order_book.hpp:426`, README.md:94).
2. A MODIFY that is refused with error 104 books its order nevertheless
   (`order_book.hpp:350`, README.md:121). It happens in ordinary use: the order
   to be changed was filled a moment before.
3. A quantity, price or id in the upper half of a four-byte field decodes as a
   negative number (`conversions.hpp:14`, README.md:181).
4. A detached snapshot thread may still point into the market that the next
   benchmark configuration replaces (`order_book.hpp:535`,
   `bench_main.cpp:205`).

Met while modelling, and without a run of their own:

- A killed order is removed only from the best level, not from any level an
  operation touches (`order_book.hpp:443`, README.md:122).
- The id 4294967295 decodes to -1, the key of empty slots, and its KILL gets no
  error (`order_book.hpp:274`, README.md:302). The flag it writes is in an
  empty slot, where `set` overwrites it: the table is not harmed.
- A snapshot shows `SNAPSHOT_LEN` orders of a side, not price levels
  (`order_book.hpp:405`, README.md:95 and 112).
- A request for an unlisted symbol gets an ACK and then error 101
  (`order_book.hpp:511`), although README.md:91 has one or the other;
  `MarketBook` models it so, and `AckPrecedes` says in which order they come.
- `order_type` is `"B"` for a buy and "anything else is treated as sell"
  (README.md:220), but `SendOrder` and `SendModify` copy the string into the
  frame where the server has one byte for the side (`client_classes.hpp:27`,
  `:32`): only a string of one letter is treated so. "SELL" moves the symbol and
  every number by three bytes, "BUY" is a buy of another symbol, and an empty
  string moves them the other way (`LongSideShifts`, `LongSideBuys`).
- README.md:133 and 134 have the side at offset 1 and the symbol at offset 2 of
  every request. A KILL has no side: client and server agree that its symbol is
  at offset 1 (`client_classes.hpp:37`, `conversions.hpp:37`), as in `SendLayout`
  and `DECODE`. A client written from the table would kill under another symbol.

## 4. Proofs

The proof modules hold for every value of the constants under the modules'
named assumptions: prices and quantities are positive (what `simpleReject`
leaves), window, words, shards and threads are at least one, a window is a
whole number of words, the drainer's shards are 0 to some last one, a table has a
slot, the two reserved keys differ from each other and from every order id, the
pool starts with a node or more and within its limit, `NIL` is no index, a
session's frames have a byte or more, and a snapshot shows an order or more; of
the wire format, a byte has an even number of values, a field for a number is no
wider than an `int`, except the sequence number's, a symbol fills its field
(README.md:191), and 'B', 'S' and the blank are bytes, the first two different.

**The book** (`OrderBookProofs`). The inductive invariant `Inv` is the
conjunction of `TypeOK`, `BitmapMarksLevels`, `QueuesWellFormed`,
`FlagsMatchBook` and `TopsSettled`.
None of the parts is inductive alone. That tops stay settled while the other
side is drained needs the bitmap to be exact (the top may not change) and the
queues to be well formed (an order is in one queue, once, so that a pop takes
it out of the book); that flags match the book needs the same, since an order
that lay in two queues would lose its flag with the first; that queues keep
orders with something left needs the fill to be the smaller of two positive
quantities. Each action has a lemma; `BookInvariant` is `Spec => []Inv`.

`NeverFilledOnceKilled` follows from `TopsSettled`: a fill takes the two fronts,
and in state `match` neither is killed. `BookUncrossed` and `FilledInPriority`
assume `NoWrap`, that prices keep their order as slots; `orderbook_wrap` shows
that the assumption is needed and that the code does not establish it.

**The book's promise**. `BookKeepsPromise`: under
`NoWrap`, `OrderBook` implements `LimitOrderBook`. The abstract book is the live
orders. A request maps to `Place`, `Cancel` or `Replace` (`EnterRefined`,
`CancelRefined`), `Evict` and `EndDrain` to stutters, `Fill` to `Trade` and
`EndMatch` to `Settle`. The crux is `FrontIsBest`: in state `match` the front of
a side is the best of its live orders, which needs the exact bitmap, the order
of slots, the order within a queue, and that both fronts are alive. The abstract
`Cancel` and `Replace` may name any id, live or not, so the refinement by itself
does not say that a KILL took effect: `FlagsMatchBook` and `OneFinalReport` do.

**Reports**. `ReportedDoneOnce` needs a statement about the whole history of
messages. `Sound` says that what was said of an order went to the order's own
session, and that a report of its end is about an order that no longer rests and
is the last word on it. One lemma, `DeliverSound`, covers every message: it
keeps `Sound` if the order was not done before.

`QuantitiesAddUp` is about a sum over an inbox, which `ReportsAddUp` folds with
a recursive function, and folds of arbitrary length cannot be unfolded by the
provers. `Accounted` therefore says that some function on the inbox starts at 0,
grows at each message by what it tells (`Tally`), and ends at the sum that the
order's open quantity leaves. Each delivery extends that function by one place
(`TallyAppend`), every request and every step of matching is accounted for
(`RequestAdds`, `FillAdds`, `EvictAdds`), and at the end the function is shown
to be the folding one (`TallyIsTold`), because two that agree at 0 and grow
alike differ nowhere. A fill needs `Inv`: the two orders are different ones,
each in its own session's inbox once.

**Snapshots**. `SnapshotShowsTop` assumes `NoWrap` too. The walk's order of
nodes is a strict order of a finite set, in which the member of rank k is found
by counting those before it (`NthFacts`); it is the order of price and time
(`SoonerAhead`), and every resting order is on it, since every queue with an
order is marked. The loop of `Shown` keeps `Top`: what it has copied are the
first live orders of those it passed, all of them unless it has as many as a
snapshot shows, and then the rest are behind. That the loop's recursive function
exists, and keeps this to its end, is shown by climbing along the walk
(`PicksExist`, `ShownTop`).

**The bitmap** (`PriceBitmapProofs`). `SummaryExact` with products of words and
bits is first shown equivalent to `SummaryByWord`, with quotients and
remainders; one lemma then covers `set` and `clear`, as the update of one word
and of its summary bit. `BestLevelsFound` composes two searches: numbers are in
the order of their quotients, then of their remainders (`WordOrder`), once for
slots and once for words.

`LevelsVisited` says that the visitors' walk, over the words that the summary
leads to and then over the bits of each, is the one sorted walk over the marked
slots. A finite set of numbers is sorted by their ranks (`RankedSorts`), and in
one way (`SortedOnce`); a sorted walk of one set before another's is the sorted
walk of both (`JoinSorts`), and slots of different words are in the order of the
words (`BeforeByWord`). After each word the walk is therefore that of the marks
of the words so far, and the library's `FlattenSeq` ends with the last
(`FlattenIs`).

**The pool and the levels** (`OrderPoolProofs`). What the model has is links, and
what the properties speak of is lists. The inductive invariant says that there
is a list of nodes for each level and one for the free nodes (`Whole`) such that
each starts at its head, follows the links, ends in `NIL` (a level's at its
tail), and is as long as the level's count says; that no node is in two lists or
twice in one, and no order in two nodes; and that every node of the vector is in
one. `level_push_back`, with
`acquire` from the free list or after a growth, moves a node from the front of
the free list to the end of a level's, `level_pop_front` moves it back. That a
link is followed to the same nodes as before needs the lists to be disjoint: a
push writes the `next` of one tail, which lies on no other list. The model's
`Walk` through `next` is shown to return exactly the list (`WalkIs`), and
`PoolPartitioned` and the refinement `PoolRefines` follow; the abstract queue of
a level is the orders of its list. Both are proved under `Capacities`, which
module `BookLevels` assumes of its constants and `BookLevelsProofs` discharges.

`BookLevelsProofs` puts the pool's invariant and those of both bitmaps together
(`Parts`): each action of the book is one action of the pool and at most one of
a side's bitmap, so `BookTyped`, `BookNodesPartitioned` and
`BookImplementsQueues` are the parts' theorems at the sizes of the book.
`BookBitmapsAgree` is not a part's: its invariant `Agree` says that the marks of
a side are the levels with orders, and after an exception those and the level of
the insert that threw. A pop clears a bit exactly if the count, which the pool's
invariant ties to the list, comes to 0. With the searches of `PriceBitmapProofs`
this gives `BestLevelHasFront`.

**The kill flags** (`KillFlagTableProofs`). The invariant says that the table is
`Sound`, that both counts are exact, and that entries and tombstones fill less
than 6/10 of it. `Sound` is the invariant of open addressing: an id has one slot,
and no slot on its probe's way to that one is empty; an erase keeps this because
it leaves a tombstone and not an empty slot, and an insert because it looks for
the key behind a tombstone before it reuses it. The load leaves an empty slot,
and a probe comes to every slot (`Reach`), so every probe ends. What `rehash`
comes to is shown by climbing along the slots of the old table (`Climb`, from
the well-foundedness of `<`): after k of them the new table is sound and has
exactly their entries (`Rebuilt`). `TableKeepsPromise` is the refinement: with
the table read as a map (`FlagsOf`), each operation is the map's, growth
included. It assumes that nobody names a reserved key, which a client can do
(`conversions.hpp:14` decodes ids as signed): `find` then answers from an empty
slot or a tombstone. The other theorems do not need this assumption.

**The threads** (`MarketBookProofs`). `ShardOwnedOnce` is about the constants
alone: the intervals of `Listens` partition the shards, uneven division and idle
threads included. With the invariant `Routed` (requests lie in the queue of
their shard, and are held by a thread that listens to it) it gives
`BooksUnshared`.

**The hand-over**. The invariant `Delivery` follows a
request from place to place by the ids that its client has been told
(`Acked`): a request in a handler has the newest id of its session, and is
acknowledged exactly from the second step on; what waits in a queue or a hand,
and what a book took or refused, is acknowledged; ids in a queue that are one
client's ascend, those taken are smaller than those that wait, and ACKs ascend
in each client's stream. `AckComesFirst` and `RequestsInOrder` follow. That a
request taken by a thread keeps its place before those still queued needs the
exclusive shards of `BooksUnshared`. `All` adds that no two waiting requests
share an id, that an id taken or refused is so once and no longer waits
(`Sole`), and that every id given out is somewhere (`Found`); `OnePlaceEach`
puts them together.

**The drainer** (`ShardDrainerProofs`). The invariant says of the feed that
every snapshot in a thread, on the network or printed is the top of its book's
first `seq_len` orders, which later orders leave alone; and of the queues that
each thread's orders lie in its shard's book and then its queue, in order and
without a gap, that shards behind a sweep are empty, and that nobody submits
after `stop`. `SnapshotsTrue` and `DrainedBeforeJoin` follow.

**The session** (`SessionProofs`). `Basic` has the types, the order of what the
server decodes, and that what a writer has left is the end of one message.
`RequestsAsSent` adds `InStep`: until a read is cut short, the unread bytes are
whole frames, those of the requests after the decoded ones, so that the next
read takes exactly one. `OneAnswerEach` holds whatever reads are cut: a
request's first byte is read at most once, so the number it carries is decoded
at most once, and the answer follows from what was asked. That the price of a
request at the market thread was checked needs the ACK to be the only answer
and to be out in full before the handler submits.
`MessagesWhole` is about cells laid end to end. `Aligned` says that while no two
writes have overlapped, at most one writer is inside a message; that what the
client has not read, followed by the rest of that message, is the messages
written, each behind the cells of the one before (`Laid`); and that the client
is at the start of the first it has not heard, or behind its type byte with the
length that this type has. Reading moves along a message, writing either goes on
in the last message or appends the next, and neither moves the cells between.

**The wire format** (`SessionProofs`, second half). `RequestsDecoded`,
`AnswersDecoded` and `SnapshotsDecoded` hold for any even base, any widths up to
an `int`'s, any symbols and snapshots of any size, under two conditions that the
code does not see to. `OneLetterSides`: every `order_type` of `orders.json` has
one letter, any letter. `NumbersFit`: a positive
number has no more digits than the field it goes to, and in a field as wide as an `int` its
first digit is below half the base; the numbers
of `codec` have it, those of `codec_range` do not, which is how a quantity comes
out wrong there. The proof goes up in four steps.

- *A number.* `number_to_bytes` writes what the turns of its loop leave, and
  every `byte_conversion` takes the same turns back (`NumberBytes`,
  `UnsignedCounts`, `NumberReadBack`); a number that is not positive comes back
  as zero. Both loops are recursive functions: that such a function exists and
  what it does is shown by climbing, from the well-foundedness of `<`
  (`Recursion`, `Climb`).
- *A message.* The fields joined by `FlattenSeq` can be cut out again where
  `Offsets` has them (`Flattened`), so a record that fills its fields is decoded
  field by field (`EncodedFacts`, `DecodedBack`), with zeros for what was not
  positive (`Arrives`), by whoever has the same layout.
- *The layouts of the program.* Server and client have the fields of a request
  at the same offsets, a side where the client has the `order_type`
  (`ServerLayouts`), and no request is longer than the frame (`RequestLayouts`,
  `RequestLengths`); so each field, the side by its one letter, is read as meant
  (`DecodedAt`, `FrameRead`);
  each of the client's bodies is the encoder's message without its type, of the
  length in the table (`BodyLayouts`, `BodyLengths`).
- *The steps.* `CodecInv` says that a request is its frame until the server has
  decoded it, that the order the server then holds has what arrived of the
  request, that all its fields fit (`OrderSound`: so the numbers that go back,
  what remains of a quantity included, fit as well), and that the message last
  sent is read back. Without `OrderSound` nothing is known of what a report or a
  snapshot says, which is why the two properties are not inductive alone.

Only model-checked: liveness (`UpdateEnds`, `EveryRequestTaken`,
`EveryRequestAnswered`, `JoinEnds`), which is outside what the prover can do.

## 5. Not modelled

- Plain I/O: reading `symbols.json` and `orders.json`, connecting and joining
  groups, printing, and the acceptor's loop, which counts ids and registers
  sessions.
- Measuring in `bench/`, and the single-threaded benchmarks: sequences of
  `OrderBook`'s requests by a session that is never registered.
- The data race of the benchmarks' threads on `shard_symbols`
  (`bench_main.cpp:223`): the value read is a vector of strings while it is
  assigned, which has no list of outcomes.
- The mutexes of `SessionRegistry` and of `MARKET_BOOK::assign_order_id`, and
  the inside of the lock-free queue: each operation is one step.
- Code that does nothing: `PriceLevel.level_price` is written and never read;
  the server's `MULTICAST_PORT`, `SEND_FILLED`, `SessionRegistry::remove` and
  the queue of `OB_MCAST_FEED` are never used.
- Vendored and generated code. The two copies of `json.hpp` are 51052 of the
  repository's 52648 lines of C++; the program itself is about 1600 lines, and
  the models stand for the part of those that has state or decides anything.

Nothing that changes the server's state is left for a later module. What could
still be strengthened: an abstract book that records which id a KILL named, and
an `Exchange` that feeds `OrderBook` from the queues of `MarketBook` (each book
is used by one thread at a time, by `BooksUnshared`, so that the composition adds
no interleaving inside a book).

----------------------------- MODULE MarketBook -----------------------------
(***************************************************************************)
(* MARKET_BOOK of server/include/order_book.hpp with the threads around it  *)
(* in server/include/server_classes.cpp: how a client's request travels     *)
(* from its session, through the queue of a shard, to the one thread that   *)
(* owns the shard, and is applied to the book of its symbol. The books have *)
(* no locks: a thread owns a shard alone. What applying a request does to a *)
(* book is module OrderBook; here a book is the list of ids it has taken.   *)
(***************************************************************************)
EXTENDS Integers, Sequences, FiniteSets

CONSTANTS
  Session,                   \* clients, each with its MatchingSession
  Symbol,                    \* symbols that requests may name
  Listed,                    \* the symbols of symbols.json
  NUM_SHARDS,
  NUM_MARKET_BOOK_THREADS,
  NUM_SERVER_THREADS,        \* threads in io_context.run()
  MaxRequests                \* bound: requests one behaviour makes

ASSUME ListedAssumption == Listed \subseteq Symbol
ASSUME ThreadAssumption ==
  /\ NUM_SHARDS \in Nat \ {0}
  /\ NUM_MARKET_BOOK_THREADS \in Nat \ {0}
  /\ NUM_SERVER_THREADS \in Nat \ {0}

Shard  == 0 .. NUM_SHARDS - 1
Thread == 0 .. NUM_MARKET_BOOK_THREADS - 1

VARIABLES
  shard_of,    \* hash_symbol: a symbol's shard, any function
  current_id,  \* the next id that assign_order_id gives
  handler,     \* what each session's read handler is about to do
  queue,       \* the lock-free queue of each shard
  turn,        \* the shard each market thread looks at next
  held,        \* the request each market thread has popped: {} for none
  taken,       \* per listed symbol, the ids its book has taken
  sent         \* what was written to each session's socket

vars == <<shard_of, current_id, handler, queue, turn, held, taken, sent>>

Request == [id : Nat, session : Session, symbol : Symbol]

\* A: acknowledged. J: error 101; the code's message has no id, which is there
\* for the properties only.
Message == [type : {"A", "J"}, id : Nat]

-----------------------------------------------------------------------------
(* Which shards a market thread listens to: market_listener(start, end) *)

shards_per_thread == NUM_SHARDS \div NUM_MARKET_BOOK_THREADS

\* Mutants: the last thread gets no more than the others; one shard too many.
Listens_Even(t) == t * shards_per_thread .. (t + 1) * shards_per_thread - 1
Listens_Overlapping(t) == t * shards_per_thread .. NUM_SHARDS - 1

\* The last thread takes the shards that do not divide evenly.
Listens(t) ==
  t * shards_per_thread ..
    (IF t = NUM_MARKET_BOOK_THREADS - 1 THEN NUM_SHARDS
                                        ELSE (t + 1) * shards_per_thread) - 1

\* Mutant: the loop runs past its end.
After_NoWrap(t, s) == s + 1

\* The for loop: the next shard, and after the last the first again.
After(t, s) == IF s + 1 \in Listens(t) THEN s + 1 ELSE t * shards_per_thread

TypeOK ==
  /\ shard_of \in [Symbol -> Shard]
  /\ current_id \in Nat \ {0}
  /\ handler \in [Session -> [step : {"read", "ack", "submit"}, request : SUBSET Request]]
  /\ queue \in [Shard -> Seq(Request)]
  /\ turn \in [Thread -> Shard]
  /\ held \in [Thread -> SUBSET Request]
  /\ taken \in [Listed -> Seq(Nat)]
  /\ sent \in [Session -> Seq(Message)]

Idle == [step |-> "read", request |-> {}]

Init ==
  /\ shard_of \in [Symbol -> Shard]
  /\ current_id = 1
  /\ handler = [c \in Session |-> Idle]
  /\ queue = [s \in Shard |-> <<>>]
  /\ turn = [t \in Thread |-> t * shards_per_thread]
  /\ held = [t \in Thread |-> {}]
  /\ taken = [x \in Listed |-> <<>>]
  /\ sent = [c \in Session |-> <<>>]

-----------------------------------------------------------------------------
(* readListener's handler, once per request and session *)

\* Mutant: the request is submitted before its ACK is written.
Then_SubmitFirst == [read |-> "submit", submit |-> "ack", ack |-> "read"]

\* What a handler does after reading, after the ACK and after submitting.
Then == [read |-> "ack", ack |-> "submit", submit |-> "read"]

Advanced(c, request) ==
  LET next == Then[handler[c].step]
  IN  [handler EXCEPT ![c] =
         IF next = "read" THEN Idle ELSE [step |-> next, request |-> request]]

Running == {c \in Session : handler[c].step # "read"}

\* A request that passes simpleReject arrives and gets the next id.
assign_order_id(c, symbol) ==
  /\ handler[c] = Idle
  /\ Cardinality(Running) < NUM_SERVER_THREADS
  /\ current_id <= MaxRequests
  /\ current_id' = current_id + 1
  /\ handler' = Advanced(c, {[id |-> current_id, session |-> c, symbol |-> symbol]})
  /\ UNCHANGED <<shard_of, queue, turn, held, taken, sent>>

writeAck(c) ==
  /\ handler[c].step = "ack"
  /\ \E r \in handler[c].request :
       sent' = [sent EXCEPT ![c] = Append(@, [type |-> "A", id |-> r.id])]
  /\ handler' = Advanced(c, handler[c].request)
  /\ UNCHANGED <<shard_of, current_id, queue, turn, held, taken>>

\* Mutant: a lock-free stack in place of the queue.
Pushed_OnTop(requests, r) == <<r>> \o requests

Pushed(requests, r) == Append(requests, r)

submit_order(c) ==
  /\ handler[c].step = "submit"
  /\ \E r \in handler[c].request :
       queue' = [queue EXCEPT ![shard_of[r.symbol]] = Pushed(@, r)]
  /\ handler' = Advanced(c, handler[c].request)
  /\ UNCHANGED <<shard_of, current_id, turn, held, taken, sent>>

-----------------------------------------------------------------------------
(* market_listener's loop: drain_one of one shard after the other *)

\* The queue is empty: on to the next shard.
drain_none(t) ==
  /\ held[t] = {}
  /\ turn[t] \in Listens(t)
  /\ queue[turn[t]] = <<>>
  /\ turn' = [turn EXCEPT ![t] = After(t, @)]
  /\ UNCHANGED <<shard_of, current_id, handler, queue, held, taken, sent>>

\* Mutant: the request is read and stays queued.
Popped_Peeked(requests) == requests

Popped(requests) == Tail(requests)

drain_one(t) ==
  /\ held[t] = {}
  /\ turn[t] \in Listens(t)
  /\ queue[turn[t]] # <<>>
  /\ held' = [held EXCEPT ![t] = {Head(queue[turn[t]])}]
  /\ queue' = [queue EXCEPT ![turn[t]] = Popped(@)]
  /\ UNCHANGED <<shard_of, current_id, handler, turn, taken, sent>>

\* The popped request is applied to the book of its symbol, or its client is
\* told that there is none; either way the loop goes on to the next shard.
process_one(t) ==
  /\ \E r \in held[t] :
       IF r.symbol \in Listed
       THEN /\ taken' = [taken EXCEPT ![r.symbol] = Append(@, r.id)]
            /\ UNCHANGED sent
       ELSE /\ sent' = [sent EXCEPT ![r.session] = Append(@, [type |-> "J", id |-> r.id])]
            /\ UNCHANGED taken
  /\ held' = [held EXCEPT ![t] = {}]
  /\ turn' = [turn EXCEPT ![t] = After(t, @)]
  /\ UNCHANGED <<shard_of, current_id, handler, queue>>

market_listener(t) == drain_none(t) \/ drain_one(t) \/ process_one(t)

Next ==
  \/ \E c \in Session : \/ \E symbol \in Symbol : assign_order_id(c, symbol)
                        \/ writeAck(c)
                        \/ submit_order(c)
  \/ \E t \in Thread : market_listener(t)

\* A handler that was called runs to its end, and no thread leaves its loop;
\* whether a client sends another request is its own affair.
Fairness ==
  /\ \A c \in Session : WF_vars(writeAck(c)) /\ WF_vars(submit_order(c))
  /\ \A t \in Thread : WF_vars(market_listener(t))

Spec == Init /\ [][Next]_vars /\ Fairness

-----------------------------------------------------------------------------
(* Properties *)

\* No two market threads are ever at work on one shard: the books, and the map
\* they lie in, are used without a lock.
BookExclusive ==
  \A t, u \in Thread :
    t # u => \A q \in held[t], r \in held[u] : shard_of[q.symbol] # shard_of[r.symbol]

\* Where the request with id i is: in a handler or in the hand of a market
\* thread, queued, taken by a book, or refused.
InHandler(i) == {c \in Session : \E r \in handler[c].request : r.id = i}

Held(i) == {t \in Thread : \E r \in held[t] : r.id = i}

Queued(i) == UNION {{s} \X {k \in DOMAIN queue[s] : queue[s][k].id = i} : s \in Shard}

Taken(i) == UNION {{x} \X {k \in DOMAIN taken[x] : taken[x][k] = i} : x \in Listed}

Written(type, i) ==
  UNION {{c} \X {k \in DOMAIN sent[c] : sent[c][k] = [type |-> type, id |-> i]} : c \in Session}

Places(i) ==
  ({"handler"} \X InHandler(i)) \union ({"held"} \X Held(i)) \union ({"queue"} \X Queued(i))
    \union ({"taken"} \X Taken(i)) \union ({"refused"} \X Written("J", i))

\* Every id given out is on its way or was dealt with, in one place and once:
\* the hand-over from session to queue to thread to book loses no request and
\* applies none twice.
NothingLost == \A i \in 1 .. current_id - 1 : \E p \in Places(i) : Places(i) = {p}

\* A client has the ACK of a request, with its id, before the request can have
\* any effect, so before a message that names the id.
AckPrecedes ==
  /\ \A i \in 1 .. current_id - 1 : Taken(i) # {} => Written("A", i) # {}
  /\ \A i \in 1 .. current_id - 1 : \A p \in Written("J", i) :
       \E q \in Written("A", i) : q[1] = p[1] /\ q[2] < p[2]

\* Requests of one client for one symbol are taken in the order of their ACKs:
\* a KILL or MODIFY never overtakes the order it names.
SessionFifo ==
  \A x \in Listed : \A k, l \in 1 .. Len(taken[x]) :
    k < l => \A p \in Written("A", taken[x][k]), q \in Written("A", taken[x][l]) :
               p[1] = q[1] => p[2] < q[2]

\* Every request that got an id is applied or refused in the end, whichever
\* shard its symbol hashes to.
EveryRequestTaken ==
  \A i \in 1 .. MaxRequests :
    (i < current_id) ~> (Taken(i) \union Written("J", i) # {})

=============================================================================

----------------------------- MODULE ShardDrainer -----------------------------
(***************************************************************************)
(* The multithreaded benchmarks of bench/src/bench_main.cpp: threads submit  *)
(* orders to the shards of a MARKET_BOOK while the worker of a ShardDrainer  *)
(* drains them. Google Benchmark starts and ends the timed loops of all      *)
(* threads together; then thread 0 stops the worker and joins it, and the    *)
(* next configuration builds a new MARKET_BOOK in the place of the old.      *)
(***************************************************************************)
EXTENDS MarketFeed

CONSTANTS
  Thread,       \* the benchmark's threads
  Iterations,   \* orders each of them submits
  LastShard     \* shards are 0 .. LastShard, all given to the drainer

ASSUME ShardAssumption ==
  /\ LastShard \in Nat /\ Shard = 0 .. LastShard
  /\ Iterations \in Nat
  /\ {SNAPSHOT_LEN, SNAPSHOT_FREQUENCY, MaxMarkets} \subseteq Nat \ {0}

VARIABLES
  target,   \* the shard each thread's symbol hashes to
  done,     \* orders each thread has submitted
  queue,    \* the queues of the shards
  stop,     \* ShardDrainer::stop
  worker,   \* the worker's place: its loop's test, a shard, or its end
  joined    \* the destructor of the drainer has returned

vars == <<feedVars, target, done, queue, stop, worker, joined>>

At(place, s) == [place |-> place, shard |-> s]

\* SameSymbol has one target for all threads, Spread one for each.
Init ==
  /\ FeedInit
  /\ target \in [Thread -> Shard]
  /\ done = [t \in Thread |-> 0]
  /\ queue = [s \in Shard |-> <<>>]
  /\ stop = FALSE
  /\ worker = At("test", 0)
  /\ joined = FALSE

submit_order(t) ==
  /\ ~crashed /\ ~stop /\ done[t] < Iterations
  /\ done' = [done EXCEPT ![t] = @ + 1]
  /\ queue' = [queue EXCEPT ![target[t]] = Append(@, <<t, done[t] + 1>>)]
  /\ UNCHANGED <<feedVars, target, stop, worker, joined>>

\* while (!stop): another round over the shards, or the final sweep.
Test ==
  /\ ~crashed /\ worker.place = "test"
  /\ worker' = At(IF stop THEN "sweep" ELSE "drain", 0)
  /\ UNCHANGED <<feedVars, target, done, queue, stop, joined>>

\* The next shard of a round, or what comes after the last.
NextShard(after) ==
  IF worker.shard < LastShard THEN At(worker.place, worker.shard + 1) ELSE At(after, 0)

\* drain_one returns true.
Popped ==
  LET s == worker.shard
  IN  /\ queue[s] # <<>>
      /\ process_one(s, Head(queue[s]))
      /\ queue' = [queue EXCEPT ![s] = Tail(@)]
      /\ UNCHANGED <<market, network, printed, crashed>>

\* drain_one returns false.
Nothing == queue[worker.shard] = <<>> /\ UNCHANGED <<feedVars, queue>>

\* A round takes at most one order of each shard.
Round ==
  /\ ~crashed /\ worker.place = "drain"
  /\ Popped \/ Nothing
  /\ worker' = NextShard("test")
  /\ UNCHANGED <<target, done, stop, joined>>

\* Mutants: one order of each shard; a shard is swept again and again.
AfterPop_Next == NextShard("end")
AfterNothing_Same == worker

\* The final sweep stays at a shard until it is empty.
AfterPop == worker
AfterNothing == NextShard("end")

Sweep ==
  /\ ~crashed /\ worker.place = "sweep"
  /\ \/ Popped /\ worker' = AfterPop
     \/ Nothing /\ worker' = AfterNothing
  /\ UNCHANGED <<target, done, stop, joined>>

\* ~ShardDrainer in thread 0, once all threads have left their loops.
Stop ==
  /\ ~crashed /\ ~stop
  /\ \A t \in Thread : done[t] = Iterations
  /\ stop' = TRUE
  /\ UNCHANGED <<feedVars, target, done, queue, worker, joined>>

Join ==
  /\ ~crashed /\ stop /\ worker.place = "end" /\ ~joined
  /\ joined' = TRUE
  /\ UNCHANGED <<feedVars, target, done, queue, stop, worker>>

\* The next configuration: mb is assigned, and the MARKET_BOOK before it goes.
NextConfiguration ==
  /\ ~crashed /\ joined /\ market < MaxMarkets
  /\ market' = market + 1
  /\ target' \in [Thread -> Shard]
  /\ done' = [t \in Thread |-> 0]
  /\ queue' = [s \in Shard |-> <<>>]
  /\ stop' = FALSE /\ joined' = FALSE
  /\ worker' = At("test", 0)
  /\ UNCHANGED <<taken, senders, network, printed, crashed>>

Worker == Test \/ Round \/ Sweep

Feed == FeedNext /\ UNCHANGED <<target, done, queue, stop, worker, joined>>

Next ==
  \/ \E t \in Thread : submit_order(t)
  \/ Worker \/ Stop \/ Join \/ NextConfiguration
  \/ Feed

\* The worker and thread 0 go on; benchmarks end their loops by their own count.
Spec ==
  /\ Init /\ [][Next]_vars
  /\ WF_vars(Worker) /\ WF_vars(Stop) /\ WF_vars(Join)
  /\ \A t \in Thread : WF_vars(submit_order(t))

-----------------------------------------------------------------------------
(* Properties *)

\* The final sweep leaves nothing behind: when the drainer has been joined
\* every order that was submitted is in the book of its shard, once, and those
\* of one thread in the order it submitted them.
NothingLeft ==
  joined => \A t \in Thread :
    LET book == taken[market][target[t]]
    IN  /\ \A k \in 1 .. Iterations : \E p \in DOMAIN book : book[p] = <<t, k>>
        /\ \A p, q \in DOMAIN book :
             p < q /\ book[p][1] = t /\ book[q][1] = t => book[p][2] < book[q][2]

\* The join that the next configuration waits for comes.
JoinEnds == stop ~> (joined \/ crashed)

\* bench_main.cpp:205 stops and joins the drainer so that the next
\* configuration can use the statics again: nobody uses the market before.
FormerMarketUnused == \A d \in senders : d.market = market

=============================================================================

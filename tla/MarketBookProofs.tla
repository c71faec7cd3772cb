-------------------------- MODULE MarketBookProofs --------------------------
(***************************************************************************)
(* MarketBook for any number of shards, market threads, server threads and  *)
(* clients, any hash of symbols and any number of requests.                 *)
(***************************************************************************)
EXTENDS MarketBook, TLAPS

-----------------------------------------------------------------------------
(* The partition of the shards *)

Q == shards_per_thread

LEMMA Products ==
  ASSUME NEW q \in Nat, NEW t \in Nat, NEW u \in Nat, t <= u
  PROVE  t * q <= u * q /\ t * q \in Nat /\ u * q \in Nat
  <1>1. PICK k \in Nat : u = t + k
    <2>1. u - t \in Nat /\ u = t + (u - t)
      OBVIOUS
    <2> QED
      BY <2>1
  <1>2. (t + k) * q = t * q + k * q
    OBVIOUS
  <1>3. t * q \in Nat /\ k * q \in Nat
    OBVIOUS
  <1> QED
    BY <1>1, <1>2, <1>3

LEMMA Sizes ==
  /\ NUM_SHARDS \in Nat /\ NUM_SHARDS > 0
  /\ NUM_MARKET_BOOK_THREADS \in Nat /\ NUM_MARKET_BOOK_THREADS > 0
  /\ Q \in Nat
  /\ NUM_MARKET_BOOK_THREADS * Q <= NUM_SHARDS
  <1> DEFINE N == NUM_SHARDS
             T == NUM_MARKET_BOOK_THREADS
  <1>1. N \in Nat /\ N > 0 /\ T \in Nat /\ T > 0
    BY ThreadAssumption
  <1>2. Q = N \div T
    BY DEF Q, shards_per_thread
  <1> HIDE DEF N, T
  <1>3. N \div T \in Nat /\ N % T \in 0 .. T - 1 /\ N = T * (N \div T) + (N % T)
    BY <1>1
  <1>4. PICK r \in Nat : N = T * Q + r
    BY <1>1, <1>2, <1>3
  <1>5. Q \in Nat
    BY <1>2, <1>3
  <1>6. T * Q \in Nat
    BY <1>1, <1>5
  <1>7. T * Q <= N
    BY <1>1, <1>4, <1>6
  <1> QED
    BY <1>1, <1>5, <1>7 DEF N, T

\* What Listens is made of, as numbers.
LEMMA Bounds ==
  ASSUME NEW t \in Thread
  PROVE  /\ t \in Nat /\ t < NUM_MARKET_BOOK_THREADS
         /\ t * Q \in Nat /\ (t + 1) * Q \in Nat
         /\ t * Q <= (t + 1) * Q /\ (t + 1) * Q <= NUM_SHARDS
         /\ (t + 1) * Q = t * Q + Q
         /\ t * Q < NUM_SHARDS
  <1>1. t \in Nat /\ t < NUM_MARKET_BOOK_THREADS /\ Q \in Nat
    BY Sizes DEF Thread
  <1>2. t * Q \in Nat /\ (t + 1) * Q \in Nat /\ t * Q <= (t + 1) * Q
    BY <1>1, Products
  <1>3. (t + 1) * Q <= NUM_MARKET_BOOK_THREADS * Q
    <2> DEFINE T == NUM_MARKET_BOOK_THREADS
    <2>1. T \in Nat /\ t + 1 \in Nat /\ t + 1 <= T
      BY <1>1, Sizes
    <2> HIDE DEF T
    <2>2. (t + 1) * Q <= T * Q
      BY <1>1, <2>1, Products
    <2> QED
      BY <2>2 DEF T
  <1>4. (t + 1) * Q = t * Q + Q
    BY <1>1
  <1>5. NUM_MARKET_BOOK_THREADS * Q \in Nat
    BY <1>1, Sizes
  <1>6. (t + 1) * Q <= NUM_SHARDS
    BY <1>2, <1>3, <1>5, Sizes
  <1>7. t * Q < NUM_SHARDS
    <2>1. CASE Q = 0
      <3>1. t * Q = 0
        BY <1>1, <2>1
      <3> QED
        BY <3>1, Sizes
    <2>2. CASE Q > 0
      BY <1>1, <1>2, <1>4, <1>6, <2>2, Sizes
    <2> QED
      BY <1>1, <2>1, <2>2
  <1> QED
    BY <1>1, <1>2, <1>4, <1>6, <1>7

LEMMA ListensInShard == \A t \in Thread : Listens(t) \subseteq Shard
  <1> SUFFICES ASSUME NEW t \in Thread, NEW s \in Listens(t)
               PROVE  s \in Shard
    OBVIOUS
  <1>1. /\ t * Q \in Nat /\ (t + 1) * Q \in Nat /\ (t + 1) * Q <= NUM_SHARDS
        /\ NUM_SHARDS \in Nat
    BY Bounds, Sizes
  <1>2. CASE t = NUM_MARKET_BOOK_THREADS - 1
    BY <1>1, <1>2 DEF Listens, Shard, Q
  <1>3. CASE t # NUM_MARKET_BOOK_THREADS - 1
    BY <1>1, <1>3 DEF Listens, Shard, Q
  <1> QED
    BY <1>2, <1>3

LEMMA Apart ==
  ASSUME NEW t \in Thread, NEW u \in Thread, t < u
  PROVE  Listens(t) \intersect Listens(u) = {}
  <1>1. /\ t \in Nat /\ u \in Nat /\ u < NUM_MARKET_BOOK_THREADS /\ Q \in Nat
        /\ t * Q \in Nat /\ (t + 1) * Q \in Nat /\ u * Q \in Nat
        /\ NUM_MARKET_BOOK_THREADS \in Nat /\ NUM_SHARDS \in Nat
    BY Bounds, Sizes
  <1>2. (t + 1) * Q <= u * Q
    BY <1>1, Products
  <1>3. t # NUM_MARKET_BOOK_THREADS - 1
    BY <1>1
  <1>4. Listens(t) = t * Q .. (t + 1) * Q - 1
    BY <1>3 DEF Listens, Q
  <1>5. \A s \in Listens(u) : s \in Int /\ u * Q <= s
    <2>1. CASE u = NUM_MARKET_BOOK_THREADS - 1
      BY <1>1, <2>1 DEF Listens, Q
    <2>2. CASE u # NUM_MARKET_BOOK_THREADS - 1
      <3>1. (u + 1) * Q \in Nat
        BY Bounds
      <3> QED
        BY <1>1, <2>2, <3>1 DEF Listens, Q
    <2> QED
      BY <2>1, <2>2
  <1> QED
    BY <1>1, <1>2, <1>4, <1>5

\* Every shard is listened to by exactly one market thread, whether or not the
\* shards divide evenly among the threads, and with more threads than shards:
\* no book is left undrained, and none is shared.
THEOREM ShardOwnedOnce ==
  \A s \in Shard : \E t \in Thread :
    /\ s \in Listens(t)
    /\ \A u \in Thread : s \in Listens(u) => u = t
  <1> SUFFICES ASSUME NEW s \in Shard
               PROVE  \E t \in Thread : s \in Listens(t)
                        /\ \A u \in Thread : s \in Listens(u) => u = t
    OBVIOUS
  <1> DEFINE last == NUM_MARKET_BOOK_THREADS - 1
  <1>1. /\ s \in Nat /\ s < NUM_SHARDS /\ Q \in Nat /\ last \in Thread /\ last \in Nat
        /\ NUM_SHARDS \in Nat
    BY Sizes DEF Shard, Thread
  <1>2. \A t, u \in Thread : s \in Listens(t) /\ s \in Listens(u) => t = u
    <2> SUFFICES ASSUME NEW t \in Thread, NEW u \in Thread,
                        s \in Listens(t), s \in Listens(u), t # u
                 PROVE  FALSE
      OBVIOUS
    <2>1. t \in Nat /\ u \in Nat
      BY Bounds
    <2>2. t < u \/ u < t
      BY <2>1
    <2> QED
      BY <2>2, Apart
  <1>3. \E t \in Thread : s \in Listens(t)
    <2>1. CASE last * Q <= s
      <3>1. s \in Listens(last)
        <4>1. last * Q \in Nat
          BY <1>1, Bounds
        <4>2. Listens(last) = last * Q .. NUM_SHARDS - 1
          BY DEF Listens, Q
        <4> QED
          BY <1>1, <2>1, <4>1, <4>2
      <3> QED
        BY <1>1, <3>1
    <2>2. CASE ~(last * Q <= s)
      <3>1. last * Q \in Nat /\ s < last * Q
        BY <1>1, <2>2, Bounds
      <3>2. Q > 0
        <4>1. Q = 0 => last * Q = 0
          BY <1>1
        <4> QED
          BY <1>1, <3>1, <4>1
      <3> DEFINE t == s \div Q
                 r == s % Q
      <3>3. t \in Nat /\ r \in 0 .. Q - 1 /\ s = Q * t + r
        BY <1>1, <3>2
      <3> HIDE DEF t, r
      <3>4. t * Q = Q * t /\ t * Q \in Nat /\ (t + 1) * Q = t * Q + Q /\ (t + 1) * Q \in Nat
        BY <1>1, <3>3
      <3>5. t * Q <= s /\ s < (t + 1) * Q
        BY <1>1, <3>3, <3>4
      <3>6. t < last
        <4> HIDE DEF last
        <4> SUFFICES ASSUME last <= t
                     PROVE  FALSE
          BY <1>1, <3>3
        <4>1. last * Q <= t * Q
          BY <1>1, <3>3, Products
        <4> QED
          BY <1>1, <3>1, <3>4, <3>5, <4>1
      <3>7. t \in Thread /\ t # last
        BY <1>1, <3>3, <3>6 DEF Thread
      <3>8. Listens(t) = t * Q .. (t + 1) * Q - 1
        BY <3>7 DEF Listens, Q
      <3> QED
        BY <1>1, <3>4, <3>5, <3>7, <3>8
    <2> QED
      BY <2>1, <2>2
  <1> QED
    BY <1>2, <1>3
-----------------------------------------------------------------------------
(* The invariant *)

\* A request is queued in the shard of its symbol, and popped by a thread that
\* listens to that shard: what keeps two threads off one book.
Routed ==
  /\ \A s \in Shard : \A k \in 1 .. Len(queue[s]) : shard_of[queue[s][k].symbol] = s
  /\ \A t \in Thread : \A r \in held[t] : shard_of[r.symbol] \in Listens(t)

Inv == TypeOK /\ Routed

LEMMA InitInv == Init => Inv
  <1> SUFFICES ASSUME Init
               PROVE  Inv
    OBVIOUS
  <1>1. \A t \in Thread : t * shards_per_thread \in Shard
    <2> SUFFICES ASSUME NEW t \in Thread
                 PROVE  t * Q \in Shard
      BY DEF Q
    <2>1. t * Q \in Nat /\ t * Q < NUM_SHARDS /\ NUM_SHARDS \in Nat
      BY Bounds, Sizes
    <2> QED
      BY <2>1 DEF Shard
  <1>2. turn \in [Thread -> Shard]
    BY <1>1 DEF Init
  <1>3. handler \in [Session -> [step : {"read", "ack", "submit"}, request : SUBSET Request]]
    BY DEF Init, Idle
  <1>4. TypeOK
    BY <1>2, <1>3 DEF Init, TypeOK
  <1>5. Routed
    BY DEF Init, Routed
  <1> QED
    BY <1>4, <1>5 DEF Inv

\* Where a handler goes from a step it can be in.
LEMMA HandlerType ==
  ASSUME TypeOK, NEW c \in Session, NEW requests \in SUBSET Request
  PROVE  Advanced(c, requests) \in
           [Session -> [step : {"read", "ack", "submit"}, request : SUBSET Request]]
  <1> DEFINE H == [step : {"read", "ack", "submit"}, request : SUBSET Request]
             next == Then[handler[c].step]
             value == IF next = "read" THEN Idle ELSE [step |-> next, request |-> requests]
  <1>1. handler[c].step \in {"read", "ack", "submit"} /\ handler \in [Session -> H]
    BY DEF TypeOK
  <1>2. next \in {"read", "ack", "submit"}
    BY <1>1 DEF Then
  <1>3. Idle \in H
    BY DEF Idle
  <1>4. [step |-> next, request |-> requests] \in H
    BY <1>2
  <1>5. value \in H
    BY <1>3, <1>4
  <1>6. Advanced(c, requests) = [handler EXCEPT ![c] = value]
    BY DEF Advanced
  <1> HIDE DEF H, value
  <1>7. [handler EXCEPT ![c] = value] \in [Session -> H]
    BY <1>1, <1>5
  <1> QED
    BY <1>6, <1>7 DEF H

\* The market loop stays within the shards.
LEMMA AfterType ==
  ASSUME NEW t \in Thread, NEW s \in Shard
  PROVE  After(t, s) \in Shard
  <1>1. t * shards_per_thread \in Shard
    <2>1. t * Q \in Nat /\ t * Q < NUM_SHARDS /\ NUM_SHARDS \in Nat
      BY Bounds, Sizes
    <2> QED
      BY <2>1 DEF Shard, Q
  <1> QED
    BY <1>1, ListensInShard DEF After

LEMMA AssignInv ==
  ASSUME Inv, NEW c \in Session, NEW symbol \in Symbol, assign_order_id(c, symbol)
  PROVE  Inv'
  <1> DEFINE r == [id |-> current_id, session |-> c, symbol |-> symbol]
  <1>1. r \in Request
    BY DEF Inv, TypeOK, Request
  <1> HIDE DEF r
  <1>2. handler' = Advanced(c, {r})
    BY DEF assign_order_id, r
  <1>3. handler' \in [Session -> [step : {"read", "ack", "submit"}, request : SUBSET Request]]
    BY <1>1, <1>2, HandlerType DEF Inv
  <1>4. /\ current_id' \in Nat \ {0}
        /\ UNCHANGED <<shard_of, queue, turn, held, taken, sent>>
    BY DEF assign_order_id, Inv, TypeOK
  <1> QED
    BY <1>3, <1>4 DEF Inv, TypeOK, Routed

LEMMA WriteAckInv ==
  ASSUME Inv, NEW c \in Session, writeAck(c)
  PROVE  Inv'
  <1>1. PICK r \in handler[c].request :
          sent' = [sent EXCEPT ![c] = Append(@, [type |-> "A", id |-> r.id])]
    BY DEF writeAck
  <1>2. handler[c].request \in SUBSET Request
    BY DEF Inv, TypeOK
  <1>3. handler' \in [Session -> [step : {"read", "ack", "submit"}, request : SUBSET Request]]
    BY <1>2, HandlerType DEF Inv, writeAck
  <1>4. [type |-> "A", id |-> r.id] \in Message
    BY <1>2 DEF Message, Request
  <1>5. sent' \in [Session -> Seq(Message)]
    BY <1>1, <1>4 DEF Inv, TypeOK
  <1>6. UNCHANGED <<shard_of, current_id, queue, turn, held, taken>>
    BY DEF writeAck
  <1> QED
    BY <1>3, <1>5, <1>6 DEF Inv, TypeOK, Routed

LEMMA SubmitInv ==
  ASSUME Inv, NEW c \in Session, submit_order(c)
  PROVE  Inv'
  <1>1. PICK r \in handler[c].request :
          queue' = [queue EXCEPT ![shard_of[r.symbol]] = Append(@, r)]
    BY DEF submit_order, Pushed
  <1>2. handler[c].request \in SUBSET Request
    BY DEF Inv, TypeOK
  <1>3. handler' \in [Session -> [step : {"read", "ack", "submit"}, request : SUBSET Request]]
    BY <1>2, HandlerType DEF Inv, submit_order
  <1>4. r \in Request /\ shard_of[r.symbol] \in Shard
    BY <1>2 DEF Request, Inv, TypeOK
  <1>5. UNCHANGED <<shard_of, current_id, turn, held, taken, sent>>
    BY DEF submit_order
  <1> DEFINE s == shard_of[r.symbol]
  <1>6. queue' = [queue EXCEPT ![s] = Append(queue[s], r)] /\ queue \in [Shard -> Seq(Request)]
    BY <1>1 DEF Inv, TypeOK
  <1>7. queue' \in [Shard -> Seq(Request)]
    BY <1>4, <1>6
  <1>8. ASSUME NEW u \in Shard, NEW k \in 1 .. Len(queue'[u])
        PROVE  shard_of[queue'[u][k].symbol] = u
    <2>1. CASE u # s
      <3>1. queue'[u] = queue[u]
        BY <1>6, <2>1
      <3> QED
        BY <1>8, <3>1 DEF Inv, Routed
    <2>2. CASE u = s
      <3>1. queue'[u] = Append(queue[u], r) /\ queue[u] \in Seq(Request)
        BY <1>4, <1>6, <2>2
      <3>2. CASE k = Len(queue[u]) + 1
        <4>1. queue'[u][k] = r
          BY <1>4, <3>1, <3>2
        <4> QED
          BY <2>2, <4>1
      <3>3. CASE k # Len(queue[u]) + 1
        <4>1. k \in 1 .. Len(queue[u]) /\ queue'[u][k] = queue[u][k]
          BY <1>4, <1>8, <3>1, <3>3
        <4> QED
          BY <4>1 DEF Inv, Routed
      <3> QED
        BY <3>2, <3>3
    <2> QED
      BY <2>1, <2>2
  <1>9. TypeOK'
    BY <1>3, <1>5, <1>7 DEF Inv, TypeOK
  <1>10. Routed'
    BY <1>5, <1>8 DEF Inv, Routed
  <1> QED
    BY <1>9, <1>10 DEF Inv

LEMMA DrainNoneInv ==
  ASSUME Inv, NEW t \in Thread, drain_none(t)
  PROVE  Inv'
  <1>1. turn' = [turn EXCEPT ![t] = After(t, turn[t])]
    BY DEF drain_none
  <1>2. turn \in [Thread -> Shard]
    BY DEF Inv, TypeOK
  <1>3. After(t, turn[t]) \in Shard
    BY <1>2, AfterType
  <1>4. turn' \in [Thread -> Shard]
    BY <1>1, <1>2, <1>3
  <1>5. UNCHANGED <<shard_of, current_id, handler, queue, held, taken, sent>>
    BY DEF drain_none
  <1> QED
    BY <1>4, <1>5 DEF Inv, TypeOK, Routed

LEMMA DrainOneInv ==
  ASSUME Inv, NEW t \in Thread, drain_one(t)
  PROVE  Inv'
  <1> DEFINE s == turn[t]
             r == Head(queue[s])
  <1>1. s \in Shard /\ s \in Listens(t) /\ queue[s] # <<>> /\ queue[s] \in Seq(Request)
    BY DEF drain_one, Inv, TypeOK
  <1>2. /\ held' = [held EXCEPT ![t] = {r}]
        /\ queue' = [queue EXCEPT ![s] = Tail(queue[s])]
    BY DEF drain_one, Popped
  <1>3. r \in Request /\ Len(queue[s]) >= 1 /\ r = queue[s][1]
    BY <1>1
  <1>4. shard_of[r.symbol] \in Listens(t)
    BY <1>1, <1>3 DEF Inv, Routed
  <1>5. UNCHANGED <<shard_of, current_id, handler, turn, taken, sent>>
    BY DEF drain_one
  <1>6. Tail(queue[s]) \in Seq(Request)
    BY <1>1
  <1>7. queue' \in [Shard -> Seq(Request)] /\ held' \in [Thread -> SUBSET Request]
    BY <1>1, <1>2, <1>3, <1>6 DEF Inv, TypeOK
  <1>8. ASSUME NEW u \in Shard, NEW k \in 1 .. Len(queue'[u])
        PROVE  shard_of[queue'[u][k].symbol] = u
    <2>1. CASE u # s
      <3>1. queue'[u] = queue[u]
        BY <1>2, <2>1 DEF Inv, TypeOK
      <3> QED
        BY <1>8, <3>1 DEF Inv, Routed
    <2>2. CASE u = s
      <3>1. queue'[u] = Tail(queue[u]) /\ queue[u] \in Seq(Request) /\ queue[u] # <<>>
        BY <1>1, <1>2, <2>2 DEF Inv, TypeOK
      <3>2. k + 1 \in 1 .. Len(queue[u]) /\ queue'[u][k] = queue[u][k + 1]
        BY <1>8, <3>1
      <3> QED
        BY <3>2 DEF Inv, Routed
    <2> QED
      BY <2>1, <2>2
  <1>9. \A u \in Thread : \A q \in held'[u] : shard_of[q.symbol] \in Listens(u)
    BY <1>2, <1>4 DEF Inv, TypeOK, Routed
  <1>10. TypeOK'
    BY <1>5, <1>7 DEF Inv, TypeOK
  <1>11. Routed'
    BY <1>5, <1>8, <1>9 DEF Routed
  <1> QED
    BY <1>10, <1>11 DEF Inv

LEMMA ProcessOneInv ==
  ASSUME Inv, NEW t \in Thread, process_one(t)
  PROVE  Inv'
  <1>1. PICK r \in held[t] :
          IF r.symbol \in Listed
          THEN /\ taken' = [taken EXCEPT ![r.symbol] = Append(@, r.id)]
               /\ UNCHANGED sent
          ELSE /\ sent' = [sent EXCEPT ![r.session] =
                             Append(@, [type |-> "J", id |-> r.id])]
               /\ UNCHANGED taken
    BY DEF process_one
  <1>2. r \in Request /\ r.id \in Nat /\ r.session \in Session
    BY DEF Inv, TypeOK, Request
  <1>3. taken' \in [Listed -> Seq(Nat)] /\ sent' \in [Session -> Seq(Message)]
    <2>1. CASE r.symbol \in Listed
      <3>1. taken' = [taken EXCEPT ![r.symbol] = Append(@, r.id)] /\ sent' = sent
        BY <1>1, <2>1
      <3>2. taken' \in [Listed -> Seq(Nat)]
        BY <1>2, <2>1, <3>1 DEF Inv, TypeOK
      <3> QED
        BY <3>1, <3>2 DEF Inv, TypeOK
    <2>2. CASE r.symbol \notin Listed
      <3> DEFINE m == [type |-> "J", id |-> r.id]
      <3>1. m \in Message
        BY <1>2 DEF Message
      <3>2. sent' = [sent EXCEPT ![r.session] = Append(@, m)] /\ taken' = taken
        BY <1>1, <2>2
      <3> HIDE DEF m
      <3>3. sent' \in [Session -> Seq(Message)]
        BY <1>2, <3>1, <3>2 DEF Inv, TypeOK
      <3> QED
        BY <3>2, <3>3 DEF Inv, TypeOK
    <2> QED
      BY <2>1, <2>2
  <1>4. /\ held' = [held EXCEPT ![t] = {}]
        /\ turn' = [turn EXCEPT ![t] = After(t, turn[t])]
        /\ UNCHANGED <<shard_of, current_id, handler, queue>>
    BY DEF process_one
  <1>5. turn' \in [Thread -> Shard]
    <2>1. turn \in [Thread -> Shard]
      BY DEF Inv, TypeOK
    <2>2. After(t, turn[t]) \in Shard
      BY <2>1, AfterType
    <2> QED
      BY <1>4, <2>1, <2>2
  <1>6. held' \in [Thread -> SUBSET Request]
    BY <1>4 DEF Inv, TypeOK
  <1>7. TypeOK'
    BY <1>3, <1>4, <1>5, <1>6 DEF Inv, TypeOK
  <1>8. Routed'
    BY <1>4 DEF Inv, TypeOK, Routed
  <1> QED
    BY <1>7, <1>8 DEF Inv

LEMMA NextInv == Inv /\ [Next]_vars => Inv'
  <1> SUFFICES ASSUME Inv, [Next]_vars
               PROVE  Inv'
    OBVIOUS
  <1>1. CASE UNCHANGED vars
    BY <1>1 DEF vars, Inv, TypeOK, Routed
  <1>2. CASE Next
    BY <1>2, AssignInv, WriteAckInv, SubmitInv, DrainNoneInv, DrainOneInv, ProcessOneInv
    DEF Next, market_listener
  <1> QED
    BY <1>1, <1>2

THEOREM RoutingInvariant == Spec => []Inv
  BY InitInv, NextInv, PTL DEF Spec

\* Every variable keeps its type; no thread's loop leaves the shards.
THEOREM RoutingTypes == Spec => []TypeOK
  <1>1. Inv => TypeOK
    BY DEF Inv
  <1> QED
    BY <1>1, RoutingInvariant, PTL

LEMMA Exclusive == Inv => BookExclusive
  <1> SUFFICES ASSUME Inv, NEW t \in Thread, NEW u \in Thread, t # u,
                      NEW q \in held[t], NEW r \in held[u],
                      shard_of[q.symbol] = shard_of[r.symbol]
               PROVE  FALSE
    BY DEF BookExclusive
  <1>1. shard_of[q.symbol] \in Listens(t) /\ shard_of[q.symbol] \in Listens(u)
    BY DEF Inv, Routed
  <1>2. t \in Nat /\ u \in Nat
    BY Bounds
  <1>3. t < u \/ u < t
    BY <1>2
  <1> QED
    BY <1>1, <1>3, Apart

\* No two market threads are ever at work on one shard, so on one book.
THEOREM BooksUnshared == Spec => []BookExclusive
  BY Exclusive, RoutingInvariant, PTL

-----------------------------------------------------------------------------
(* What a request meets on its way from session to book: its ACK comes       *)
(* first, requests of one client for one symbol keep their order, and each   *)
(* request is in one place, and in no two.                                   *)

-----------------------------------------------------------------------------
(* The invariant *)

\* The ids acknowledged to a client.
Acked(c) == {sent[c][k].id : k \in {l \in 1 .. Len(sent[c]) : sent[c][l].type = "A"}}

\* The requests between a session and a book: queued, or in a thread's hand.
Waiting ==
  (UNION {{queue[s][k] : k \in 1 .. Len(queue[s])} : s \in Shard})
    \union (UNION {held[t] : t \in Thread})

\* A handler has one request, its own client's and the latest of it; no other
\* handler has it, and it is not yet where the handler is to bring it.
HandlerHas(c, r) ==
  /\ \A q \in handler[c].request : q = r
  /\ r.session = c
  /\ r.id < current_id
  /\ \A i \in Acked(c) : i <= r.id
  /\ handler[c].step = "ack" => \A d \in Session : r.id \notin Acked(d)
  /\ handler[c].step = "submit" => r.id \in Acked(c)
  /\ \A d \in Session : \A q \in handler[d].request : q.id = r.id => d = c
  /\ \A q \in Waiting : q.id # r.id
  /\ \A x \in Listed : \A k \in 1 .. Len(taken[x]) : taken[x][k] # r.id

Handlers == \A c \in Session : \A r \in handler[c].request : HandlerHas(c, r)

\* An id is acknowledged to one client, in the order the ids were given, and
\* before it is refused.
Acks ==
  /\ \A c \in Session : \A i \in Acked(c) : i < current_id
  /\ \A c, d \in Session : \A i \in Acked(c) : i \in Acked(d) => c = d
  /\ \A c \in Session : \A k, l \in 1 .. Len(sent[c]) :
       k < l /\ sent[c][k].type = "A" /\ sent[c][l].type = "A" => sent[c][k].id < sent[c][l].id
  /\ \A c \in Session : \A k \in 1 .. Len(sent[c]) :
       sent[c][k].type = "J" =>
         \E l \in 1 .. Len(sent[c]) : l < k /\ sent[c][l] = [type |-> "A", id |-> sent[c][k].id]

\* What waits is acknowledged, and later than what its client had taken before.
Waits ==
  \A r \in Waiting :
    /\ r.id \in Acked(r.session)
    /\ r.symbol \in Listed => \A k \in 1 .. Len(taken[r.symbol]) :
         taken[r.symbol][k] \in Acked(r.session) => taken[r.symbol][k] < r.id

Takes ==
  \A x \in Listed :
    /\ \A k \in 1 .. Len(taken[x]) : \E c \in Session : taken[x][k] \in Acked(c)
    /\ \A k, l \in 1 .. Len(taken[x]) : k < l =>
         \A c \in Session : taken[x][k] \in Acked(c) /\ taken[x][l] \in Acked(c) =>
           taken[x][k] < taken[x][l]

\* A queue has a client's requests in order, behind what was popped from it.
Line ==
  /\ \A s \in Shard : \A k, l \in 1 .. Len(queue[s]) :
       k < l /\ queue[s][k].session = queue[s][l].session => queue[s][k].id < queue[s][l].id
  /\ \A t \in Thread : \A r \in held[t] : \A k \in 1 .. Len(queue[shard_of[r.symbol]]) :
       queue[shard_of[r.symbol]][k].session = r.session =>
         r.id < queue[shard_of[r.symbol]][k].id

Delivery == Handlers /\ Acks /\ Waits /\ Takes /\ Line

-----------------------------------------------------------------------------
(* What the parts of the state mean, element by element *)

LEMMA AckedIs ==
  ASSUME NEW c, NEW i
  PROVE  i \in Acked(c) <=> \E k \in 1 .. Len(sent[c]) : sent[c][k].type = "A" /\ sent[c][k].id = i
  BY DEF Acked

LEMMA WaitingIs ==
  ASSUME NEW r
  PROVE  r \in Waiting <=> \/ \E s \in Shard : \E k \in 1 .. Len(queue[s]) : r = queue[s][k]
                          \/ \E t \in Thread : r \in held[t]
  BY DEF Waiting

LEMMA WaitingRequests == TypeOK => Waiting \subseteq Request
  <1> SUFFICES ASSUME TypeOK, NEW r \in Waiting
               PROVE  r \in Request
    OBVIOUS
  <1>1. CASE \E s \in Shard : \E k \in 1 .. Len(queue[s]) : r = queue[s][k]
    <2>1. PICK s \in Shard : \E k \in 1 .. Len(queue[s]) : r = queue[s][k]
      BY <1>1
    <2>2. queue[s] \in Seq(Request)
      BY DEF TypeOK
    <2> QED
      BY <2>1, <2>2
  <1>2. CASE \E t \in Thread : r \in held[t]
    BY <1>2 DEF TypeOK
  <1> QED
    BY <1>1, <1>2, WaitingIs

\* The beginning of a sequence is the same after one more element.
LEMMA AppendFacts ==
  ASSUME NEW S, NEW q \in Seq(S), NEW e \in S
  PROVE  /\ Len(q) \in Nat
         /\ Len(Append(q, e)) = Len(q) + 1
         /\ Append(q, e)[Len(q) + 1] = e
         /\ \A k \in 1 .. Len(q) : Append(q, e)[k] = q[k] /\ k # Len(q) + 1
         /\ \A k \in 1 .. Len(q) + 1 : k \in 1 .. Len(q) \/ k = Len(q) + 1
  OBVIOUS

\* One more message at the end of what a client was sent.
LEMMA OneMore ==
  ASSUME TypeOK, NEW c \in Session, NEW m \in Message,
         sent' = [sent EXCEPT ![c] = Append(@, m)]
  PROVE  /\ Len(sent[c]) \in Nat
         /\ Len(sent'[c]) = Len(sent[c]) + 1
         /\ sent'[c][Len(sent[c]) + 1] = m
         /\ \A k \in 1 .. Len(sent[c]) : sent'[c][k] = sent[c][k] /\ k # Len(sent[c]) + 1
         /\ \A k \in 1 .. Len(sent[c]) + 1 : k \in 1 .. Len(sent[c]) \/ k = Len(sent[c]) + 1
  <1>1. sent \in [Session -> Seq(Message)] /\ sent[c] \in Seq(Message)
    BY DEF TypeOK
  <1>2. sent'[c] = Append(sent[c], m)
    BY <1>1
  <1> QED
    BY <1>1, <1>2, AppendFacts

LEMMA NoMore ==
  ASSUME TypeOK, NEW c \in Session, NEW m \in Message, NEW d \in Session, d # c,
         sent' = [sent EXCEPT ![c] = Append(@, m)]
  PROVE  sent'[d] = sent[d]
  BY DEF TypeOK

LEMMA AckedNow ==
  ASSUME TypeOK, NEW c \in Session, NEW m \in Message, NEW d \in Session, NEW i,
         sent' = [sent EXCEPT ![c] = Append(@, m)]
  PROVE  i \in Acked(d)' <=> i \in Acked(d) \/ (d = c /\ m.type = "A" /\ i = m.id)
  <1>1. CASE d # c
    BY <1>1, NoMore DEF Acked
  <1>2. CASE d = c
    <2>1. i \in Acked(d)' <=>
            \E k \in 1 .. Len(sent'[c]) : sent'[c][k].type = "A" /\ sent'[c][k].id = i
      BY <1>2 DEF Acked
    <2>2. i \in Acked(d) <=>
            \E k \in 1 .. Len(sent[c]) : sent[c][k].type = "A" /\ sent[c][k].id = i
      BY <1>2 DEF Acked
    <2>3. /\ Len(sent[c]) \in Nat
          /\ Len(sent'[c]) = Len(sent[c]) + 1
          /\ sent'[c][Len(sent[c]) + 1] = m
          /\ \A k \in 1 .. Len(sent[c]) : sent'[c][k] = sent[c][k]
          /\ \A k \in 1 .. Len(sent[c]) + 1 : k \in 1 .. Len(sent[c]) \/ k = Len(sent[c]) + 1
      BY OneMore
    <2>4. Len(sent[c]) + 1 \in 1 .. Len(sent'[c]) /\ \A k \in 1 .. Len(sent[c]) : k \in 1 .. Len(sent'[c])
      BY <2>3
    <2>5. ASSUME i \in Acked(d)'
          PROVE  i \in Acked(d) \/ (m.type = "A" /\ i = m.id)
      BY <2>1, <2>2, <2>3, <2>5
    <2>6. ASSUME i \in Acked(d) \/ (m.type = "A" /\ i = m.id)
          PROVE  i \in Acked(d)'
      BY <2>1, <2>2, <2>3, <2>4, <2>6
    <2> QED
      BY <1>2, <2>5, <2>6
  <1> QED
    BY <1>1, <1>2

\* Where a handler goes from each step; the other handlers stay.
LEMMA Others ==
  ASSUME TypeOK, NEW c \in Session, NEW requests, NEW d \in Session, d # c
  PROVE  Advanced(c, requests)[d] = handler[d]
  BY DEF TypeOK, Advanced

LEMMA Steps ==
  ASSUME TypeOK, NEW c \in Session, NEW requests
  PROVE  /\ handler[c].step = "read" =>
              Advanced(c, requests)[c] = [step |-> "ack", request |-> requests]
         /\ handler[c].step = "ack" =>
              Advanced(c, requests)[c] = [step |-> "submit", request |-> requests]
         /\ handler[c].step = "submit" => Advanced(c, requests)[c] = Idle
  <1>1. DOMAIN handler = Session
    BY DEF TypeOK
  <1>2. Then["read"] = "ack" /\ Then["ack"] = "submit" /\ Then["submit"] = "read"
    BY DEF Then
  <1> QED
    BY <1>1, <1>2 DEF Advanced

\* What the types say of the elements.
LEMMA Elements ==
  ASSUME TypeOK
  PROVE  /\ \A c \in Session : Acked(c) \subseteq Nat
         /\ \A c \in Session : handler[c].request \subseteq Request
         /\ \A r \in Request : r.id \in Nat /\ r.session \in Session /\ r.symbol \in Symbol
         /\ \A x \in Listed : \A k \in 1 .. Len(taken[x]) : taken[x][k] \in Nat
         /\ current_id \in Nat
  <1>1. ASSUME NEW c \in Session, NEW i \in Acked(c)
        PROVE  i \in Nat
    <2>1. PICK k \in 1 .. Len(sent[c]) : sent[c][k].id = i
      BY <1>1, AckedIs
    <2>2. sent[c] \in Seq(Message)
      BY DEF TypeOK
    <2>3. sent[c][k] \in Message
      BY <2>2
    <2> QED
      BY <2>1, <2>3 DEF Message
  <1>2. \A c \in Session : handler[c].request \subseteq Request
    BY DEF TypeOK
  <1>3. \A r \in Request : r.id \in Nat /\ r.session \in Session /\ r.symbol \in Symbol
    BY DEF Request
  <1>4. ASSUME NEW x \in Listed, NEW k \in 1 .. Len(taken[x])
        PROVE  taken[x][k] \in Nat
    <2>1. taken[x] \in Seq(Nat)
      BY DEF TypeOK
    <2> QED
      BY <2>1
  <1>5. current_id \in Nat
    BY DEF TypeOK
  <1> QED
    BY <1>1, <1>2, <1>3, <1>4, <1>5

\* What is acknowledged has an id that was given out: so has what waits or was
\* taken.
LEMMA Given ==
  ASSUME TypeOK, Acks, Waits, Takes
  PROVE  /\ \A q \in Waiting : q.id < current_id
         /\ \A x \in Listed : \A k \in 1 .. Len(taken[x]) : taken[x][k] < current_id
  <1>1. \A q \in Waiting : q.session \in Session /\ q.id \in Acked(q.session)
    BY WaitingRequests, Elements DEF Waits
  <1>2. \A c \in Session : \A i \in Acked(c) : i < current_id
    BY DEF Acks
  <1>3. \A x \in Listed : \A k \in 1 .. Len(taken[x]) : \E c \in Session : taken[x][k] \in Acked(c)
    BY DEF Takes
  <1> QED
    BY <1>1, <1>2, <1>3

-----------------------------------------------------------------------------
(* Initially, and in the session's steps *)

LEMMA InitDelivery == Init => Delivery
  <1> SUFFICES ASSUME Init
               PROVE  Delivery
    OBVIOUS
  <1>1. \A c \in Session : handler[c].request = {} /\ sent[c] = <<>> /\ Len(sent[c]) = 0
    BY DEF Init, Idle
  <1>2. \A c \in Session : Acked(c) = {}
    BY <1>1, AckedIs
  <1>3. /\ \A s \in Shard : queue[s] = <<>> /\ Len(queue[s]) = 0
        /\ \A t \in Thread : held[t] = {}
        /\ \A x \in Listed : taken[x] = <<>> /\ Len(taken[x]) = 0
    BY DEF Init
  <1>4. Waiting = {}
    BY <1>3, WaitingIs
  <1>5. Handlers /\ Waits
    BY <1>1, <1>4 DEF Handlers, Waits
  <1>6. Acks
    BY <1>1, <1>2 DEF Acks
  <1>7. Takes /\ Line
    BY <1>3 DEF Takes, Line
  <1> QED
    BY <1>5, <1>6, <1>7 DEF Delivery

LEMMA AssignDelivery ==
  ASSUME Inv, Delivery, NEW c \in Session, NEW symbol \in Symbol, assign_order_id(c, symbol)
  PROVE  Delivery'
  <1> USE DEF Delivery
  <1>0. TypeOK /\ current_id \in Nat
    BY Elements DEF Inv
  <1>1. PICK r : r = [id |-> current_id, session |-> c, symbol |-> symbol]
    OBVIOUS
  <1>2. r.id = current_id /\ r.session = c
    BY <1>1
  <1>3. /\ handler'[c] = [step |-> "ack", request |-> {r}]
        /\ \A d \in Session : d # c => handler'[d] = handler[d]
    <2>1. PICK requests : requests = {r}
      OBVIOUS
    <2>2. handler' = Advanced(c, requests) /\ handler[c] = Idle
      BY <1>1, <2>1 DEF assign_order_id
    <2>3. handler[c].step = "read"
      BY <2>2 DEF Idle
    <2>4. Advanced(c, requests)[c] = [step |-> "ack", request |-> requests]
      BY <1>0, <2>3, Steps
    <2>5. \A d \in Session : d # c => Advanced(c, requests)[d] = handler[d]
      BY <1>0, Others
    <2> QED
      BY <2>1, <2>2, <2>4, <2>5
  <1>4. current_id' = current_id + 1 /\ UNCHANGED <<shard_of, queue, held, taken, sent>>
    BY DEF assign_order_id
  <1>5. Waiting' = Waiting /\ \A d \in Session : Acked(d)' = Acked(d)
    BY <1>4 DEF Waiting, Acked
  <1>6. \A d \in Session : \A i \in Acked(d) : i \in Nat /\ i < current_id
    BY <1>0, Elements DEF Acks
  <1>7. /\ \A q \in Waiting : q.id \in Nat /\ q.id < current_id
        /\ \A x \in Listed : \A k \in 1 .. Len(taken[x]) : taken[x][k] \in Nat /\ taken[x][k] < current_id
    BY <1>0, Given, Elements, WaitingRequests
  <1>8. \A d \in Session : \A q \in handler[d].request : q.id \in Nat /\ q.id < current_id
    BY <1>0, Elements DEF Handlers, HandlerHas
  <1>9. HandlerHas(c, r)'
    <2>1. handler'[c].request = {r} /\ handler'[c].step = "ack"
      BY <1>3
    <2>2. /\ \A i \in Acked(c) : i <= r.id
          /\ \A d \in Session : r.id \notin Acked(d)
          /\ \A q \in Waiting : q.id # r.id
          /\ \A x \in Listed : \A k \in 1 .. Len(taken[x]) : taken[x][k] # r.id
          /\ r.id < current_id'
      BY <1>0, <1>2, <1>4, <1>6, <1>7
    <2>3. \A d \in Session : \A q \in handler'[d].request : q.id = r.id => d = c
      BY <1>0, <1>2, <1>3, <1>8
    <2> QED
      BY <1>2, <1>4, <1>5, <2>1, <2>2, <2>3 DEF HandlerHas
  <1>10. ASSUME NEW d \in Session, d # c, NEW q \in handler[d].request
         PROVE  HandlerHas(d, q)'
    <2>1. HandlerHas(d, q)
      BY DEF Handlers
    <2>2. q.id < current_id'
      BY <1>0, <1>4, <1>8, <1>10
    <2>3. \A e \in Session : \A p \in handler'[e].request : p.id = q.id => e = d
      BY <1>0, <1>2, <1>3, <1>8, <1>10, <2>1 DEF HandlerHas
    <2> QED
      BY <1>3, <1>4, <1>5, <1>10, <2>1, <2>2, <2>3 DEF HandlerHas
  <1>11. Handlers'
    BY <1>3, <1>9, <1>10 DEF Handlers
  <1>12. Acks'
    <2>1. \A d \in Session : \A i \in Acked(d) : i < current_id'
      BY <1>0, <1>4, <1>6
    <2> QED
      BY <1>4, <1>5, <2>1 DEF Acks
  <1>13. Waits' /\ Takes' /\ Line'
    BY <1>4, <1>5, WaitingRequests, Elements, <1>0 DEF Waits, Takes, Line
  <1> QED
    BY <1>11, <1>12, <1>13

LEMMA WriteAckDelivery ==
  ASSUME Inv, Delivery, NEW c \in Session, writeAck(c)
  PROVE  Delivery'
  <1>0. TypeOK /\ current_id \in Nat /\ Handlers /\ Acks /\ Waits /\ Takes /\ Line
    BY Elements DEF Inv, Delivery
  <1>1. PICK r \in handler[c].request :
          sent' = [sent EXCEPT ![c] = Append(@, [type |-> "A", id |-> r.id])]
    BY DEF writeAck
  <1>2. /\ handler[c].step = "ack" /\ HandlerHas(c, r)
        /\ r.id \in Nat /\ r.session = c /\ r.id < current_id
    BY <1>0, <1>1, Elements DEF writeAck, Handlers, HandlerHas
  <1>3. PICK m \in Message : m.type = "A" /\ m.id = r.id /\ m = [type |-> "A", id |-> r.id]
    BY <1>2 DEF Message
  <1>4. TypeOK /\ m \in Message /\ sent' = [sent EXCEPT ![c] = Append(@, m)]
    BY <1>0, <1>1, <1>3
  <1>5. ASSUME NEW d \in Session, NEW i
        PROVE  i \in Acked(d)' <=> i \in Acked(d) \/ (d = c /\ i = r.id)
    <2>1. i \in Acked(d)' <=> i \in Acked(d) \/ (d = c /\ m.type = "A" /\ i = m.id)
      BY <1>4, AckedNow
    <2> QED
      BY <1>3, <2>1
  <1>6. UNCHANGED <<shard_of, current_id, queue, turn, held, taken>> /\ Waiting' = Waiting
    BY DEF writeAck, Waiting
  <1>7. /\ handler'[c] = [step |-> "submit", request |-> handler[c].request]
        /\ \A d \in Session : d # c => handler'[d] = handler[d]
    <2>1. PICK requests : requests = handler[c].request
      OBVIOUS
    <2>2. handler' = Advanced(c, requests)
      BY <2>1 DEF writeAck
    <2>3. Advanced(c, requests)[c] = [step |-> "submit", request |-> requests]
      BY <1>0, <1>2, Steps
    <2>4. \A d \in Session : d # c => Advanced(c, requests)[d] = handler[d]
      BY <1>0, Others
    <2> QED
      BY <2>1, <2>2, <2>3, <2>4
  <1>8. \A d \in Session : handler'[d].request = handler[d].request
    BY <1>7
  <1>9. ASSUME NEW d \in Session, NEW q \in handler[d].request
        PROVE  HandlerHas(d, q)'
    <2>1. HandlerHas(d, q)
      BY <1>0 DEF Handlers
    <2>2. /\ \A p \in handler'[d].request : p = q
          /\ q.session = d
          /\ q.id < current_id'
          /\ \A e \in Session : \A p \in handler'[e].request : p.id = q.id => e = d
          /\ \A p \in Waiting' : p.id # q.id
          /\ \A x \in Listed : \A k \in 1 .. Len(taken'[x]) : taken'[x][k] # q.id
      BY <1>6, <1>8, <2>1 DEF HandlerHas
    <2>3. CASE d = c
      <3>1. q = r /\ handler'[c].step = "submit" /\ r.id \in Acked(c)'
        BY <1>2, <1>5, <1>7, <2>3 DEF HandlerHas
      <3>2. \A i \in Acked(c)' : i <= r.id
        BY <1>2, <1>5 DEF HandlerHas
      <3> QED
        BY <2>2, <2>3, <3>1, <3>2 DEF HandlerHas
    <2>4. CASE d # c
      <3>1. q.id # r.id
        BY <1>1, <2>1, <2>4 DEF HandlerHas
      <3>2. handler'[d] = handler[d]
        BY <1>7, <2>4
      <3>3. /\ \A i \in Acked(d)' : i <= q.id
            /\ handler'[d].step = "ack" => \A e \in Session : q.id \notin Acked(e)'
            /\ handler'[d].step = "submit" => q.id \in Acked(d)'
        BY <1>5, <2>1, <2>4, <3>1, <3>2 DEF HandlerHas
      <3> QED
        BY <2>2, <3>3 DEF HandlerHas
    <2> QED
      BY <2>3, <2>4
  <1>10. Handlers'
    BY <1>8, <1>9 DEF Handlers
  <1>11. Acks'
    <2>1. \A d \in Session : \A i \in Acked(d)' : i < current_id'
      BY <1>0, <1>2, <1>5, <1>6 DEF Acks
    <2>2. \A d, e \in Session : \A i \in Acked(d)' : i \in Acked(e)' => d = e
      BY <1>0, <1>2, <1>5 DEF Acks, HandlerHas
    <2>3. ASSUME NEW d \in Session, NEW k \in 1 .. Len(sent'[d]), NEW l \in 1 .. Len(sent'[d]),
                 k < l, sent'[d][k].type = "A", sent'[d][l].type = "A"
          PROVE  sent'[d][k].id < sent'[d][l].id
      <3>1. CASE d # c
        <4>1. sent'[d] = sent[d]
          BY <1>4, <3>1, NoMore
        <4> QED
          BY <1>0, <2>3, <4>1 DEF Acks
      <3>2. CASE d = c
        <4>1. /\ Len(sent[c]) \in Nat /\ Len(sent'[c]) = Len(sent[c]) + 1
              /\ sent'[c][Len(sent[c]) + 1] = m
              /\ \A j \in 1 .. Len(sent[c]) : sent'[c][j] = sent[c][j]
              /\ \A j \in 1 .. Len(sent[c]) + 1 : j \in 1 .. Len(sent[c]) \/ j = Len(sent[c]) + 1
          BY <1>4, OneMore
        <4>2. k \in 1 .. Len(sent[c]) /\ sent'[c][k] = sent[c][k] /\ sent[c][k].type = "A"
          BY <2>3, <3>2, <4>1
        <4>3. CASE l \in 1 .. Len(sent[c])
          BY <1>0, <2>3, <3>2, <4>1, <4>2, <4>3 DEF Acks
        <4>4. CASE l = Len(sent[c]) + 1
          <5>1. sent[c][k].id \in Acked(c)
            BY <4>2, AckedIs
          <5>2. sent[c][k].id <= r.id /\ sent[c][k].id # r.id /\ sent[c][k].id \in Nat
            BY <1>0, <1>2, <5>1, Elements DEF HandlerHas
          <5> QED
            BY <1>2, <1>3, <3>2, <4>1, <4>2, <4>4, <5>2
        <4> QED
          BY <2>3, <3>2, <4>1, <4>3, <4>4
      <3> QED
        BY <3>1, <3>2
    <2>4. ASSUME NEW d \in Session, NEW k \in 1 .. Len(sent'[d]), sent'[d][k].type = "J"
          PROVE  \E l \in 1 .. Len(sent'[d]) :
                   l < k /\ sent'[d][l] = [type |-> "A", id |-> sent'[d][k].id]
      <3>1. CASE d # c
        <4>1. sent'[d] = sent[d]
          BY <1>4, <3>1, NoMore
        <4> QED
          BY <1>0, <2>4, <4>1 DEF Acks
      <3>2. CASE d = c
        <4>1. /\ Len(sent[c]) \in Nat /\ Len(sent'[c]) = Len(sent[c]) + 1
              /\ sent'[c][Len(sent[c]) + 1] = m
              /\ \A j \in 1 .. Len(sent[c]) : sent'[c][j] = sent[c][j]
              /\ \A j \in 1 .. Len(sent[c]) + 1 : j \in 1 .. Len(sent[c]) \/ j = Len(sent[c]) + 1
          BY <1>4, OneMore
        <4>2. k \in 1 .. Len(sent[c]) /\ sent'[c][k] = sent[c][k]
          BY <1>3, <2>4, <3>2, <4>1
        <4>3. PICK l \in 1 .. Len(sent[c]) :
                l < k /\ sent[c][l] = [type |-> "A", id |-> sent[c][k].id]
          BY <1>0, <2>4, <3>2, <4>2 DEF Acks
        <4>4. l \in 1 .. Len(sent'[c]) /\ sent'[c][l] = sent[c][l]
          BY <4>1
        <4> QED
          BY <3>2, <4>2, <4>3, <4>4
      <3> QED
        BY <3>1, <3>2
    <2> QED
      BY <2>1, <2>2, <2>3, <2>4 DEF Acks
  <1>12. ASSUME NEW q \in Waiting
         PROVE  /\ q.id \in Acked(q.session)'
                /\ q.symbol \in Listed => \A k \in 1 .. Len(taken'[q.symbol]) :
                     taken'[q.symbol][k] \in Acked(q.session)' => taken'[q.symbol][k] < q.id
    <2>1. PICK d \in Session : d = q.session
      BY <1>0, WaitingRequests, Elements
    <2>2. q.id \in Acked(d)'
      BY <1>0, <1>5, <2>1 DEF Waits
    <2>3. ASSUME q.symbol \in Listed, NEW k \in 1 .. Len(taken[q.symbol]),
                 taken[q.symbol][k] \in Acked(d)'
          PROVE  taken[q.symbol][k] < q.id
      <3>1. taken[q.symbol][k] # r.id
        BY <1>2, <2>3 DEF HandlerHas
      <3> QED
        BY <1>0, <1>5, <2>1, <2>3, <3>1 DEF Waits
    <2> QED
      BY <1>6, <2>1, <2>2, <2>3
  <1>13. Waits'
    BY <1>6, <1>12 DEF Waits
  <1>14. Takes'
    <2>1. \A x \in Listed : \A k \in 1 .. Len(taken[x]) : taken[x][k] # r.id
      BY <1>2 DEF HandlerHas
    <2>2. \A x \in Listed : \A k \in 1 .. Len(taken[x]) : \A d \in Session :
            taken[x][k] \in Acked(d)' <=> taken[x][k] \in Acked(d)
      BY <1>5, <2>1
    <2> QED
      BY <1>0, <1>6, <2>2 DEF Takes
  <1>15. Line'
    BY <1>0, <1>6 DEF Line
  <1> QED
    BY <1>10, <1>11, <1>13, <1>14, <1>15 DEF Delivery

LEMMA SubmitDelivery ==
  ASSUME Inv, Delivery, NEW c \in Session, submit_order(c)
  PROVE  Delivery'
  <1>0. TypeOK /\ Handlers /\ Acks /\ Waits /\ Takes /\ Line
    BY DEF Inv, Delivery
  <1>1. PICK r \in handler[c].request :
          queue' = [queue EXCEPT ![shard_of[r.symbol]] = Append(@, r)]
    BY DEF submit_order, Pushed
  <1>2. /\ handler[c].step = "submit" /\ HandlerHas(c, r) /\ r \in Request
        /\ r.id \in Nat /\ r.session = c /\ r.id \in Acked(c)
    BY <1>0, <1>1, Elements DEF submit_order, Handlers, HandlerHas
  <1>3. PICK s \in Shard : s = shard_of[r.symbol]
    BY <1>0, <1>2, Elements DEF TypeOK
  <1>4. queue' = [queue EXCEPT ![s] = Append(queue[s], r)] /\ queue[s] \in Seq(Request)
        /\ DOMAIN queue = Shard
    BY <1>0, <1>1, <1>3 DEF TypeOK
  <1>5. /\ \A u \in Shard : u # s => queue'[u] = queue[u]
        /\ queue'[s] = Append(queue[s], r)
    BY <1>4
  <1>6. /\ Len(queue[s]) \in Nat
        /\ Len(queue'[s]) = Len(queue[s]) + 1
        /\ queue'[s][Len(queue[s]) + 1] = r
        /\ \A k \in 1 .. Len(queue[s]) : queue'[s][k] = queue[s][k]
        /\ \A k \in 1 .. Len(queue[s]) + 1 : k \in 1 .. Len(queue[s]) \/ k = Len(queue[s]) + 1
    <2>1. PICK requests : requests = queue[s]
      OBVIOUS
    <2>2. requests \in Seq(Request) /\ queue'[s] = Append(requests, r)
      BY <1>4, <1>5, <2>1
    <2>3. /\ Len(requests) \in Nat
          /\ Len(Append(requests, r)) = Len(requests) + 1
          /\ Append(requests, r)[Len(requests) + 1] = r
          /\ \A k \in 1 .. Len(requests) : Append(requests, r)[k] = requests[k]
          /\ \A k \in 1 .. Len(requests) + 1 : k \in 1 .. Len(requests) \/ k = Len(requests) + 1
      BY <1>2, <2>2, AppendFacts
    <2> QED
      BY <2>1, <2>2, <2>3
  <1>7. UNCHANGED <<shard_of, current_id, turn, held, taken, sent>>
        /\ \A d \in Session : Acked(d)' = Acked(d)
    BY DEF submit_order, Acked
  <1>8. handler'[c] = Idle /\ \A d \in Session : d # c => handler'[d] = handler[d]
    <2>1. PICK requests : requests = handler[c].request
      OBVIOUS
    <2>2. handler' = Advanced(c, requests)
      BY <2>1 DEF submit_order
    <2>3. Advanced(c, requests)[c] = Idle
      BY <1>0, <1>2, Steps
    <2>4. \A d \in Session : d # c => Advanced(c, requests)[d] = handler[d]
      BY <1>0, Others
    <2> QED
      BY <2>2, <2>3, <2>4
  <1>9. ASSUME NEW q \in Waiting'
        PROVE  q \in Waiting \/ q = r
    <2>1. CASE \E u \in Shard : \E k \in 1 .. Len(queue'[u]) : q = queue'[u][k]
      <3>0. PICK u \in Shard : \E k \in 1 .. Len(queue'[u]) : q = queue'[u][k]
        BY <2>1
      <3>1. PICK k \in 1 .. Len(queue'[u]) : q = queue'[u][k]
        BY <3>0
      <3>2. CASE u # s
        BY <1>5, <3>1, <3>2, WaitingIs
      <3>3. CASE u = s
        BY <1>6, <3>1, <3>3, WaitingIs
      <3> QED
        BY <3>2, <3>3
    <2>2. CASE \E t \in Thread : q \in held'[t]
      BY <1>7, <2>2, WaitingIs
    <2>3. \/ \E u \in Shard : \E k \in 1 .. Len(queue'[u]) : q = queue'[u][k]
          \/ \E t \in Thread : q \in held'[t]
      BY <1>9 DEF Waiting
    <2> QED
      BY <2>1, <2>2, <2>3
  <1>10. \A q \in Waiting : q.session = c => q.id < r.id
    <2> SUFFICES ASSUME NEW q \in Waiting, q.session = c
                 PROVE  q.id < r.id
      OBVIOUS
    <2>1. q.id \in Acked(c) /\ q.id # r.id
      BY <1>0, <1>2 DEF Waits, HandlerHas
    <2>2. q.id <= r.id /\ q.id \in Nat
      BY <1>0, <1>2, <2>1, Elements DEF HandlerHas
    <2> QED
      BY <1>2, <2>1, <2>2
  <1>11. Handlers'
    <2> SUFFICES ASSUME NEW d \in Session, NEW q \in handler'[d].request
                 PROVE  HandlerHas(d, q)'
      BY DEF Handlers
    <2>1. d # c
      BY <1>8 DEF Idle
    <2>2. handler'[d] = handler[d] /\ HandlerHas(d, q)
      BY <1>0, <1>8, <2>1 DEF Handlers
    <2>3. q.id # r.id
      BY <1>1, <2>1, <2>2 DEF HandlerHas
    <2>4. \A p \in Waiting' : p.id # q.id
      BY <1>9, <2>2, <2>3 DEF HandlerHas
    <2>5. \A e \in Session : \A p \in handler'[e].request : p.id = q.id => e = d
      BY <1>8, <2>2 DEF HandlerHas, Idle
    <2> QED
      BY <1>7, <2>2, <2>4, <2>5 DEF HandlerHas
  <1>12. Acks' /\ Takes'
    BY <1>0, <1>7 DEF Acks, Takes
  <1>13. Waits'
    <2> SUFFICES ASSUME NEW q \in Waiting'
                 PROVE  /\ q.id \in Acked(q.session)'
                        /\ q.symbol \in Listed => \A k \in 1 .. Len(taken'[q.symbol]) :
                             taken'[q.symbol][k] \in Acked(q.session)' =>
                               taken'[q.symbol][k] < q.id
      BY DEF Waits
    <2>1. CASE q \in Waiting
      <3>1. PICK d \in Session : d = q.session
        BY <1>0, <2>1, WaitingRequests, Elements
      <3> QED
        BY <1>0, <1>7, <2>1, <3>1 DEF Waits
    <2>2. CASE q = r
      <3>1. \A x \in Listed : \A k \in 1 .. Len(taken[x]) :
              taken[x][k] \in Acked(c) => taken[x][k] < r.id
        <4> SUFFICES ASSUME NEW x \in Listed, NEW k \in 1 .. Len(taken[x]), taken[x][k] \in Acked(c)
                     PROVE  taken[x][k] < r.id
          OBVIOUS
        <4>1. taken[x][k] <= r.id /\ taken[x][k] # r.id /\ taken[x][k] \in Nat
          BY <1>0, <1>2, Elements DEF HandlerHas
        <4> QED
          BY <1>2, <4>1
      <3> QED
        BY <1>2, <1>7, <2>2, <3>1
    <2> QED
      BY <1>9, <2>1, <2>2
  <1>14. ASSUME NEW u \in Shard, NEW k \in 1 .. Len(queue'[u]), NEW l \in 1 .. Len(queue'[u]),
                k < l, queue'[u][k].session = queue'[u][l].session
         PROVE  queue'[u][k].id < queue'[u][l].id
    <2>1. CASE u # s
      <3>1. queue'[u] = queue[u]
        BY <1>5, <2>1
      <3> QED
        BY <1>0, <1>14, <3>1 DEF Line
    <2>2. CASE u = s
      <3>1. k \in 1 .. Len(queue[s]) /\ queue'[s][k] = queue[s][k]
        BY <1>6, <1>14, <2>2
      <3>2. CASE l \in 1 .. Len(queue[s])
        <4>1. queue'[s][l] = queue[s][l]
          BY <1>6, <3>2
        <4> QED
          BY <1>0, <1>14, <2>2, <3>1, <3>2, <4>1 DEF Line
      <3>3. CASE l = Len(queue[s]) + 1
        <4>1. queue'[s][l] = r /\ queue[s][k].session = c
          BY <1>2, <1>6, <1>14, <2>2, <3>1, <3>3
        <4>2. queue[s][k].id < r.id
          BY <1>10, <3>1, <4>1, WaitingIs
        <4> QED
          BY <2>2, <3>1, <4>1, <4>2
      <3> QED
        BY <1>6, <2>2, <3>2, <3>3
    <2> QED
      BY <2>1, <2>2
  <1>15. ASSUME NEW t \in Thread, NEW h \in held[t], NEW u \in Shard, u = shard_of[h.symbol],
                NEW k \in 1 .. Len(queue'[u]), queue'[u][k].session = h.session
         PROVE  h.id < queue'[u][k].id
    <2>1. CASE u # s
      <3>1. queue'[u] = queue[u]
        BY <1>5, <2>1
      <3> QED
        BY <1>0, <1>15, <3>1 DEF Line
    <2>2. CASE u = s
      <3>1. CASE k \in 1 .. Len(queue[s])
        <4>1. queue'[s][k] = queue[s][k]
          BY <1>6, <3>1
        <4> QED
          BY <1>0, <1>15, <2>2, <3>1, <4>1 DEF Line
      <3>2. CASE k = Len(queue[s]) + 1
        <4>1. queue'[s][k] = r /\ h.session = c
          BY <1>2, <1>6, <1>15, <2>2, <3>2
        <4>2. h.id < r.id
          BY <1>10, <4>1, WaitingIs
        <4> QED
          BY <2>2, <4>1, <4>2
      <3> QED
        BY <1>6, <2>2, <3>1, <3>2
    <2> QED
      BY <2>1, <2>2
  <1>16. Line'
    <2>1. \A t \in Thread : \A h \in held[t] : shard_of[h.symbol] \in Shard
      BY <1>0, Elements DEF TypeOK
    <2>2. \A t \in Thread : \A h \in held[t] : \A k \in 1 .. Len(queue'[shard_of[h.symbol]]) :
            queue'[shard_of[h.symbol]][k].session = h.session =>
              h.id < queue'[shard_of[h.symbol]][k].id
      BY <1>15, <2>1
    <2> QED
      BY <1>7, <1>14, <2>2 DEF Line
  <1> QED
    BY <1>11, <1>12, <1>13, <1>16 DEF Delivery

-----------------------------------------------------------------------------
(* In the market threads' steps *)

LEMMA WaitsKept ==
  ASSUME TypeOK, Waits, UNCHANGED taken,
         \A d \in Session : Acked(d)' = Acked(d), \A q \in Waiting' : q \in Waiting
  PROVE  Waits'
  <1> SUFFICES ASSUME NEW q \in Waiting'
               PROVE  /\ q.id \in Acked(q.session)'
                      /\ q.symbol \in Listed => \A k \in 1 .. Len(taken'[q.symbol]) :
                           taken'[q.symbol][k] \in Acked(q.session)' => taken'[q.symbol][k] < q.id
    BY DEF Waits
  <1>1. q \in Waiting
    OBVIOUS
  <1>2. PICK d \in Session : d = q.session
    BY <1>1, WaitingRequests, Elements
  <1> QED
    BY <1>1, <1>2 DEF Waits

LEMMA DrainNoneDelivery ==
  ASSUME Inv, Delivery, NEW t \in Thread, drain_none(t)
  PROVE  Delivery'
  <1>1. UNCHANGED <<shard_of, current_id, handler, queue, held, taken, sent>>
    BY DEF drain_none
  <1>2. Waiting' = Waiting /\ \A d \in Session : Acked(d)' = Acked(d)
    BY <1>1 DEF Waiting, Acked
  <1>3. Handlers' /\ Acks' /\ Takes' /\ Line'
    BY <1>1, <1>2 DEF Delivery, Handlers, HandlerHas, Acks, Takes, Line
  <1>4. Waits'
    BY <1>1, <1>2, WaitsKept DEF Inv, Delivery
  <1> QED
    BY <1>3, <1>4 DEF Delivery

LEMMA DrainOneDelivery ==
  ASSUME Inv, Delivery, NEW t \in Thread, drain_one(t)
  PROVE  Delivery'
  <1>0. TypeOK /\ Routed /\ Handlers /\ Acks /\ Waits /\ Takes /\ Line
    BY DEF Inv, Delivery
  <1>1. PICK s \in Shard : s = turn[t]
    BY <1>0 DEF TypeOK
  <1>2. PICK r : r = Head(queue[s])
    OBVIOUS
  <1>3. /\ queue[s] \in Seq(Request) /\ queue[s] # <<>>
        /\ held' = [held EXCEPT ![t] = {r}]
        /\ queue' = [queue EXCEPT ![s] = Tail(queue[s])]
    BY <1>0, <1>1, <1>2 DEF drain_one, Popped, TypeOK
  <1>4. /\ \A u \in Shard : u # s => queue'[u] = queue[u]
        /\ queue'[s] = Tail(queue[s])
        /\ held'[t] = {r}
        /\ \A u \in Thread : u # t => held'[u] = held[u]
    BY <1>0, <1>3 DEF TypeOK
  <1>5. /\ Len(queue[s]) \in Nat \ {0}
        /\ r = queue[s][1] /\ 1 \in 1 .. Len(queue[s])
        /\ \A k \in 1 .. Len(queue'[s]) :
             k + 1 \in 1 .. Len(queue[s]) /\ queue'[s][k] = queue[s][k + 1] /\ 1 < k + 1
        /\ \A k, l \in 1 .. Len(queue'[s]) : k < l => k + 1 < l + 1
    <2>1. PICK requests : requests = queue[s]
      OBVIOUS
    <2>2. requests \in Seq(Request) /\ requests # <<>> /\ queue'[s] = Tail(requests)
          /\ r = Head(requests)
      BY <1>2, <1>3, <1>4, <2>1
    <2>3. /\ Len(requests) \in Nat \ {0}
          /\ r = requests[1]
          /\ Len(Tail(requests)) = Len(requests) - 1
          /\ \A k \in 1 .. Len(requests) - 1 : Tail(requests)[k] = requests[k + 1]
      BY <2>2
    <2> QED
      BY <2>1, <2>2, <2>3
  <1>6. UNCHANGED <<shard_of, current_id, handler, turn, taken, sent>>
        /\ \A d \in Session : Acked(d)' = Acked(d)
    BY DEF drain_one, Acked
  <1>7. ASSUME NEW q \in Waiting'
        PROVE  q \in Waiting
    <2>1. CASE \E u \in Shard : \E k \in 1 .. Len(queue'[u]) : q = queue'[u][k]
      <3>1. PICK u \in Shard : \E k \in 1 .. Len(queue'[u]) : q = queue'[u][k]
        BY <2>1
      <3>2. PICK k \in 1 .. Len(queue'[u]) : q = queue'[u][k]
        BY <3>1
      <3>3. CASE u # s
        BY <1>4, <3>2, <3>3, WaitingIs
      <3>4. CASE u = s
        BY <1>5, <3>2, <3>4, WaitingIs
      <3> QED
        BY <3>3, <3>4
    <2>2. CASE \E u \in Thread : q \in held'[u]
      <3>1. PICK u \in Thread : q \in held'[u]
        BY <2>2
      <3>2. CASE u # t
        BY <1>4, <3>1, <3>2, WaitingIs
      <3>3. CASE u = t
        BY <1>4, <1>5, <3>1, <3>3, WaitingIs
      <3> QED
        BY <3>2, <3>3
    <2>3. \/ \E u \in Shard : \E k \in 1 .. Len(queue'[u]) : q = queue'[u][k]
          \/ \E u \in Thread : q \in held'[u]
      BY <1>7 DEF Waiting
    <2> QED
      BY <2>1, <2>2, <2>3
  <1>8. Handlers'
    BY <1>0, <1>6, <1>7 DEF Handlers, HandlerHas
  <1>9. Acks' /\ Takes'
    BY <1>0, <1>6 DEF Acks, Takes
  <1>10. Waits'
    BY <1>0, <1>6, <1>7, WaitsKept
  <1>11. ASSUME NEW u \in Shard, NEW k \in 1 .. Len(queue'[u]), NEW l \in 1 .. Len(queue'[u]),
                k < l, queue'[u][k].session = queue'[u][l].session
         PROVE  queue'[u][k].id < queue'[u][l].id
    <2>1. CASE u # s
      <3>1. queue'[u] = queue[u]
        BY <1>4, <2>1
      <3> QED
        BY <1>0, <1>11, <3>1 DEF Line
    <2>2. CASE u = s
      <3>1. PICK i \in 1 .. Len(queue[s]), j \in 1 .. Len(queue[s]) :
              i = k + 1 /\ j = l + 1 /\ i < j /\ queue'[s][k] = queue[s][i] /\ queue'[s][l] = queue[s][j]
        BY <1>5, <1>11, <2>2
      <3> QED
        BY <1>0, <1>11, <2>2, <3>1 DEF Line
    <2> QED
      BY <2>1, <2>2
  <1>12. ASSUME NEW v \in Thread, NEW h \in held'[v], NEW u \in Shard, u = shard_of[h.symbol],
                NEW k \in 1 .. Len(queue'[u]), queue'[u][k].session = h.session
         PROVE  h.id < queue'[u][k].id
    <2>1. CASE v = t
      <3>1. h = queue[s][1] /\ u = s
        BY <1>0, <1>4, <1>5, <1>12, <2>1 DEF Routed
      <3>2. PICK j \in 1 .. Len(queue[s]) : 1 < j /\ queue'[s][k] = queue[s][j]
        BY <1>5, <1>12, <3>1
      <3> QED
        BY <1>0, <1>5, <1>12, <3>1, <3>2 DEF Line
    <2>2. CASE v # t
      <3>1. h \in held[v]
        BY <1>4, <1>12, <2>2
      <3>2. CASE u # s
        <4>1. queue'[u] = queue[u]
          BY <1>4, <3>2
        <4> QED
          BY <1>0, <1>12, <3>1, <4>1 DEF Line
      <3>3. CASE u = s
        <4>1. PICK j \in 1 .. Len(queue[s]) : queue'[s][k] = queue[s][j]
          BY <1>5, <1>12, <3>3
        <4> QED
          BY <1>0, <1>12, <3>1, <3>3, <4>1 DEF Line
      <3> QED
        BY <3>2, <3>3
    <2> QED
      BY <2>1, <2>2
  <1>13. Line'
    <2>1. \A v \in Thread : \A h \in held'[v] : shard_of[h.symbol] \in Shard
      <3> SUFFICES ASSUME NEW v \in Thread, NEW h \in held'[v]
                   PROVE  shard_of[h.symbol] \in Shard
        OBVIOUS
      <3>1. h \in Waiting
        BY <1>4, <1>5, WaitingIs
      <3>2. h.symbol \in Symbol
        BY <1>0, <3>1, WaitingRequests, Elements
      <3> QED
        BY <1>0, <3>2 DEF TypeOK
    <2>2. \A v \in Thread : \A h \in held'[v] : \A k \in 1 .. Len(queue'[shard_of[h.symbol]]) :
            queue'[shard_of[h.symbol]][k].session = h.session =>
              h.id < queue'[shard_of[h.symbol]][k].id
      BY <1>12, <2>1
    <2> QED
      BY <1>6, <1>11, <2>2 DEF Line
  <1> QED
    BY <1>8, <1>9, <1>10, <1>13 DEF Delivery

LEMMA ProcessOneDelivery ==
  ASSUME Inv, Delivery, NEW t \in Thread, process_one(t)
  PROVE  Delivery'
  <1>0. TypeOK /\ Routed /\ BookExclusive /\ Handlers /\ Acks /\ Waits /\ Takes /\ Line
    BY Exclusive DEF Inv, Delivery
  <1>1. PICK r \in held[t] :
          IF r.symbol \in Listed
          THEN /\ taken' = [taken EXCEPT ![r.symbol] = Append(@, r.id)]
               /\ UNCHANGED sent
          ELSE /\ sent' = [sent EXCEPT ![r.session] = Append(@, [type |-> "J", id |-> r.id])]
               /\ UNCHANGED taken
    BY DEF process_one
  <1>2. r \in Waiting /\ r \in Request /\ r.id \in Nat /\ r.session \in Session
    BY <1>0, <1>1, WaitingIs, WaitingRequests, Elements
  <1>3. r.id \in Acked(r.session)
    BY <1>0, <1>2 DEF Waits
  <1>4. /\ held'[t] = {} /\ \A u \in Thread : u # t => held'[u] = held[u]
        /\ UNCHANGED <<shard_of, current_id, handler, queue>>
    BY <1>0 DEF process_one, TypeOK
  <1>5. ASSUME NEW q \in Waiting'
        PROVE  q \in Waiting
    <2>1. \/ \E u \in Shard : \E k \in 1 .. Len(queue[u]) : q = queue[u][k]
          \/ \E u \in Thread : q \in held'[u]
      BY <1>4, <1>5 DEF Waiting
    <2> QED
      BY <1>4, <2>1, WaitingIs
  <1>6. Line'
    <2>1. \A u \in Thread : \A h \in held'[u] : h \in held[u]
      BY <1>4
    <2> QED
      BY <1>0, <1>4, <2>1 DEF Line
  <1>7. CASE r.symbol \in Listed
    <2>1. PICK x \in Listed : x = r.symbol
      BY <1>7
    <2>2. /\ taken' = [taken EXCEPT ![x] = Append(taken[x], r.id)]
          /\ taken[x] \in Seq(Nat) /\ DOMAIN taken = Listed /\ UNCHANGED sent
      BY <1>0, <1>1, <2>1 DEF TypeOK
    <2>3. /\ \A y \in Listed : y # x => taken'[y] = taken[y]
          /\ taken'[x] = Append(taken[x], r.id)
          /\ \A d \in Session : Acked(d)' = Acked(d)
      BY <2>2 DEF Acked
    <2>4. /\ Len(taken[x]) \in Nat
          /\ Len(taken'[x]) = Len(taken[x]) + 1
          /\ taken'[x][Len(taken[x]) + 1] = r.id
          /\ \A k \in 1 .. Len(taken[x]) : taken'[x][k] = taken[x][k]
          /\ \A k \in 1 .. Len(taken[x]) + 1 : k \in 1 .. Len(taken[x]) \/ k = Len(taken[x]) + 1
      <3>1. PICK ids : ids = taken[x]
        OBVIOUS
      <3>2. ids \in Seq(Nat) /\ taken'[x] = Append(ids, r.id)
        BY <2>2, <2>3, <3>1
      <3>3. /\ Len(ids) \in Nat
            /\ Len(Append(ids, r.id)) = Len(ids) + 1
            /\ Append(ids, r.id)[Len(ids) + 1] = r.id
            /\ \A k \in 1 .. Len(ids) : Append(ids, r.id)[k] = ids[k]
            /\ \A k \in 1 .. Len(ids) + 1 : k \in 1 .. Len(ids) \/ k = Len(ids) + 1
        BY <1>2, <3>2, AppendFacts
      <3> QED
        BY <3>1, <3>2, <3>3
    <2>5. Handlers'
      <3> SUFFICES ASSUME NEW d \in Session, NEW q \in handler[d].request
                   PROVE  HandlerHas(d, q)'
        BY <1>4 DEF Handlers
      <3>1. HandlerHas(d, q)
        BY <1>0 DEF Handlers
      <3>2. q.id # r.id
        BY <1>2, <3>1 DEF HandlerHas
      <3>3. ASSUME NEW y \in Listed, NEW k \in 1 .. Len(taken'[y])
            PROVE  taken'[y][k] # q.id
        <4>1. CASE y # x
          BY <2>3, <3>1, <4>1 DEF HandlerHas
        <4>2. CASE y = x
          BY <2>4, <3>1, <3>2, <4>2 DEF HandlerHas
        <4> QED
          BY <4>1, <4>2
      <3> QED
        BY <1>4, <1>5, <2>3, <3>1, <3>3 DEF HandlerHas
    <2>6. Acks'
      BY <1>0, <1>4, <2>2, <2>3 DEF Acks
    <2>7. \A q \in Waiting' : q.symbol = x /\ q.session = r.session => r.id < q.id
      <3> SUFFICES ASSUME NEW q \in Waiting', q.symbol = x, q.session = r.session
                   PROVE  r.id < q.id
        OBVIOUS
      <3>1. \/ \E u \in Shard : \E k \in 1 .. Len(queue[u]) : q = queue[u][k]
            \/ \E u \in Thread : q \in held'[u]
        BY <1>4 DEF Waiting
      <3>2. CASE \E u \in Shard : \E k \in 1 .. Len(queue[u]) : q = queue[u][k]
        <4>1. PICK u \in Shard : \E k \in 1 .. Len(queue[u]) : q = queue[u][k]
          BY <3>2
        <4>2. PICK k \in 1 .. Len(queue[u]) : q = queue[u][k]
          BY <4>1
        <4>3. u = shard_of[r.symbol]
          BY <1>0, <2>1, <4>2 DEF Routed
        <4> QED
          BY <1>0, <1>1, <4>2, <4>3 DEF Line
      <3>3. CASE \E u \in Thread : q \in held'[u]
        <4>1. PICK u \in Thread : q \in held'[u]
          BY <3>3
        <4>2. u # t /\ q \in held[u]
          BY <1>4, <4>1
        <4> QED
          BY <1>0, <1>1, <2>1, <4>2 DEF BookExclusive
      <3> QED
        BY <3>1, <3>2, <3>3
    <2>8. Waits'
      <3> SUFFICES ASSUME NEW q \in Waiting'
                   PROVE  /\ q.id \in Acked(q.session)'
                          /\ q.symbol \in Listed => \A k \in 1 .. Len(taken'[q.symbol]) :
                               taken'[q.symbol][k] \in Acked(q.session)' =>
                                 taken'[q.symbol][k] < q.id
        BY DEF Waits
      <3>1. q \in Waiting
        BY <1>5
      <3>2. PICK d \in Session : d = q.session
        BY <1>0, <3>1, WaitingRequests, Elements
      <3>3. q.id \in Acked(d)'
        BY <1>0, <2>3, <3>1, <3>2 DEF Waits
      <3>4. ASSUME NEW y \in Listed, y = q.symbol, NEW k \in 1 .. Len(taken'[y]),
                   taken'[y][k] \in Acked(d)
            PROVE  taken'[y][k] < q.id
        <4>1. CASE y # x
          <5>1. taken'[y] = taken[y]
            BY <2>3, <4>1
          <5> QED
            BY <1>0, <3>1, <3>2, <3>4, <5>1 DEF Waits
        <4>2. CASE y = x /\ k \in 1 .. Len(taken[x])
          <5>1. taken'[y][k] = taken[y][k]
            BY <2>4, <4>2
          <5> QED
            BY <1>0, <3>1, <3>2, <3>4, <4>2, <5>1 DEF Waits
        <4>3. CASE y = x /\ k = Len(taken[x]) + 1
          <5>1. taken'[y][k] = r.id
            BY <2>4, <4>3
          <5>2. r.session = d
            BY <1>0, <1>2, <1>3, <3>4, <5>1 DEF Acks
          <5> QED
            BY <2>7, <3>2, <3>4, <4>3, <5>1, <5>2
        <4> QED
          BY <2>4, <3>4, <4>1, <4>2, <4>3
      <3> QED
        BY <2>3, <3>2, <3>3, <3>4
    <2>9. ASSUME NEW y \in Listed, NEW k \in 1 .. Len(taken'[y])
          PROVE  \E d \in Session : taken'[y][k] \in Acked(d)
      <3>1. CASE y # x
        BY <1>0, <2>3, <3>1 DEF Takes
      <3>2. CASE y = x
        BY <1>0, <1>2, <1>3, <2>4, <3>2 DEF Takes
      <3> QED
        BY <3>1, <3>2
    <2>10. ASSUME NEW y \in Listed, NEW k \in 1 .. Len(taken'[y]), NEW l \in 1 .. Len(taken'[y]),
                  k < l, NEW d \in Session, taken'[y][k] \in Acked(d), taken'[y][l] \in Acked(d)
           PROVE  taken'[y][k] < taken'[y][l]
      <3>1. CASE y # x
        <4>1. taken'[y] = taken[y]
          BY <2>3, <3>1
        <4> QED
          BY <1>0, <2>10, <4>1 DEF Takes
      <3>2. CASE y = x
        <4>1. k \in 1 .. Len(taken[x]) /\ taken'[x][k] = taken[x][k]
          BY <2>4, <2>10, <3>2
        <4>2. CASE l \in 1 .. Len(taken[x])
          <5>1. taken'[x][l] = taken[x][l]
            BY <2>4, <4>2
          <5> QED
            BY <1>0, <2>10, <3>2, <4>1, <4>2, <5>1 DEF Takes
        <4>3. CASE l = Len(taken[x]) + 1
          <5>1. taken'[x][l] = r.id
            BY <2>4, <4>3
          <5>2. r.session = d
            BY <1>0, <1>2, <1>3, <2>10, <3>2, <5>1 DEF Acks
          <5> QED
            BY <1>0, <1>2, <2>1, <2>10, <3>2, <4>1, <5>1, <5>2 DEF Waits
        <4> QED
          BY <2>4, <3>2, <4>2, <4>3
      <3> QED
        BY <3>1, <3>2
    <2>11. Takes'
      BY <2>3, <2>9, <2>10 DEF Takes
    <2> QED
      BY <1>6, <2>5, <2>6, <2>8, <2>11 DEF Delivery
  <1>8. CASE r.symbol \notin Listed
    <2>1. PICK m \in Message : m = [type |-> "J", id |-> r.id]
      BY <1>2 DEF Message
    <2>2. m.type = "J" /\ m.type # "A" /\ m.id = r.id
      BY <2>1
    <2>3. PICK c \in Session : c = r.session
      BY <1>2
    <2>4. TypeOK /\ m \in Message /\ sent' = [sent EXCEPT ![c] = Append(@, m)] /\ UNCHANGED taken
      BY <1>0, <1>1, <1>8, <2>1, <2>3
    <2>5. ASSUME NEW d \in Session, NEW i
          PROVE  i \in Acked(d)' <=> i \in Acked(d)
      <3>1. i \in Acked(d)' <=> i \in Acked(d) \/ (d = c /\ m.type = "A" /\ i = m.id)
        BY <2>4, AckedNow
      <3> QED
        BY <2>2, <3>1
    <2>6. \A d \in Session : Acked(d)' = Acked(d)
      BY <2>5
    <2>7. Handlers' /\ Takes'
      BY <1>0, <1>4, <1>5, <2>4, <2>6 DEF Handlers, HandlerHas, Takes
    <2>8. Waits'
      BY <1>0, <1>5, <2>4, <2>6, WaitsKept
    <2>9. /\ Len(sent[c]) \in Nat /\ Len(sent'[c]) = Len(sent[c]) + 1
          /\ sent'[c][Len(sent[c]) + 1] = m
          /\ \A j \in 1 .. Len(sent[c]) : sent'[c][j] = sent[c][j]
          /\ \A j \in 1 .. Len(sent[c]) + 1 : j \in 1 .. Len(sent[c]) \/ j = Len(sent[c]) + 1
      BY <2>4, OneMore
    <2>10. ASSUME NEW d \in Session, NEW k \in 1 .. Len(sent'[d]), NEW l \in 1 .. Len(sent'[d]),
                  k < l, sent'[d][k].type = "A", sent'[d][l].type = "A"
           PROVE  sent'[d][k].id < sent'[d][l].id
      <3>1. CASE d # c
        <4>1. sent'[d] = sent[d]
          BY <2>4, <3>1, NoMore
        <4> QED
          BY <1>0, <2>10, <4>1 DEF Acks
      <3>2. CASE d = c
        <4>1. /\ k \in 1 .. Len(sent[c]) /\ sent'[c][k] = sent[c][k]
              /\ l \in 1 .. Len(sent[c]) /\ sent'[c][l] = sent[c][l]
          BY <2>2, <2>9, <2>10, <3>2
        <4> QED
          BY <1>0, <2>10, <3>2, <4>1 DEF Acks
      <3> QED
        BY <3>1, <3>2
    <2>11. ASSUME NEW d \in Session, NEW k \in 1 .. Len(sent'[d]), sent'[d][k].type = "J"
           PROVE  \E l \in 1 .. Len(sent'[d]) :
                    l < k /\ sent'[d][l] = [type |-> "A", id |-> sent'[d][k].id]
      <3>1. CASE d # c
        <4>1. sent'[d] = sent[d]
          BY <2>4, <3>1, NoMore
        <4> QED
          BY <1>0, <2>11, <4>1 DEF Acks
      <3>2. CASE d = c /\ k \in 1 .. Len(sent[c])
        <4>1. PICK l \in 1 .. Len(sent[c]) :
                l < k /\ sent[c][l] = [type |-> "A", id |-> sent[c][k].id]
          BY <1>0, <2>9, <2>11, <3>2 DEF Acks
        <4>2. l \in 1 .. Len(sent'[c]) /\ sent'[c][l] = sent[c][l] /\ sent'[c][k] = sent[c][k]
          BY <2>9, <3>2
        <4> QED
          BY <3>2, <4>1, <4>2
      <3>3. CASE d = c /\ k = Len(sent[c]) + 1
        <4>1. PICK l \in 1 .. Len(sent[c]) : sent[c][l].type = "A" /\ sent[c][l].id = r.id
          BY <1>3, <2>3, AckedIs
        <4>2. sent[c][l] = [type |-> "A", id |-> r.id]
          <5>1. sent[c] \in Seq(Message)
            BY <1>0 DEF TypeOK
          <5>2. sent[c][l] \in Message
            BY <5>1
          <5> QED
            BY <4>1, <5>2 DEF Message
        <4>3. l < k /\ l \in 1 .. Len(sent'[c]) /\ sent'[c][l] = sent[c][l] /\ sent'[c][k] = m
          BY <2>9, <3>3
        <4> QED
          BY <2>2, <3>3, <4>2, <4>3
      <3> QED
        BY <2>9, <2>11, <3>1, <3>2, <3>3
    <2>12. Acks'
      <3>1. /\ \A d \in Session : \A i \in Acked(d)' : i < current_id'
            /\ \A d, e \in Session : \A i \in Acked(d)' : i \in Acked(e)' => d = e
        BY <1>0, <1>4, <2>6 DEF Acks
      <3> QED
        BY <2>10, <2>11, <3>1 DEF Acks
    <2> QED
      BY <1>6, <2>7, <2>8, <2>12 DEF Delivery
  <1> QED
    BY <1>7, <1>8

-----------------------------------------------------------------------------
(* Theorems *)

LEMMA NextDelivery == Inv /\ Delivery /\ [Next]_vars => Delivery'
  <1> SUFFICES ASSUME Inv, Delivery, [Next]_vars
               PROVE  Delivery'
    OBVIOUS
  <1>1. CASE UNCHANGED vars
    <2>1. UNCHANGED <<shard_of, current_id, handler, queue, held, taken, sent>>
      BY <1>1 DEF vars
    <2>2. Waiting' = Waiting /\ \A d \in Session : Acked(d)' = Acked(d)
      BY <2>1 DEF Waiting, Acked
    <2>3. Handlers' /\ Acks' /\ Takes' /\ Line'
      BY <2>1, <2>2 DEF Delivery, Handlers, HandlerHas, Acks, Takes, Line
    <2>4. Waits'
      BY <2>1, <2>2, WaitsKept DEF Inv, Delivery
    <2> QED
      BY <2>3, <2>4 DEF Delivery
  <1>2. CASE Next
    BY <1>2, AssignDelivery, WriteAckDelivery, SubmitDelivery, DrainNoneDelivery,
       DrainOneDelivery, ProcessOneDelivery
    DEF Next, market_listener
  <1> QED
    BY <1>1, <1>2

LEMMA DeliveryInvariant == Spec => [](Inv /\ Delivery)
  <1>1. Init => Inv /\ Delivery
    BY InitInv, InitDelivery
  <1>2. Inv /\ Delivery /\ [Next]_vars => (Inv /\ Delivery)'
    BY NextInv, NextDelivery
  <1> QED
    BY <1>1, <1>2, PTL DEF Spec

LEMMA WrittenIs ==
  ASSUME TypeOK, NEW type, NEW i, NEW p
  PROVE  p \in Written(type, i) <=>
           \E c \in Session : \E k \in 1 .. Len(sent[c]) :
             p = <<c, k>> /\ sent[c][k] = [type |-> type, id |-> i]
  <1>1. \A c \in Session : DOMAIN sent[c] = 1 .. Len(sent[c])
    <2> SUFFICES ASSUME NEW c \in Session
                 PROVE  DOMAIN sent[c] = 1 .. Len(sent[c])
      OBVIOUS
    <2>1. sent[c] \in Seq(Message)
      BY DEF TypeOK
    <2> QED
      BY <2>1
  <1>2. p \in Written(type, i) <=>
          \E c \in Session : p \in {c} \X {k \in DOMAIN sent[c] : sent[c][k] = [type |-> type, id |-> i]}
    BY DEF Written
  <1> QED
    BY <1>1, <1>2

\* A message that acknowledges an id is where Written says it is.
LEMMA AckWritten ==
  ASSUME TypeOK, NEW c \in Session, NEW i \in Acked(c)
  PROVE  \E k \in 1 .. Len(sent[c]) : sent[c][k] = [type |-> "A", id |-> i]
  <1>1. PICK k \in 1 .. Len(sent[c]) : sent[c][k].type = "A" /\ sent[c][k].id = i
    BY AckedIs
  <1>2. sent[c] \in Seq(Message)
    BY DEF TypeOK
  <1>3. sent[c][k] \in Message
    BY <1>2
  <1> QED
    BY <1>1, <1>3 DEF Message

\* A client has the ACK of a request before a book takes it and before the
\* message that refuses it: the listener writes the ACK and submits only then.
THEOREM AckComesFirst == Spec => []AckPrecedes
  <1>1. ASSUME Inv, Delivery
        PROVE  AckPrecedes
    <2>0. TypeOK
      BY <1>1 DEF Inv
    <2>1. ASSUME NEW i \in 1 .. current_id - 1, Taken(i) # {}
          PROVE  Written("A", i) # {}
      <3>1. PICK x \in Listed : \E k \in DOMAIN taken[x] : taken[x][k] = i
        BY <2>1 DEF Taken
      <3>2. taken[x] \in Seq(Nat)
        BY <2>0 DEF TypeOK
      <3>3. PICK k \in 1 .. Len(taken[x]) : taken[x][k] = i
        BY <3>1, <3>2
      <3>4. PICK c \in Session : i \in Acked(c)
        BY <1>1, <3>3 DEF Delivery, Takes
      <3>5. PICK l \in 1 .. Len(sent[c]) : sent[c][l] = [type |-> "A", id |-> i]
        BY <2>0, <3>4, AckWritten
      <3>6. <<c, l>> \in Written("A", i)
        BY <2>0, <3>5, WrittenIs
      <3> QED
        BY <3>6
    <2>2. ASSUME NEW i \in 1 .. current_id - 1, NEW p \in Written("J", i)
          PROVE  \E q \in Written("A", i) : q[1] = p[1] /\ q[2] < p[2]
      <3>1. PICK c \in Session : \E k \in 1 .. Len(sent[c]) :
              p = <<c, k>> /\ sent[c][k] = [type |-> "J", id |-> i]
        BY <2>0, <2>2, WrittenIs
      <3>2. PICK k \in 1 .. Len(sent[c]) : p = <<c, k>> /\ sent[c][k] = [type |-> "J", id |-> i]
        BY <3>1
      <3>3. sent[c][k].type = "J" /\ sent[c][k].id = i
        BY <3>2
      <3>4. PICK l \in 1 .. Len(sent[c]) :
              l < k /\ sent[c][l] = [type |-> "A", id |-> i]
        BY <1>1, <3>3 DEF Delivery, Acks
      <3>5. <<c, l>> \in Written("A", i)
        BY <2>0, <3>4, WrittenIs
      <3> QED
        BY <3>2, <3>4, <3>5
    <2> QED
      BY <2>1, <2>2 DEF AckPrecedes
  <1> QED
    BY <1>1, DeliveryInvariant, PTL

\* Requests of one client for one symbol reach the book in the order in which
\* the client read their ACKs: a KILL never overtakes the order it names.
THEOREM RequestsInOrder == Spec => []SessionFifo
  <1>1. ASSUME Inv, Delivery
        PROVE  SessionFifo
    <2> SUFFICES ASSUME NEW x \in Listed,
                        NEW k \in 1 .. Len(taken[x]), NEW l \in 1 .. Len(taken[x]), k < l,
                        NEW p \in Written("A", taken[x][k]), NEW q \in Written("A", taken[x][l]),
                        p[1] = q[1]
                 PROVE  p[2] < q[2]
      BY DEF SessionFifo
    <2>0. TypeOK
      BY <1>1 DEF Inv
    <2>1. PICK i \in Nat, j \in Nat : i = taken[x][k] /\ j = taken[x][l]
      BY <2>0, Elements
    <2>2. PICK c \in Session : \E m \in 1 .. Len(sent[c]) :
            p = <<c, m>> /\ sent[c][m] = [type |-> "A", id |-> i]
      BY <2>0, <2>1, WrittenIs
    <2>3. PICK m \in 1 .. Len(sent[c]) : p = <<c, m>> /\ sent[c][m] = [type |-> "A", id |-> i]
      BY <2>2
    <2>4. PICK d \in Session : \E n \in 1 .. Len(sent[d]) :
            q = <<d, n>> /\ sent[d][n] = [type |-> "A", id |-> j]
      BY <2>0, <2>1, WrittenIs
    <2>5. PICK n \in 1 .. Len(sent[d]) : q = <<d, n>> /\ sent[d][n] = [type |-> "A", id |-> j]
      BY <2>4
    <2>6. c = d
      BY <2>3, <2>5
    <2>7. /\ sent[c][m].type = "A" /\ sent[c][m].id = i
          /\ sent[c][n].type = "A" /\ sent[c][n].id = j /\ n \in 1 .. Len(sent[c])
      BY <2>3, <2>5, <2>6
    <2>8. i \in Acked(c) /\ j \in Acked(c)
      BY <2>7, AckedIs
    <2>9. i < j
      BY <1>1, <2>1, <2>8 DEF Delivery, Takes
    <2>10. m \in Nat /\ n \in Nat
      <3>1. sent[c] \in Seq(Message)
        BY <2>0 DEF TypeOK
      <3> QED
        BY <2>7, <3>1
    <2>11. CASE m < n
      BY <2>3, <2>5, <2>11
    <2>12. CASE m = n
      BY <2>1, <2>7, <2>9, <2>12
    <2>13. CASE n < m
      <3>1. sent[c][n].id < sent[c][m].id
        BY <1>1, <2>7, <2>13 DEF Delivery, Acks
      <3> QED
        BY <2>1, <2>7, <2>9, <3>1
    <2> QED
      BY <2>10, <2>11, <2>12, <2>13
  <1> QED
    BY <1>1, DeliveryInvariant, PTL

-----------------------------------------------------------------------------
(* Every id in one place *)

InHand(i) == \E c \in Session : \E r \in handler[c].request : r.id = i

IsTaken(i) == \E x \in Listed : \E k \in 1 .. Len(taken[x]) : taken[x][k] = i

IsRefused(i) ==
  \E c \in Session : \E k \in 1 .. Len(sent[c]) : sent[c][k].type = "J" /\ sent[c][k].id = i

\* A thread has one request at a time. What waits was neither taken nor refused,
\* a handler's request not refused, and nothing was taken twice, refused twice,
\* or taken and refused.
Sole ==
  /\ \A t \in Thread : \A q, r \in held[t] : q = r
  /\ \A q, r \in Waiting : q.id = r.id => q = r
  /\ \A r \in Waiting : ~IsTaken(r.id) /\ ~IsRefused(r.id)
  /\ \A c \in Session : \A r \in handler[c].request : ~IsRefused(r.id)
  /\ \A x, y \in Listed : \A k \in 1 .. Len(taken[x]) : \A l \in 1 .. Len(taken[y]) :
       taken[x][k] = taken[y][l] => x = y /\ k = l
  /\ \A x \in Listed : \A k \in 1 .. Len(taken[x]) : ~IsRefused(taken[x][k])
  /\ \A c, d \in Session : \A k \in 1 .. Len(sent[c]) : \A l \in 1 .. Len(sent[d]) :
       sent[c][k].type = "J" /\ sent[d][l].type = "J" /\ sent[c][k].id = sent[d][l].id =>
         c = d /\ k = l

Found ==
  \A i \in 1 .. current_id - 1 :
    InHand(i) \/ (\E r \in Waiting : r.id = i) \/ IsTaken(i) \/ IsRefused(i)

All == Inv /\ Delivery /\ Sole /\ Found

\* A refused id was acknowledged, so it was given out.
LEMMA RefusedGiven ==
  ASSUME Delivery, NEW i, IsRefused(i)
  PROVE  i < current_id
  <1>1. PICK c \in Session : \E k \in 1 .. Len(sent[c]) : sent[c][k].type = "J" /\ sent[c][k].id = i
    BY DEF IsRefused
  <1>2. PICK k \in 1 .. Len(sent[c]) : sent[c][k].type = "J" /\ sent[c][k].id = i
    BY <1>1
  <1>3. PICK l \in 1 .. Len(sent[c]) : sent[c][l] = [type |-> "A", id |-> i]
    BY <1>2 DEF Delivery, Acks
  <1>4. i \in Acked(c)
    BY <1>3, AckedIs
  <1> QED
    BY <1>4 DEF Delivery, Acks

LEMMA AssignSole ==
  ASSUME All, NEW c \in Session, NEW symbol \in Symbol, assign_order_id(c, symbol)
  PROVE  Sole' /\ Found'
  <1>0. TypeOK /\ Delivery /\ Sole /\ Found /\ current_id \in Nat
    BY Elements DEF All, Inv
  <1>1. PICK r : r = [id |-> current_id, session |-> c, symbol |-> symbol]
    OBVIOUS
  <1>2. r.id = current_id /\ handler[c].request = {}
    BY <1>1 DEF assign_order_id, Idle
  <1>3. /\ handler'[c].request = {r}
        /\ \A d \in Session : d # c => handler'[d] = handler[d]
    <2>1. PICK requests : requests = {r}
      OBVIOUS
    <2>2. handler' = Advanced(c, requests) /\ handler[c] = Idle
      BY <1>1, <2>1 DEF assign_order_id
    <2>3. handler[c].step = "read"
      BY <2>2 DEF Idle
    <2>4. Advanced(c, requests)[c] = [step |-> "ack", request |-> requests]
      BY <1>0, <2>3, Steps
    <2>5. \A d \in Session : d # c => Advanced(c, requests)[d] = handler[d]
      BY <1>0, Others
    <2> QED
      BY <2>1, <2>2, <2>4, <2>5
  <1>4. current_id' = current_id + 1 /\ UNCHANGED <<queue, held, taken, sent>>
    BY DEF assign_order_id
  <1>5. /\ Waiting' = Waiting
        /\ \A i : (IsTaken(i)' <=> IsTaken(i)) /\ (IsRefused(i)' <=> IsRefused(i))
    BY <1>4 DEF Waiting, IsTaken, IsRefused
  <1>6. ~IsRefused(r.id)
    BY <1>0, <1>2, RefusedGiven
  <1>7. Sole'
    BY <1>0, <1>3, <1>4, <1>5, <1>6 DEF Sole
  <1>8. \A i : InHand(i) => InHand(i)'
    BY <1>2, <1>3 DEF InHand
  <1>9. InHand(r.id)'
    BY <1>3 DEF InHand
  <1>10. \A i \in 1 .. current_id' - 1 : i \in 1 .. current_id - 1 \/ i = r.id
    BY <1>0, <1>2, <1>4
  <1>11. Found'
    BY <1>0, <1>5, <1>8, <1>9, <1>10 DEF Found
  <1> QED
    BY <1>7, <1>11

LEMMA WriteAckSole ==
  ASSUME All, NEW c \in Session, writeAck(c)
  PROVE  Sole' /\ Found'
  <1>0. TypeOK /\ Sole /\ Found
    BY DEF All, Inv
  <1>1. PICK r \in handler[c].request :
          sent' = [sent EXCEPT ![c] = Append(@, [type |-> "A", id |-> r.id])]
    BY DEF writeAck
  <1>2. PICK m \in Message : m.type = "A" /\ m = [type |-> "A", id |-> r.id]
    BY <1>0, <1>1, Elements DEF Message
  <1>3. TypeOK /\ m \in Message /\ sent' = [sent EXCEPT ![c] = Append(@, m)]
    BY <1>0, <1>1, <1>2
  <1>4. /\ Len(sent[c]) \in Nat /\ Len(sent'[c]) = Len(sent[c]) + 1
        /\ sent'[c][Len(sent[c]) + 1] = m
        /\ \A j \in 1 .. Len(sent[c]) : sent'[c][j] = sent[c][j]
        /\ \A j \in 1 .. Len(sent[c]) + 1 : j \in 1 .. Len(sent[c]) \/ j = Len(sent[c]) + 1
    BY <1>3, OneMore
  <1>5. \A d \in Session : d # c => sent'[d] = sent[d]
    BY <1>3, NoMore
  <1>6. ASSUME NEW d \in Session, NEW k \in 1 .. Len(sent'[d]), sent'[d][k].type = "J"
        PROVE  k \in 1 .. Len(sent[d]) /\ sent'[d][k] = sent[d][k]
    BY <1>2, <1>4, <1>5, <1>6
  <1>7. ASSUME NEW d \in Session, NEW k \in 1 .. Len(sent[d])
        PROVE  k \in 1 .. Len(sent'[d]) /\ sent'[d][k] = sent[d][k]
    BY <1>4, <1>5
  <1>8. UNCHANGED <<current_id, queue, held, taken>> /\ Waiting' = Waiting
    BY DEF writeAck, Waiting
  <1>9. \A d \in Session : handler'[d].request = handler[d].request
    <2>1. PICK requests : requests = handler[c].request
      OBVIOUS
    <2>2. handler' = Advanced(c, requests) /\ handler[c].step = "ack"
      BY <2>1 DEF writeAck
    <2>3. Advanced(c, requests)[c] = [step |-> "submit", request |-> requests]
      BY <1>0, <2>2, Steps
    <2>4. \A d \in Session : d # c => Advanced(c, requests)[d] = handler[d]
      BY <1>0, Others
    <2> QED
      BY <2>1, <2>2, <2>3, <2>4
  <1>10. \A i : IsRefused(i)' <=> IsRefused(i)
    BY <1>6, <1>7 DEF IsRefused
  <1>11. \A i : (IsTaken(i)' <=> IsTaken(i)) /\ (InHand(i)' <=> InHand(i))
    BY <1>8, <1>9 DEF IsTaken, InHand
  <1>12. Sole'
    <2>1. \A d, e \in Session : \A k \in 1 .. Len(sent'[d]) : \A l \in 1 .. Len(sent'[e]) :
            sent'[d][k].type = "J" /\ sent'[e][l].type = "J" /\ sent'[d][k].id = sent'[e][l].id =>
              d = e /\ k = l
      <3>1. \A d, e \in Session : \A k \in 1 .. Len(sent[d]) : \A l \in 1 .. Len(sent[e]) :
              sent[d][k].type = "J" /\ sent[e][l].type = "J" /\ sent[d][k].id = sent[e][l].id =>
                d = e /\ k = l
        BY <1>0 DEF Sole
      <3> SUFFICES ASSUME NEW d \in Session, NEW e \in Session,
                          NEW k \in 1 .. Len(sent'[d]), NEW l \in 1 .. Len(sent'[e]),
                          sent'[d][k].type = "J", sent'[e][l].type = "J",
                          sent'[d][k].id = sent'[e][l].id
                   PROVE  d = e /\ k = l
        OBVIOUS
      <3>2. k \in 1 .. Len(sent[d]) /\ sent'[d][k] = sent[d][k]
        BY <1>6
      <3>3. l \in 1 .. Len(sent[e]) /\ sent'[e][l] = sent[e][l]
        BY <1>6
      <3> QED
        BY <3>1, <3>2, <3>3
    <2> QED
      BY <1>0, <1>8, <1>9, <1>10, <1>11, <2>1 DEF Sole
  <1>13. Found'
    BY <1>0, <1>8, <1>10, <1>11 DEF Found
  <1> QED
    BY <1>12, <1>13

LEMMA SubmitSole ==
  ASSUME All, NEW c \in Session, submit_order(c)
  PROVE  Sole' /\ Found'
  <1>0. TypeOK /\ Delivery /\ Sole /\ Found
    BY DEF All, Inv
  <1>1. PICK r \in handler[c].request :
          queue' = [queue EXCEPT ![shard_of[r.symbol]] = Append(@, r)]
    BY DEF submit_order, Pushed
  <1>2. r \in Request /\ HandlerHas(c, r)
    BY <1>0, <1>1, Elements DEF Delivery, Handlers
  <1>3. PICK s \in Shard : s = shard_of[r.symbol]
    BY <1>0, <1>2, Elements DEF TypeOK
  <1>4. queue[s] \in Seq(Request) /\ DOMAIN queue = Shard
    BY <1>0, <1>3 DEF TypeOK
  <1>5. /\ \A u \in Shard : u # s => queue'[u] = queue[u]
        /\ queue'[s] = Append(queue[s], r)
    BY <1>1, <1>3, <1>4
  <1>6. /\ Len(queue[s]) \in Nat
        /\ Len(queue'[s]) = Len(queue[s]) + 1
        /\ queue'[s][Len(queue[s]) + 1] = r
        /\ \A k \in 1 .. Len(queue[s]) : queue'[s][k] = queue[s][k]
        /\ \A k \in 1 .. Len(queue[s]) + 1 : k \in 1 .. Len(queue[s]) \/ k = Len(queue[s]) + 1
    <2>1. PICK requests : requests = queue[s]
      OBVIOUS
    <2>2. requests \in Seq(Request) /\ queue'[s] = Append(requests, r)
      BY <1>4, <1>5, <2>1
    <2>3. /\ Len(requests) \in Nat
          /\ Len(Append(requests, r)) = Len(requests) + 1
          /\ Append(requests, r)[Len(requests) + 1] = r
          /\ \A k \in 1 .. Len(requests) : Append(requests, r)[k] = requests[k]
          /\ \A k \in 1 .. Len(requests) + 1 : k \in 1 .. Len(requests) \/ k = Len(requests) + 1
      BY <1>2, <2>2, AppendFacts
    <2> QED
      BY <2>1, <2>2, <2>3
  <1>7. UNCHANGED <<current_id, held, taken, sent>>
        /\ \A i : (IsTaken(i)' <=> IsTaken(i)) /\ (IsRefused(i)' <=> IsRefused(i))
    BY DEF submit_order, IsTaken, IsRefused
  <1>8. handler'[c] = Idle /\ \A d \in Session : d # c => handler'[d] = handler[d]
    <2>1. PICK requests : requests = handler[c].request
      OBVIOUS
    <2>2. handler' = Advanced(c, requests) /\ handler[c].step = "submit"
      BY <2>1 DEF submit_order
    <2>3. Advanced(c, requests)[c] = Idle
      BY <1>0, <2>2, Steps
    <2>4. \A d \in Session : d # c => Advanced(c, requests)[d] = handler[d]
      BY <1>0, Others
    <2> QED
      BY <2>2, <2>3, <2>4
  <1>9. ASSUME NEW q
        PROVE  q \in Waiting' <=> q \in Waiting \/ q = r
    <2>1. \/ \E u \in Shard : \E k \in 1 .. Len(queue'[u]) : q = queue'[u][k]
          \/ \E t \in Thread : q \in held'[t]
          <=> q \in Waiting'
      BY DEF Waiting
    <2>2. ASSUME NEW u \in Shard
          PROVE  (\E k \in 1 .. Len(queue'[u]) : q = queue'[u][k]) <=>
                   (\E k \in 1 .. Len(queue[u]) : q = queue[u][k]) \/ (u = s /\ q = r)
      <3>1. CASE u # s
        BY <1>5, <3>1
      <3>2. CASE u = s
        <4>1. Len(queue[s]) + 1 \in 1 .. Len(queue'[s])
              /\ \A k \in 1 .. Len(queue[s]) : k \in 1 .. Len(queue'[s])
          BY <1>6
        <4> QED
          BY <1>6, <3>2, <4>1
      <3> QED
        BY <3>1, <3>2
    <2> QED
      BY <1>7, <2>1, <2>2, WaitingIs
  <1>10. /\ \A q \in Waiting : q.id # r.id
         /\ ~IsTaken(r.id) /\ ~IsRefused(r.id)
    BY <1>0, <1>2 DEF HandlerHas, Sole, IsTaken
  <1>11. \A d \in Session : \A q \in handler'[d].request : q \in handler[d].request
    BY <1>8 DEF Idle
  <1>12. Sole'
    BY <1>0, <1>7, <1>9, <1>10, <1>11 DEF Sole
  <1>13. \A i : InHand(i) => InHand(i)' \/ i = r.id
    <2>1. \A q \in handler[c].request : q = r
      BY <1>2 DEF HandlerHas
    <2> QED
      BY <1>8, <2>1 DEF InHand
  <1>14. Found'
    BY <1>0, <1>7, <1>9, <1>13 DEF Found
  <1> QED
    BY <1>12, <1>14

LEMMA DrainNoneSole ==
  ASSUME All, NEW t \in Thread, drain_none(t)
  PROVE  Sole' /\ Found'
  <1>1. UNCHANGED <<current_id, handler, queue, held, taken, sent>> /\ Waiting' = Waiting
    BY DEF drain_none, Waiting
  <1>2. \A i : /\ IsTaken(i)' <=> IsTaken(i)
               /\ IsRefused(i)' <=> IsRefused(i)
               /\ InHand(i)' <=> InHand(i)
    BY <1>1 DEF IsTaken, IsRefused, InHand
  <1> QED
    BY <1>1, <1>2 DEF All, Sole, Found

LEMMA DrainOneSole ==
  ASSUME All, NEW t \in Thread, drain_one(t)
  PROVE  Sole' /\ Found'
  <1>0. TypeOK /\ Sole /\ Found
    BY DEF All, Inv
  <1>1. PICK s \in Shard : s = turn[t]
    BY <1>0 DEF TypeOK
  <1>2. PICK r : r = Head(queue[s])
    OBVIOUS
  <1>3. /\ queue[s] \in Seq(Request) /\ queue[s] # <<>> /\ held[t] = {}
        /\ held' = [held EXCEPT ![t] = {r}]
        /\ queue' = [queue EXCEPT ![s] = Tail(queue[s])]
    BY <1>0, <1>1, <1>2 DEF drain_one, Popped, TypeOK
  <1>4. /\ \A u \in Shard : u # s => queue'[u] = queue[u]
        /\ queue'[s] = Tail(queue[s])
        /\ held'[t] = {r}
        /\ \A u \in Thread : u # t => held'[u] = held[u]
    BY <1>0, <1>3 DEF TypeOK
  <1>5. /\ r = queue[s][1] /\ 1 \in 1 .. Len(queue[s])
        /\ \A k \in 1 .. Len(queue'[s]) :
             k + 1 \in 1 .. Len(queue[s]) /\ queue'[s][k] = queue[s][k + 1]
        /\ \A k \in 1 .. Len(queue[s]) :
             k = 1 \/ \E l \in 1 .. Len(queue'[s]) : queue'[s][l] = queue[s][k]
    <2>1. PICK requests : requests = queue[s]
      OBVIOUS
    <2>2. requests \in Seq(Request) /\ requests # <<>> /\ queue'[s] = Tail(requests)
          /\ r = Head(requests)
      BY <1>2, <1>3, <1>4, <2>1
    <2>3. /\ Len(requests) \in Nat \ {0}
          /\ r = requests[1]
          /\ Len(Tail(requests)) = Len(requests) - 1
          /\ \A k \in 1 .. Len(requests) - 1 : Tail(requests)[k] = requests[k + 1]
      BY <2>2
    <2>4. ASSUME NEW k \in 1 .. Len(requests), k # 1
          PROVE  \E l \in 1 .. Len(Tail(requests)) : Tail(requests)[l] = requests[k]
      <3>1. k - 1 \in 1 .. Len(requests) - 1 /\ (k - 1) + 1 = k
        BY <2>3, <2>4
      <3>2. Tail(requests)[k - 1] = requests[k]
        BY <2>3, <3>1
      <3> QED
        BY <2>3, <3>1, <3>2
    <2>5. 1 \in 1 .. Len(requests)
          /\ \A k \in 1 .. Len(Tail(requests)) :
               k + 1 \in 1 .. Len(requests) /\ Tail(requests)[k] = requests[k + 1]
      BY <2>3
    <2> QED
      BY <2>1, <2>2, <2>3, <2>4, <2>5
  <1>6. UNCHANGED <<current_id, handler, taken, sent>>
    BY DEF drain_one
  <1>7. ASSUME NEW q
        PROVE  q \in Waiting' <=> q \in Waiting
    <2>1. \/ \E u \in Shard : \E k \in 1 .. Len(queue'[u]) : q = queue'[u][k]
          \/ \E u \in Thread : q \in held'[u]
          <=> q \in Waiting'
      BY DEF Waiting
    <2>2. ASSUME NEW u \in Shard
          PROVE  (\E k \in 1 .. Len(queue[u]) : q = queue[u][k]) <=>
                   (\E k \in 1 .. Len(queue'[u]) : q = queue'[u][k]) \/ (u = s /\ q = r)
      <3>1. CASE u # s
        BY <1>4, <3>1
      <3>2. CASE u = s
        BY <1>5, <3>2
      <3> QED
        BY <3>1, <3>2
    <2>3. ASSUME NEW u \in Thread
          PROVE  q \in held'[u] <=> q \in held[u] \/ (u = t /\ q = r)
      BY <1>3, <1>4
    <2> QED
      BY <2>1, <2>2, <2>3, WaitingIs
  <1>8. \A i : /\ IsTaken(i)' <=> IsTaken(i)
               /\ IsRefused(i)' <=> IsRefused(i)
               /\ InHand(i)' <=> InHand(i)
    BY <1>6 DEF IsTaken, IsRefused, InHand
  <1>9. \A u \in Thread : \A p, q \in held'[u] : p = q
    BY <1>0, <1>4 DEF Sole
  <1> QED
    BY <1>0, <1>6, <1>7, <1>8, <1>9 DEF Sole, Found

LEMMA ProcessOneSole ==
  ASSUME All, NEW t \in Thread, process_one(t)
  PROVE  Sole' /\ Found'
  <1>0. TypeOK /\ Routed /\ BookExclusive /\ Delivery /\ Line /\ Sole /\ Found
    BY Exclusive DEF All, Inv, Delivery
  <1>1. PICK r \in held[t] :
          IF r.symbol \in Listed
          THEN /\ taken' = [taken EXCEPT ![r.symbol] = Append(@, r.id)]
               /\ UNCHANGED sent
          ELSE /\ sent' = [sent EXCEPT ![r.session] = Append(@, [type |-> "J", id |-> r.id])]
               /\ UNCHANGED taken
    BY DEF process_one
  <1>2. r \in Waiting /\ r \in Request /\ r.id \in Nat /\ r.session \in Session
    BY <1>0, <1>1, WaitingIs, WaitingRequests, Elements
  <1>3. /\ held'[t] = {} /\ \A u \in Thread : u # t => held'[u] = held[u]
        /\ UNCHANGED <<shard_of, current_id, handler, queue>>
    BY <1>0 DEF process_one, TypeOK
  <1>4. ASSUME NEW q
        PROVE  q \in Waiting' <=> q \in Waiting /\ q # r
    <2>1. \/ \E u \in Shard : \E k \in 1 .. Len(queue[u]) : q = queue[u][k]
          \/ \E u \in Thread : q \in held'[u]
          <=> q \in Waiting'
      BY <1>3 DEF Waiting
    <2>2. ASSUME NEW u \in Shard, NEW k \in 1 .. Len(queue[u]), r = queue[u][k]
          PROVE  FALSE
      <3>1. u = shard_of[r.symbol]
        BY <1>0, <2>2 DEF Routed
      <3>2. r.id < r.id
        BY <1>0, <1>1, <2>2, <3>1 DEF Line
      <3> QED
        BY <1>2, <3>2
    <2>3. ASSUME NEW u \in Thread, r \in held'[u]
          PROVE  FALSE
      BY <1>0, <1>1, <1>3, <2>3 DEF BookExclusive
    <2>4. ASSUME NEW u \in Thread, q \in held[u], q # r
          PROVE  q \in held'[u]
      BY <1>0, <1>1, <1>3, <2>4 DEF Sole
    <2>5. \A u \in Thread : q \in held'[u] => q \in held[u]
      BY <1>3
    <2> QED
      BY <2>1, <2>2, <2>3, <2>4, <2>5, WaitingIs
  <1>5. /\ \A q \in Waiting' : q.id # r.id
        /\ ~IsTaken(r.id) /\ ~IsRefused(r.id)
        /\ \A u \in Thread : \A p, q \in held'[u] : p = q
    BY <1>0, <1>2, <1>3, <1>4 DEF Sole
  <1>6. \A c \in Session : \A q \in handler[c].request : q.id # r.id
    BY <1>0, <1>2 DEF Delivery, Handlers, HandlerHas
  <1>7. CASE r.symbol \in Listed
    <2>1. PICK x \in Listed : x = r.symbol
      BY <1>7
    <2>2. /\ taken' = [taken EXCEPT ![x] = Append(taken[x], r.id)]
          /\ taken[x] \in Seq(Nat) /\ DOMAIN taken = Listed /\ UNCHANGED sent
      BY <1>0, <1>1, <2>1 DEF TypeOK
    <2>3. /\ \A y \in Listed : y # x => taken'[y] = taken[y]
          /\ taken'[x] = Append(taken[x], r.id)
      BY <2>2
    <2>4. /\ Len(taken[x]) \in Nat
          /\ Len(taken'[x]) = Len(taken[x]) + 1
          /\ taken'[x][Len(taken[x]) + 1] = r.id
          /\ \A k \in 1 .. Len(taken[x]) : taken'[x][k] = taken[x][k]
          /\ \A k \in 1 .. Len(taken[x]) + 1 : k \in 1 .. Len(taken[x]) \/ k = Len(taken[x]) + 1
      <3>1. PICK ids : ids = taken[x]
        OBVIOUS
      <3>2. ids \in Seq(Nat) /\ taken'[x] = Append(ids, r.id)
        BY <2>2, <2>3, <3>1
      <3>3. /\ Len(ids) \in Nat
            /\ Len(Append(ids, r.id)) = Len(ids) + 1
            /\ Append(ids, r.id)[Len(ids) + 1] = r.id
            /\ \A k \in 1 .. Len(ids) : Append(ids, r.id)[k] = ids[k]
            /\ \A k \in 1 .. Len(ids) + 1 : k \in 1 .. Len(ids) \/ k = Len(ids) + 1
        BY <1>2, <3>2, AppendFacts
      <3> QED
        BY <3>1, <3>2, <3>3
    <2>5. ASSUME NEW y \in Listed, NEW k \in 1 .. Len(taken'[y])
          PROVE  \/ k \in 1 .. Len(taken[y]) /\ taken'[y][k] = taken[y][k] /\ taken[y][k] # r.id
                 \/ y = x /\ k = Len(taken[x]) + 1 /\ taken'[y][k] = r.id
      <3>1. \A l \in 1 .. Len(taken[y]) : taken[y][l] # r.id
        BY <1>5 DEF IsTaken
      <3>2. CASE y # x
        BY <2>3, <3>1, <3>2
      <3>3. CASE y = x
        BY <2>4, <3>1, <3>3
      <3> QED
        BY <3>2, <3>3
    <2>6. /\ \A y \in Listed : \A k \in 1 .. Len(taken[y]) :
               k \in 1 .. Len(taken'[y]) /\ taken'[y][k] = taken[y][k]
          /\ Len(taken[x]) + 1 \in 1 .. Len(taken'[x])
      BY <2>3, <2>4
    <2>7. \A i : IsTaken(i)' <=> IsTaken(i) \/ i = r.id
      <3>1. ASSUME NEW i, IsTaken(i)'
            PROVE  IsTaken(i) \/ i = r.id
        BY <2>5, <3>1 DEF IsTaken
      <3>2. ASSUME NEW i, IsTaken(i)
            PROVE  IsTaken(i)'
        BY <2>6, <3>2 DEF IsTaken
      <3>3. IsTaken(r.id)'
        BY <2>4, <2>6 DEF IsTaken
      <3> QED
        BY <3>1, <3>2, <3>3
    <2>8. \A i : (IsRefused(i)' <=> IsRefused(i)) /\ (InHand(i)' <=> InHand(i))
      BY <1>3, <2>2 DEF IsRefused, InHand
    <2>9. ASSUME NEW y \in Listed, NEW z \in Listed,
                 NEW k \in 1 .. Len(taken'[y]), NEW l \in 1 .. Len(taken'[z]),
                 taken'[y][k] = taken'[z][l]
          PROVE  y = z /\ k = l
      <3>1. \/ k \in 1 .. Len(taken[y]) /\ taken'[y][k] = taken[y][k] /\ taken[y][k] # r.id
            \/ y = x /\ k = Len(taken[x]) + 1 /\ taken'[y][k] = r.id
        BY <2>5
      <3>2. \/ l \in 1 .. Len(taken[z]) /\ taken'[z][l] = taken[z][l] /\ taken[z][l] # r.id
            \/ z = x /\ l = Len(taken[x]) + 1 /\ taken'[z][l] = r.id
        BY <2>5
      <3> QED
        BY <1>0, <2>9, <3>1, <3>2 DEF Sole
    <2>10. \A i : IsTaken(i)' => ~IsRefused(i)'
      <3>1. \A i : IsTaken(i) => ~IsRefused(i)
        BY <1>0 DEF Sole, IsTaken
      <3> QED
        BY <1>5, <2>7, <2>8, <3>1
    <2>11. Sole'
      <3>1. ASSUME NEW q \in Waiting'
            PROVE  ~IsTaken(q.id)' /\ ~IsRefused(q.id)'
        <4>1. PICK i : i = q.id
          OBVIOUS
        <4>2. ~IsTaken(i) /\ ~IsRefused(i) /\ i # r.id
          BY <1>0, <1>4, <1>5, <3>1, <4>1 DEF Sole
        <4> QED
          BY <2>7, <2>8, <4>1, <4>2
      <3>2. /\ \A q, p \in Waiting' : q.id = p.id => q = p
            /\ \A d, e \in Session : \A k \in 1 .. Len(sent'[d]) : \A l \in 1 .. Len(sent'[e]) :
                 sent'[d][k].type = "J" /\ sent'[e][l].type = "J" /\ sent'[d][k].id = sent'[e][l].id =>
                   d = e /\ k = l
        BY <1>0, <1>4, <2>2 DEF Sole
      <3>3. ASSUME NEW d \in Session, NEW q \in handler'[d].request
            PROVE  ~IsRefused(q.id)'
        BY <1>0, <1>3, <2>8, <3>3 DEF Sole
      <3>4. ASSUME NEW y \in Listed, NEW k \in 1 .. Len(taken'[y])
            PROVE  ~IsRefused(taken[y][k])'
        BY <2>10, <3>4 DEF IsTaken
      <3> QED
        BY <1>5, <2>9, <3>1, <3>2, <3>3, <3>4 DEF Sole
    <2>12. Found'
      BY <1>0, <1>3, <1>4, <2>7, <2>8 DEF Found
    <2> QED
      BY <2>11, <2>12
  <1>8. CASE r.symbol \notin Listed
    <2>1. PICK m \in Message : m.type = "J" /\ m.id = r.id /\ m = [type |-> "J", id |-> r.id]
      BY <1>2 DEF Message
    <2>2. PICK c \in Session : c = r.session
      BY <1>2
    <2>3. TypeOK /\ m \in Message /\ sent' = [sent EXCEPT ![c] = Append(@, m)] /\ UNCHANGED taken
      BY <1>0, <1>1, <1>8, <2>1, <2>2
    <2>4. /\ Len(sent[c]) \in Nat /\ Len(sent'[c]) = Len(sent[c]) + 1
          /\ sent'[c][Len(sent[c]) + 1] = m
          /\ \A j \in 1 .. Len(sent[c]) : sent'[c][j] = sent[c][j]
          /\ \A j \in 1 .. Len(sent[c]) + 1 : j \in 1 .. Len(sent[c]) \/ j = Len(sent[c]) + 1
      BY <2>3, OneMore
    <2>5. \A d \in Session : d # c => sent'[d] = sent[d]
      BY <2>3, NoMore
    <2>6. ASSUME NEW d \in Session, NEW k \in 1 .. Len(sent'[d]), sent'[d][k].type = "J"
          PROVE  \/ k \in 1 .. Len(sent[d]) /\ sent'[d][k] = sent[d][k] /\ sent[d][k].id # r.id
                 \/ d = c /\ k = Len(sent[c]) + 1 /\ sent'[d][k].id = r.id
      <3>1. \A l \in 1 .. Len(sent[d]) : sent[d][l].type = "J" => sent[d][l].id # r.id
        BY <1>5 DEF IsRefused
      <3>2. CASE d # c
        BY <2>5, <2>6, <3>1, <3>2
      <3>3. CASE d = c
        BY <2>1, <2>4, <2>6, <3>1, <3>3
      <3> QED
        BY <3>2, <3>3
    <2>7. /\ \A d \in Session : \A k \in 1 .. Len(sent[d]) :
               k \in 1 .. Len(sent'[d]) /\ sent'[d][k] = sent[d][k]
          /\ Len(sent[c]) + 1 \in 1 .. Len(sent'[c])
      BY <2>4, <2>5
    <2>8. \A i : IsRefused(i)' <=> IsRefused(i) \/ i = r.id
      <3>1. ASSUME NEW i, IsRefused(i)'
            PROVE  IsRefused(i) \/ i = r.id
        <4>1. PICK d \in Session : \E k \in 1 .. Len(sent'[d]) :
                sent'[d][k].type = "J" /\ sent'[d][k].id = i
          BY <3>1 DEF IsRefused
        <4>2. PICK k \in 1 .. Len(sent'[d]) : sent'[d][k].type = "J" /\ sent'[d][k].id = i
          BY <4>1
        <4> QED
          BY <2>6, <4>2 DEF IsRefused
      <3>2. ASSUME NEW i, IsRefused(i)
            PROVE  IsRefused(i)'
        BY <2>7, <3>2 DEF IsRefused
      <3>3. IsRefused(r.id)'
        BY <2>1, <2>4, <2>7 DEF IsRefused
      <3> QED
        BY <3>1, <3>2, <3>3
    <2>9. \A i : (IsTaken(i)' <=> IsTaken(i)) /\ (InHand(i)' <=> InHand(i))
      BY <1>3, <2>3 DEF IsTaken, InHand
    <2>10. ASSUME NEW d \in Session, NEW e \in Session,
                  NEW k \in 1 .. Len(sent'[d]), NEW l \in 1 .. Len(sent'[e]),
                  sent'[d][k].type = "J", sent'[e][l].type = "J", sent'[d][k].id = sent'[e][l].id
           PROVE  d = e /\ k = l
      <3>1. \/ k \in 1 .. Len(sent[d]) /\ sent'[d][k] = sent[d][k] /\ sent[d][k].id # r.id
            \/ d = c /\ k = Len(sent[c]) + 1 /\ sent'[d][k].id = r.id
        BY <2>6, <2>10
      <3>2. \/ l \in 1 .. Len(sent[e]) /\ sent'[e][l] = sent[e][l] /\ sent[e][l].id # r.id
            \/ e = c /\ l = Len(sent[c]) + 1 /\ sent'[e][l].id = r.id
        BY <2>6, <2>10
      <3>3. CASE /\ k \in 1 .. Len(sent[d]) /\ sent'[d][k] = sent[d][k]
                 /\ l \in 1 .. Len(sent[e]) /\ sent'[e][l] = sent[e][l]
        <4>1. /\ k \in 1 .. Len(sent[d]) /\ l \in 1 .. Len(sent[e])
              /\ sent[d][k].type = "J" /\ sent[e][l].type = "J" /\ sent[d][k].id = sent[e][l].id
          BY <2>10, <3>3
        <4> QED
          BY <1>0, <4>1 DEF Sole
      <3>4. CASE d = c /\ k = Len(sent[c]) + 1 /\ e = c /\ l = Len(sent[c]) + 1
        BY <3>4
      <3> QED
        BY <2>10, <3>1, <3>2, <3>3, <3>4
    <2>11. Sole'
      <3>1. ASSUME NEW q \in Waiting'
            PROVE  ~IsTaken(q.id)' /\ ~IsRefused(q.id)'
        <4>1. PICK i : i = q.id
          OBVIOUS
        <4>2. ~IsTaken(i) /\ ~IsRefused(i) /\ i # r.id
          BY <1>0, <1>4, <1>5, <3>1, <4>1 DEF Sole
        <4> QED
          BY <2>8, <2>9, <4>1, <4>2
      <3>2. /\ \A q, p \in Waiting' : q.id = p.id => q = p
            /\ \A x, y \in Listed : \A k \in 1 .. Len(taken'[x]) : \A l \in 1 .. Len(taken'[y]) :
                 taken'[x][k] = taken'[y][l] => x = y /\ k = l
        BY <1>0, <1>4, <2>3 DEF Sole
      <3>3. ASSUME NEW d \in Session, NEW q \in handler'[d].request
            PROVE  ~IsRefused(q.id)'
        <4>1. PICK i : i = q.id
          OBVIOUS
        <4>2. ~IsRefused(i) /\ i # r.id
          BY <1>0, <1>3, <1>6, <3>3, <4>1 DEF Sole
        <4> QED
          BY <2>8, <4>1, <4>2
      <3>4. ASSUME NEW y \in Listed, NEW k \in 1 .. Len(taken'[y])
            PROVE  ~IsRefused(taken[y][k])'
        <4>1. PICK i : i = taken'[y][k]
          OBVIOUS
        <4>2. IsTaken(i) /\ ~IsRefused(i)
          BY <1>0, <2>3, <3>4, <4>1 DEF Sole, IsTaken
        <4>3. i # r.id
          BY <1>5, <4>2
        <4>4. ~IsRefused(i)'
          BY <2>8, <4>2, <4>3
        <4> QED
          BY <4>1, <4>4
      <3> QED
        BY <1>5, <2>10, <3>1, <3>2, <3>3, <3>4 DEF Sole
    <2>12. Found'
      BY <1>0, <1>3, <1>4, <2>8, <2>9 DEF Found
    <2> QED
      BY <2>11, <2>12
  <1> QED
    BY <1>7, <1>8

LEMMA AllInvariant == Spec => []All
  <1>1. Init => All
    <2> SUFFICES ASSUME Init
                 PROVE  Sole /\ Found
      BY InitInv, InitDelivery DEF All
    <2>1. /\ \A c \in Session : handler[c].request = {} /\ sent[c] = <<>> /\ Len(sent[c]) = 0
          /\ \A s \in Shard : Len(queue[s]) = 0
          /\ \A t \in Thread : held[t] = {}
          /\ \A x \in Listed : Len(taken[x]) = 0
          /\ current_id = 1
      BY DEF Init, Idle
    <2>2. Waiting = {}
      BY <2>1, WaitingIs
    <2> QED
      BY <2>1, <2>2 DEF Sole, Found
  <1>2. All /\ [Next]_vars => All'
    <2> SUFFICES ASSUME All, [Next]_vars
                 PROVE  Sole' /\ Found'
      BY NextInv, NextDelivery DEF All
    <2>1. CASE UNCHANGED vars
      <3>1. UNCHANGED <<current_id, handler, queue, held, taken, sent>> /\ Waiting' = Waiting
        BY <2>1 DEF vars, Waiting
      <3>2. \A i : /\ IsTaken(i)' <=> IsTaken(i)
                   /\ IsRefused(i)' <=> IsRefused(i)
                   /\ InHand(i)' <=> InHand(i)
        BY <3>1 DEF IsTaken, IsRefused, InHand
      <3> QED
        BY <3>1, <3>2 DEF All, Sole, Found
    <2>2. CASE Next
      BY <2>2, AssignSole, WriteAckSole, SubmitSole, DrainNoneSole, DrainOneSole, ProcessOneSole
      DEF Next, market_listener
    <2> QED
      BY <2>1, <2>2
  <1> QED
    BY <1>1, <1>2, PTL DEF Spec

\* Every id given out is in one place, and once: in a handler, in a queue, in a
\* thread's hand, taken by a book, or refused. The hand-over from session to
\* queue to thread to book loses no request and applies none twice.
THEOREM OnePlaceEach == Spec => []NothingLost
  <1>1. ASSUME All
        PROVE  NothingLost
    <2> SUFFICES ASSUME NEW i \in 1 .. current_id - 1
                 PROVE  \E p \in Places(i) : Places(i) = {p}
      BY DEF NothingLost
    <2>0. TypeOK /\ Routed /\ BookExclusive /\ Handlers /\ Line /\ Sole /\ Found
      BY <1>1, Exclusive DEF All, Inv, Delivery
    <2>1. \A c : c \in InHandler(i) <=> c \in Session /\ \E r \in handler[c].request : r.id = i
      BY DEF InHandler
    <2>2. \A t : t \in Held(i) <=> t \in Thread /\ \E r \in held[t] : r.id = i
      BY DEF Held
    <2>3. \A p : p \in Queued(i) <=>
            \E s \in Shard : \E k \in 1 .. Len(queue[s]) : p = <<s, k>> /\ queue[s][k].id = i
      <3>1. \A s \in Shard : DOMAIN queue[s] = 1 .. Len(queue[s])
        <4> SUFFICES ASSUME NEW s \in Shard
                     PROVE  DOMAIN queue[s] = 1 .. Len(queue[s])
          OBVIOUS
        <4>1. queue[s] \in Seq(Request)
          BY <2>0 DEF TypeOK
        <4> QED
          BY <4>1
      <3>2. \A p : p \in Queued(i) <=>
              \E s \in Shard : p \in {s} \X {k \in DOMAIN queue[s] : queue[s][k].id = i}
        BY DEF Queued
      <3> QED
        BY <3>1, <3>2
    <2>4. \A p : p \in Taken(i) <=>
            \E x \in Listed : \E k \in 1 .. Len(taken[x]) : p = <<x, k>> /\ taken[x][k] = i
      <3>1. \A x \in Listed : DOMAIN taken[x] = 1 .. Len(taken[x])
        <4> SUFFICES ASSUME NEW x \in Listed
                     PROVE  DOMAIN taken[x] = 1 .. Len(taken[x])
          OBVIOUS
        <4>1. taken[x] \in Seq(Nat)
          BY <2>0 DEF TypeOK
        <4> QED
          BY <4>1
      <3>2. \A p : p \in Taken(i) <=>
              \E x \in Listed : p \in {x} \X {k \in DOMAIN taken[x] : taken[x][k] = i}
        BY DEF Taken
      <3> QED
        BY <3>1, <3>2
    <2>5. \A p : p \in Written("J", i) <=>
            \E c \in Session : \E k \in 1 .. Len(sent[c]) :
              p = <<c, k>> /\ sent[c][k].type = "J" /\ sent[c][k].id = i
      <3>1. \A c \in Session : \A k \in 1 .. Len(sent[c]) :
              sent[c][k] = [type |-> "J", id |-> i] <=> sent[c][k].type = "J" /\ sent[c][k].id = i
        <4> SUFFICES ASSUME NEW c \in Session, NEW k \in 1 .. Len(sent[c])
                     PROVE  sent[c][k] = [type |-> "J", id |-> i] <=>
                              sent[c][k].type = "J" /\ sent[c][k].id = i
          OBVIOUS
        <4>1. sent[c] \in Seq(Message)
          BY <2>0 DEF TypeOK
        <4>2. sent[c][k] \in Message
          BY <4>1
        <4> QED
          BY <4>2 DEF Message
      <3> QED
        BY <2>0, <3>1, WrittenIs
    <2>6. /\ InHandler(i) # {} => InHand(i)
          /\ Taken(i) # {} <=> IsTaken(i)
          /\ Written("J", i) # {} <=> IsRefused(i)
      BY <2>1, <2>4, <2>5 DEF InHand, IsTaken, IsRefused
    <2>7. Held(i) # {} \/ Queued(i) # {} <=> \E r \in Waiting : r.id = i
      BY <2>2, <2>3, WaitingIs
    <2>8. InHand(i) => ~IsTaken(i) /\ ~IsRefused(i) /\ ~\E r \in Waiting : r.id = i
      BY <2>0 DEF InHand, IsTaken, IsRefused, Handlers, HandlerHas, Sole
    <2>9. (\E r \in Waiting : r.id = i) => ~IsTaken(i) /\ ~IsRefused(i)
      BY <2>0 DEF Sole
    <2>10. IsTaken(i) => ~IsRefused(i)
      BY <2>0 DEF IsTaken, Sole
    <2>11. Held(i) # {} => Queued(i) = {}
      <3> SUFFICES ASSUME NEW t \in Thread, NEW r \in held[t], r.id = i,
                          NEW s \in Shard, NEW k \in 1 .. Len(queue[s]), queue[s][k].id = i
                   PROVE  FALSE
        BY <2>2, <2>3
      <3>1. r \in Waiting /\ queue[s][k] \in Waiting
        BY WaitingIs
      <3>2. r = queue[s][k]
        BY <2>0, <3>1 DEF Sole
      <3>3. s = shard_of[r.symbol]
        BY <2>0, <3>2 DEF Routed
      <3>4. r.id < r.id
        BY <2>0, <3>2, <3>3 DEF Line
      <3>5. r.id \in Nat
        BY <2>0, <3>1, WaitingRequests, Elements
      <3> QED
        BY <3>4, <3>5
    <2>12. \A c, d \in InHandler(i) : c = d
      BY <2>0, <2>1 DEF Handlers, HandlerHas
    <2>13. \A t, u \in Held(i) : t = u
      <3> SUFFICES ASSUME NEW t \in Thread, NEW q \in held[t], q.id = i,
                          NEW u \in Thread, NEW r \in held[u], r.id = i
                   PROVE  t = u
        BY <2>2
      <3>1. q \in Waiting /\ r \in Waiting
        BY WaitingIs
      <3>2. q = r
        BY <2>0, <3>1 DEF Sole
      <3> QED
        BY <2>0, <3>2 DEF BookExclusive
    <2>14. \A p, q \in Queued(i) : p = q
      <3> SUFFICES ASSUME NEW s \in Shard, NEW k \in 1 .. Len(queue[s]), queue[s][k].id = i,
                          NEW u \in Shard, NEW l \in 1 .. Len(queue[u]), queue[u][l].id = i
                   PROVE  s = u /\ k = l
        BY <2>3
      <3>1. queue[s][k] \in Waiting /\ queue[u][l] \in Waiting
        BY WaitingIs
      <3>2. queue[s][k] = queue[u][l]
        BY <2>0, <3>1 DEF Sole
      <3>3. s = u
        BY <2>0, <3>2 DEF Routed
      <3>4. i \in Nat /\ k \in Nat /\ l \in Nat
        <4>1. queue[s] \in Seq(Request)
          BY <2>0 DEF TypeOK
        <4>2. current_id \in Nat
          BY <2>0 DEF TypeOK
        <4> QED
          BY <3>3, <4>1, <4>2
      <3>5. k < l => i < i
        BY <2>0, <3>2, <3>3 DEF Line
      <3>6. l < k => i < i
        BY <2>0, <3>2, <3>3 DEF Line
      <3> QED
        BY <3>3, <3>4, <3>5, <3>6
    <2>15. \A p, q \in Taken(i) : p = q
      BY <2>0, <2>4 DEF Sole
    <2>16. \A p, q \in Written("J", i) : p = q
      BY <2>0, <2>5 DEF Sole
    <2>17. InHand(i) => InHandler(i) # {}
      BY <2>1 DEF InHand
    <2>18. \/ InHandler(i) # {} \/ Held(i) # {} \/ Queued(i) # {}
           \/ Taken(i) # {} \/ Written("J", i) # {}
      BY <2>0, <2>6, <2>7, <2>17 DEF Found
    <2>19. /\ InHandler(i) # {} => Held(i) = {} /\ Queued(i) = {} /\ Taken(i) = {} /\ Written("J", i) = {}
           /\ Held(i) # {} => Queued(i) = {} /\ Taken(i) = {} /\ Written("J", i) = {}
           /\ Queued(i) # {} => Taken(i) = {} /\ Written("J", i) = {}
           /\ Taken(i) # {} => Written("J", i) = {}
      BY <2>6, <2>7, <2>8, <2>9, <2>10, <2>11
    <2>20. PICK A, B, C, D, E :
             /\ A = InHandler(i) /\ B = Held(i) /\ C = Queued(i)
             /\ D = Taken(i) /\ E = Written("J", i)
      OBVIOUS
    <2>21. PICK P : P = Places(i)
      OBVIOUS
    <2>22. P = ({"handler"} \X A) \union ({"held"} \X B) \union ({"queue"} \X C)
                 \union ({"taken"} \X D) \union ({"refused"} \X E)
      BY <2>20, <2>21 DEF Places
    <2>23. /\ \A a, b \in A : a = b
           /\ \A a, b \in B : a = b
           /\ \A a, b \in C : a = b
           /\ \A a, b \in D : a = b
           /\ \A a, b \in E : a = b
      BY <2>12, <2>13, <2>14, <2>15, <2>16, <2>20
    <2>24. /\ A # {} => B = {} /\ C = {} /\ D = {} /\ E = {}
           /\ B # {} => C = {} /\ D = {} /\ E = {}
           /\ C # {} => D = {} /\ E = {}
           /\ D # {} => E = {}
      BY <2>19, <2>20
    <2>25. A # {} \/ B # {} \/ C # {} \/ D # {} \/ E # {}
      BY <2>18, <2>20
    <2>26. \E p \in P : P = {p}
      <3>1. CASE A # {}
        <4>0. PICK a : a \in A
          BY <3>1
        <4>1. A = {a}
          BY <2>23, <4>0
        <4>2. P = {<<"handler", a>>}
          BY <2>22, <2>24, <3>1, <4>1
        <4> QED
          BY <4>2
      <3>2. CASE A = {} /\ B # {}
        <4>0. PICK a : a \in B
          BY <3>2
        <4>1. B = {a}
          BY <2>23, <4>0
        <4>2. P = {<<"held", a>>}
          BY <2>22, <2>24, <3>2, <4>1
        <4> QED
          BY <4>2
      <3>3. CASE A = {} /\ B = {} /\ C # {}
        <4>0. PICK a : a \in C
          BY <3>3
        <4>1. C = {a}
          BY <2>23, <4>0
        <4>2. P = {<<"queue", a>>}
          BY <2>22, <2>24, <3>3, <4>1
        <4> QED
          BY <4>2
      <3>4. CASE A = {} /\ B = {} /\ C = {} /\ D # {}
        <4>0. PICK a : a \in D
          BY <3>4
        <4>1. D = {a}
          BY <2>23, <4>0
        <4>2. P = {<<"taken", a>>}
          BY <2>22, <2>24, <3>4, <4>1
        <4> QED
          BY <4>2
      <3>5. CASE A = {} /\ B = {} /\ C = {} /\ D = {} /\ E # {}
        <4>0. PICK a : a \in E
          BY <3>5
        <4>1. E = {a}
          BY <2>23, <4>0
        <4>2. P = {<<"refused", a>>}
          BY <2>22, <2>24, <3>5, <4>1
        <4> QED
          BY <4>2
      <3> QED
        BY <2>25, <3>1, <3>2, <3>3, <3>4, <3>5
    <2> QED
      BY <2>21, <2>26
  <1> QED
    BY <1>1, AllInvariant, PTL

=============================================================================

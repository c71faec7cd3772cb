-------------------------- MODULE ShardDrainerProofs --------------------------
(***************************************************************************)
(* The benchmarks' drainer and the feed, for any number of threads, shards, *)
(* orders and configurations, any depth and frequency of the snapshots.     *)
(***************************************************************************)
EXTENDS ShardDrainer, TLAPS

\* What the books take: the order a thread submitted first, second and so on.
Order == Thread \X (Nat \ {0})

Datagram == [market : Market, shard : Shard, seq_len : Nat, orders : Seq(Order)]

TypeInv ==
  /\ market \in Market
  /\ taken \in [Market -> [Shard -> Seq(Order)]]
  /\ senders \subseteq Datagram
  /\ network \subseteq Datagram
  /\ printed \subseteq Datagram
  /\ target \in [Thread -> Shard]
  /\ done \in [Thread -> 0 .. Iterations]
  /\ queue \in [Shard -> Seq(Order)]
  /\ stop \in BOOLEAN
  /\ worker \in [place : {"test", "drain", "sweep", "end"}, shard : Shard]
  /\ joined \in BOOLEAN

\* A snapshot tells the truth of the book as it was.
True(d) ==
  /\ d.seq_len \in 1 .. Len(taken[d.market][d.shard])
  /\ d.orders = Top(d.market, d.shard, d.seq_len)

FeedInv == \A d \in senders \union network \union printed : True(d)

LEMMA Sizes ==
  /\ Iterations \in Nat
  /\ LastShard \in Nat /\ Shard = 0 .. LastShard /\ 0 \in Shard
  /\ SNAPSHOT_LEN \in Nat /\ SNAPSHOT_LEN > 0
  /\ MaxMarkets \in Nat /\ MaxMarkets > 0 /\ 1 \in Market
  BY ShardAssumption DEF Market

\* The beginning of a sequence is the same after one more element.
LEMMA AppendFacts ==
  ASSUME NEW S, NEW q \in Seq(S), NEW e \in S
  PROVE  /\ Append(q, e) \in Seq(S)
         /\ Len(q) \in Nat
         /\ Len(Append(q, e)) = Len(q) + 1
         /\ Append(q, e)[Len(q) + 1] = e
         /\ \A k \in 1 .. Len(q) : Append(q, e)[k] = q[k]
         /\ \A n \in 0 .. Len(q) : SubSeq(Append(q, e), 1, n) = SubSeq(q, 1, n)
  <1>1. /\ Append(q, e) \in Seq(S)
        /\ Len(q) \in Nat
        /\ Len(Append(q, e)) = Len(q) + 1
        /\ Append(q, e)[Len(q) + 1] = e
        /\ \A k \in 1 .. Len(q) : Append(q, e)[k] = q[k]
    OBVIOUS
  <1>2. ASSUME NEW n \in 0 .. Len(q)
        PROVE  SubSeq(Append(q, e), 1, n) = SubSeq(q, 1, n)
    <2>1. /\ SubSeq(Append(q, e), 1, n) \in Seq(S) /\ Len(SubSeq(Append(q, e), 1, n)) = n
          /\ SubSeq(q, 1, n) \in Seq(S) /\ Len(SubSeq(q, 1, n)) = n
      BY <1>1
    <2>2. \A k \in 1 .. n : /\ SubSeq(Append(q, e), 1, n)[k] = Append(q, e)[k]
                            /\ SubSeq(q, 1, n)[k] = q[k]
      BY <1>1
    <2> QED
      BY <1>1, <2>1, <2>2
  <1> QED
    BY <1>1, <1>2

\* What is taken off a queue, and what stays.
LEMMA HeadFacts ==
  ASSUME NEW S, NEW q \in Seq(S), q # <<>>
  PROVE  /\ Head(q) \in S /\ Head(q) = q[1]
         /\ Tail(q) \in Seq(S)
         /\ Len(q) \in Nat \ {0}
         /\ Len(Tail(q)) = Len(q) - 1
         /\ \A k \in 1 .. Len(q) - 1 : Tail(q)[k] = q[k + 1]
  OBVIOUS

-----------------------------------------------------------------------------
(* The feed *)

LEMMA TopFacts ==
  ASSUME NEW q \in Seq(Order), NEW n \in Nat, n <= Len(q)
  PROVE  SubSeq(q, 1, IF n < SNAPSHOT_LEN THEN n ELSE SNAPSHOT_LEN) \in Seq(Order)
  <1>1. PICK k \in Nat : k = IF n < SNAPSHOT_LEN THEN n ELSE SNAPSHOT_LEN
    BY Sizes
  <1>2. k <= Len(q)
    BY <1>1, Sizes
  <1>3. SubSeq(q, 1, k) \in Seq(Order)
    BY <1>2
  <1> QED
    BY <1>1, <1>3

\* A book that takes one more order leaves every snapshot of it true, and the
\* one it starts a thread for is true of it.
LEMMA ProcessFeed ==
  ASSUME TypeInv, FeedInv, NEW s \in Shard, NEW o \in Order, process_one(s, o),
         UNCHANGED <<market, network, printed>>
  PROVE  /\ taken' \in [Market -> [Shard -> Seq(Order)]]
         /\ senders' \subseteq Datagram
         /\ FeedInv'
  <1> DEFINE q == taken[market][s]
  <1>0. PICK orders, new : orders = Append(q, o) /\ new = Snapshot(s, orders)
    OBVIOUS
  <1>1. q \in Seq(Order) /\ market \in Market
    BY DEF TypeInv
  <1>2. /\ orders \in Seq(Order) /\ Len(q) \in Nat /\ Len(orders) = Len(q) + 1
        /\ \A n \in 0 .. Len(q) : SubSeq(orders, 1, n) = SubSeq(q, 1, n)
    BY <1>0, <1>1, AppendFacts
  <1>3. /\ taken' = [taken EXCEPT ![market][s] = orders]
        /\ senders' \subseteq senders \union {new}
    BY <1>0 DEF process_one
  <1> HIDE DEF q
  <1>4. /\ taken' \in [Market -> [Shard -> Seq(Order)]]
        /\ taken'[market][s] = orders
        /\ \A m \in Market, t \in Shard : m # market \/ t # s => taken'[m][t] = taken[m][t]
    BY <1>1, <1>2, <1>3 DEF TypeInv
  <1>5. new \in Datagram
    <2>1. SubSeq(orders, 1, IF Len(orders) < SNAPSHOT_LEN THEN Len(orders) ELSE SNAPSHOT_LEN)
            \in Seq(Order)
      BY <1>2, TopFacts
    <2> QED
      BY <1>0, <1>1, <1>2, <2>1 DEF Snapshot, Datagram
  <1>6. True(new)'
    <2>1. /\ new.market = market /\ new.shard = s /\ new.seq_len = Len(orders)
          /\ new.orders = SubSeq(orders, 1, IF Len(orders) < SNAPSHOT_LEN
                                            THEN Len(orders) ELSE SNAPSHOT_LEN)
      BY <1>0, Zenon DEF Snapshot
    <2>2. Len(orders) \in 1 .. Len(orders)
      BY <1>2
    <2>3. new.seq_len \in 1 .. Len(taken'[new.market][new.shard])
      BY <1>4, <2>1, <2>2
    <2>4. new.orders = Top(new.market, new.shard, new.seq_len)'
      BY <1>4, <2>1, Zenon DEF Top
    <2> QED
      BY <2>3, <2>4 DEF True
  <1>7. ASSUME NEW d \in Datagram, True(d)
        PROVE  True(d)'
    <2>1. d.market \in Market /\ d.shard \in Shard /\ d.seq_len \in Nat
      BY DEF Datagram
    <2>2. CASE d.market = market /\ d.shard = s
      <3>1. d.seq_len \in 1 .. Len(q) /\ d.seq_len \in 1 .. Len(orders)
        BY <1>2, <1>7, <2>2 DEF True, q
      <3>2. PICK n \in Nat : n = IF d.seq_len < SNAPSHOT_LEN THEN d.seq_len ELSE SNAPSHOT_LEN
        BY <2>1, Sizes
      <3>3. n \in 0 .. Len(q)
        BY <1>2, <2>1, <3>1, <3>2, Sizes
      <3>4. d.orders = SubSeq(q, 1, n)
        BY <1>7, <2>2, <3>2 DEF True, Top, q
      <3>5. d.orders = SubSeq(orders, 1, n)
        BY <1>2, <3>3, <3>4
      <3>6. taken'[d.market][d.shard] = orders
        BY <1>4, <2>2
      <3> QED
        BY <3>1, <3>2, <3>5, <3>6 DEF True, Top
    <2>3. CASE d.market # market \/ d.shard # s
      <3>1. taken'[d.market][d.shard] = taken[d.market][d.shard]
        BY <1>4, <2>1, <2>3
      <3> QED
        BY <1>7, <3>1 DEF True, Top
    <2> QED
      BY <2>2, <2>3
  <1>8. FeedInv'
    <2> SUFFICES ASSUME NEW d \in senders' \union network' \union printed'
                 PROVE  True(d)'
      BY DEF FeedInv
    <2>1. CASE d = new
      BY <1>6, <2>1
    <2>2. CASE d # new
      <3>1. d \in senders \union network \union printed
        BY <1>3, <2>2
      <3> QED
        BY <1>7, <3>1 DEF FeedInv, TypeInv
    <2> QED
      BY <2>1, <2>2
  <1> QED
    BY <1>3, <1>4, <1>5, <1>8 DEF TypeInv

\* Sending and printing move datagrams about and make none up.
LEMMA FeedKeeps ==
  ASSUME TypeInv, FeedInv, FeedNext
  PROVE  /\ UNCHANGED <<market, taken>>
         /\ senders' \subseteq Datagram /\ network' \subseteq Datagram
         /\ printed' \subseteq Datagram
         /\ FeedInv'
  <1>1. ASSUME NEW d \in senders, SEND_BROADCAST(d)
        PROVE  /\ UNCHANGED <<market, taken, printed>>
               /\ senders' \subseteq senders /\ network' \subseteq network \union {d}
    BY <1>1 DEF SEND_BROADCAST, Copied
  <1>2. ASSUME NEW d \in network, snapshotListener(d)
        PROVE  /\ UNCHANGED <<market, taken, senders, network>>
               /\ printed' = printed \union {d}
    BY <1>2 DEF snapshotListener
  <1>3. /\ UNCHANGED <<market, taken>>
        /\ senders' \union network' \union printed' \subseteq senders \union network \union printed
    BY <1>1, <1>2 DEF FeedNext
  <1>4. \A d : True(d)' <=> True(d)
    BY <1>3 DEF True, Top
  <1> QED
    BY <1>3, <1>4 DEF TypeInv, FeedInv

-----------------------------------------------------------------------------
(* The drainer *)

\* What a shard has got, taken by its book or still queued.
Line(s) == taken[market][s] \o queue[s]

\* A line holds every order submitted to its shard, each thread's in order.
LineInv ==
  /\ \A s \in Shard :
       /\ \A k \in 1 .. Len(Line(s)) : Line(s)[k][2] <= done[Line(s)[k][1]]
       /\ \A k, l \in 1 .. Len(Line(s)) :
            k < l /\ Line(s)[k][1] = Line(s)[l][1] => Line(s)[k][2] < Line(s)[l][2]
  /\ \A t \in Thread : \A n \in 1 .. done[t] :
       \E k \in 1 .. Len(Line(target[t])) : Line(target[t])[k] = <<t, n>>

\* The sweep starts when nobody submits any more, and leaves empty queues
\* behind it; the markets to come have taken nothing.
SweepInv ==
  /\ \A m \in Market : m > market => \A s \in Shard : taken[m][s] = <<>>
  /\ stop => \A t \in Thread : done[t] = Iterations
  /\ worker.place \in {"sweep", "end"} => stop
  /\ worker.place = "sweep" => \A s \in Shard : s < worker.shard => queue[s] = <<>>
  /\ worker.place = "end" => \A s \in Shard : queue[s] = <<>>
  /\ joined => worker.place = "end"

Inv == TypeInv /\ FeedInv /\ LineInv /\ SweepInv

LEMMA LineFacts ==
  ASSUME TypeInv, NEW s \in Shard
  PROVE  /\ Line(s) \in Seq(Order)
         /\ Len(Line(s)) \in Nat
         /\ \A k \in 1 .. Len(Line(s)) : Line(s)[k] \in Order
  <1>1. taken[market][s] \in Seq(Order) /\ queue[s] \in Seq(Order)
    BY DEF TypeInv
  <1>2. Line(s) \in Seq(Order)
    BY <1>1 DEF Line
  <1> QED
    BY <1>2

\* The second of two joined sequences starts where the first ends.
LEMMA Beyond ==
  ASSUME NEW S, NEW q \in Seq(S), NEW u \in Seq(S),
         NEW k \in 1 .. Len(q) + Len(u), k > Len(q)
  PROVE  (q \o u)[k] = u[k - Len(q)]
  OBVIOUS

\* Taking the head of a queue moves it along the line, and no further.
LEMMA MoveAlong ==
  ASSUME NEW S, NEW q \in Seq(S), NEW u \in Seq(S), u # <<>>
  PROVE  Append(q, Head(u)) \o Tail(u) = q \o u
  <1>1. /\ Head(u) \in S /\ Head(u) = u[1] /\ Tail(u) \in Seq(S)
        /\ Len(u) \in Nat \ {0} /\ Len(Tail(u)) = Len(u) - 1
        /\ \A k \in 1 .. Len(u) - 1 : Tail(u)[k] = u[k + 1]
    BY HeadFacts
  <1>2. PICK h \in S, v \in Seq(S) : h = Head(u) /\ v = Tail(u)
    BY <1>1
  <1>3. /\ Append(q, h) \in Seq(S) /\ Len(q) \in Nat
        /\ Len(Append(q, h)) = Len(q) + 1
        /\ Append(q, h)[Len(q) + 1] = h
        /\ \A k \in 1 .. Len(q) : Append(q, h)[k] = q[k]
    BY AppendFacts
  <1>4. PICK w \in Seq(S) : w = Append(q, h)
    BY <1>3
  <1>5. Len(w \o v) = Len(q \o u) /\ w \o v \in Seq(S) /\ q \o u \in Seq(S)
    BY <1>1, <1>2, <1>3, <1>4
  <1>6. ASSUME NEW k \in 1 .. Len(q \o u)
        PROVE  (w \o v)[k] = (q \o u)[k]
    <2>1. CASE k \in 1 .. Len(q)
      BY <1>3, <1>4, <2>1
    <2>2. CASE k = Len(q) + 1
      BY <1>1, <1>2, <1>3, <1>4, <2>2
    <2>3. CASE k > Len(q) + 1
      <3>1. (w \o v)[k] = v[k - Len(w)] /\ (q \o u)[k] = u[k - Len(q)]
        <4>1. /\ Len(w) \in Nat /\ Len(w) = Len(q) + 1 /\ Len(q) \in Nat
              /\ k \in 1 .. Len(w) + Len(v) /\ k \in 1 .. Len(q) + Len(u)
              /\ k > Len(w) /\ k > Len(q)
          BY <1>1, <1>2, <1>3, <1>4, <2>3
        <4> QED
          BY <1>2, <1>4, <4>1, Beyond
      <3>2. PICK j \in Nat : j = k - Len(w)
        <4>1. Len(w) \in Nat /\ k \in Nat /\ k >= Len(w)
          BY <1>3, <1>4, <1>5, <2>3
        <4>2. k - Len(w) \in Nat
          BY <4>1
        <4> QED
          BY <4>2
      <3>3. j \in 1 .. Len(u) - 1 /\ k - Len(q) = j + 1
        BY <1>1, <1>3, <1>4, <2>3, <3>2
      <3>4. v[j] = u[j + 1]
        BY <1>1, <1>2, <3>3
      <3> QED
        BY <3>1, <3>2, <3>3, <3>4
    <2>4. k \in Nat \ {0}
      BY <1>5
    <2>5. k \in 1 .. Len(q) \/ k = Len(q) + 1 \/ k > Len(q) + 1
      BY <1>3, <2>4
    <2> QED
      BY <2>1, <2>2, <2>3, <2>5
  <1>7. w \o v = q \o u
    BY <1>5, <1>6
  <1> QED
    BY <1>2, <1>4, <1>7

\* Joining the end of a queue is joining the end of the line.
LEMMA JoinEnd ==
  ASSUME NEW S, NEW q \in Seq(S), NEW u \in Seq(S), NEW e \in S
  PROVE  q \o Append(u, e) = Append(q \o u, e)
  OBVIOUS

LEMMA InitInv == Init => Inv
  <1> SUFFICES ASSUME Init
               PROVE  Inv
    OBVIOUS
  <1>1. /\ market = 1 /\ taken = [m \in Market |-> [s \in Shard |-> <<>>]]
        /\ senders = {} /\ network = {} /\ printed = {}
        /\ target \in [Thread -> Shard] /\ done = [t \in Thread |-> 0]
        /\ queue = [s \in Shard |-> <<>>] /\ stop = FALSE
        /\ worker = [place |-> "test", shard |-> 0] /\ joined = FALSE
    BY Zenon DEF Init, FeedInit, At
  <1>2. TypeInv
    <2>1. <<>> \in Seq(Order) /\ 0 \in 0 .. Iterations
      BY Sizes
    <2>2. taken \in [Market -> [Shard -> Seq(Order)]] /\ queue \in [Shard -> Seq(Order)]
      BY <1>1, <2>1, Zenon
    <2>3. done \in [Thread -> 0 .. Iterations] /\ market \in Market
      BY <1>1, <2>1, Sizes
    <2>4. worker \in [place : {"test", "drain", "sweep", "end"}, shard : Shard]
      BY <1>1, Sizes
    <2> QED
      BY <1>1, <2>2, <2>3, <2>4 DEF TypeInv
  <1>3. FeedInv
    BY <1>1 DEF FeedInv
  <1>4. LineInv
    <2>1. \A s \in Shard : Line(s) = <<>>
      BY <1>1, Sizes DEF Line
    <2> QED
      BY <1>1, <2>1 DEF LineInv
  <1>5. SweepInv
    BY <1>1 DEF SweepInv
  <1> QED
    BY <1>2, <1>3, <1>4, <1>5 DEF Inv

\* The feed's invariant speaks of nothing but the feed.
LEMMA FeedUntouched ==
  ASSUME FeedInv, UNCHANGED <<taken, senders, network, printed>>
  PROVE  FeedInv'
  BY Zenon DEF FeedInv, True, Top

\* Lines that stay as they are keep what LineInv says of them.
LEMMA LinesUntouched ==
  ASSUME LineInv, UNCHANGED <<target, done>>, \A s \in Shard : Line(s)' = Line(s),
         target \in [Thread -> Shard]
  PROVE  LineInv'
  <1>1. \A t \in Thread : target[t] \in Shard
    OBVIOUS
  <1>2. ASSUME NEW s \in Shard
        PROVE  /\ \A k \in 1 .. Len(Line(s)') : Line(s)'[k][2] <= done'[Line(s)'[k][1]]
               /\ \A k, l \in 1 .. Len(Line(s)') :
                    k < l /\ Line(s)'[k][1] = Line(s)'[l][1] => Line(s)'[k][2] < Line(s)'[l][2]
    BY Zenon DEF LineInv
  <1>3. ASSUME NEW t \in Thread, NEW n \in 1 .. done'[t]
        PROVE  \E k \in 1 .. Len(Line(target[t])') : Line(target[t])'[k] = <<t, n>>
    BY <1>1, Zenon DEF LineInv
  <1> QED
    BY <1>2, <1>3, Zenon DEF LineInv

LEMMA SubmitInv ==
  ASSUME Inv, NEW t \in Thread, submit_order(t)
  PROVE  Inv'
  <1> USE DEF Inv
  <1>0. PICK x, e : x = target[t] /\ e = <<t, done[t] + 1>>
    OBVIOUS
  <1>1. /\ ~stop /\ done[t] < Iterations
        /\ done' = [done EXCEPT ![t] = @ + 1]
        /\ queue' = [queue EXCEPT ![x] = Append(@, e)]
        /\ UNCHANGED <<market, taken, senders, network, printed, target, stop, worker, joined>>
    BY <1>0 DEF submit_order, feedVars
  <1>2. /\ x \in Shard /\ done[t] \in Nat /\ done \in [Thread -> 0 .. Iterations]
        /\ queue \in [Shard -> Seq(Order)] /\ market \in Market
        /\ taken \in [Market -> [Shard -> Seq(Order)]]
    <2>1. /\ done \in [Thread -> 0 .. Iterations] /\ target[t] \in Shard
          /\ queue \in [Shard -> Seq(Order)] /\ market \in Market
          /\ taken \in [Market -> [Shard -> Seq(Order)]]
      BY DEF TypeInv
    <2>2. done[t] \in Nat
      BY <2>1, Sizes
    <2> QED
      BY <1>0, <2>1, <2>2
  <1>3. e \in Order
    BY <1>0, <1>2 DEF Order
  <1>4. TypeInv'
    <2>1. done' \in [Thread -> 0 .. Iterations]
      BY <1>1, <1>2, Sizes
    <2>2. queue' \in [Shard -> Seq(Order)]
      BY <1>1, <1>2, <1>3
    <2> QED
      BY <1>1, <2>1, <2>2 DEF TypeInv
  <1>5. FeedInv'
    BY <1>1, FeedUntouched
  <1>6. /\ Line(x)' = Append(Line(x), e)
        /\ \A s \in Shard \ {x} : Line(s)' = Line(s)
    <2>1. queue[x] \in Seq(Order) /\ taken[market][x] \in Seq(Order)
      BY <1>2
    <2>2. taken[market][x] \o Append(queue[x], e) = Append(taken[market][x] \o queue[x], e)
      <3>1. PICK q \in Seq(Order), u \in Seq(Order) : q = taken[market][x] /\ u = queue[x]
        BY <2>1
      <3>2. q \o Append(u, e) = Append(q \o u, e)
        BY <1>3, JoinEnd
      <3> QED
        BY <3>1, <3>2
    <2>3. queue'[x] = Append(queue[x], e) /\ \A s \in Shard \ {x} : queue'[s] = queue[s]
      BY <1>1, <1>2
    <2> QED
      BY <1>1, <2>2, <2>3 DEF Line
  <1>7. LineInv'
    <2>0. /\ Line(x) \in Seq(Order) /\ Len(Line(x)) \in Nat
          /\ \A k \in 1 .. Len(Line(x)) : Line(x)[k] \in Order
      BY <1>2, LineFacts
    <2>1. PICK old \in Seq(Order) : old = Line(x)
      BY <2>0
    <2>2. PICK new \in Seq(Order) : new = Append(old, e)
      BY <1>3, AppendFacts
    <2>3. /\ Len(old) \in Nat /\ Len(new) = Len(old) + 1 /\ new[Len(old) + 1] = e
          /\ \A k \in 1 .. Len(old) : new[k] = old[k]
      BY <1>3, <2>2, AppendFacts
    <2>4. /\ done'[t] = done[t] + 1
          /\ \A u \in Thread \ {t} : done'[u] = done[u]
          /\ \A u \in Thread : done[u] \in Nat /\ done'[u] \in Nat /\ done[u] <= done'[u]
      <3>1. \A u \in Thread : done[u] \in Nat
        BY <1>2, Sizes
      <3>2. done'[t] = done[t] + 1 /\ \A u \in Thread \ {t} : done'[u] = done[u]
        BY <1>1, <1>2
      <3> QED
        BY <3>1, <3>2
    <2>5. \A k \in 1 .. Len(old) : /\ old[k][1] \in Thread /\ old[k][2] \in Nat
                                   /\ old[k][2] <= done[old[k][1]]
      BY <1>2, <2>0, <2>1 DEF LineInv, Order
    <2>6. e[1] = t /\ e[2] = done[t] + 1
      BY <1>0
    <2>7. ASSUME NEW s \in Shard, s # x
          PROVE  /\ \A k \in 1 .. Len(Line(s)') : Line(s)'[k][2] <= done'[Line(s)'[k][1]]
                 /\ \A k, l \in 1 .. Len(Line(s)') :
                      k < l /\ Line(s)'[k][1] = Line(s)'[l][1] => Line(s)'[k][2] < Line(s)'[l][2]
      <3>1. Line(s)' = Line(s)
        BY <1>6, <2>7
      <3>2. \A k \in 1 .. Len(Line(s)) : Line(s)[k] \in Order
        BY LineFacts
      <3>3. ASSUME NEW k \in 1 .. Len(Line(s))
            PROVE  Line(s)[k][2] <= done'[Line(s)[k][1]]
        <4>1. Line(s)[k][2] <= done[Line(s)[k][1]] /\ Line(s)[k][1] \in Thread /\ Line(s)[k][2] \in Nat
          BY <3>2 DEF LineInv, Order
        <4> QED
          BY <2>4, <4>1
      <3>4. \A k, l \in 1 .. Len(Line(s)) :
              k < l /\ Line(s)[k][1] = Line(s)[l][1] => Line(s)[k][2] < Line(s)[l][2]
        BY Zenon DEF LineInv
      <3> QED
        BY <3>1, <3>3, <3>4, Zenon
    <2>8. /\ \A k \in 1 .. Len(new) : new[k][2] <= done'[new[k][1]]
          /\ \A k, l \in 1 .. Len(new) :
               k < l /\ new[k][1] = new[l][1] => new[k][2] < new[l][2]
      <3>1. \A k, l \in 1 .. Len(old) :
              k < l /\ old[k][1] = old[l][1] => old[k][2] < old[l][2]
        BY <1>2, <2>1, Zenon DEF LineInv
      <3>2. \A k \in 1 .. Len(new) : k \in 1 .. Len(old) \/ k = Len(old) + 1
        BY <2>3
      <3>3. ASSUME NEW k \in 1 .. Len(new)
            PROVE  new[k][2] <= done'[new[k][1]]
        <4>1. CASE k \in 1 .. Len(old)
          <5>1. new[k] = old[k] /\ old[k][1] \in Thread /\ old[k][2] \in Nat /\ old[k][2] <= done[old[k][1]]
            BY <2>3, <2>5, <4>1
          <5> QED
            BY <2>4, <5>1
        <4>2. CASE k = Len(old) + 1
          BY <2>3, <2>4, <2>6, <4>2
        <4> QED
          BY <3>2, <4>1, <4>2
      <3>4. ASSUME NEW k \in 1 .. Len(new), NEW l \in 1 .. Len(new), k < l,
                   new[k][1] = new[l][1]
            PROVE  new[k][2] < new[l][2]
        <4>1. k \in 1 .. Len(old)
          BY <2>3, <3>4
        <4>2. CASE l \in 1 .. Len(old)
          BY <2>3, <3>1, <3>4, <4>1, <4>2
        <4>3. CASE l = Len(old) + 1
          <5>1. new[k] = old[k] /\ old[k][2] \in Nat /\ old[k][2] <= done[old[k][1]]
            BY <2>3, <2>5, <4>1
          <5>2. old[k][1] = t /\ new[l][2] = done[t] + 1
            BY <2>3, <2>6, <3>4, <4>3, <5>1
          <5> QED
            BY <1>2, <5>1, <5>2
        <4> QED
          BY <3>2, <4>2, <4>3
      <3> QED
        BY <3>3, <3>4
    <2>9. ASSUME NEW u \in Thread, NEW n \in 1 .. done'[u]
          PROVE  \E k \in 1 .. Len(Line(target[u])') : Line(target[u])'[k] = <<u, n>>
      <3>1. PICK y \in Shard : y = target[u] /\ y = target'[u]
        BY <1>1 DEF TypeInv
      <3>2. CASE n \in 1 .. done[u]
        <4>1. PICK k \in 1 .. Len(Line(y)) : Line(y)[k] = <<u, n>>
          BY <3>1, <3>2 DEF LineInv
        <4>2. k \in 1 .. Len(Line(y)') /\ Line(y)'[k] = <<u, n>>
          BY <1>6, <2>1, <2>2, <2>3, <4>1
        <4> QED
          BY <3>1, <4>2 DEF Line
      <3>3. CASE n \notin 1 .. done[u]
        <4>1. u = t /\ n = done[t] + 1
          BY <2>4, <3>3
        <4>2. Len(new) \in 1 .. Len(new) /\ new[Len(new)] = e /\ e = <<u, n>>
          BY <1>0, <2>3, <4>1
        <4>3. y = x /\ Line(y)' = new
          BY <1>0, <1>6, <2>1, <2>2, <3>1, <4>1
        <4> QED
          BY <3>1, <4>2, <4>3 DEF Line
      <3> QED
        BY <3>2, <3>3
    <2>10. Line(x)' = new
      BY <1>6, <2>1, <2>2
    <2>11. \A s \in Shard :
          /\ \A k \in 1 .. Len(Line(s)') : Line(s)'[k][2] <= done'[Line(s)'[k][1]]
          /\ \A k, l \in 1 .. Len(Line(s)') :
               k < l /\ Line(s)'[k][1] = Line(s)'[l][1] => Line(s)'[k][2] < Line(s)'[l][2]
      BY <2>7, <2>8, <2>10, Zenon
    <2>12. target' = target
      BY <1>1
    <2> QED
      BY <2>9, <2>11, <2>12, Zenon DEF LineInv
  <1>8. SweepInv'
    BY <1>1 DEF SweepInv
  <1> QED
    BY <1>4, <1>5, <1>7, <1>8

\* drain_one moves the front of the worker's queue into its book: every line
\* stays as it is, and no queue that was empty gets anything.
LEMMA PopKeeps ==
  ASSUME Inv, Popped, UNCHANGED <<target, done>>
  PROVE  /\ taken' \in [Market -> [Shard -> Seq(Order)]]
         /\ queue' \in [Shard -> Seq(Order)]
         /\ senders' \subseteq Datagram
         /\ UNCHANGED <<market, network, printed>>
         /\ FeedInv'
         /\ LineInv'
         /\ \A s \in Shard : queue[s] = <<>> => queue'[s] = <<>>
         /\ \A m \in Market : m > market => \A s \in Shard : taken'[m][s] = <<>>
  <1> USE DEF Inv
  <1>0. PICK x \in Shard : x = worker.shard
    BY DEF TypeInv
  <1>1. /\ queue[x] # <<>>
        /\ process_one(x, Head(queue[x]))
        /\ queue' = [queue EXCEPT ![x] = Tail(@)]
        /\ UNCHANGED <<market, network, printed>>
    BY <1>0 DEF Popped
  <1>2. /\ market \in Market /\ taken \in [Market -> [Shard -> Seq(Order)]]
        /\ queue \in [Shard -> Seq(Order)]
    BY DEF TypeInv
  <1>3. PICK q \in Seq(Order), u \in Seq(Order) : q = taken[market][x] /\ u = queue[x]
    BY <1>2
  <1>4. Head(u) \in Order /\ Tail(u) \in Seq(Order)
    BY <1>1, <1>3, HeadFacts
  <1>5. /\ taken' \in [Market -> [Shard -> Seq(Order)]]
        /\ senders' \subseteq Datagram
        /\ FeedInv'
    BY <1>1, <1>3, <1>4, ProcessFeed
  <1>6. /\ queue' \in [Shard -> Seq(Order)]
        /\ queue'[x] = Tail(u)
        /\ \A s \in Shard \ {x} : queue'[s] = queue[s]
    BY <1>1, <1>2, <1>3, <1>4
  <1>7. taken' = [taken EXCEPT ![market][x] = Append(q, Head(u))]
    BY <1>1, <1>3 DEF process_one
  <1>8. /\ taken'[market][x] = Append(q, Head(u))
        /\ \A m \in Market, s \in Shard : m # market \/ s # x => taken'[m][s] = taken[m][s]
    BY <1>2, <1>7
  <1>9. \A s \in Shard : Line(s)' = Line(s)
    <2> SUFFICES ASSUME NEW s \in Shard
                 PROVE  Line(s)' = Line(s)
      OBVIOUS
    <2>1. CASE s = x
      <3>1. Append(q, Head(u)) \o Tail(u) = q \o u
        BY <1>1, <1>3, MoveAlong
      <3> QED
        BY <1>1, <1>3, <1>6, <1>8, <2>1, <3>1 DEF Line
    <2>2. CASE s # x
      BY <1>1, <1>2, <1>6, <1>8, <2>2 DEF Line
    <2> QED
      BY <2>1, <2>2
  <1>10. LineInv'
    BY <1>9, LinesUntouched DEF TypeInv
  <1>11. \A m \in Market : m > market => \A s \in Shard : taken'[m][s] = <<>>
    <2> SUFFICES ASSUME NEW m \in Market, m > market, NEW s \in Shard
                 PROVE  taken'[m][s] = <<>>
      OBVIOUS
    <2>1. m # market
      BY <1>2 DEF Market
    <2>2. taken[m][s] = <<>>
      BY DEF SweepInv
    <2> QED
      BY <1>8, <2>1, <2>2
  <1> QED
    BY <1>1, <1>3, <1>5, <1>6, <1>10, <1>11

\* drain_one finds nothing, or the worker or thread 0 only moves on.
LEMMA NothingKeeps ==
  ASSUME Inv, UNCHANGED <<feedVars, target, done, queue>>
  PROVE  FeedInv' /\ LineInv'
  <1> USE DEF Inv
  <1>1. UNCHANGED <<market, taken, senders, network, printed>>
    BY DEF feedVars
  <1>2. \A s \in Shard : Line(s)' = Line(s)
    BY <1>1 DEF Line
  <1> QED
    BY <1>1, <1>2, FeedUntouched, LinesUntouched DEF TypeInv

LEMMA NextShardType ==
  ASSUME TypeInv, NEW after \in {"test", "end"}
  PROVE  NextShard(after) \in [place : {"test", "drain", "sweep", "end"}, shard : Shard]
  <1>1. worker.shard \in Shard /\ worker.place \in {"test", "drain", "sweep", "end"}
    BY DEF TypeInv
  <1>2. worker.shard < LastShard => worker.shard + 1 \in Shard
    BY <1>1, Sizes
  <1> QED
    BY <1>1, <1>2, Sizes DEF NextShard, At

LEMMA TestInv ==
  ASSUME Inv, Test
  PROVE  Inv'
  <1> USE DEF Inv
  <1>1. /\ UNCHANGED <<market, taken, senders, network, printed>>
        /\ UNCHANGED <<target, done, queue, stop, joined>>
        /\ worker.place = "test"
        /\ worker' = [place |-> IF stop THEN "sweep" ELSE "drain", shard |-> 0]
    BY DEF Test, At, feedVars
  <1>2. FeedInv' /\ LineInv'
    BY NothingKeeps DEF Test
  <1>3. TypeInv'
    BY <1>1, Sizes DEF TypeInv
  <1>4. SweepInv'
    <2>1. \A s \in Shard : ~(s < 0)
      BY Sizes
    <2> QED
      BY <1>1, <2>1 DEF SweepInv
  <1> QED
    BY <1>2, <1>3, <1>4

LEMMA RoundInv ==
  ASSUME Inv, Round
  PROVE  Inv'
  <1> USE DEF Inv
  <1>1. /\ worker.place = "drain" /\ worker' = NextShard("test")
        /\ UNCHANGED <<target, done, stop, joined>>
    BY DEF Round
  <1>2. /\ worker' \in [place : {"test", "drain", "sweep", "end"}, shard : Shard]
        /\ worker'.place \in {"drain", "test"}
    BY <1>1, NextShardType DEF NextShard, At
  <1>3. /\ taken' \in [Market -> [Shard -> Seq(Order)]]
        /\ queue' \in [Shard -> Seq(Order)]
        /\ senders' \subseteq Datagram
        /\ UNCHANGED <<market, network, printed>>
        /\ FeedInv' /\ LineInv'
        /\ \A m \in Market : m > market => \A s \in Shard : taken'[m][s] = <<>>
    <2>1. CASE Popped
      BY <1>1, <2>1, PopKeeps
    <2>2. CASE Nothing
      <3>1. UNCHANGED <<feedVars, target, done, queue>>
        BY <1>1, <2>2 DEF Nothing
      <3> QED
        BY <3>1, NothingKeeps DEF feedVars, TypeInv, SweepInv
    <2> QED
      BY <2>1, <2>2 DEF Round
  <1>4. TypeInv'
    BY <1>1, <1>2, <1>3 DEF TypeInv
  <1>5. SweepInv'
    BY <1>1, <1>2, <1>3 DEF SweepInv
  <1> QED
    BY <1>3, <1>4, <1>5

\* The sweep goes on from a shard only once its queue is empty, and nobody
\* fills a queue it has left.
LEMMA SweepKeeps ==
  ASSUME Inv, Sweep
  PROVE  Inv'
  <1> USE DEF Inv
  <1>1. /\ worker.place = "sweep"
        /\ UNCHANGED <<target, done, stop, joined>>
    BY DEF Sweep
  <1>2. stop /\ ~joined /\ \A s \in Shard : s < worker.shard => queue[s] = <<>>
    BY <1>1 DEF SweepInv
  <1>3. CASE Popped /\ worker' = worker
    <2>1. /\ taken' \in [Market -> [Shard -> Seq(Order)]]
          /\ queue' \in [Shard -> Seq(Order)]
          /\ senders' \subseteq Datagram
          /\ UNCHANGED <<market, network, printed>>
          /\ FeedInv' /\ LineInv'
          /\ \A s \in Shard : queue[s] = <<>> => queue'[s] = <<>>
          /\ \A m \in Market : m > market => \A s \in Shard : taken'[m][s] = <<>>
      BY <1>1, <1>3, PopKeeps
    <2>2. TypeInv'
      BY <1>1, <1>3, <2>1 DEF TypeInv
    <2>3. SweepInv'
      BY <1>1, <1>2, <1>3, <2>1 DEF SweepInv
    <2> QED
      BY <2>1, <2>2, <2>3
  <1>4. CASE Nothing /\ worker' = NextShard("end")
    <2>1. /\ UNCHANGED <<feedVars, target, done, queue>>
          /\ UNCHANGED <<market, taken, senders, network, printed, target, done, queue>>
          /\ queue[worker.shard] = <<>>
      BY <1>1, <1>4 DEF Nothing, feedVars
    <2>2. FeedInv' /\ LineInv'
      BY <2>1, NothingKeeps
    <2>3. TypeInv'
      <3>1. worker' \in [place : {"test", "drain", "sweep", "end"}, shard : Shard]
        BY <1>4, NextShardType
      <3> QED
        BY <1>1, <2>1, <3>1 DEF TypeInv
    <2>4. PICK x \in Shard : x = worker.shard
      BY DEF TypeInv
    <2>5. CASE x < LastShard
      <3>1. worker' = [place |-> "sweep", shard |-> x + 1]
        BY <1>1, <1>4, <2>4, <2>5 DEF NextShard, At
      <3>2. \A s \in Shard : s < x + 1 => s < x \/ s = x
        BY Sizes
      <3>3. \A s \in Shard : s < x + 1 => queue[s] = <<>>
        BY <1>2, <2>1, <2>4, <3>2
      <3> QED
        BY <1>1, <1>2, <2>1, <2>2, <2>3, <3>1, <3>3 DEF SweepInv
    <2>6. CASE ~(x < LastShard)
      <3>1. worker' = [place |-> "end", shard |-> 0]
        BY <1>4, <2>4, <2>6 DEF NextShard, At
      <3>2. \A s \in Shard : s < x \/ s = x
        BY <2>6, Sizes
      <3>3. \A s \in Shard : queue[s] = <<>>
        BY <1>2, <2>1, <2>4, <3>2
      <3> QED
        BY <1>1, <1>2, <2>1, <2>2, <2>3, <3>1, <3>3 DEF SweepInv
    <2> QED
      BY <2>5, <2>6
  <1> QED
    BY <1>3, <1>4 DEF Sweep, AfterPop, AfterNothing

LEMMA StopInv ==
  ASSUME Inv, Stop \/ Join
  PROVE  Inv'
  <1> USE DEF Inv
  <1>1. /\ UNCHANGED <<feedVars, target, done, queue>>
        /\ UNCHANGED <<market, taken, senders, network, printed, worker>>
        /\ stop' \in BOOLEAN /\ joined' \in BOOLEAN
        /\ stop' => \A t \in Thread : done[t] = Iterations
        /\ stop => stop'
        /\ joined' => worker.place = "end"
    <2>1. CASE Stop
      <3>1. /\ UNCHANGED <<feedVars, target, done, queue, worker, joined>>
            /\ stop' = TRUE /\ \A t \in Thread : done[t] = Iterations
        BY <2>1 DEF Stop
      <3> QED
        BY <3>1 DEF feedVars, SweepInv, TypeInv
    <2>2. CASE Join
      <3>1. /\ UNCHANGED <<feedVars, target, done, queue, stop, worker>>
            /\ joined' = TRUE /\ worker.place = "end" /\ stop
        BY <2>2 DEF Join
      <3> QED
        BY <3>1 DEF feedVars, SweepInv, TypeInv
    <2> QED
      BY <2>1, <2>2
  <1>2. FeedInv' /\ LineInv'
    BY <1>1, NothingKeeps
  <1> QED
    BY <1>1, <1>2 DEF TypeInv, SweepInv

LEMMA NextConfigurationInv ==
  ASSUME Inv, NextConfiguration
  PROVE  Inv'
  <1> USE DEF Inv
  <1>1. /\ market < MaxMarkets /\ market' = market + 1
        /\ UNCHANGED <<taken, senders, network, printed>>
        /\ target' \in [Thread -> Shard] /\ done' = [t \in Thread |-> 0]
        /\ queue' = [s \in Shard |-> <<>>]
        /\ stop' = FALSE /\ joined' = FALSE
        /\ worker' = [place |-> "test", shard |-> 0]
    BY Zenon DEF NextConfiguration, At
  <1>2. market \in Market /\ market' \in Market /\ market' > market
    BY <1>1, Sizes DEF TypeInv, Market
  <1>3. TypeInv'
    <2>1. <<>> \in Seq(Order) /\ 0 \in 0 .. Iterations
      BY Sizes
    <2>2. queue' \in [Shard -> Seq(Order)] /\ done' \in [Thread -> 0 .. Iterations]
      BY <1>1, <2>1
    <2>3. worker' \in [place : {"test", "drain", "sweep", "end"}, shard : Shard]
      BY <1>1, Sizes
    <2> QED
      BY <1>1, <1>2, <2>2, <2>3 DEF TypeInv
  <1>4. FeedInv'
    BY <1>1, FeedUntouched
  <1>5. LineInv'
    <2>1. \A s \in Shard : Line(s)' = <<>>
      <3> SUFFICES ASSUME NEW s \in Shard
                   PROVE  Line(s)' = <<>>
        OBVIOUS
      <3>1. taken'[market'][s] = <<>> /\ queue'[s] = <<>>
        BY <1>1, <1>2 DEF SweepInv
      <3> QED
        BY <3>1 DEF Line
    <2> QED
      BY <1>1, <2>1 DEF LineInv
  <1>6. SweepInv'
    <2>1. \A m \in Market : m > market' => m > market
      BY <1>1, <1>2 DEF Market
    <2> QED
      BY <1>1, <2>1 DEF SweepInv
  <1> QED
    BY <1>3, <1>4, <1>5, <1>6

LEMMA FeedStepInv ==
  ASSUME Inv, Feed
  PROVE  Inv'
  <1> USE DEF Inv
  <1>1. UNCHANGED <<target, done, queue, stop, worker, joined>> /\ FeedNext
    BY DEF Feed
  <1>2. /\ UNCHANGED <<market, taken>>
        /\ senders' \subseteq Datagram /\ network' \subseteq Datagram
        /\ printed' \subseteq Datagram
        /\ FeedInv'
    BY <1>1, FeedKeeps
  <1>3. \A s \in Shard : Line(s)' = Line(s)
    BY <1>1, <1>2 DEF Line
  <1>4. LineInv'
    BY <1>1, <1>3, LinesUntouched DEF TypeInv
  <1> QED
    BY <1>1, <1>2, <1>4 DEF TypeInv, SweepInv

LEMMA StutterInv ==
  ASSUME Inv, UNCHANGED vars
  PROVE  Inv'
  <1>1. /\ UNCHANGED <<feedVars, target, done, queue, stop, worker, joined>>
        /\ UNCHANGED <<market, taken, senders, network, printed>>
    BY DEF vars, feedVars
  <1>2. FeedInv' /\ LineInv'
    BY <1>1, NothingKeeps
  <1> QED
    BY <1>1, <1>2 DEF Inv, TypeInv, SweepInv

LEMMA NextInv == Inv /\ [Next]_vars => Inv'
  BY SubmitInv, TestInv, RoundInv, SweepKeeps, StopInv, NextConfigurationInv,
     FeedStepInv, StutterInv DEF Next, Worker

THEOREM DrainerInvariant == Spec => []Inv
  BY InitInv, NextInv, PTL DEF Spec

\* Nothing a subscriber prints was ever untrue: a snapshot is the top of its
\* book as it was after the number of requests the snapshot carries, in
\* whatever order the detached threads and the network bring it.
THEOREM SnapshotsTrue == Spec => []PrintedTrue
  <1>1. Inv => PrintedTrue
    BY DEF Inv, FeedInv, True, PrintedTrue
  <1> QED
    BY <1>1, DrainerInvariant, PTL

\* When the drainer has been joined, the books have all that was submitted,
\* each thread's orders in the order it submitted them.
THEOREM DrainedBeforeJoin == Spec => []NothingLeft
  <1>1. Inv => NothingLeft
    <2> SUFFICES ASSUME Inv, joined, NEW t \in Thread
                 PROVE  LET book == taken[market][target[t]]
                        IN  /\ \A k \in 1 .. Iterations : \E p \in DOMAIN book : book[p] = <<t, k>>
                            /\ \A p, q \in DOMAIN book :
                                 p < q /\ book[p][1] = t /\ book[q][1] = t => book[p][2] < book[q][2]
      BY Zenon DEF NothingLeft
    <2> USE DEF Inv
    <2>1. target[t] \in Shard /\ taken[market][target[t]] \in Seq(Order)
      BY DEF TypeInv
    <2>2. PICK book \in Seq(Order) : book = taken[market][target[t]]
      BY <2>1
    <2>3. queue[target[t]] = <<>> /\ done[t] = Iterations
      BY <2>1 DEF SweepInv
    <2>4. Line(target[t]) = book
      BY <2>2, <2>3 DEF Line
    <2>5. DOMAIN book = 1 .. Len(book)
      OBVIOUS
    <2>6. \A k \in 1 .. Iterations : \E p \in DOMAIN book : book[p] = <<t, k>>
      BY <2>3, <2>4, <2>5, Zenon DEF LineInv
    <2>7. \A p, q \in DOMAIN book :
            p < q /\ book[p][1] = t /\ book[q][1] = t => book[p][2] < book[q][2]
      <3>1. \A p, q \in DOMAIN book :
              p < q /\ book[p][1] = book[q][1] => book[p][2] < book[q][2]
        BY <2>1, <2>4, <2>5, Zenon DEF LineInv
      <3> QED
        BY <3>1, Zenon
    <2> QED
      BY <2>2, <2>6, <2>7
  <1> QED
    BY <1>1, DrainerInvariant, PTL

=============================================================================

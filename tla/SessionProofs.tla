---------------------------- MODULE SessionProofs ----------------------------
(***************************************************************************)
(* The two ends of a connection. Session for any set of requests, frame     *)
(* length, number of requests and number of short reads: what the server    *)
(* decodes and answers, and what the client decodes of the answers. Codec,  *)
(* in the second half, for any widths of fields, symbols and numbers that   *)
(* fit: what is decoded is what was meant.                                  *)
(***************************************************************************)
EXTENDS Session, Codec, FiniteSetTheorems, SequenceTheorems,
        WellFoundedInduction, TLAPS

-----------------------------------------------------------------------------
(* Types *)

Msg == [type : {"A", "F", "J"}, about : Nat, code : Nat]

\* The cells of a message.
Size(m) == 1 + BodyBytes[m.type]

Typed ==
  /\ asked \in Seq(Request)
  /\ upstream \in Seq(Nat \X Nat)
  /\ open \in BOOLEAN
  /\ handler.step \in {"read", "submit"} /\ handler.request \in Nat
  /\ decoded \in Seq(Nat) /\ cuts \in Nat /\ queue \in Seq(Nat) /\ taken \in Seq(Nat)
  /\ pending \in [Writer -> Seq(Msg \X Nat)]
  /\ downstream \in Seq(Msg \X Nat)
  /\ written \in Seq(Msg)
  /\ overlapped \in BOOLEAN
  /\ body \in Nat
  /\ kind \in Msg \union {NoMessage}
  /\ heard \in Seq(Msg \union {NoMessage})
  /\ halted \in BOOLEAN

LEMMA SizeNat ==
  ASSUME NEW m \in Msg
  PROVE  /\ BodyBytes[m.type] \in Nat \ {0}
         /\ Size(m) \in Nat /\ Size(m) > 1
  BY DEF Msg, Size, BodyBytes

\* A function on 1 .. n is a sequence.
LEMMA FunctionIsSeq ==
  ASSUME NEW S, NEW n \in Nat, NEW f \in [1 .. n -> S]
  PROVE  f \in Seq(S) /\ Len(f) = n
  OBVIOUS

LEMMA BytesFacts ==
  ASSUME NEW m \in Msg
  PROVE  /\ Bytes(m) \in Seq(Msg \X Nat)
         /\ Len(Bytes(m)) = Size(m)
         /\ \A k \in 1 .. Size(m) : Bytes(m)[k] = <<m, k>>
  <1>1. Size(m) \in Nat /\ Bytes(m) = [k \in 1 .. Size(m) |-> <<m, k>>]
    BY SizeNat, Zenon DEF Bytes, Size
  <1> DEFINE f == [k \in 1 .. Size(m) |-> <<m, k>>]
  <1>2. f \in [1 .. Size(m) -> Msg \X Nat]
    <2>1. \A k \in 1 .. Size(m) : k \in Nat
      BY <1>1
    <2> QED
      BY <2>1
  <1>3. \A k \in 1 .. Size(m) : f[k] = <<m, k>>
    OBVIOUS
  <1> HIDE DEF f
  <1>4. f \in Seq(Msg \X Nat) /\ Len(f) = Size(m)
    BY <1>1, <1>2, FunctionIsSeq
  <1> QED
    BY <1>1, <1>3, <1>4 DEF f

\* The first n cells of a sequence, and the rest.
LEMMA CutFacts ==
  ASSUME NEW S, NEW q \in Seq(S), NEW n \in Nat, n <= Len(q)
  PROVE  /\ SubSeq(q, 1, n) \in Seq(S)
         /\ Len(SubSeq(q, 1, n)) = n
         /\ \A k \in 1 .. n : SubSeq(q, 1, n)[k] = q[k]
         /\ SubSeq(q, n + 1, Len(q)) \in Seq(S)
         /\ Len(SubSeq(q, n + 1, Len(q))) = Len(q) - n
         /\ \A k \in 1 .. Len(q) - n : SubSeq(q, n + 1, Len(q))[k] = q[n + k]
  OBVIOUS

LEMMA ConcatFacts ==
  ASSUME NEW S, NEW p \in Seq(S), NEW q \in Seq(S)
  PROVE  /\ p \o q \in Seq(S)
         /\ Len(p \o q) = Len(p) + Len(q)
         /\ \A k \in 1 .. Len(p) : (p \o q)[k] = p[k]
         /\ \A k \in 1 .. Len(q) : (p \o q)[Len(p) + k] = q[k]
  OBVIOUS

LEMMA AppendFacts ==
  ASSUME NEW S, NEW q \in Seq(S), NEW x
  PROVE  /\ Len(q) \in Nat
         /\ Len(Append(q, x)) = Len(q) + 1
         /\ \A k \in 1 .. Len(q) : Append(q, x)[k] = q[k]
         /\ Append(q, x)[Len(q) + 1] = x
  OBVIOUS

LEMMA SameSeq ==
  ASSUME NEW S, NEW p \in Seq(S), NEW q \in Seq(S), Len(p) = Len(q),
         \A k \in 1 .. Len(p) : p[k] = q[k]
  PROVE  p = q
  <1>1. p = [k \in 1 .. Len(p) |-> p[k]] /\ q = [k \in 1 .. Len(q) |-> q[k]]
    OBVIOUS
  <1>2. [k \in 1 .. Len(p) |-> p[k]] = [k \in 1 .. Len(q) |-> q[k]]
    OBVIOUS
  <1> QED
    BY <1>1, <1>2

LEMMA VerdictFacts ==
  ASSUME NEW r \in Request
  PROVE  /\ Verdict(r) \in {0, 100, 102, 103}
         /\ Verdict(r) = 0 => r.letter # "Z"
         /\ Verdict(r) = 0 /\ r.letter \in {"O", "U"} => r.price /\ r.qty
  <1>1. r.letter \in {"O", "U", "X", "Z"} /\ r.price \in BOOLEAN /\ r.qty \in BOOLEAN
    BY RequestAssumption
  <1>2. CASE r.letter \in {"O", "U"}
    BY <1>1, <1>2 DEF Verdict, simpleReject
  <1>3. CASE r.letter = "X"
    BY <1>1, <1>3 DEF Verdict, simpleReject
  <1>4. CASE r.letter = "Z"
    BY <1>1, <1>4 DEF Verdict, simpleReject
  <1> QED
    BY <1>1, <1>2, <1>3, <1>4

\* The answer to a request.
AnswerTo(d) ==
  [type |-> IF Verdict(d[2]) = 0 THEN "A" ELSE "J", about |-> d[1], code |-> Verdict(d[2])]

\* What readListener does with the first n bytes, decoded as d.
ReadAs(n, d) ==
  /\ n \in 1 .. FRAME /\ n <= Len(upstream)
  /\ cuts' = cuts + (IF n < FRAME THEN 1 ELSE 0)
  /\ upstream' = SubSeq(upstream, n + 1, Len(upstream))
  /\ d \in Decodings(n)
  /\ d[1] \in Nat /\ d[2] \in Request
  /\ d[1] # 0 => n = FRAME /\ upstream[1] = <<d[1], 1>> /\ d[2] = asked[d[1]]
  /\ AnswerTo(d) \in Msg
  /\ decoded' = Append(decoded, d[1])
  /\ pending' = [pending EXCEPT !["handler"] = Bytes(AnswerTo(d))]
  /\ handler' = [step |-> IF Verdict(d[2]) = 0 THEN "submit" ELSE "read",
                 request |-> d[1], letter |-> d[2].letter]

\* Cells on the way to the server belong to requests that were asked, and are
\* in the order of the stream.
Ordered ==
  /\ \A k \in 1 .. Len(upstream) : upstream[k][1] \in 1 .. Len(asked)
  /\ \A j, k \in 1 .. Len(upstream) :
       j < k => \/ upstream[j][1] < upstream[k][1]
                \/ upstream[j][1] = upstream[k][1] /\ upstream[j][2] < upstream[k][2]

LEMMA ReadShape ==
  ASSUME Typed, Ordered, readListener
  PROVE  \E n, d : ReadAs(n, d)
  <1>1. PICK n \in 1 .. FRAME :
          /\ n <= Len(upstream)
          /\ cuts' = cuts + (IF n < FRAME THEN 1 ELSE 0)
          /\ upstream' = SubSeq(upstream, n + 1, Len(upstream))
          /\ \E d \in Decodings(n) :
               /\ decoded' = Append(decoded, d[1])
               /\ pending' = [pending EXCEPT !["handler"] = Bytes(AnswerTo(d))]
               /\ handler' = [step |-> AfterAnswer(Verdict(d[2])),
                              request |-> d[1], letter |-> d[2].letter]
    BY Zenon DEF readListener, BufferSize, AnswerTo
  <1>2. PICK d \in Decodings(n) :
               /\ decoded' = Append(decoded, d[1])
               /\ pending' = [pending EXCEPT !["handler"] = Bytes(AnswerTo(d))]
               /\ handler' = [step |-> AfterAnswer(Verdict(d[2])),
                              request |-> d[1], letter |-> d[2].letter]
    BY <1>1
  <1>3. FRAME \in Nat \ {0}
    BY BoundAssumption
  <1>4. 1 \in 1 .. Len(upstream)
    BY <1>1 DEF Typed
  <1> DEFINE first == upstream[1]
  <1>5. first[1] \in 1 .. Len(asked) /\ first \in Nat \X Nat
    BY <1>4, SMTT(30) DEF Ordered, Typed
  <1>6. asked[first[1]] \in Request
    BY <1>5, SMTT(30) DEF Typed
  <1>7. /\ d[1] \in Nat /\ d[2] \in Request
        /\ d[1] # 0 => n = FRAME /\ first = <<d[1], 1>> /\ d[2] = asked[d[1]]
    <2>1. CASE n = FRAME /\ first[2] = 1
      <3>1. d = <<first[1], asked[first[1]]>>
        BY <2>1 DEF Decodings
      <3>2. first = <<first[1], first[2]>>
        BY <1>5
      <3> QED
        BY <1>5, <1>6, <2>1, <3>1, <3>2
    <2>2. CASE ~(n = FRAME /\ first[2] = 1)
      <3>1. d \in {0} \X {r \in Request : first[2] = 1 => r.letter = asked[first[1]].letter}
        BY <2>2, Zenon DEF Decodings
      <3> QED
        BY <3>1
    <2> QED
      BY <2>1, <2>2
  <1>8. AnswerTo(d) \in Msg
    BY <1>7, VerdictFacts DEF AnswerTo, Msg
  <1>9. AfterAnswer(Verdict(d[2])) = IF Verdict(d[2]) = 0 THEN "submit" ELSE "read"
    BY DEF AfterAnswer
  <1>10. ReadAs(n, d)
    BY <1>1, <1>2, <1>7, <1>8, <1>9 DEF ReadAs
  <1> QED
    BY <1>10

-----------------------------------------------------------------------------
(* What is left of a message *)

\* q is message m from its cell j on.
Left(q, m, j) ==
  /\ m \in Msg /\ j \in 1 .. Size(m)
  /\ Len(q) = Size(m) - j + 1
  /\ \A k \in 1 .. Len(q) : q[k] = <<m, j + k - 1>>

\* A writer has nothing to write, or what is left of one message; a message
\* that was begun is written.
Pieces ==
  \A w \in Writer :
    \/ pending[w] = <<>>
    \/ \E m \in Msg : \E j \in 1 .. Size(m) :
         Left(pending[w], m, j) /\ (j > 1 => m \in ToSet(written))

Basic == Typed /\ Ordered /\ Pieces

LEMMA BytesLeft ==
  ASSUME NEW m \in Msg
  PROVE  Left(Bytes(m), m, 1)
  <1>1. Size(m) \in Nat /\ Size(m) > 1
    BY SizeNat
  <1>2. Len(Bytes(m)) = Size(m) /\ \A k \in 1 .. Size(m) : Bytes(m)[k] = <<m, k>>
    BY BytesFacts
  <1>3. \A k \in 1 .. Size(m) : 1 + k - 1 = k
    BY <1>1
  <1>4. 1 \in 1 .. Size(m) /\ Size(m) = Size(m) - 1 + 1
    BY <1>1
  <1>5. \A k \in 1 .. Len(Bytes(m)) : Bytes(m)[k] = <<m, 1 + k - 1>>
    BY <1>2, <1>3
  <1> QED
    BY <1>2, <1>4, <1>5 DEF Left

\* Write(w) of the next n cells, where the writer was at cell j of message m.
WroteAs(w, n, m, j) ==
  /\ Left(pending[w], m, j)
  /\ j > 1 => m \in ToSet(written)
  /\ n \in 1 .. Len(pending[w])
  /\ Unfinished(w) <=> j > 1
  /\ downstream' = IF open THEN downstream \o SubSeq(pending[w], 1, n) ELSE downstream
  /\ written' = IF j > 1 THEN written ELSE Append(written, m)
  /\ pending' \in [Writer -> Seq(Msg \X Nat)]
  /\ pending'[w] = SubSeq(pending[w], n + 1, Len(pending[w]))
  /\ \A v \in Writer \ {w} : pending'[v] = pending[v]
  /\ n = Len(pending[w]) => pending'[w] = <<>>
  /\ n < Len(pending[w]) => Left(pending'[w], m, j + n)
  /\ m \in ToSet(written')

LEMMA ToSetAppend ==
  ASSUME NEW S, NEW q \in Seq(S), NEW x
  PROVE  ToSet(Append(q, x)) = ToSet(q) \union {x}
  <1>1. /\ Len(q) \in Nat
        /\ Len(Append(q, x)) = Len(q) + 1
        /\ \A k \in 1 .. Len(q) : Append(q, x)[k] = q[k]
        /\ Append(q, x)[Len(q) + 1] = x
    BY AppendFacts
  <1>2. DOMAIN q = 1 .. Len(q) /\ DOMAIN Append(q, x) = 1 .. Len(q) + 1
    OBVIOUS
  <1>3. \A k : k \in 1 .. Len(q) + 1 <=> k \in 1 .. Len(q) \/ k = Len(q) + 1
    BY <1>1
  <1> QED
    BY <1>1, <1>2, <1>3 DEF ToSet

LEMMA WriteShape ==
  ASSUME Basic, NEW w \in Writer, Write(w)
  PROVE  \E n, m, j : WroteAs(w, n, m, j)
  <1> USE DEF Basic
  <1>1. pending[w] # <<>>
    BY DEF Write
  <1>2. PICK m \in Msg : \E j \in 1 .. Size(m) :
               Left(pending[w], m, j) /\ (j > 1 => m \in ToSet(written))
    BY <1>1 DEF Pieces
  <1>3. PICK j \in 1 .. Size(m) :
               Left(pending[w], m, j) /\ (j > 1 => m \in ToSet(written))
    BY <1>2
  <1>4. PICK n \in 1 .. Len(pending[w]) :
          /\ downstream' = IF open THEN downstream \o SubSeq(pending[w], 1, n) ELSE downstream
          /\ pending' = [pending EXCEPT ![w] = SubSeq(pending[w], n + 1, Len(pending[w]))]
    BY Zenon DEF Write
  <1> DEFINE q == pending[w]
             rest == SubSeq(q, n + 1, Len(q))
  <1>5. q \in Seq(Msg \X Nat) /\ Len(q) \in Nat /\ n \in Nat /\ n <= Len(q)
    BY SMTT(30) DEF Typed
  <1>6. Size(m) \in Nat
    BY SizeNat
  <1>7. /\ rest \in Seq(Msg \X Nat) /\ Len(rest) = Len(q) - n
        /\ \A k \in 1 .. Len(q) - n : rest[k] = q[n + k]
    BY <1>5, CutFacts, SMTT(30)
  <1>8. /\ Len(q) = Size(m) - j + 1
        /\ \A k \in 1 .. Len(q) : q[k] = <<m, j + k - 1>>
    BY <1>3 DEF Left
  <1>9. q[1] = <<m, j>>
    <2>1. 1 \in 1 .. Len(q) /\ j + 1 - 1 = j
      BY <1>6, <1>8
    <2> QED
      BY <1>8, <2>1
  <1>10. Unfinished(w) <=> j > 1
    BY <1>1, <1>9 DEF Unfinished
  <1>11. written' = IF j > 1 THEN written ELSE Append(written, m)
    BY <1>9, <1>10 DEF Write
  <1>12. /\ pending' \in [Writer -> Seq(Msg \X Nat)]
         /\ pending'[w] = rest
         /\ \A v \in Writer \ {w} : pending'[v] = pending[v]
    BY <1>4, <1>7 DEF Typed
  <1>13. n = Len(q) => rest = <<>>
    BY <1>5, <1>7
  <1> HIDE DEF q, rest
  <1>14. ASSUME n < Len(q)
         PROVE  Left(rest, m, j + n)
    <2>1. j + n \in 1 .. Size(m) /\ Len(rest) = Size(m) - (j + n) + 1
      <3>1. j \in 1 .. Size(m) /\ n \in 1 .. Len(q)
        BY DEF q
      <3>2. Len(rest) = Len(q) - n /\ Len(q) = Size(m) - j + 1 /\ n < Len(q)
        BY <1>7, <1>8, <1>14
      <3>3. j \in Nat /\ n \in Nat /\ Size(m) \in Nat /\ Len(q) \in Nat /\ j > 0
        BY <1>5, <1>6, <3>1
      <3> DEFINE z == Size(m)
                 l == Len(q)
                 y == Len(rest)
      <3>4. y = l - n /\ l = z - j + 1 /\ n < l /\ z \in Nat /\ l \in Nat
        BY <3>2, <3>3
      <3> HIDE DEF z, l, y
      <3>5. j + n \in 1 .. z /\ y = z - (j + n) + 1
        BY <3>3, <3>4
      <3> QED
        BY <3>5 DEF z, y
    <2>2. ASSUME NEW k \in 1 .. Len(rest)
          PROVE  rest[k] = <<m, (j + n) + k - 1>>
      <3>1. n + k \in 1 .. Len(q) /\ k \in 1 .. Len(q) - n /\ j + (n + k) - 1 = (j + n) + k - 1
        BY <1>5, <1>7
      <3> QED
        BY <1>7, <1>8, <3>1
    <2> QED
      BY <2>1, <2>2 DEF Left
  <1>15. m \in ToSet(written')
    <2>1. written \in Seq(Msg)
      BY DEF Typed
    <2>2. CASE j > 1
      BY <1>3, <1>11, <2>2
    <2>3. CASE ~(j > 1)
      BY <1>11, <2>1, <2>3, ToSetAppend
    <2> QED
      BY <2>2, <2>3
  <1>16. WroteAs(w, n, m, j)
    BY <1>3, <1>4, <1>10, <1>11, <1>12, <1>13, <1>14, <1>15 DEF WroteAs, q, rest
  <1> QED
    BY <1>16

\* process_one's message, if there is one.
MarketSays(m) ==
  /\ m \in Msg
  /\ \/ m.type = "J" /\ m.code \in {101, 104}
     \/ m.type = "F" /\ m.code = 0

LEMMA ProcessShape ==
  ASSUME Typed, process_one
  PROVE  /\ taken' = Append(taken, Head(queue)) /\ queue' = Tail(queue) /\ queue # <<>>
         /\ \A w \in Writer \ {"market"} : pending'[w] = pending[w]
         /\ pending["market"] = <<>>
         /\ pending' \in [Writer -> Seq(Msg \X Nat)]
         /\ pending'["market"] = <<>>
              \/ \E m : MarketSays(m) /\ pending'["market"] = Bytes(m)
  <1>1. taken' = Append(taken, Head(queue)) /\ queue' = Tail(queue) /\ queue # <<>>
    BY DEF process_one
  <1>2. Head(queue) \in Nat /\ taken' \in Seq(Nat)
    BY <1>1, SMTT(30) DEF Typed
  <1>3. PICK b \in {<<>>}
              \union {Bytes([type |-> "J", about |-> Head(queue), code |-> c]) : c \in Refusal}
              \union {Bytes([type |-> "F", about |-> n, code |-> 0]) : n \in ToSet(taken')} :
          pending' = [pending EXCEPT !["market"] = IF Resolves THEN b ELSE <<>>]
    BY Zenon DEF process_one
  <1>4. b = <<>> \/ \E m : MarketSays(m) /\ b = Bytes(m)
    <2>1. ASSUME NEW c \in Refusal
          PROVE  MarketSays([type |-> "J", about |-> Head(queue), code |-> c])
      BY <1>2, RefusalAssumption DEF MarketSays, Msg
    <2>2. ASSUME NEW n \in ToSet(taken')
          PROVE  MarketSays([type |-> "F", about |-> n, code |-> 0])
      <3>1. n \in Nat
        BY <1>2 DEF ToSet
      <3> QED
        BY <3>1 DEF MarketSays, Msg
    <2> QED
      BY <1>3, <2>1, <2>2
  <1>5. b \in Seq(Msg \X Nat)
    <2>1. CASE b = <<>>
      BY <2>1
    <2>2. ASSUME NEW m, MarketSays(m), b = Bytes(m)
          PROVE  b \in Seq(Msg \X Nat)
      <3>1. m \in Msg
        BY <2>2 DEF MarketSays
      <3> QED
        BY <2>2, <3>1, BytesFacts
    <2> QED
      BY <1>4, <2>1, <2>2
  <1>6. "market" \in Writer /\ pending \in [Writer -> Seq(Msg \X Nat)]
    BY DEF Writer, Typed
  <1>7. /\ pending' \in [Writer -> Seq(Msg \X Nat)]
        /\ \A w \in Writer \ {"market"} : pending'[w] = pending[w]
        /\ pending'["market"] = IF Resolves THEN b ELSE <<>>
    BY <1>3, <1>5, <1>6
  <1>8. pending["market"] = <<>>
    BY DEF process_one
  <1> QED
    BY <1>1, <1>4, <1>7, <1>8

-----------------------------------------------------------------------------
(* Types, the order of the stream and the pieces are kept *)

LEMMA InitBasic == Init => Basic
  <1> SUFFICES ASSUME Init
               PROVE  Basic
    OBVIOUS
  <1>1. handler.step = "read" /\ handler.request = 0
    BY DEF Init, Reading
  <1>2. pending \in [Writer -> Seq(Msg \X Nat)] /\ \A w \in Writer : pending[w] = <<>>
    BY DEF Init
  <1>3. Len(upstream) = 0
    BY DEF Init
  <1>4. Typed
    <2>1. /\ asked \in Seq(Request) /\ upstream \in Seq(Nat \X Nat) /\ decoded \in Seq(Nat)
          /\ queue \in Seq(Nat) /\ taken \in Seq(Nat)
      BY DEF Init
    <2>2. downstream \in Seq(Msg \X Nat) /\ written \in Seq(Msg)
          /\ heard \in Seq(Msg \union {NoMessage})
      BY DEF Init
    <2>3. cuts \in Nat /\ body \in Nat /\ kind \in Msg \union {NoMessage}
      BY DEF Init
    <2>4. open \in BOOLEAN /\ overlapped \in BOOLEAN /\ halted \in BOOLEAN
      BY DEF Init
    <2> QED
      BY <1>1, <1>2, <2>1, <2>2, <2>3, <2>4 DEF Typed
  <1>5. Ordered
    BY <1>3 DEF Ordered
  <1>6. Pieces
    BY <1>2 DEF Pieces
  <1> QED
    BY <1>4, <1>5, <1>6 DEF Basic

\* A step that touches neither the stream to the server nor the writers.
LEMMA StreamsUntouched ==
  ASSUME Basic, Typed', UNCHANGED <<asked, upstream, pending, written>>
  PROVE  Basic'
  BY DEF Basic, Ordered, Pieces

LEMMA SendBasic ==
  ASSUME Basic, Send
  PROVE  Basic' /\ \E r \in Request : asked' = Append(asked, r)
  <1> USE DEF Basic
  <1>1. PICK r \in Request :
          /\ asked' = Append(asked, r)
          /\ upstream' = upstream \o [k \in 1 .. FRAME |-> <<Len(asked) + 1, k>>]
    BY DEF Send
  <1> DEFINE n == Len(asked)
             frame == [k \in 1 .. FRAME |-> <<n + 1, k>>]
  <1>2. n \in Nat /\ FRAME \in Nat /\ asked \in Seq(Request) /\ upstream \in Seq(Nat \X Nat)
    BY BoundAssumption DEF Typed
  <1>3. frame \in Seq(Nat \X Nat) /\ Len(frame) = FRAME /\ \A k \in 1 .. FRAME : frame[k] = <<n + 1, k>>
    <2>1. frame \in [1 .. FRAME -> Nat \X Nat]
      BY <1>2
    <2>2. \A k \in 1 .. FRAME : frame[k] = <<n + 1, k>>
      OBVIOUS
    <2> HIDE DEF frame
    <2> QED
      BY <1>2, <2>1, <2>2, FunctionIsSeq
  <1>4. asked' \in Seq(Request) /\ Len(asked') = n + 1
    BY <1>1, <1>2
  <1> HIDE DEF frame
  <1>5. upstream' = upstream \o frame
    BY <1>1 DEF frame
  <1>6. /\ upstream' \in Seq(Nat \X Nat)
        /\ Len(upstream') = Len(upstream) + FRAME
        /\ \A k \in 1 .. Len(upstream) : upstream'[k] = upstream[k]
        /\ \A k \in 1 .. FRAME : upstream'[Len(upstream) + k] = <<n + 1, k>>
    <2>1. /\ upstream \o frame \in Seq(Nat \X Nat)
          /\ Len(upstream \o frame) = Len(upstream) + Len(frame)
          /\ \A k \in 1 .. Len(upstream) : (upstream \o frame)[k] = upstream[k]
          /\ \A k \in 1 .. Len(frame) : (upstream \o frame)[Len(upstream) + k] = frame[k]
      <3>1. upstream \in Seq(Nat \X Nat) /\ frame \in Seq(Nat \X Nat)
        BY <1>2, <1>3
      <3> QED
        BY <3>1
    <2> QED
      BY <1>3, <1>5, <2>1
  <1>7. Typed'
    BY <1>4, <1>6 DEF Typed, Send, serverVars, socketVars, clientVars
  <1>8. ASSUME NEW k \in 1 .. Len(upstream')
        PROVE  \/ k \in 1 .. Len(upstream) /\ upstream'[k] = upstream[k] /\ upstream[k][1] \in 1 .. n
               \/ /\ k - Len(upstream) \in 1 .. FRAME
                  /\ upstream'[k] = <<n + 1, k - Len(upstream)>>
    <2>1. Len(upstream) \in Nat
      BY <1>2
    <2>2. k \in 1 .. Len(upstream) \/ k - Len(upstream) \in 1 .. FRAME
      BY <1>2, <1>6, <2>1
    <2>3. CASE k \in 1 .. Len(upstream)
      BY <1>6, <2>3 DEF Ordered
    <2>4. CASE k - Len(upstream) \in 1 .. FRAME
      <3>1. Len(upstream) + (k - Len(upstream)) = k
        BY <2>1
      <3> QED
        BY <1>6, <2>4, <3>1
    <2> QED
      BY <2>2, <2>3, <2>4
  <1>9. ASSUME NEW k \in 1 .. Len(upstream')
        PROVE  upstream'[k][1] \in 1 .. Len(asked')
    <2>1. n + 1 \in 1 .. n + 1 /\ \A x \in 1 .. n : x \in 1 .. n + 1
      BY <1>2
    <2>2. <<n + 1, k - Len(upstream)>>[1] = n + 1
      OBVIOUS
    <2>3. CASE upstream'[k] = upstream[k] /\ upstream[k][1] \in 1 .. n
      BY <1>4, <2>1, <2>3
    <2>4. CASE upstream'[k] = <<n + 1, k - Len(upstream)>>
      BY <1>4, <2>1, <2>2, <2>4
    <2> QED
      BY <1>8, <2>3, <2>4
  <1>10. ASSUME NEW j \in 1 .. Len(upstream'), NEW k \in 1 .. Len(upstream'), j < k
         PROVE  \/ upstream'[j][1] < upstream'[k][1]
                \/ upstream'[j][1] = upstream'[k][1] /\ upstream'[j][2] < upstream'[k][2]
    <2>1. CASE k \in 1 .. Len(upstream) /\ upstream'[k] = upstream[k]
      <3>1. j \in 1 .. Len(upstream)
        BY <1>10, <2>1
      <3>2. upstream'[j] = upstream[j]
        BY <1>6, <3>1
      <3>3. \/ upstream[j][1] < upstream[k][1]
            \/ upstream[j][1] = upstream[k][1] /\ upstream[j][2] < upstream[k][2]
        BY <1>10, <2>1, <3>1 DEF Ordered
      <3> QED
        BY <2>1, <3>2, <3>3
    <2>2. CASE upstream'[k] = <<n + 1, k - Len(upstream)>>
      <3>1. CASE upstream'[j] = upstream[j] /\ upstream[j][1] \in 1 .. n
        BY <1>2, <2>2, <3>1
      <3>2. CASE upstream'[j] = <<n + 1, j - Len(upstream)>>
        <4>1. Len(upstream) \in Nat
          BY <1>2
        <4>2. j - Len(upstream) < k - Len(upstream)
          BY <1>6, <1>10, <4>1
        <4> QED
          BY <2>2, <3>2, <4>2
      <3> QED
        BY <1>8, <3>1, <3>2
    <2> QED
      BY <1>8, <2>1, <2>2
  <1>11. Ordered'
    BY <1>9, <1>10 DEF Ordered
  <1>12. Pieces'
    BY DEF Pieces, Send, socketVars
  <1> QED
    BY <1>1, <1>7, <1>11, <1>12

LEMMA HearTypeBasic ==
  ASSUME Basic, HearType
  PROVE  Basic'
  <1> USE DEF Basic
  <1>1. downstream \in Seq(Msg \X Nat) /\ downstream # <<>> /\ downstream' = Tail(downstream)
    BY DEF HearType, Typed
  <1>2. Head(downstream)[1] \in Msg
    BY <1>1
  <1> DEFINE m == Head(downstream)[1]
  <1>3. body' \in Nat
    <2>1. BodyBytes[m.type] \in Nat
      BY <1>2, SizeNat
    <2>2. \A t \in {"A", "F", "J"} : BodyBytes[t] \in Nat
      BY DEF BodyBytes
    <2>3. \/ body' = BodyBytes[m.type]
          \/ body' \in {0} \union {BodyBytes[t] : t \in {"A", "F", "J"}}
      BY Zenon DEF HearType
    <2> QED
      BY <2>1, <2>2, <2>3
  <1>4. kind' \in Msg \union {NoMessage}
    BY <1>2 DEF HearType
  <1>5. downstream' \in Seq(Msg \X Nat)
    BY <1>1
  <1>6. Typed'
    BY <1>3, <1>4, <1>5 DEF Typed, HearType, serverVars
  <1> QED
    BY <1>6, StreamsUntouched DEF HearType

LEMMA HearBodyBasic ==
  ASSUME Basic, HearBody
  PROVE  Basic'
  <1> USE DEF Basic
  <1>1. /\ body \in Nat /\ body <= Len(downstream)
        /\ downstream' = SubSeq(downstream, body + 1, Len(downstream))
        /\ \E x \in {kind, NoMessage} : heard' = Append(heard, x)
    <2>1. PICK n \in BodyRead :
            /\ Len(downstream) >= n
            /\ heard' = Append(heard, IF kind # NoMessage /\ SubSeq(downstream, 1, n) = Tail(Bytes(kind))
                                      THEN kind ELSE NoMessage)
            /\ downstream' = SubSeq(downstream, n + 1, Len(downstream))
      BY Zenon DEF HearBody
    <2>2. n = body
      BY DEF BodyRead
    <2>3. body \in Nat /\ Len(downstream) \in Nat
      BY DEF Typed
    <2> QED
      BY <2>1, <2>2, <2>3
  <1>2. downstream' \in Seq(Msg \X Nat)
    BY <1>1, CutFacts DEF Typed
  <1>3. heard' \in Seq(Msg \union {NoMessage})
    BY <1>1 DEF Typed
  <1>4. Typed'
    BY <1>2, <1>3 DEF Typed, HearBody, serverVars
  <1> QED
    BY <1>4, StreamsUntouched DEF HearBody

LEMMA WriteBasic ==
  ASSUME Basic, NEW w \in Writer, Write(w)
  PROVE  Basic'
  <1> USE DEF Basic
  <1>1. PICK n, m, j : WroteAs(w, n, m, j)
    BY WriteShape
  <1>2. m \in Msg /\ j \in 1 .. Size(m) /\ Size(m) \in Nat
    BY <1>1, SizeNat DEF WroteAs, Left
  <1>3. written' \in Seq(Msg)
    BY <1>1, <1>2 DEF WroteAs, Typed
  <1>4. downstream' \in Seq(Msg \X Nat)
    <2>1. SubSeq(pending[w], 1, n) \in Seq(Msg \X Nat)
      <3>1. pending[w] \in Seq(Msg \X Nat) /\ n \in Nat /\ n <= Len(pending[w])
        BY <1>1 DEF WroteAs, Typed
      <3> QED
        BY <3>1, CutFacts
    <2>2. downstream \in Seq(Msg \X Nat)
      BY DEF Typed
    <2> QED
      BY <1>1, <2>1, <2>2, ConcatFacts DEF WroteAs
  <1>5. Typed'
    <2>1. overlapped' \in BOOLEAN
      <3>1. overlapped' = (overlapped \/ \E v \in Writer \ {w} : Unfinished(v))
        BY DEF Write
      <3> QED
        BY <3>1, Zenon DEF Typed
    <2> QED
      BY <1>1, <1>3, <1>4, <2>1 DEF Typed, Write, serverVars, clientVars, WroteAs
  <1>6. Ordered'
    BY DEF Ordered, Write
  <1>7. ASSUME NEW v \in Writer
        PROVE  \/ pending'[v] = <<>>
               \/ \E l \in Msg : \E k \in 1 .. Size(l) :
                    Left(pending'[v], l, k) /\ (k > 1 => l \in ToSet(written'))
    <2>1. CASE v = w
      <3>1. n \in 1 .. Len(pending[w]) /\ Len(pending[w]) \in Nat
        BY <1>1 DEF WroteAs, Typed
      <3>2. CASE n = Len(pending[w])
        BY <1>1, <2>1, <3>2 DEF WroteAs
      <3>3. CASE n < Len(pending[w])
        <4>1. Left(pending'[w], m, j + n) /\ m \in ToSet(written')
          BY <1>1, <3>3 DEF WroteAs
        <4>2. j + n \in 1 .. Size(m)
          BY <4>1 DEF Left
        <4> QED
          BY <1>2, <2>1, <4>1, <4>2
      <3> QED
        BY <3>1, <3>2, <3>3
    <2>2. CASE v # w
      <3>1. pending'[v] = pending[v]
        BY <1>1, <2>2 DEF WroteAs
      <3>2. ToSet(written) \subseteq ToSet(written')
        <4>1. written' = written \/ written' = Append(written, m)
          BY <1>1 DEF WroteAs
        <4>2. written \in Seq(Msg)
          BY DEF Typed
        <4>3. CASE written' = Append(written, m)
          <5>1. ToSet(written') = ToSet(written) \union {m}
            BY <4>2, <4>3, ToSetAppend
          <5> QED
            BY <5>1
        <4>4. CASE written' = written
          BY <4>4
        <4> QED
          BY <4>1, <4>3, <4>4
      <3>3. CASE pending[v] = <<>>
        BY <3>1, <3>3
      <3>4. CASE pending[v] # <<>>
        <4>1. PICK l \in Msg : \E k \in 1 .. Size(l) :
                     Left(pending[v], l, k) /\ (k > 1 => l \in ToSet(written))
          BY <3>4 DEF Pieces
        <4>2. PICK k \in 1 .. Size(l) :
                     Left(pending[v], l, k) /\ (k > 1 => l \in ToSet(written))
          BY <4>1
        <4>3. Left(pending'[v], l, k) /\ (k > 1 => l \in ToSet(written'))
          BY <3>1, <3>2, <4>2
        <4> QED
          BY <4>3
      <3> QED
        BY <3>3, <3>4
    <2> QED
      BY <2>1, <2>2
  <1>8. Pieces'
    BY <1>7 DEF Pieces
  <1> QED
    BY <1>5, <1>6, <1>8

\* A writer that takes up a new message keeps the pieces.
LEMMA NewPieces ==
  ASSUME Pieces, written' = written, NEW w \in Writer,
         \A v \in Writer \ {w} : pending'[v] = pending[v],
         pending'[w] = <<>> \/ \E m \in Msg : pending'[w] = Bytes(m)
  PROVE  Pieces'
  <1> SUFFICES ASSUME NEW v \in Writer
               PROVE  \/ pending'[v] = <<>>
                      \/ \E l \in Msg : \E k \in 1 .. Size(l) :
                           Left(pending'[v], l, k) /\ (k > 1 => l \in ToSet(written))
    BY DEF Pieces
  <1>1. CASE v = w
    <2>1. ASSUME NEW m \in Msg, pending'[w] = Bytes(m)
          PROVE  \E k \in 1 .. Size(m) :
                   Left(pending'[w], m, k) /\ (k > 1 => m \in ToSet(written))
      <3>1. Left(pending'[w], m, 1) /\ 1 \in 1 .. Size(m) /\ ~(1 > 1)
        BY <2>1, BytesLeft DEF Left
      <3> QED
        BY <3>1
    <2> QED
      BY <1>1, <2>1
  <1>2. CASE v # w
    BY <1>2 DEF Pieces
  <1> QED
    BY <1>1, <1>2

LEMMA ReadBasic ==
  ASSUME Basic, readListener
  PROVE  Basic'
  <1> USE DEF Basic
  <1>1. PICK n, d : ReadAs(n, d)
    BY ReadShape
  <1>2. upstream \in Seq(Nat \X Nat) /\ n \in Nat /\ n <= Len(upstream) /\ Len(upstream) \in Nat
    <2>1. n \in 1 .. FRAME /\ n <= Len(upstream) /\ FRAME \in Nat
      BY <1>1, BoundAssumption DEF ReadAs
    <2> QED
      BY <2>1 DEF Typed
  <1>3. /\ upstream' \in Seq(Nat \X Nat)
        /\ Len(upstream') = Len(upstream) - n
        /\ \A k \in 1 .. Len(upstream) - n : upstream'[k] = upstream[n + k]
    BY <1>1, <1>2, CutFacts, ZenonT(40) DEF ReadAs
  <1>4. Bytes(AnswerTo(d)) \in Seq(Msg \X Nat)
    BY <1>1, BytesFacts DEF ReadAs
  <1>5. /\ pending' \in [Writer -> Seq(Msg \X Nat)]
        /\ \A v \in Writer \ {"handler"} : pending'[v] = pending[v]
        /\ pending'["handler"] = Bytes(AnswerTo(d))
    <2>1. pending \in [Writer -> Seq(Msg \X Nat)] /\ "handler" \in Writer
      BY DEF Typed, Writer
    <2>2. pending' = [pending EXCEPT !["handler"] = Bytes(AnswerTo(d))]
      BY <1>1 DEF ReadAs
    <2> QED
      BY <1>4, <2>1, <2>2
  <1>6. Typed'
    <2>1. handler'.step \in {"read", "submit"} /\ handler'.request \in Nat
      BY <1>1 DEF ReadAs
    <2>2. cuts' \in Nat
      <3>1. cuts \in Nat /\ cuts' = cuts + (IF n < FRAME THEN 1 ELSE 0)
        BY <1>1 DEF ReadAs, Typed
      <3> QED
        BY <3>1
    <2>3. decoded' \in Seq(Nat)
      BY <1>1 DEF ReadAs, Typed
    <2> QED
      BY <1>3, <1>5, <2>1, <2>2, <2>3 DEF Typed, readListener, clientVars
  <1>7. Ordered'
    <2>1. \A k \in 1 .. Len(upstream') :
            n + k \in 1 .. Len(upstream) /\ upstream'[k] = upstream[n + k]
      <3> DEFINE a == Len(upstream)
                 b == Len(upstream')
      <3>1. a \in Nat /\ b = a - n /\ \A k \in 1 .. a - n : upstream'[k] = upstream[n + k]
        BY <1>2, <1>3
      <3> HIDE DEF a, b
      <3>2. \A k \in 1 .. b : n + k \in 1 .. a /\ k \in 1 .. a - n
        BY <1>2, <3>1
      <3>3. \A k \in 1 .. b : n + k \in 1 .. a /\ upstream'[k] = upstream[n + k]
        BY <3>1, <3>2
      <3> QED
        BY <3>3 DEF a, b
    <2>2. \A j, k \in 1 .. Len(upstream') : j < k => n + j < n + k
      BY <1>2, <1>3
    <2>3. asked' = asked
      BY DEF readListener
    <2>4. \A k \in 1 .. Len(upstream') : upstream'[k][1] \in 1 .. Len(asked')
      BY <2>1, <2>3 DEF Ordered
    <2>5. ASSUME NEW j \in 1 .. Len(upstream'), NEW k \in 1 .. Len(upstream'), j < k
          PROVE  \/ upstream'[j][1] < upstream'[k][1]
                 \/ upstream'[j][1] = upstream'[k][1] /\ upstream'[j][2] < upstream'[k][2]
      <3>1. n + j \in 1 .. Len(upstream) /\ n + k \in 1 .. Len(upstream) /\ n + j < n + k
        BY <2>1, <2>2, <2>5
      <3>2. upstream'[j] = upstream[n + j] /\ upstream'[k] = upstream[n + k]
        BY <2>1
      <3> QED
        BY <3>1, <3>2 DEF Ordered
    <2> QED
      BY <2>4, <2>5 DEF Ordered
  <1>8. Pieces'
    <2>1. AnswerTo(d) \in Msg /\ written' = written /\ "handler" \in Writer
      BY <1>1 DEF ReadAs, readListener, Writer
    <2> QED
      BY <1>5, <2>1, NewPieces
  <1> QED
    BY <1>6, <1>7, <1>8

LEMMA SubmitBasic ==
  ASSUME Basic, submit_order
  PROVE  Basic'
  <1>1. Typed'
    BY DEF Basic, Typed, submit_order, socketVars, clientVars, Reading
  <1> QED
    BY <1>1, StreamsUntouched DEF submit_order, socketVars

LEMMA ProcessBasic ==
  ASSUME Basic, process_one
  PROVE  Basic'
  <1> USE DEF Basic
  <1>1. /\ taken' = Append(taken, Head(queue)) /\ queue' = Tail(queue) /\ queue # <<>>
        /\ \A w \in Writer \ {"market"} : pending'[w] = pending[w]
        /\ pending' \in [Writer -> Seq(Msg \X Nat)]
        /\ pending'["market"] = <<>>
             \/ \E m : MarketSays(m) /\ pending'["market"] = Bytes(m)
    BY ProcessShape
  <1>2. pending'["market"] = <<>> \/ \E m \in Msg : pending'["market"] = Bytes(m)
    BY <1>1 DEF MarketSays
  <1>3. taken' \in Seq(Nat) /\ queue' \in Seq(Nat)
    <2>1. queue \in Seq(Nat) /\ taken \in Seq(Nat) /\ queue # <<>>
      BY <1>1 DEF Typed
    <2>2. Head(queue) \in Nat /\ Tail(queue) \in Seq(Nat)
      BY <2>1
    <2>3. Append(taken, Head(queue)) \in Seq(Nat)
      BY <2>1, <2>2
    <2> QED
      BY <1>1, <2>2, <2>3
  <1>4. Typed'
    BY <1>1, <1>3 DEF Typed, process_one, clientVars
  <1>5. Ordered'
    BY ZenonT(40) DEF Ordered, process_one
  <1>6. Pieces'
    <2>1. written' = written /\ "market" \in Writer
      BY DEF process_one, Writer
    <2> QED
      BY <1>1, <1>2, <2>1, NewPieces
  <1> QED
    BY <1>4, <1>5, <1>6

LEMMA QuietBasic ==
  ASSUME Basic, Leave \/ ReadError \/ (\E w \in Writer : WriteThrows(w)) \/ UNCHANGED vars
  PROVE  Basic'
  <1>1. /\ UNCHANGED <<asked, upstream, serverVars, socketVars, clientVars>>
        /\ open' \in BOOLEAN /\ halted' \in BOOLEAN
    BY DEF Basic, Typed, Leave, ReadError, WriteThrows, vars
  <1>2. Typed'
    BY <1>1 DEF Basic, Typed, serverVars, socketVars, clientVars
  <1> QED
    BY <1>1, <1>2, StreamsUntouched DEF socketVars

LEMMA NextBasic == Basic /\ [Next]_vars => Basic'
  <1> SUFFICES ASSUME Basic, [Next]_vars
               PROVE  Basic'
    OBVIOUS
  <1>1. CASE Send
    BY <1>1, SendBasic
  <1>2. CASE HearType
    BY <1>2, HearTypeBasic
  <1>3. CASE HearBody
    BY <1>3, HearBodyBasic
  <1>4. CASE readListener
    BY <1>4, ReadBasic
  <1>5. CASE submit_order
    BY <1>5, SubmitBasic
  <1>6. CASE process_one
    BY <1>6, ProcessBasic
  <1>7. ASSUME NEW w \in Writer, Write(w)
        PROVE  Basic'
    BY <1>7, WriteBasic
  <1>8. CASE Leave \/ ReadError \/ (\E w \in Writer : WriteThrows(w)) \/ UNCHANGED vars
    BY <1>8, QuietBasic
  <1> QED
    BY <1>1, <1>2, <1>3, <1>4, <1>5, <1>6, <1>7, <1>8 DEF Next

-----------------------------------------------------------------------------
(***************************************************************************)
(* What the server decodes. Until a read is cut short, what it has not read *)
(* are the frames of the requests after those it decoded, each where its    *)
(* number puts it.                                                         *)
(***************************************************************************)

Framed(a, d, u) ==
  /\ d <= a
  /\ Len(u) = (a - d) * FRAME
  /\ \A r \in 1 .. a - d : \A k \in 1 .. FRAME : u[(r - 1) * FRAME + k] = <<d + r, k>>

InStep ==
  cuts = 0 =>
    /\ \A k \in 1 .. Len(decoded) : decoded[k] = k
    /\ Framed(Len(asked), Len(decoded), upstream)

LEMMA Products ==
  ASSUME NEW F \in Nat \ {0}, NEW r \in Nat
  PROVE  /\ r * F \in Nat
         /\ (r + 1) * F = r * F + F
         /\ r * F = 0 => r = 0
         /\ 0 * F = 0
         /\ \A s \in Nat : s < r => s * F + F <= r * F
  <1>1. r * F \in Nat /\ (r + 1) * F = r * F + F /\ 0 * F = 0
    OBVIOUS
  <1>2. ASSUME NEW s \in Nat, s < r
        PROVE  s * F + F <= r * F
    <2>1. PICK e \in Nat : r = s + 1 + e
      <3>1. r - s - 1 \in Nat /\ r = s + 1 + (r - s - 1)
        BY <1>2
      <3> QED
        BY <3>1
    <2>2. r * F = s * F + F + e * F /\ e * F \in Nat /\ s * F \in Nat
      BY <2>1
    <2> QED
      BY <2>2
  <1>3. r * F = 0 => r = 0
    <2> SUFFICES ASSUME r # 0
                 PROVE  r * F # 0
      OBVIOUS
    <2>1. 0 * F + F <= r * F
      BY <1>2
    <2> QED
      BY <1>1, <2>1
  <1> QED
    BY <1>1, <1>2, <1>3

\* The frame of one more request.
LEMMA SendFramed ==
  ASSUME NEW a \in Nat, NEW d \in Nat, NEW u \in Seq(Nat \X Nat), Framed(a, d, u),
         NEW f \in Seq(Nat \X Nat), Len(f) = FRAME, \A k \in 1 .. FRAME : f[k] = <<a + 1, k>>
  PROVE  Framed(a + 1, d, u \o f)
  <1> DEFINE R == a - d
             v == u \o f
  <1>1. FRAME \in Nat \ {0} /\ R \in Nat /\ d + (R + 1) = a + 1 /\ (a + 1) - d = R + 1
    BY BoundAssumption DEF Framed
  <1>2. Len(u) = R * FRAME /\ Len(u) \in Nat
    BY DEF Framed
  <1>3. (R + 1) * FRAME = R * FRAME + FRAME /\ R * FRAME \in Nat
    BY <1>1, Products
  <1>4. /\ Len(v) = Len(u) + FRAME
        /\ \A k \in 1 .. Len(u) : v[k] = u[k]
        /\ \A k \in 1 .. FRAME : v[Len(u) + k] = f[k]
    <2>1. Len(u \o f) = Len(u) + Len(f)
      BY ConcatFacts
    <2>2. \A k \in 1 .. Len(u) : (u \o f)[k] = u[k]
      BY ConcatFacts
    <2>3. \A k \in 1 .. Len(f) : (u \o f)[Len(u) + k] = f[k]
      BY ConcatFacts
    <2> QED
      BY <2>1, <2>2, <2>3
  <1>5. \A r \in 1 .. R : \A k \in 1 .. FRAME : u[(r - 1) * FRAME + k] = <<d + r, k>>
    BY DEF Framed
  <1> HIDE DEF R, v
  <1>6. ASSUME NEW r \in 1 .. R + 1, NEW k \in 1 .. FRAME
        PROVE  v[(r - 1) * FRAME + k] = <<d + r, k>>
    <2>1. CASE r = R + 1
      <3>1. r - 1 = R
        BY <1>1, <2>1
      <3>2. v[R * FRAME + k] = f[k]
        BY <1>2, <1>4
      <3>3. f[k] = <<d + r, k>>
        BY <1>1, <2>1
      <3> QED
        BY <3>1, <3>2, <3>3
    <2>2. CASE r # R + 1
      <3>1. r \in 1 .. R /\ r - 1 \in Nat /\ r - 1 < R
        BY <1>1, <2>2
      <3>2. (r - 1) * FRAME + FRAME <= R * FRAME /\ (r - 1) * FRAME \in Nat
        BY <1>1, <3>1, Products
      <3> DEFINE x == (r - 1) * FRAME
      <3>3. x \in Nat /\ x + FRAME <= Len(u)
        BY <1>2, <3>2
      <3> HIDE DEF x
      <3>4. x + k \in 1 .. Len(u)
        BY <1>1, <1>2, <3>3
      <3>5. v[x + k] = u[x + k]
        BY <1>4, <3>4
      <3>6. u[x + k] = <<d + r, k>>
        BY <1>5, <3>1 DEF x
      <3>7. v[x + k] = <<d + r, k>>
        BY <3>5, <3>6
      <3> QED
        BY <3>7 DEF x
    <2> QED
      BY <2>1, <2>2
  <1>7. Len(v) = (R + 1) * FRAME
    BY <1>2, <1>3, <1>4
  <1>8. d <= a + 1
    BY DEF Framed
  <1>9. Len(v) = ((a + 1) - d) * FRAME
    BY <1>1, <1>7
  <1>10. \A r \in 1 .. (a + 1) - d : \A k \in 1 .. FRAME : v[(r - 1) * FRAME + k] = <<d + r, k>>
    BY <1>1, <1>6
  <1> QED
    BY <1>8, <1>9, <1>10 DEF Framed, v

\* The first frame read: the next request's.
LEMMA ReadFramed ==
  ASSUME NEW a \in Nat, NEW d \in Nat, NEW u \in Seq(Nat \X Nat), Framed(a, d, u),
         FRAME <= Len(u),
         NEW v \in Seq(Nat \X Nat), Len(v) = Len(u) - FRAME,
         \A k \in 1 .. Len(u) - FRAME : v[k] = u[FRAME + k]
  PROVE  u[1] = <<d + 1, 1>> /\ Framed(a, d + 1, v)
  <1> DEFINE R == a - d
  <1>1. FRAME \in Nat \ {0} /\ R \in Nat /\ d <= a
    BY BoundAssumption DEF Framed
  <1>2. /\ Len(u) = R * FRAME /\ Len(u) \in Nat
        /\ \A r \in 1 .. R : \A k \in 1 .. FRAME : u[(r - 1) * FRAME + k] = <<d + r, k>>
    BY DEF Framed
  <1>3. R # 0
    <2>1. 0 * FRAME = 0
      BY <1>1
    <2> QED
      BY <1>1, <1>2, <2>1
  <1>4. R - 1 \in Nat /\ 1 \in 1 .. R /\ a - (d + 1) = R - 1 /\ d + 1 <= a
    BY <1>1, <1>3
  <1> HIDE DEF R
  <1>5. u[1] = <<d + 1, 1>>
    <2>1. 1 \in 1 .. FRAME /\ (1 - 1) * FRAME + 1 = 1
      BY <1>1
    <2> QED
      BY <1>2, <1>4, <2>1, ZenonT(40)
  <1>6. R * FRAME = (R - 1) * FRAME + FRAME /\ (R - 1) * FRAME \in Nat
    <2>1. (R - 1) + 1 = R
      BY <1>1
    <2> QED
      BY <1>1, <1>4, <2>1, Products
  <1>7. Len(v) = (R - 1) * FRAME
    BY <1>1, <1>2, <1>6
  <1>8. ASSUME NEW r \in 1 .. R - 1, NEW k \in 1 .. FRAME
        PROVE  v[(r - 1) * FRAME + k] = <<(d + 1) + r, k>>
    <2> DEFINE x == (r - 1) * FRAME
    <2>1. r - 1 \in Nat /\ r - 1 < R - 1 /\ (r - 1) + 1 = r /\ r + 1 \in 1 .. R /\ (r + 1) - 1 = r
      BY <1>1, <1>4
    <2>2. x \in Nat /\ r * FRAME = x + FRAME
      BY <1>1, <2>1, Products
    <2>3. x + FRAME <= (R - 1) * FRAME
      BY <1>1, <1>4, <2>1, Products
    <2>4. u[r * FRAME + k] = <<d + (r + 1), k>>
      BY <1>2, <2>1
    <2> HIDE DEF x
    <2>5. x + k \in 1 .. Len(u) - FRAME
      <3>1. Len(u) - FRAME = (R - 1) * FRAME
        BY <1>1, <1>2, <1>6
      <3> QED
        BY <1>1, <1>6, <2>2, <2>3, <3>1
    <2>6. v[x + k] = u[FRAME + (x + k)] /\ FRAME + (x + k) = r * FRAME + k
      BY <1>1, <2>2, <2>5
    <2>7. d + (r + 1) = (d + 1) + r
      BY <2>1
    <2>8. v[x + k] = <<(d + 1) + r, k>>
      BY <2>4, <2>6, <2>7
    <2> QED
      BY <2>8 DEF x
  <1>9. Framed(a, d + 1, v)
    <2>1. Len(v) = (a - (d + 1)) * FRAME
      BY <1>4, <1>7
    <2>2. \A r \in 1 .. a - (d + 1) : \A k \in 1 .. FRAME :
            v[(r - 1) * FRAME + k] = <<(d + 1) + r, k>>
      BY <1>4, <1>8
    <2> QED
      BY <1>4, <2>1, <2>2 DEF Framed
  <1> QED
    BY <1>5, <1>9

LEMMA InitInStep == Init => InStep
  <1> SUFFICES ASSUME Init
               PROVE  InStep
    OBVIOUS
  <1>1. Len(asked) = 0 /\ Len(decoded) = 0 /\ Len(upstream) = 0
    BY DEF Init
  <1>2. (0 - 0) * FRAME = 0
    BY BoundAssumption
  <1>3. Framed(0, 0, upstream)
    BY <1>1, <1>2 DEF Framed
  <1> QED
    BY <1>1, <1>3 DEF InStep

LEMMA NextInStep ==
  ASSUME Basic, InStep, [Next]_vars
  PROVE  InStep'
  <1> USE DEF Basic
  <1> DEFINE a == Len(asked)
             d == Len(decoded)
  <1>1. a \in Nat /\ d \in Nat /\ cuts \in Nat /\ upstream \in Seq(Nat \X Nat)
    BY DEF Typed
  <1>2. CASE Send
    <2> SUFFICES ASSUME cuts' = 0
                 PROVE  (\A k \in 1 .. Len(decoded') : decoded'[k] = k)
                          /\ Framed(Len(asked'), Len(decoded'), upstream')
      BY DEF InStep
    <2>1. cuts' = cuts /\ decoded' = decoded
      BY <1>2 DEF Send, serverVars
    <2>2. Len(asked') = a + 1
      <3>1. asked \in Seq(Request) /\ \E r \in Request : asked' = Append(asked, r)
        BY <1>2, SendBasic DEF Typed
      <3> QED
        BY <3>1
    <2> DEFINE f == [k \in 1 .. FRAME |-> <<a + 1, k>>]
    <2>3. upstream' = upstream \o f
      BY <1>2 DEF Send
    <2>4. f \in Seq(Nat \X Nat) /\ Len(f) = FRAME /\ \A k \in 1 .. FRAME : f[k] = <<a + 1, k>>
      <3>1. FRAME \in Nat
        BY BoundAssumption
      <3>2. f \in [1 .. FRAME -> Nat \X Nat]
        BY <1>1, <3>1
      <3>3. \A k \in 1 .. FRAME : f[k] = <<a + 1, k>>
        OBVIOUS
      <3> HIDE DEF f
      <3> QED
        BY <3>1, <3>2, <3>3, FunctionIsSeq
    <2>5. (\A k \in 1 .. d : decoded[k] = k) /\ Framed(a, d, upstream)
      BY <2>1 DEF InStep
    <2> HIDE DEF a, d, f
    <2>6. Framed(a + 1, d, upstream \o f)
      BY <1>1, <2>4, <2>5, SendFramed
    <2> QED
      BY <2>1, <2>2, <2>3, <2>5, <2>6 DEF d
  <1>3. CASE readListener
    <2> SUFFICES ASSUME cuts' = 0
                 PROVE  (\A k \in 1 .. Len(decoded') : decoded'[k] = k)
                          /\ Framed(Len(asked'), Len(decoded'), upstream')
      BY DEF InStep
    <2>1. PICK n, c : ReadAs(n, c)
      BY <1>3, ReadShape
    <2>2. n = FRAME /\ cuts = 0 /\ n \in Nat /\ n <= Len(upstream)
      <3>1. /\ n \in 1 .. FRAME /\ cuts' = cuts + (IF n < FRAME THEN 1 ELSE 0)
            /\ n <= Len(upstream) /\ FRAME \in Nat
        BY <2>1, BoundAssumption DEF ReadAs
      <3> QED
        BY <1>1, <3>1
    <2>3. (\A k \in 1 .. d : decoded[k] = k) /\ Framed(a, d, upstream)
      BY <2>2 DEF InStep
    <2>4. /\ upstream' \in Seq(Nat \X Nat)
          /\ Len(upstream') = Len(upstream) - FRAME
          /\ \A k \in 1 .. Len(upstream) - FRAME : upstream'[k] = upstream[FRAME + k]
      <3>1. upstream' = SubSeq(upstream, FRAME + 1, Len(upstream))
        BY <2>1, <2>2 DEF ReadAs
      <3> QED
        BY <1>1, <2>2, <3>1, CutFacts, ZenonT(40)
    <2> HIDE DEF a, d
    <2>5. upstream[1] = <<d + 1, 1>> /\ Framed(a, d + 1, upstream')
      BY <1>1, <2>2, <2>3, <2>4, ReadFramed
    <2>6. c[1] = d + 1
      <3>1. c \in {<<upstream[1][1], asked[upstream[1][1]]>>}
        BY <2>1, <2>2, <2>5 DEF ReadAs, Decodings
      <3> QED
        BY <2>5, <3>1
    <2>7. asked' = asked /\ decoded' = Append(decoded, d + 1)
      BY <1>3, <2>1, <2>6 DEF ReadAs, readListener
    <2>8. Len(decoded') = d + 1 /\ \A k \in 1 .. d + 1 : decoded'[k] = k
      <3>1. decoded \in Seq(Nat)
        BY DEF Typed
      <3>2. /\ Len(decoded') = d + 1
            /\ \A k \in 1 .. d : decoded'[k] = decoded[k]
            /\ decoded'[d + 1] = d + 1
        BY <2>7, <3>1, AppendFacts DEF d
      <3>3. \A k \in 1 .. d + 1 : k \in 1 .. d \/ k = d + 1
        BY <1>1
      <3> QED
        BY <2>3, <3>2, <3>3
    <2> QED
      BY <2>5, <2>7, <2>8 DEF a
  <1>4. CASE UNCHANGED <<asked, upstream, decoded, cuts>>
    BY <1>4 DEF InStep
  <1>5. ASSUME ~Send, ~readListener
        PROVE  UNCHANGED <<asked, upstream, decoded, cuts>>
    BY <1>5 DEF Next, vars, serverVars, Leave, HearType, HearBody, submit_order, ReadError,
                process_one, Write, WriteThrows
  <1> QED
    BY <1>2, <1>3, <1>4, <1>5

\* As long as no read was cut short, the server decodes what was sent, each
\* request once and in order.
THEOREM RequestsAsSent == Spec => []DecodedAsSent
  <1>1. Basic /\ InStep => DecodedAsSent
    BY DEF InStep, DecodedAsSent
  <1>2. (Basic /\ InStep) /\ [Next]_vars => (Basic /\ InStep)'
    BY NextBasic, NextInStep
  <1> QED
    BY <1>1, <1>2, InitBasic, InitInStep, PTL DEF Spec

-----------------------------------------------------------------------------
(***************************************************************************)
(* The answers. A request's first byte is read once, so it is decoded under *)
(* its number once at most; its answer follows from what was asked.         *)
(***************************************************************************)

\* The message that a writer has begun or is to begin.
Due(w) == {cell[1] : cell \in ToSet(pending[w])}

\* What the handler has said, or is about to say, among other messages.
Out == ToSet(written) \union Due("handler")

FromHandler(m) == m.type = "A" \/ m.code \in {100, 102, 103}

Reply(n) == AnswerTo(<<n, asked[n]>>)

\* The requests decoded, and those of them that went on to the market thread.
Known == ToSet(decoded) \ {0}
Submitted == (ToSet(queue) \union ToSet(taken)) \ {0}

Once ==
  /\ \A n \in Known :
       /\ n \in 1 .. Len(asked)
       /\ Reply(n) \in Out
       /\ \A k \in 1 .. Len(upstream) : upstream[k] # <<n, 1>>
  /\ \A m \in Out :
       FromHandler(m) /\ m.about # 0 => m.about \in 1 .. Len(asked) /\ m = Reply(m.about)
  /\ \A m \in Due("market") : ~FromHandler(m)
  /\ handler.step = "submit" /\ handler.request # 0 =>
       handler.request \in Known /\ Verdict(asked[handler.request]) = 0
  /\ \A n \in Submitted :
       n \in Known /\ Verdict(asked[n]) = 0 /\ Reply(n) \notin Due("handler")

\* The cells of one message are of one message.
LEMMA LeftOne ==
  ASSUME NEW q \in Seq(Msg \X Nat), NEW m, NEW j, Left(q, m, j)
  PROVE  {cell[1] : cell \in ToSet(q)} = {m}
  <1>1. Size(m) \in Nat /\ j \in 1 .. Size(m)
    BY SizeNat DEF Left
  <1>2. Len(q) = Size(m) - j + 1 /\ \A k \in 1 .. Len(q) : q[k] = <<m, j + k - 1>>
    BY DEF Left
  <1>3. DOMAIN q = 1 .. Len(q) /\ 1 \in 1 .. Len(q)
    BY <1>1, <1>2
  <1>4. \A k \in 1 .. Len(q) : q[k][1] = m
    BY <1>2
  <1>5. ToSet(q) = {q[k] : k \in 1 .. Len(q)}
    BY <1>3 DEF ToSet
  <1> QED
    BY <1>3, <1>4, <1>5

LEMMA NoneLeft == {cell[1] : cell \in ToSet(<<>>)} = {}
  BY DEF ToSet

LEMMA BytesOne ==
  ASSUME NEW m \in Msg
  PROVE  {cell[1] : cell \in ToSet(Bytes(m))} = {m}
  BY BytesFacts, BytesLeft, LeftOne

\* Write(w): its message m is written now if it was not before.
LEMMA WriteDue ==
  ASSUME Basic, NEW w \in Writer, NEW n, NEW m, NEW j, WroteAs(w, n, m, j)
  PROVE  /\ Due(w) = {m}
         /\ Due(w)' \subseteq {m}
         /\ \A v \in Writer \ {w} : Due(v)' = Due(v)
         /\ ToSet(written') = ToSet(written) \union {m}
  <1> USE DEF Basic
  <1>1. /\ pending[w] \in Seq(Msg \X Nat) /\ pending'[w] \in Seq(Msg \X Nat)
        /\ Left(pending[w], m, j) /\ n \in 1 .. Len(pending[w])
    BY DEF WroteAs, Typed
  <1>2. Due(w) = {m}
    BY <1>1, LeftOne DEF Due
  <1>3. Due(w)' \subseteq {m}
    <2>1. CASE n = Len(pending[w])
      <3>1. pending'[w] = <<>>
        BY <2>1 DEF WroteAs
      <3>2. Due(w)' = {}
        BY <3>1, NoneLeft, Zenon DEF Due
      <3> QED
        BY <3>2
    <2>2. CASE n < Len(pending[w])
      <3>1. Left(pending'[w], m, j + n)
        BY <2>2 DEF WroteAs
      <3> QED
        BY <1>1, <3>1, LeftOne DEF Due
    <2>3. n = Len(pending[w]) \/ n < Len(pending[w])
      BY <1>1
    <2> QED
      BY <2>1, <2>2, <2>3
  <1>4. ASSUME NEW v \in Writer \ {w}
        PROVE  Due(v)' = Due(v)
    <2>1. pending'[v] = pending[v]
      BY DEF WroteAs
    <2> QED
      BY <2>1, Zenon DEF Due
  <1>5. ToSet(written') = ToSet(written) \union {m}
    <2>1. written \in Seq(Msg)
      BY DEF Typed
    <2>2. CASE j > 1
      BY <2>2 DEF WroteAs
    <2>3. CASE ~(j > 1)
      <3>1. written' = Append(written, m)
        BY <2>3 DEF WroteAs
      <3> QED
        BY <2>1, <3>1, ToSetAppend
    <2> QED
      BY <2>2, <2>3
  <1> QED
    BY <1>2, <1>3, <1>4, <1>5

\* A step that decodes and asks nothing, and adds no message of the handler's.
LEMMA OnceKept ==
  ASSUME Once, UNCHANGED <<asked, upstream, decoded, handler>>,
         Submitted' = Submitted,
         Out \subseteq Out', \A m \in Out' : m \in Out \/ ~FromHandler(m),
         Due("handler")' \subseteq Due("handler"),
         \A m \in Due("market")' : ~FromHandler(m)
  PROVE  Once'
  <1>1. Known' = Known /\ \A n : Reply(n)' = Reply(n)
    BY DEF Known, Reply
  <1>2. \A n \in Known' :
          /\ n \in 1 .. Len(asked') /\ Reply(n)' \in Out'
          /\ \A k \in 1 .. Len(upstream') : upstream'[k] # <<n, 1>>
    BY <1>1 DEF Once
  <1>3. \A m \in Out' : FromHandler(m) /\ m.about # 0 =>
          m.about \in 1 .. Len(asked') /\ m = Reply(m.about)'
    BY <1>1 DEF Once
  <1>4. handler'.step = "submit" /\ handler'.request # 0 =>
          handler'.request \in Known' /\ Verdict(asked'[handler'.request]) = 0
    BY <1>1 DEF Once
  <1>5. \A n \in Submitted' :
          n \in Known' /\ Verdict(asked'[n]) = 0 /\ Reply(n)' \notin Due("handler")'
    BY <1>1 DEF Once
  <1> QED
    BY <1>2, <1>3, <1>4, <1>5, Zenon DEF Once, FromHandler

LEMMA WriteOnce ==
  ASSUME Basic, Once, NEW w \in Writer, Write(w)
  PROVE  Once'
  <1>1. PICK n, m, j : WroteAs(w, n, m, j)
    BY WriteShape
  <1>2. /\ Due(w) = {m}
        /\ Due(w)' \subseteq {m}
        /\ \A v \in Writer \ {w} : Due(v)' = Due(v)
        /\ ToSet(written') = ToSet(written) \union {m}
    BY <1>1, WriteDue
  <1>3. UNCHANGED <<asked, upstream, decoded, handler, queue, taken>>
    BY DEF Write, serverVars
  <1>4. Submitted' = Submitted
    BY <1>3 DEF Submitted
  <1>5. CASE w = "handler"
    <2>1. "market" \in Writer \ {w}
      BY <1>5 DEF Writer
    <2>2. Due("market")' = Due("market") /\ Out' = Out /\ Due("handler")' \subseteq Due("handler")
      BY <1>2, <1>5, <2>1 DEF Out
    <2> QED
      BY <1>3, <1>4, <2>2, OnceKept DEF Once
  <1>6. CASE w = "market"
    <2>1. "handler" \in Writer \ {w}
      BY <1>6 DEF Writer
    <2>2. /\ Due("handler")' = Due("handler") /\ Out' = Out \union {m}
          /\ Due("market")' \subseteq Due("market") /\ m \in Due("market")
      BY <1>2, <1>6, <2>1 DEF Out
    <2> QED
      BY <1>3, <1>4, <2>2, OnceKept DEF Once
  <1> QED
    BY <1>5, <1>6 DEF Writer

LEMMA SendOnce ==
  ASSUME Basic, Once, Send
  PROVE  Once'
  <1> USE DEF Basic
  <1>1. /\ UNCHANGED <<decoded, handler, queue, taken, pending, written>>
        /\ upstream' = upstream \o [k \in 1 .. FRAME |-> <<Len(asked) + 1, k>>]
    BY DEF Send, serverVars, socketVars
  <1>2. PICK r \in Request : asked' = Append(asked, r)
    BY SendBasic
  <1> DEFINE a == Len(asked)
  <1>3. a \in Nat /\ Len(asked') = a + 1 /\ \A n \in 1 .. a : asked'[n] = asked[n]
    BY <1>2 DEF Typed
  <1>4. /\ Known' = Known /\ Submitted' = Submitted /\ Out' = Out
        /\ Due("handler")' = Due("handler") /\ Due("market")' = Due("market")
    BY <1>1, Zenon DEF Known, Submitted, Out, Due
  <1> HIDE DEF a
  <1>5. \A n \in 1 .. a : n \in 1 .. a + 1 /\ Reply(n)' = Reply(n)
    BY <1>3 DEF Reply
  <1>6. \A n \in Known : n \in 1 .. a
    BY DEF Once, a
  <1>7. ASSUME NEW n \in Known, NEW k \in 1 .. Len(upstream')
        PROVE  upstream'[k] # <<n, 1>>
    <2> DEFINE f == [x \in 1 .. FRAME |-> <<a + 1, x>>]
    <2>1. FRAME \in Nat /\ upstream \in Seq(Nat \X Nat) /\ Len(upstream) \in Nat
      BY BoundAssumption DEF Typed
    <2>2. f \in Seq(Nat \X Nat) /\ Len(f) = FRAME /\ \A x \in 1 .. FRAME : f[x] = <<a + 1, x>>
      <3>1. f \in [1 .. FRAME -> Nat \X Nat]
        BY <1>3, <2>1
      <3>2. \A x \in 1 .. FRAME : f[x] = <<a + 1, x>>
        OBVIOUS
      <3> HIDE DEF f
      <3> QED
        BY <2>1, <3>1, <3>2, FunctionIsSeq
    <2>3. upstream' = upstream \o f
      BY <1>1 DEF a
    <2> HIDE DEF f
    <2>4. /\ Len(upstream') = Len(upstream) + FRAME
          /\ \A x \in 1 .. Len(upstream) : upstream'[x] = upstream[x]
          /\ \A x \in 1 .. FRAME : upstream'[Len(upstream) + x] = <<a + 1, x>>
      <3>1. Len(upstream \o f) = Len(upstream) + Len(f)
        BY <2>1, <2>2, ConcatFacts
      <3>2. \A x \in 1 .. Len(upstream) : (upstream \o f)[x] = upstream[x]
        BY <2>1, <2>2, ConcatFacts
      <3>3. \A x \in 1 .. Len(f) : (upstream \o f)[Len(upstream) + x] = f[x]
        BY <2>1, <2>2, ConcatFacts
      <3> QED
        BY <2>2, <2>3, <3>1, <3>2, <3>3
    <2>5. CASE k \in 1 .. Len(upstream)
      <3>1. upstream[k] # <<n, 1>>
        BY <2>5 DEF Once
      <3> QED
        BY <2>4, <2>5, <3>1
    <2>6. CASE k \notin 1 .. Len(upstream)
      <3>1. k - Len(upstream) \in 1 .. FRAME /\ Len(upstream) + (k - Len(upstream)) = k
        BY <2>1, <2>4, <2>6
      <3>2. upstream'[k] = <<a + 1, k - Len(upstream)>>
        BY <2>4, <3>1
      <3>3. a + 1 # n
        BY <1>3, <1>6
      <3> QED
        BY <3>2, <3>3
    <2> QED
      BY <2>5, <2>6
  <1>8. \A n \in Known' :
          /\ n \in 1 .. Len(asked') /\ Reply(n)' \in Out'
          /\ \A k \in 1 .. Len(upstream') : upstream'[k] # <<n, 1>>
    BY <1>3, <1>4, <1>5, <1>6, <1>7 DEF Once
  <1>9. \A m \in Out' : FromHandler(m) /\ m.about # 0 =>
          m.about \in 1 .. Len(asked') /\ m = Reply(m.about)'
    BY <1>3, <1>4, <1>5 DEF Once, a
  <1>10. handler'.step = "submit" /\ handler'.request # 0 =>
           handler'.request \in Known' /\ Verdict(asked'[handler'.request]) = 0
    BY <1>1, <1>3, <1>4, <1>6 DEF Once
  <1>11. \A n \in Submitted' :
           n \in Known' /\ Verdict(asked'[n]) = 0 /\ Reply(n)' \notin Due("handler")'
    BY <1>3, <1>4, <1>5, <1>6 DEF Once
  <1>12. \A m \in Due("market")' : ~FromHandler(m)
    BY <1>4 DEF Once
  <1> QED
    BY <1>8, <1>9, <1>10, <1>11, <1>12, Zenon DEF Once, FromHandler

LEMMA ReadOnce ==
  ASSUME Basic, Once, readListener
  PROVE  Once'
  <1> USE DEF Basic
  <1>1. PICK n, d : ReadAs(n, d)
    BY ReadShape
  <1> DEFINE x == d[1]
             answer == AnswerTo(d)
  <1>2. UNCHANGED <<asked, queue, taken, written>> /\ pending["handler"] = <<>>
    BY DEF readListener
  <1>3. /\ answer \in Msg /\ x \in Nat
        /\ answer.about = x
        /\ answer.type = "A" <=> Verdict(d[2]) = 0
    BY <1>1 DEF ReadAs, AnswerTo
  <1>4. Due("handler") = {} /\ Due("handler")' = {answer} /\ Due("market")' = Due("market")
    <2>1. Due("handler") = {}
      BY <1>2, NoneLeft, Zenon DEF Due
    <2>2. /\ pending' = [pending EXCEPT !["handler"] = Bytes(answer)]
          /\ pending \in [Writer -> Seq(Msg \X Nat)]
      BY <1>1 DEF ReadAs, Typed
    <2> HIDE DEF answer
    <2>3. pending'["handler"] = Bytes(answer) /\ pending'["market"] = pending["market"]
      BY <2>2 DEF Writer
    <2>4. Due("handler")' = {answer}
      BY <1>3, <2>3, BytesOne DEF Due
    <2>5. Due("market")' = Due("market")
      BY <2>3, Zenon DEF Due
    <2> QED
      BY <2>1, <2>4, <2>5
  <1>5. ASSUME x # 0
        PROVE  /\ x \in 1 .. Len(asked)
               /\ answer = Reply(x)
               /\ x \notin Known
               /\ Verdict(d[2]) = Verdict(asked[x])
               /\ n = FRAME /\ upstream[1] = <<x, 1>> /\ 1 \in 1 .. Len(upstream)
    <2>1. n = FRAME /\ upstream[1] = <<x, 1>> /\ d[2] = asked[x]
      BY <1>1, <1>5 DEF ReadAs
    <2>2. 1 \in 1 .. Len(upstream)
      <3>1. n \in 1 .. FRAME /\ n <= Len(upstream) /\ FRAME \in Nat /\ Len(upstream) \in Nat
        BY <1>1, BoundAssumption DEF ReadAs, Typed
      <3> QED
        BY <3>1
    <2>3. x \in 1 .. Len(asked)
      <3>1. upstream[1][1] \in 1 .. Len(asked)
        BY <2>2 DEF Ordered
      <3> QED
        BY <2>1, <3>1
    <2>4. answer = Reply(x)
      BY <2>1 DEF AnswerTo, Reply
    <2>5. x \notin Known
      BY <2>1, <2>2 DEF Once
    <2> QED
      BY <2>1, <2>2, <2>3, <2>4, <2>5
  <1>6. Known' = Known \union ({x} \ {0})
    <2>1. decoded \in Seq(Nat) /\ decoded' = Append(decoded, x)
      BY <1>1 DEF ReadAs, Typed
    <2>2. ToSet(decoded') = ToSet(decoded) \union {x}
      BY <2>1, ToSetAppend
    <2> QED
      BY <2>2 DEF Known
  <1>7. Out' = Out \union {answer} /\ Submitted' = Submitted /\ \A y : Reply(y)' = Reply(y)
    <2>1. ToSet(written') = ToSet(written)
      BY <1>2
    <2>2. Submitted' = Submitted /\ \A y : Reply(y)' = Reply(y)
      BY <1>2 DEF Submitted, Reply
    <2> HIDE DEF answer
    <2> QED
      BY <1>4, <2>1, <2>2 DEF Out
  <1>8. \A k \in 1 .. Len(upstream') :
          /\ \E l \in 1 .. Len(upstream) : upstream'[k] = upstream[l]
          /\ upstream'[k] # upstream[1]
    <2>1. upstream \in Seq(Nat \X Nat) /\ n \in Nat /\ 1 <= n /\ n <= Len(upstream)
          /\ Len(upstream) \in Nat
      <3>1. n \in 1 .. FRAME /\ n <= Len(upstream) /\ FRAME \in Nat
        BY <1>1, BoundAssumption DEF ReadAs
      <3> QED
        BY <3>1 DEF Typed
    <2>2. /\ Len(upstream') = Len(upstream) - n
          /\ \A k \in 1 .. Len(upstream) - n : upstream'[k] = upstream[n + k]
      <3>1. upstream' = SubSeq(upstream, n + 1, Len(upstream))
        BY <1>1 DEF ReadAs
      <3> QED
        BY <2>1, <3>1, CutFacts
    <2> SUFFICES ASSUME NEW k \in 1 .. Len(upstream')
                 PROVE  /\ \E l \in 1 .. Len(upstream) : upstream'[k] = upstream[l]
                        /\ upstream'[k] # upstream[1]
      OBVIOUS
    <2>3. k \in 1 .. Len(upstream) - n
      BY <2>2
    <2>4. n + k \in 1 .. Len(upstream) /\ 1 \in 1 .. Len(upstream) /\ 1 < n + k
      BY <2>1, <2>3
    <2>5. upstream'[k] = upstream[n + k]
      BY <2>2, <2>3
    <2>6. \/ upstream[1][1] < upstream[n + k][1]
          \/ upstream[1][1] = upstream[n + k][1] /\ upstream[1][2] < upstream[n + k][2]
      BY <2>4 DEF Ordered
    <2>7. upstream[n + k] \in Nat \X Nat /\ upstream[1] \in Nat \X Nat
      <3>1. upstream \in Seq(Nat \X Nat)
        BY <2>1
      <3> QED
        BY ONLY <2>4, <3>1
    <2>8. upstream[n + k] # upstream[1]
      <3> SUFFICES ASSUME upstream[n + k] = upstream[1]
                   PROVE  FALSE
        OBVIOUS
      <3>1. upstream[1][1] \in Nat /\ upstream[1][2] \in Nat
        BY <2>7
      <3>2. upstream[1][1] < upstream[1][1] \/ upstream[1][2] < upstream[1][2]
        BY <2>6
      <3> QED
        BY <3>1, <3>2
    <2> QED
      BY <2>4, <2>5, <2>8
  <1> HIDE DEF answer, x
  <1>9. ASSUME NEW y \in Known'
        PROVE  /\ y \in 1 .. Len(asked') /\ Reply(y)' \in Out'
               /\ \A k \in 1 .. Len(upstream') : upstream'[k] # <<y, 1>>
    <2>1. CASE y \in Known
      <3>1. \A k \in 1 .. Len(upstream) : upstream[k] # <<y, 1>>
        BY <2>1 DEF Once
      <3>2. \A k \in 1 .. Len(upstream') : upstream'[k] # <<y, 1>>
        BY <1>8, <3>1
      <3>3. y \in 1 .. Len(asked) /\ Reply(y) \in Out
        BY <2>1 DEF Once
      <3> QED
        BY <1>2, <1>7, <3>2, <3>3
    <2>2. CASE y = x /\ x # 0
      BY <1>2, <1>5, <1>7, <1>8, <2>2
    <2> QED
      BY <1>6, <2>1, <2>2
  <1>10. ASSUME NEW m \in Out', FromHandler(m), m.about # 0
         PROVE  m.about \in 1 .. Len(asked') /\ m = Reply(m.about)'
    <2>1. CASE m \in Out
      BY <1>2, <1>7, <1>10, <2>1 DEF Once
    <2>2. CASE m = answer
      BY <1>2, <1>3, <1>5, <1>7, <1>10, <2>2
    <2> QED
      BY <1>7, <2>1, <2>2
  <1>11. ASSUME handler'.step = "submit", handler'.request # 0
         PROVE  handler'.request \in Known' /\ Verdict(asked'[handler'.request]) = 0
    <2>1. /\ handler'.request = x
          /\ handler'.step = IF Verdict(d[2]) = 0 THEN "submit" ELSE "read"
      BY <1>1 DEF ReadAs, x
    <2>2. Verdict(d[2]) = 0
      BY <1>11, <2>1
    <2> QED
      BY <1>2, <1>5, <1>6, <1>11, <2>1, <2>2
  <1>12. ASSUME NEW y \in Submitted'
         PROVE  y \in Known' /\ Verdict(asked'[y]) = 0 /\ Reply(y)' \notin Due("handler")'
    <2>1. y \in Submitted /\ y \in Known /\ Verdict(asked[y]) = 0
      BY <1>7 DEF Once
    <2>2. Reply(y) # answer
      <3>1. Reply(y).about = y /\ y # 0
        BY <2>1 DEF Reply, AnswerTo, Submitted
      <3>2. CASE x = 0
        BY <1>3, <3>1, <3>2
      <3>3. CASE x # 0
        BY <1>3, <1>5, <2>1, <3>1, <3>3
      <3> QED
        BY <3>2, <3>3
    <2> QED
      BY <1>2, <1>4, <1>6, <1>7, <2>1, <2>2
  <1>13. \A m \in Due("market")' : ~FromHandler(m)
    BY <1>4 DEF Once
  <1> QED
    BY <1>9, <1>10, <1>11, <1>12, <1>13, Zenon DEF Once, FromHandler

LEMMA SubmitOnce ==
  ASSUME Basic, Once, submit_order
  PROVE  Once'
  <1> USE DEF Basic
  <1>1. /\ UNCHANGED <<asked, upstream, decoded, taken, pending, written>>
        /\ handler.step = "submit" /\ pending["handler"] = <<>>
        /\ queue' = Append(queue, handler.request)
        /\ handler'.step = "read"
    BY DEF submit_order, socketVars, Reading
  <1>2. /\ Known' = Known /\ Out' = Out /\ Due("market")' = Due("market")
        /\ \A n : Reply(n)' = Reply(n)
    BY <1>1 DEF Known, Out, Due, Reply
  <1>3. Due("handler") = {} /\ Due("handler")' = {}
    <2>1. pending'["handler"] = <<>>
      BY <1>1
    <2> QED
      BY <1>1, <2>1, NoneLeft, Zenon DEF Due
  <1>4. Submitted' = Submitted \union ({handler.request} \ {0})
    <2>1. queue \in Seq(Nat)
      BY DEF Typed
    <2>2. ToSet(queue') = ToSet(queue) \union {handler.request}
      BY <1>1, <2>1, ToSetAppend
    <2> QED
      BY <1>1, <2>2 DEF Submitted
  <1>5. \A n \in Submitted' :
          n \in Known' /\ Verdict(asked'[n]) = 0 /\ Reply(n)' \notin Due("handler")'
    BY <1>1, <1>2, <1>3, <1>4 DEF Once
  <1>6. \A n \in Known' :
          /\ n \in 1 .. Len(asked') /\ Reply(n)' \in Out'
          /\ \A k \in 1 .. Len(upstream') : upstream'[k] # <<n, 1>>
    BY <1>1, <1>2 DEF Once
  <1>7. \A m \in Out' : FromHandler(m) /\ m.about # 0 =>
          m.about \in 1 .. Len(asked') /\ m = Reply(m.about)'
    BY <1>1, <1>2 DEF Once
  <1>8. \A m \in Due("market")' : ~FromHandler(m)
    BY <1>2 DEF Once
  <1>9. handler'.step # "submit"
    BY <1>1
  <1> QED
    BY <1>5, <1>6, <1>7, <1>8, <1>9, Zenon DEF Once, FromHandler

LEMMA ProcessOnce ==
  ASSUME Basic, Once, process_one
  PROVE  Once'
  <1> USE DEF Basic
  <1>1. /\ taken' = Append(taken, Head(queue)) /\ queue' = Tail(queue) /\ queue # <<>>
        /\ \A w \in Writer \ {"market"} : pending'[w] = pending[w]
        /\ pending'["market"] = <<>>
             \/ \E m : MarketSays(m) /\ pending'["market"] = Bytes(m)
    BY ProcessShape
  <1>2. UNCHANGED <<asked, upstream, decoded, handler, written>>
    BY DEF process_one
  <1>3. Due("handler")' = Due("handler") /\ Out' = Out
    <2>1. pending'["handler"] = pending["handler"]
      BY <1>1 DEF Writer
    <2>2. Due("handler")' = Due("handler")
      BY <2>1, Zenon DEF Due
    <2> QED
      BY <1>2, <2>2 DEF Out
  <1>4. \A m \in Due("market")' : ~FromHandler(m)
    <2>1. CASE pending'["market"] = <<>>
      <3>1. Due("market")' = {}
        BY <2>1, NoneLeft, Zenon DEF Due
      <3> QED
        BY <3>1
    <2>2. ASSUME NEW m, MarketSays(m), pending'["market"] = Bytes(m)
          PROVE  \A l \in Due("market")' : ~FromHandler(l)
      <3>1. m \in Msg /\ ~FromHandler(m)
        BY <2>2 DEF MarketSays, FromHandler
      <3>2. Due("market")' = {m}
        BY <2>2, <3>1, BytesOne DEF Due
      <3> QED
        BY <3>1, <3>2
    <2> QED
      BY <1>1, <2>1, <2>2
  <1>5. Submitted' = Submitted
    <2>1. queue \in Seq(Nat) /\ taken \in Seq(Nat)
      BY DEF Typed
    <2>2. ToSet(taken') = ToSet(taken) \union {Head(queue)}
      BY <1>1, <2>1, ToSetAppend
    <2>3. ToSet(queue) = {Head(queue)} \union ToSet(Tail(queue))
      <3>1. /\ DOMAIN queue = 1 .. Len(queue) /\ DOMAIN Tail(queue) = 1 .. Len(queue) - 1
            /\ Len(queue) \in Nat \ {0} /\ Head(queue) = queue[1]
            /\ \A k \in 1 .. Len(queue) - 1 : Tail(queue)[k] = queue[k + 1]
        BY <1>1, <2>1
      <3>2. \A k \in 1 .. Len(queue) : k = 1 \/ (k - 1 \in 1 .. Len(queue) - 1 /\ (k - 1) + 1 = k)
        BY <3>1
      <3>3. 1 \in 1 .. Len(queue) /\ \A k \in 1 .. Len(queue) - 1 : k + 1 \in 1 .. Len(queue)
        BY <3>1
      <3>4. ASSUME NEW y \in ToSet(queue)
            PROVE  y = Head(queue) \/ y \in ToSet(Tail(queue))
        <4>1. PICK k \in 1 .. Len(queue) : y = queue[k]
          BY <3>1 DEF ToSet
        <4>2. CASE k = 1
          BY <3>1, <4>1, <4>2
        <4>3. CASE k - 1 \in 1 .. Len(queue) - 1 /\ (k - 1) + 1 = k
          <5>1. Tail(queue)[k - 1] = y
            BY <3>1, <4>1, <4>3
          <5> QED
            BY <3>1, <4>3, <5>1 DEF ToSet
        <4> QED
          BY <3>2, <4>2, <4>3
      <3>5. Head(queue) \in ToSet(queue)
        BY <3>1, <3>3 DEF ToSet
      <3>6. ASSUME NEW y \in ToSet(Tail(queue))
            PROVE  y \in ToSet(queue)
        <4>1. PICK k \in 1 .. Len(queue) - 1 : y = Tail(queue)[k]
          BY <3>1 DEF ToSet
        <4>2. k + 1 \in 1 .. Len(queue) /\ y = queue[k + 1]
          BY <3>1, <3>3, <4>1
        <4> QED
          BY <3>1, <4>2 DEF ToSet
      <3> QED
        BY <3>4, <3>5, <3>6
    <2> QED
      BY <1>1, <2>2, <2>3 DEF Submitted
  <1> QED
    BY <1>2, <1>3, <1>4, <1>5, OnceKept

LEMMA QuietOnce ==
  ASSUME Once, UNCHANGED <<asked, upstream, decoded, handler, queue, taken, pending, written>>
  PROVE  Once'
  <1>1. /\ Submitted' = Submitted /\ Out' = Out
        /\ Due("handler")' = Due("handler") /\ Due("market")' = Due("market")
    BY DEF Submitted, Out, Due
  <1> QED
    BY <1>1, OnceKept DEF Once

LEMMA InitOnce == Init => Once
  <1> SUFFICES ASSUME Init
               PROVE  Once
    OBVIOUS
  <1>1. ToSet(<<>>) = {}
    BY DEF ToSet
  <1>2. Known = {} /\ Submitted = {} /\ ToSet(written) = {} /\ handler.step = "read"
    BY <1>1 DEF Init, Known, Submitted, Reading
  <1>3. pending["handler"] = <<>> /\ pending["market"] = <<>>
    BY DEF Init, Writer
  <1>4. Due("handler") = {} /\ Due("market") = {}
    BY <1>3, NoneLeft, Zenon DEF Due
  <1> QED
    BY <1>2, <1>4 DEF Once, Out

LEMMA NextOnce ==
  ASSUME Basic, Once, [Next]_vars
  PROVE  Once'
  <1>1. CASE Send
    BY <1>1, SendOnce
  <1>2. CASE readListener
    BY <1>2, ReadOnce
  <1>3. CASE submit_order
    BY <1>3, SubmitOnce
  <1>4. CASE process_one
    BY <1>4, ProcessOnce
  <1>5. ASSUME NEW w \in Writer, Write(w)
        PROVE  Once'
    BY <1>5, WriteOnce
  <1>6. CASE Leave \/ HearType \/ HearBody \/ ReadError
               \/ (\E w \in Writer : WriteThrows(w)) \/ UNCHANGED vars
    <2>1. UNCHANGED <<asked, upstream, decoded, handler, queue, taken, pending, written>>
      BY <1>6 DEF Leave, HearType, HearBody, ReadError, WriteThrows, vars, serverVars, socketVars
    <2> QED
      BY <2>1, QuietOnce
  <1> QED
    BY <1>1, <1>2, <1>3, <1>4, <1>5, <1>6 DEF Next

\* A decoded request has one answer; only one that was acknowledged, in full
\* and with nothing of the ACK still to be written, reaches the market thread.
THEOREM OneAnswerEach == Spec => []AnsweredOnce
  <1>1. Basic /\ Once => AnsweredOnce
    <2> SUFFICES ASSUME Basic, Once, NEW n \in ToSet(decoded) \ {0}
                 PROVE  /\ Cardinality(Answers(n)) = 1
                        /\ n \in ToSet(queue) \union ToSet(taken) =>
                             /\ \A m \in Answers(n) : m.type = "A" /\ m \notin Due("handler")
                             /\ asked[n].letter \in {"O", "U"} => asked[n].price /\ asked[n].qty
                             /\ asked[n].letter # "Z"
      BY Zenon DEF AnsweredOnce, Due
    <2>1. n \in Known /\ n \in 1 .. Len(asked) /\ Reply(n) \in Out
      BY DEF Once, Known
    <2>2. asked[n] \in Request
      BY <2>1 DEF Basic, Typed
    <2>3. Verdict(asked[n]) \in {0, 100, 102, 103}
      BY <2>2, VerdictFacts
    <2>4. /\ Reply(n).about = n /\ FromHandler(Reply(n))
          /\ Verdict(asked[n]) = 0 => Reply(n).type = "A"
      BY <2>3 DEF Reply, AnswerTo, FromHandler
    <2>5. Answers(n) = {m \in Out : m.about = n /\ (m.type = "A" \/ m.code \in {100, 102, 103})}
      BY Zenon DEF Answers, Out, Due
    <2>6. Answers(n) = {Reply(n)}
      <3>1. Reply(n) \in Answers(n)
        BY <2>1, <2>4, <2>5 DEF FromHandler
      <3>2. ASSUME NEW m \in Answers(n)
            PROVE  m = Reply(n)
        <4>1. m \in Out /\ m.about = n /\ FromHandler(m) /\ n # 0
          BY <2>5 DEF FromHandler
        <4> QED
          BY <4>1 DEF Once
      <3> QED
        BY <3>1, <3>2
    <2>7. Cardinality(Answers(n)) = 1
      BY <2>6, FS_Singleton
    <2>8. ASSUME n \in ToSet(queue) \union ToSet(taken)
          PROVE  /\ \A m \in Answers(n) : m.type = "A" /\ m \notin Due("handler")
                 /\ asked[n].letter \in {"O", "U"} => asked[n].price /\ asked[n].qty
                 /\ asked[n].letter # "Z"
      <3>1. Verdict(asked[n]) = 0 /\ Reply(n) \notin Due("handler")
        BY <2>8 DEF Once, Submitted
      <3>2. \A m \in Answers(n) : m.type = "A" /\ m \notin Due("handler")
        BY <2>4, <2>6, <3>1
      <3> QED
        BY <2>2, <3>1, <3>2, VerdictFacts
    <2> QED
      BY <2>7, <2>8
  <1>2. (Basic /\ Once) /\ [Next]_vars => (Basic /\ Once)'
    BY NextBasic, NextOnce
  <1> QED
    BY <1>1, <1>2, InitBasic, InitOnce, PTL DEF Spec

-----------------------------------------------------------------------------
(***************************************************************************)
(* What the client decodes. While no two writes have overlapped, the cells  *)
(* the client has not read, with those still to come of a message that was  *)
(* begun, are the messages written, laid end to end, from where the client  *)
(* is in them: at the start of a message, or behind its type byte.          *)
(***************************************************************************)

\* s holds the messages ms, laid end to end with message j behind cell off[j],
\* without the first got cells.
Laid(ms, off, got, s) ==
  /\ off \in [1 .. Len(ms) + 1 -> Nat]
  /\ off[1] = 0
  /\ \A j \in 1 .. Len(ms) :
       off[j + 1] = off[j] + Size(ms[j]) /\ off[j] + Size(ms[j]) <= off[Len(ms) + 1]
  /\ got + Len(s) = off[Len(ms) + 1]
  /\ \A j \in 1 .. Len(ms) : \A k \in 1 .. Size(ms[j]) :
       off[j] + k > got => s[(off[j] + k) - got] = <<ms[j], k>>

\* ms2 is laid out in s2 as ms is, as far as ms goes: its boundaries begin with off.
Extends(off, ms, ms2, got, s2) ==
  \E off2 : Laid(ms2, off2, got, s2) /\ \A i \in 1 .. Len(ms) + 1 : off2[i] = off[i]

\* s2 is s, then the cells of m.
Followed(s2, s, m) ==
  /\ Len(s2) = Len(s) + Size(m)
  /\ \A k \in 1 .. Len(s) : s2[k] = s[k]
  /\ \A k \in 1 .. Size(m) : s2[Len(s) + k] = <<m, k>>

\* s2 is s without its first n cells.
Behind(s2, s, n) ==
  Len(s2) = Len(s) - n /\ \A k \in 1 .. Len(s) - n : s2[k] = s[n + k]

LEMMA LaidAdvance ==
  ASSUME NEW ms \in Seq(Msg), NEW off, NEW got \in Nat, NEW s \in Seq(Msg \X Nat),
         Laid(ms, off, got, s),
         NEW n \in Nat, n <= Len(s), NEW s2 \in Seq(Msg \X Nat), Behind(s2, s, n)
  PROVE  Laid(ms, off, got + n, s2)
  <1>1. Len(s) \in Nat /\ Len(ms) \in Nat /\ Len(s2) = Len(s) - n
        /\ \A k \in 1 .. Len(s) - n : s2[k] = s[n + k]
    BY DEF Behind
  <1>2. (got + n) + Len(s2) = off[Len(ms) + 1]
    BY <1>1 DEF Laid
  <1>3. ASSUME NEW j \in 1 .. Len(ms), NEW k \in 1 .. Size(ms[j]), off[j] + k > got + n
        PROVE  s2[(off[j] + k) - (got + n)] = <<ms[j], k>>
    <2> DEFINE x == off[j] + k
    <2>1. ms[j] \in Msg
      OBVIOUS
    <2>2. Size(ms[j]) \in Nat
      BY <2>1, SizeNat
    <2>3. off[j] \in Nat
      <3>1. j \in 1 .. Len(ms) + 1
        BY <1>1
      <3> QED
        BY <3>1 DEF Laid
    <2>4. x \in Nat /\ x > got + n /\ x > got
      BY <1>3, <2>2, <2>3
    <2>5. s[x - got] = <<ms[j], k>>
      <3>1. off[j] + k > got
        BY <2>4
      <3>2. s[(off[j] + k) - got] = <<ms[j], k>>
        BY <3>1 DEF Laid
      <3> QED
        BY <3>2
    <2>6. x <= got + Len(s)
      <3>1. off[j] + Size(ms[j]) <= got + Len(s)
        BY DEF Laid
      <3> QED
        BY <1>1, <2>2, <2>3, <3>1
    <2> HIDE DEF x
    <2>7. x - (got + n) \in 1 .. Len(s) - n /\ n + (x - (got + n)) = x - got
      BY <1>1, <2>4, <2>6
    <2>8. s2[x - (got + n)] = <<ms[j], k>>
      <3> DEFINE y == x - (got + n)
      <3>1. y \in 1 .. Len(s) - n /\ n + y = x - got
        BY <2>7
      <3> HIDE DEF y
      <3>2. s2[y] = s[n + y]
        BY <1>1, <3>1
      <3>3. s[n + y] = <<ms[j], k>>
        BY <2>5, <3>1
      <3> QED
        BY <3>2, <3>3 DEF y
    <2> QED
      BY <2>8 DEF x
  <1> QED
    BY <1>2, <1>3 DEF Laid

\* A message more, behind the others.
LEMMA LaidAppend ==
  ASSUME NEW ms \in Seq(Msg), NEW off, NEW got \in Nat, NEW s \in Seq(Msg \X Nat),
         Laid(ms, off, got, s),
         NEW m \in Msg, NEW s2 \in Seq(Msg \X Nat), Followed(s2, s, m)
  PROVE  Extends(off, ms, Append(ms, m), got, s2)
  <1> USE DEF Followed, Extends
  <1> DEFINE N == Len(ms)
             ms2 == Append(ms, m)
             off2 == [j \in 1 .. N + 2 |-> IF j = N + 2 THEN off[N + 1] + Size(m) ELSE off[j]]
  <1>1. /\ N \in Nat /\ Len(ms2) = N + 1 /\ ms2[N + 1] = m
        /\ \A j \in 1 .. N : ms2[j] = ms[j]
    BY AppendFacts
  <1>2. Size(m) \in Nat /\ \A j \in 1 .. N : Size(ms[j]) \in Nat
    <2>1. \A j \in 1 .. N : ms[j] \in Msg
      OBVIOUS
    <2> QED
      BY <2>1, SizeNat
  <1>3. /\ \A j \in 1 .. N + 1 : off[j] \in Nat
        /\ off[1] = 0
        /\ \A j \in 1 .. N : off[j + 1] = off[j] + Size(ms[j]) /\ off[j] + Size(ms[j]) <= off[N + 1]
        /\ got + Len(s) = off[N + 1]
        /\ \A j \in 1 .. N : \A k \in 1 .. Size(ms[j]) :
             off[j] + k > got => s[(off[j] + k) - got] = <<ms[j], k>>
    BY DEF Laid
  <1> HIDE DEF N, ms2
  <1>4. N + 1 \in 1 .. N + 1 /\ off[N + 1] \in Nat
    BY <1>1, <1>3
  <1>5. /\ off2[N + 2] = off[N + 1] + Size(m)
        /\ \A j \in 1 .. N + 1 : off2[j] = off[j]
    <2>1. N + 2 \in 1 .. N + 2 /\ \A j \in 1 .. N + 1 : j \in 1 .. N + 2 /\ j # N + 2
      BY <1>1
    <2> QED
      BY <2>1
  <1>6. off2 \in [1 .. N + 2 -> Nat]
    <2>1. \A j \in 1 .. N + 2 : j = N + 2 \/ j \in 1 .. N + 1
      BY <1>1
    <2>2. off[N + 1] + Size(m) \in Nat
      BY <1>2, <1>4
    <2> QED
      BY <1>3, <2>1, <2>2
  <1> HIDE DEF off2
  <1>7. off2[1] = 0
    BY <1>1, <1>3, <1>5
  <1>8. ASSUME NEW j \in 1 .. N + 1
        PROVE  off2[j + 1] = off2[j] + Size(ms2[j]) /\ off2[j] + Size(ms2[j]) <= off2[N + 2]
    <2>1. CASE j = N + 1
      <3>1. j + 1 = N + 2 /\ off2[j] = off[N + 1] /\ ms2[j] = m
        BY <1>1, <1>5, <2>1
      <3>2. off[N + 1] + Size(m) \in Nat
        BY <1>2, <1>4
      <3> QED
        BY <1>5, <3>1, <3>2
    <2>2. CASE j # N + 1
      <3>1. j \in 1 .. N /\ j + 1 \in 1 .. N + 1
        BY <1>1, <2>2
      <3>2. off2[j] = off[j] /\ off2[j + 1] = off[j + 1] /\ ms2[j] = ms[j]
        BY <1>1, <1>5, <3>1
      <3>3. off[j + 1] = off[j] + Size(ms[j]) /\ off[j] + Size(ms[j]) <= off[N + 1]
        BY <1>3, <3>1
      <3>4. off[j] \in Nat /\ Size(ms[j]) \in Nat
        BY <1>2, <1>3, <3>1
      <3>5. off[j] + Size(ms[j]) <= off[N + 1] + Size(m)
        BY <1>2, <1>4, <3>3, <3>4, SMTT(30)
      <3> QED
        BY <1>5, <3>2, <3>3, <3>5
    <2> QED
      BY <2>1, <2>2
  <1>9. Len(s) \in Nat
    OBVIOUS
  <1>10. got + Len(s2) = off2[N + 2]
    BY <1>2, <1>3, <1>5, <1>9
  <1>11. ASSUME NEW j \in 1 .. N + 1, NEW k \in 1 .. Size(ms2[j]), off2[j] + k > got
         PROVE  s2[(off2[j] + k) - got] = <<ms2[j], k>>
    <2>1. CASE j = N + 1
      <3>1. off2[j] = off[N + 1] /\ ms2[j] = m
        BY <1>1, <1>4, <1>5, <2>1
      <3>2. k \in 1 .. Size(m) /\ (off[N + 1] + k) - got = Len(s) + k
        BY <1>2, <1>3, <1>9, <3>1, SMTT(30)
      <3> QED
        BY <3>1, <3>2
    <2>2. CASE j # N + 1
      <3>1. j \in 1 .. N /\ j \in 1 .. N + 1
        BY <1>1, <2>2
      <3>2. off2[j] = off[j] /\ ms2[j] = ms[j]
        BY <1>1, <1>5, <3>1
      <3>3. off[j] \in Nat /\ Size(ms[j]) \in Nat /\ off[j] + Size(ms[j]) <= off[N + 1]
        BY <1>2, <1>3, <3>1
      <3>4. k \in 1 .. Size(ms[j])
        BY <3>2
      <3> DEFINE x == (off[j] + k) - got
      <3>5. x \in 1 .. Len(s)
        BY <1>3, <1>9, <1>11, <3>2, <3>3, <3>4, SMTT(30)
      <3>6. s[x] = <<ms[j], k>>
        BY <1>3, <1>11, <3>1, <3>2, <3>4
      <3> HIDE DEF x
      <3>7. s2[x] = s[x]
        BY <3>5
      <3>8. s2[x] = <<ms2[j], k>>
        BY <3>2, <3>6, <3>7
      <3> QED
        BY <3>2, <3>8 DEF x
    <2> QED
      BY <2>1, <2>2
  <1>12. Laid(ms2, off2, got, s2)
    <2>1. Len(ms2) + 1 = N + 2 /\ Len(ms2) = N + 1
      BY <1>1
    <2> QED
      BY <1>6, <1>7, <1>8, <1>10, <1>11, <2>1, Zenon DEF Laid
  <1> QED
    BY <1>5, <1>12 DEF N, ms2

\* Where the client is in what was written.
Got(off) == off[Len(heard) + 1] + (IF body > 0 THEN 1 ELSE 0)

\* The stream to the client; rest is what is still to come of a message that
\* some writer has begun.
Flow(off, rest) ==
  /\ rest \in Seq(Msg \X Nat)
  /\ \A w \in Writer : Unfinished(w) => rest = pending[w]
  /\ (\A w \in Writer : ~Unfinished(w)) => rest = <<>>
  /\ Laid(written, off, Got(off), downstream \o rest)

\* What was heard is the first part of what was written.
Prefix ==
  Len(heard) <= Len(written) /\ \A k \in 1 .. Len(heard) : heard[k] = written[k]

Aligned ==
  ~overlapped =>
    /\ \A v, w \in Writer : Unfinished(v) /\ Unfinished(w) => v = w
    /\ Prefix
    /\ open =>
         /\ body > 0 => /\ Len(heard) < Len(written)
                        /\ kind = written[Len(heard) + 1]
                        /\ body = BodyBytes[kind.type]
         /\ \E off, rest : Flow(off, rest)

\* A step that leaves the stream alone, and lets a writer take up a message.
LEMMA AlignedKept ==
  ASSUME Aligned, UNCHANGED <<downstream, written, overlapped, body, kind, heard>>,
         open' => open,
         \A w \in Writer : Unfinished(w)' <=> Unfinished(w),
         \A w \in Writer : Unfinished(w) => pending'[w] = pending[w]
  PROVE  Aligned'
  <1> SUFFICES ASSUME ~overlapped'
               PROVE  Aligned'
    BY DEF Aligned
  <1>1. ~overlapped
    OBVIOUS
  <1>2. \A v, w \in Writer : Unfinished(v)' /\ Unfinished(w)' => v = w
    BY <1>1 DEF Aligned
  <1>3. Prefix'
    BY <1>1 DEF Aligned, Prefix
  <1>4. ASSUME open'
        PROVE  /\ body' > 0 => /\ Len(heard') < Len(written')
                               /\ kind' = written'[Len(heard') + 1]
                               /\ body' = BodyBytes[kind'.type]
               /\ \E off, rest : Flow(off, rest)'
    <2>1. PICK off, rest : Flow(off, rest)
      BY <1>1, <1>4 DEF Aligned
    <2>2. Got(off)' = Got(off)
      BY DEF Got
    <2>3. Laid(written', off, Got(off)', downstream' \o rest)
      BY <2>1, <2>2 DEF Flow
    <2>4. /\ \A w \in Writer : Unfinished(w)' => rest = pending'[w]
          /\ (\A w \in Writer : ~Unfinished(w)') => rest = <<>>
          /\ rest \in Seq(Msg \X Nat)
      BY <2>1 DEF Flow
    <2>5. Flow(off, rest)'
      BY <2>3, <2>4, Zenon DEF Flow
    <2>6. body' > 0 => /\ Len(heard') < Len(written')
                       /\ kind' = written'[Len(heard') + 1]
                       /\ body' = BodyBytes[kind'.type]
      BY <1>1, <1>4 DEF Aligned
    <2> QED
      BY <2>5, <2>6
  <1> QED
    BY <1>2, <1>3, <1>4 DEF Aligned

\* The first cells of the stream taken off it.
LEMMA ConcatBehind ==
  ASSUME NEW d \in Seq(Msg \X Nat), NEW r \in Seq(Msg \X Nat), NEW n \in Nat, n <= Len(d),
         NEW e \in Seq(Msg \X Nat), Behind(e, d, n)
  PROVE  Behind(e \o r, d \o r, n) /\ n <= Len(d \o r)
         /\ \A k \in 1 .. n : (d \o r)[k] = d[k]
  <1>1. /\ Len(e) = Len(d) - n /\ \A k \in 1 .. Len(d) - n : e[k] = d[n + k]
        /\ Len(d) \in Nat /\ Len(r) \in Nat /\ Len(e) \in Nat
    BY DEF Behind
  <1>2. /\ Len(d \o r) = Len(d) + Len(r)
        /\ \A k \in 1 .. Len(d) : (d \o r)[k] = d[k]
        /\ \A k \in 1 .. Len(r) : (d \o r)[Len(d) + k] = r[k]
    BY ConcatFacts, SMTT(30)
  <1>3. /\ Len(e \o r) = Len(e) + Len(r)
        /\ \A k \in 1 .. Len(e) : (e \o r)[k] = e[k]
        /\ \A k \in 1 .. Len(r) : (e \o r)[Len(e) + k] = r[k]
    BY ConcatFacts
  <1> DEFINE s == d \o r
             t == e \o r
  <1>4. Len(t) = Len(s) - n
    BY <1>1, <1>2, <1>3
  <1> HIDE DEF s, t
  <1>5. ASSUME NEW k \in 1 .. Len(s) - n
        PROVE  t[k] = s[n + k]
    <2>1. CASE k \in 1 .. Len(e)
      <3>1. k \in 1 .. Len(d) - n /\ n + k \in 1 .. Len(d)
        <4>1. Len(e) = Len(d) - n /\ Len(d) \in Nat
          BY <1>1
        <4>2. k \in 1 .. Len(d) - n
          BY <2>1, <4>1
        <4> QED
          BY ONLY <4>1, <4>2, n \in Nat
      <3>2. t[k] = e[k] /\ s[n + k] = d[n + k]
        BY <1>2, <1>3, <2>1, <3>1 DEF s, t
      <3> QED
        BY <1>1, <3>1, <3>2
    <2>2. CASE k \notin 1 .. Len(e)
      <3> DEFINE l == k - Len(e)
      <3>1. l \in 1 .. Len(r) /\ Len(e) + l = k /\ Len(d) + l = n + k
        BY <1>1, <1>2, <2>2 DEF s
      <3> HIDE DEF l
      <3>2. t[Len(e) + l] = r[l] /\ s[Len(d) + l] = r[l]
        BY <1>2, <1>3, <3>1 DEF s, t
      <3> QED
        BY <3>1, <3>2
    <2> QED
      BY <2>1, <2>2
  <1>6. n <= Len(s) /\ \A k \in 1 .. n : s[k] = d[k]
    BY <1>1, <1>2 DEF s
  <1> QED
    BY <1>4, <1>5, <1>6 DEF s, t, Behind

\* The next cell the client reads: cell body + 1 of the message it is in.
LEMMA NextCells ==
  ASSUME Basic, Prefix, NEW off, NEW rest, Flow(off, rest),
         NEW n \in Nat, n <= Len(downstream),
         body > 0 => Len(heard) < Len(written),
         n > 0
  PROVE  LET m == written[Len(heard) + 1]
             b == IF body > 0 THEN 1 ELSE 0
         IN  /\ Len(heard) < Len(written) /\ m \in Msg
             /\ \A k \in 1 .. n : b + k <= Size(m) => downstream[k] = <<m, b + k>>
             /\ Got(off) \in Nat
             /\ off[(Len(heard) + 1) + 1] = off[Len(heard) + 1] + Size(m)
  <1> USE DEF Basic
  <1> DEFINE h == Len(heard)
             N == Len(written)
             m == written[h + 1]
             b == IF body > 0 THEN 1 ELSE 0
             s == downstream \o rest
             got == off[h + 1] + b
  <1>1. /\ h \in Nat /\ N \in Nat /\ h <= N /\ b \in {0, 1}
        /\ downstream \in Seq(Msg \X Nat) /\ Len(downstream) \in Nat
        /\ rest \in Seq(Msg \X Nat) /\ Len(rest) \in Nat
    <2>1. h \in Nat /\ N \in Nat /\ b \in {0, 1}
      BY DEF Typed
    <2>2. h <= N
      BY DEF Prefix
    <2>3. downstream \in Seq(Msg \X Nat) /\ Len(downstream) \in Nat
      BY DEF Typed
    <2>4. rest \in Seq(Msg \X Nat) /\ Len(rest) \in Nat
      BY DEF Flow
    <2> QED
      BY <2>1, <2>2, <2>3, <2>4
  <1>2. Laid(written, off, got, s)
    BY Zenon DEF Flow, Got
  <1>3. \A j \in 1 .. N + 1 : off[j] \in Nat
    BY <1>2 DEF Laid
  <1>4. Len(s) = Len(downstream) + Len(rest) /\ \A k \in 1 .. n : s[k] = downstream[k]
    <2>1. Len(downstream \o rest) = Len(downstream) + Len(rest)
      BY <1>1, ConcatFacts
    <2>2. \A k \in 1 .. Len(downstream) : (downstream \o rest)[k] = downstream[k]
      BY <1>1, ConcatFacts
    <2>3. \A k \in 1 .. n : k \in 1 .. Len(downstream)
      BY <1>1
    <2> QED
      BY <2>1, <2>2, <2>3
  <1>5. got + Len(s) = off[N + 1]
    BY <1>2 DEF Laid
  <1> HIDE DEF s, got, b
  <1>6. h < N
    <2>1. CASE h = N
      <3>1. off[N + 1] \in Nat /\ got = off[N + 1] + b
        BY <1>1, <1>3, <2>1 DEF got
      <3> DEFINE end == off[N + 1]
                 len == Len(s)
      <3>2. len \in Nat /\ len > 0
        BY <1>1, <1>4
      <3>3. end \in Nat /\ got = end + b /\ got + len = end /\ b \in Nat
        BY <1>1, <1>5, <3>1
      <3> HIDE DEF end, len
      <3> QED
        BY <3>2, <3>3
    <2> QED
      BY <1>1, <2>1
  <1>7. h + 1 \in 1 .. N /\ h + 1 \in 1 .. N + 1 /\ off[h + 1] \in Nat
    BY <1>1, <1>3, <1>6
  <1>8. m \in Msg
    BY <1>7 DEF Typed
  <1>9. got \in Nat
    BY <1>1, <1>7 DEF got
  <1>10. \A k \in 1 .. Size(m) : off[h + 1] + k > got => s[(off[h + 1] + k) - got] = <<m, k>>
    BY <1>2, <1>7 DEF Laid
  <1>11. ASSUME NEW k \in 1 .. n, b + k <= Size(m)
         PROVE  downstream[k] = <<m, b + k>>
    <2>1. Size(m) \in Nat
      BY <1>8, SizeNat
    <2>2. b + k \in 1 .. Size(m)
      BY <1>1, <1>11, <2>1
    <2>3. off[h + 1] + (b + k) > got /\ (off[h + 1] + (b + k)) - got = k
      <3>1. PICK o \in Nat : o = off[h + 1]
        BY <1>7
      <3>2. got = o + b /\ b \in Nat /\ k \in Nat /\ k > 0
        BY <1>1, <3>1 DEF got
      <3>3. o + (b + k) > got /\ (o + (b + k)) - got = k
        BY <3>2
      <3> QED
        BY <3>1, <3>3
    <2>4. s[k] = <<m, b + k>>
      BY <1>10, <2>2, <2>3
    <2> QED
      BY <1>4, <2>4
  <1>12. off[(h + 1) + 1] = off[h + 1] + Size(m)
    BY <1>2, <1>7 DEF Laid
  <1> HIDE DEF h, N, m
  <1>13. Got(off) \in Nat
    BY <1>9 DEF Got, got, b, h
  <1> QED
    BY <1>6, <1>8, <1>11, <1>12, <1>13 DEF h, N, m, b

LEMMA HearTypeAligned ==
  ASSUME Basic, Aligned, HearType
  PROVE  Aligned'
  <1> USE DEF Basic
  <1> SUFFICES ASSUME ~overlapped'
               PROVE  Aligned'
    BY DEF Aligned
  <1>1. /\ UNCHANGED <<open, pending, written, overlapped, heard>>
        /\ open /\ body = 0 /\ downstream # <<>> /\ downstream' = Tail(downstream)
    BY DEF HearType
  <1>2. /\ \A v, w \in Writer : Unfinished(v) /\ Unfinished(w) => v = w
        /\ Prefix
        /\ \E off, rest : Flow(off, rest)
    BY <1>1 DEF Aligned
  <1>3. PICK off, rest : Flow(off, rest)
    BY <1>2
  <1> DEFINE m == written[Len(heard) + 1]
             s == downstream \o rest
             t == downstream' \o rest
  <1>4. /\ downstream \in Seq(Msg \X Nat) /\ rest \in Seq(Msg \X Nat) /\ written \in Seq(Msg)
        /\ downstream' \in Seq(Msg \X Nat)
        /\ 1 <= Len(downstream) /\ 1 \in 1 .. 1 /\ Len(heard) \in Nat
    BY <1>1, <1>3, SMTT(30) DEF Typed, Flow
  <1>5. Behind(downstream', downstream, 1)
    <2>1. Len(Tail(downstream)) = Len(downstream) - 1
      BY <1>1, <1>4
    <2>2. \A k \in 1 .. Len(downstream) - 1 : Tail(downstream)[k] = downstream[1 + k]
      BY <1>1, <1>4
    <2> QED
      BY <1>1, <2>1, <2>2 DEF Behind
  <1>6. /\ Len(heard) < Len(written) /\ m \in Msg
        /\ \A k \in 1 .. 1 : 0 + k <= Size(m) => downstream[k] = <<m, 0 + k>>
        /\ Got(off) \in Nat
    BY <1>1, <1>2, <1>3, <1>4, NextCells
  <1>7. Head(downstream) = <<m, 1>>
    <2>1. downstream[1] = <<m, 1>>
      <3>1. Size(m) \in Nat /\ Size(m) > 1
        BY <1>6, SizeNat
      <3> HIDE DEF m
      <3>2. 0 + 1 <= Size(m) /\ 0 + 1 = 1
        BY <3>1
      <3> QED
        BY <1>6, <3>2
    <2> QED
      BY <1>1, <1>4, <2>1
  <1> HIDE DEF m
  <1>8. body' = BodyBytes[m.type] /\ kind' = m
    <2>1. Head(downstream)[1] = m /\ Head(downstream)[2] = 1
      BY <1>7
    <2>2. \/ /\ Head(downstream)[2] = 1
             /\ body' = BodyBytes[Head(downstream)[1].type]
             /\ kind' = Head(downstream)[1]
          \/ ~(Head(downstream)[2] = 1)
      BY Zenon DEF HearType
    <2> QED
      BY <2>1, <2>2
  <1>9. body' > 0
    BY <1>6, <1>8, SizeNat
  <1>10. s \in Seq(Msg \X Nat) /\ t \in Seq(Msg \X Nat)
    BY <1>4, ConcatFacts
  <1>11. Behind(t, s, 1) /\ 1 <= Len(s)
    BY <1>4, <1>5, ConcatBehind
  <1> HIDE DEF s, t
  <1>12. Laid(written, off, Got(off), s)
    BY <1>3, Zenon DEF Flow, s
  <1>13. Laid(written, off, Got(off) + 1, t)
    BY <1>4, <1>6, <1>10, <1>11, <1>12, LaidAdvance
  <1>14. Got(off)' = Got(off) + 1
    <2>1. Got(off) = off[Len(heard) + 1] + 0
      BY <1>1 DEF Got
    <2>2. Got(off)' = off[Len(heard) + 1] + 1
      BY <1>1, <1>9 DEF Got
    <2>3. off[Len(heard) + 1] \in Nat
      <3>1. Len(heard) + 1 \in 1 .. Len(written) + 1
        BY <1>4, <1>6
      <3>2. off \in [1 .. Len(written) + 1 -> Nat]
        BY <1>12 DEF Laid
      <3> QED
        BY <3>1, <3>2
    <2> QED
      BY <2>1, <2>2, <2>3
  <1>15. Laid(written', off, Got(off)', downstream' \o rest)
    BY <1>1, <1>13, <1>14, Zenon DEF t
  <1>16. \A w \in Writer : (Unfinished(w)' <=> Unfinished(w)) /\ pending'[w] = pending[w]
    BY <1>1 DEF Unfinished
  <1>17. Flow(off, rest)'
    <2>1. /\ \A w \in Writer : Unfinished(w)' => rest = pending'[w]
          /\ (\A w \in Writer : ~Unfinished(w)') => rest = <<>>
      BY <1>3, <1>16 DEF Flow
    <2> QED
      BY <1>4, <1>15, <2>1, Zenon DEF Flow
  <1>18. Prefix'
    BY <1>1, <1>2 DEF Prefix
  <1>19. /\ Len(heard') < Len(written')
         /\ kind' = written'[Len(heard') + 1]
         /\ body' = BodyBytes[kind'.type]
    BY <1>1, <1>6, <1>8 DEF m
  <1>20. \A v, w \in Writer : Unfinished(v)' /\ Unfinished(w)' => v = w
    BY <1>2, <1>16
  <1> QED
    BY <1>17, <1>18, <1>19, <1>20 DEF Aligned

LEMMA HearBodyAligned ==
  ASSUME Basic, Aligned, HearBody
  PROVE  Aligned'
  <1> USE DEF Basic
  <1> SUFFICES ASSUME ~overlapped'
               PROVE  Aligned'
    BY DEF Aligned
  <1>1. /\ UNCHANGED <<open, pending, written, overlapped>>
        /\ open /\ body > 0 /\ body' = 0 /\ body <= Len(downstream)
        /\ downstream' = SubSeq(downstream, body + 1, Len(downstream))
        /\ heard' = Append(heard, IF kind # NoMessage
                                       /\ SubSeq(downstream, 1, body) = Tail(Bytes(kind))
                                  THEN kind ELSE NoMessage)
    <2>1. PICK n \in BodyRead :
            /\ Len(downstream) >= n
            /\ heard' = Append(heard, IF kind # NoMessage /\ SubSeq(downstream, 1, n) = Tail(Bytes(kind))
                                      THEN kind ELSE NoMessage)
            /\ downstream' = SubSeq(downstream, n + 1, Len(downstream))
      BY Zenon DEF HearBody
    <2>2. n = body
      BY DEF BodyRead
    <2>3. body <= Len(downstream)
      BY <2>1, <2>2 DEF Typed
    <2> QED
      BY <2>1, <2>2, <2>3 DEF HearBody
  <1>2. /\ \A v, w \in Writer : Unfinished(v) /\ Unfinished(w) => v = w
        /\ Prefix
        /\ Len(heard) < Len(written) /\ kind = written[Len(heard) + 1]
        /\ body = BodyBytes[kind.type]
        /\ \E off, rest : Flow(off, rest)
    BY <1>1 DEF Aligned
  <1>3. PICK off, rest : Flow(off, rest)
    BY <1>2
  <1> DEFINE m == written[Len(heard) + 1]
             s == downstream \o rest
             t == downstream' \o rest
  <1>4. /\ downstream \in Seq(Msg \X Nat) /\ rest \in Seq(Msg \X Nat) /\ written \in Seq(Msg)
        /\ body \in Nat /\ Len(heard) \in Nat /\ Len(downstream) \in Nat
        /\ heard \in Seq(Msg \union {NoMessage})
    BY <1>3 DEF Typed, Flow
  <1>5. /\ m \in Msg
        /\ \A k \in 1 .. body : 1 + k <= Size(m) => downstream[k] = <<m, 1 + k>>
        /\ Got(off) \in Nat
        /\ off[(Len(heard) + 1) + 1] = off[Len(heard) + 1] + Size(m)
    BY <1>1, <1>2, <1>3, <1>4, NextCells
  <1>6. kind = m /\ Size(m) = 1 + body
    BY <1>2 DEF Size
  <1> HIDE DEF m
  <1>7. SubSeq(downstream, 1, body) = Tail(Bytes(m))
    <2>1. /\ Bytes(m) \in Seq(Msg \X Nat)
          /\ Len(Bytes(m)) = 1 + body
          /\ \A k \in 1 .. 1 + body : Bytes(m)[k] = <<m, k>>
      BY <1>5, <1>6, BytesFacts
    <2> DEFINE b == Bytes(m)
    <2> HIDE DEF b
    <2>2. /\ b \in Seq(Msg \X Nat) /\ Len(b) = 1 + body
          /\ \A k \in 1 .. 1 + body : b[k] = <<m, k>>
      BY <2>1 DEF b
    <2>3. /\ Tail(b) \in Seq(Msg \X Nat) /\ Len(Tail(b)) = body
          /\ \A k \in 1 .. body : Tail(b)[k] = b[1 + k]
      BY <1>4, <2>2
    <2>4. /\ SubSeq(downstream, 1, body) \in Seq(Msg \X Nat)
          /\ Len(SubSeq(downstream, 1, body)) = body
          /\ \A k \in 1 .. body : SubSeq(downstream, 1, body)[k] = downstream[k]
      BY <1>1, <1>4, CutFacts
    <2>5. \A k \in 1 .. body : downstream[k] = b[1 + k]
      <3>1. \A k \in 1 .. body : 1 + k <= 1 + body /\ 1 + k \in 1 .. 1 + body
        BY <1>4
      <3> QED
        BY <1>5, <1>6, <2>2, <3>1
    <2>6. SubSeq(downstream, 1, body) = Tail(b)
      <3> DEFINE l == SubSeq(downstream, 1, body)
                 r == Tail(b)
      <3>1. l \in Seq(Msg \X Nat) /\ r \in Seq(Msg \X Nat) /\ Len(l) = Len(r)
            /\ \A k \in 1 .. Len(l) : l[k] = r[k]
        BY <2>3, <2>4, <2>5
      <3> HIDE DEF l, r
      <3>2. l = r
        BY <3>1, SameSeq
      <3> QED
        BY <3>2 DEF l, r
    <2> QED
      BY <2>6 DEF b
  <1>8. heard' = Append(heard, m)
    <2>1. m.type # "" /\ NoMessage.type = ""
      BY <1>5 DEF Msg, NoMessage
    <2>2. m # NoMessage
      BY <2>1
    <2> QED
      BY <1>1, <1>6, <1>7, <2>2
  <1>9. /\ Len(heard') = Len(heard) + 1
        /\ \A k \in 1 .. Len(heard) : heard'[k] = heard[k]
        /\ heard'[Len(heard) + 1] = m
    BY <1>4, <1>8, AppendFacts
  <1>10. Prefix'
    <2>1. Len(heard') <= Len(written')
      BY <1>1, <1>2, <1>4, <1>9
    <2>2. ASSUME NEW k \in 1 .. Len(heard')
          PROVE  heard'[k] = written'[k]
      <3>1. k \in 1 .. Len(heard) \/ k = Len(heard) + 1
        BY <1>4, <1>9
      <3>2. CASE k \in 1 .. Len(heard)
        BY <1>1, <1>2, <1>9, <3>2 DEF Prefix
      <3>3. CASE k = Len(heard) + 1
        BY <1>1, <1>9, <3>3 DEF m
      <3> QED
        BY <3>1, <3>2, <3>3
    <2> QED
      BY <2>1, <2>2 DEF Prefix
  <1>11. downstream' \in Seq(Msg \X Nat) /\ Behind(downstream', downstream, body)
    <2>1. /\ downstream' \in Seq(Msg \X Nat)
          /\ Len(downstream') = Len(downstream) - body
          /\ \A k \in 1 .. Len(downstream) - body : downstream'[k] = downstream[body + k]
      BY <1>1, <1>4, CutFacts, ZenonT(40)
    <2> QED
      BY <2>1 DEF Behind
  <1>12. s \in Seq(Msg \X Nat) /\ t \in Seq(Msg \X Nat)
    BY <1>4, <1>11, ConcatFacts
  <1>13. Behind(t, s, body) /\ body <= Len(s)
    BY <1>1, <1>4, <1>11, ConcatBehind
  <1> HIDE DEF s, t
  <1>14. Laid(written, off, Got(off), s)
    BY <1>3, Zenon DEF Flow, s
  <1>15. Laid(written, off, Got(off) + body, t)
    BY <1>4, <1>5, <1>12, <1>13, <1>14, LaidAdvance
  <1>16. Got(off)' = Got(off) + body
    <2> DEFINE x == off[Len(heard) + 1]
               y == off[(Len(heard) + 1) + 1]
    <2>1. x \in Nat
      <3>1. Len(heard) + 1 \in 1 .. Len(written) + 1
        <4>1. Len(written) \in Nat
          BY <1>4
        <4> QED
          BY <1>2, <1>4, <4>1
      <3>2. off \in [1 .. Len(written) + 1 -> Nat]
        BY <1>14 DEF Laid
      <3> QED
        BY <3>1, <3>2
    <2>2. Got(off) = x + 1
      BY <1>1 DEF Got
    <2>3. Got(off)' = off[Len(heard') + 1] + 0
      BY <1>1 DEF Got
    <2>4. off[Len(heard') + 1] = y
      BY <1>9
    <2>5. y = x + Size(m)
      BY <1>5
    <2> HIDE DEF x, y
    <2> QED
      BY <1>4, <1>6, <2>1, <2>2, <2>3, <2>4, <2>5
  <1>17. Laid(written', off, Got(off)', downstream' \o rest)
    BY <1>1, <1>15, <1>16, Zenon DEF t
  <1>18. \A w \in Writer : (Unfinished(w)' <=> Unfinished(w)) /\ pending'[w] = pending[w]
    BY <1>1 DEF Unfinished
  <1>19. Flow(off, rest)'
    <2>1. /\ \A w \in Writer : Unfinished(w)' => rest = pending'[w]
          /\ (\A w \in Writer : ~Unfinished(w)') => rest = <<>>
      BY <1>3, <1>18 DEF Flow
    <2> QED
      BY <1>4, <1>17, <2>1, Zenon DEF Flow
  <1>20. \A v, w \in Writer : Unfinished(v)' /\ Unfinished(w)' => v = w
    BY <1>2, <1>18
  <1>21. ~(body' > 0)
    BY <1>1
  <1> QED
    BY <1>10, <1>19, <1>20, <1>21 DEF Aligned

\* Written in pieces or at once, the cells on the way to the client are the same.
LEMMA Recut ==
  ASSUME NEW d \in Seq(Msg \X Nat), NEW p \in Seq(Msg \X Nat), NEW n \in Nat, n <= Len(p)
  PROVE  (d \o SubSeq(p, 1, n)) \o SubSeq(p, n + 1, Len(p)) = d \o p
  <1> DEFINE p1 == SubSeq(p, 1, n)
             p2 == SubSeq(p, n + 1, Len(p))
             e == d \o p1
             l == e \o p2
             r == d \o p
  <1>1. /\ p1 \in Seq(Msg \X Nat) /\ Len(p1) = n /\ \A k \in 1 .. n : p1[k] = p[k]
        /\ p2 \in Seq(Msg \X Nat) /\ Len(p2) = Len(p) - n
        /\ \A k \in 1 .. Len(p) - n : p2[k] = p[n + k]
    BY CutFacts
  <1> HIDE DEF p1, p2
  <1>2. /\ e \in Seq(Msg \X Nat) /\ Len(e) = Len(d) + n
        /\ \A k \in 1 .. Len(d) : e[k] = d[k]
        /\ \A k \in 1 .. n : e[Len(d) + k] = p1[k]
    <2>1. e \in Seq(Msg \X Nat) /\ Len(e) = Len(d) + Len(p1)
      BY <1>1, ConcatFacts
    <2>2. \A k \in 1 .. Len(d) : e[k] = d[k]
      BY <1>1, ConcatFacts
    <2>3. \A k \in 1 .. Len(p1) : e[Len(d) + k] = p1[k]
      BY <1>1, ConcatFacts
    <2> QED
      BY <1>1, <2>1, <2>2, <2>3
  <1>3. /\ r \in Seq(Msg \X Nat) /\ Len(r) = Len(d) + Len(p)
        /\ \A k \in 1 .. Len(d) : r[k] = d[k]
        /\ \A k \in 1 .. Len(p) : r[Len(d) + k] = p[k]
    <2>1. r \in Seq(Msg \X Nat) /\ Len(r) = Len(d) + Len(p)
      BY ConcatFacts
    <2>2. \A k \in 1 .. Len(d) : r[k] = d[k]
      BY ConcatFacts
    <2>3. \A k \in 1 .. Len(p) : r[Len(d) + k] = p[k]
      BY ConcatFacts
    <2> QED
      BY <2>1, <2>2, <2>3
  <1> HIDE DEF e, r
  <1>4. /\ l \in Seq(Msg \X Nat) /\ Len(l) = Len(e) + Len(p2)
        /\ \A k \in 1 .. Len(e) : l[k] = e[k]
        /\ \A k \in 1 .. Len(p2) : l[Len(e) + k] = p2[k]
    <2>1. l \in Seq(Msg \X Nat) /\ Len(l) = Len(e) + Len(p2)
      BY <1>1, <1>2, ConcatFacts
    <2>2. \A k \in 1 .. Len(e) : l[k] = e[k]
      BY <1>1, <1>2, ConcatFacts
    <2>3. \A k \in 1 .. Len(p2) : l[Len(e) + k] = p2[k]
      <3>1. e \in Seq(Msg \X Nat) /\ p2 \in Seq(Msg \X Nat)
        BY <1>1, <1>2
      <3>2. \A k \in 1 .. Len(p2) : (e \o p2)[Len(e) + k] = p2[k]
        BY ONLY <3>1, ConcatFacts
      <3> QED
        BY <3>2
    <2> QED
      BY <2>1, <2>2, <2>3
  <1> HIDE DEF l
  <1>5. Len(d) \in Nat /\ Len(p) \in Nat
    OBVIOUS
  <1>6. Len(l) = Len(r)
    BY <1>1, <1>2, <1>3, <1>4, <1>5
  <1>7. ASSUME NEW k \in 1 .. Len(l)
        PROVE  l[k] = r[k]
    <2>1. CASE k \in 1 .. Len(d)
      <3>1. k \in 1 .. Len(e)
        BY <1>2, <1>5, <2>1
      <3> QED
        BY <1>2, <1>3, <1>4, <2>1, <3>1
    <2>2. CASE k - Len(d) \in 1 .. n
      <3> DEFINE x == k - Len(d)
      <3>1. x \in 1 .. n /\ x \in 1 .. Len(p) /\ Len(d) + x = k /\ k \in 1 .. Len(e)
        BY <1>2, <1>5, <2>2
      <3> HIDE DEF x
      <3>2. l[k] = e[k] /\ e[Len(d) + x] = p1[x] /\ p1[x] = p[x] /\ r[Len(d) + x] = p[x]
        BY <1>1, <1>2, <1>3, <1>4, <3>1
      <3> QED
        BY <3>1, <3>2
    <2>3. CASE k - (Len(d) + n) \in 1 .. Len(p) - n
      <3> DEFINE x == k - (Len(d) + n)
      <3>1. x \in 1 .. Len(p) - n /\ n + x \in 1 .. Len(p) /\ Len(e) + x = k /\ Len(d) + (n + x) = k
        BY <1>2, <1>5, <2>3
      <3> HIDE DEF x
      <3>2. l[Len(e) + x] = p2[x] /\ p2[x] = p[n + x] /\ r[Len(d) + (n + x)] = p[n + x]
        BY <1>1, <1>3, <1>4, <3>1
      <3> QED
        BY <3>1, <3>2
    <2>4. k \in 1 .. Len(d) \/ k - Len(d) \in 1 .. n \/ k - (Len(d) + n) \in 1 .. Len(p) - n
      BY <1>3, <1>5, <1>6
    <2> QED
      BY <2>1, <2>2, <2>3, <2>4
  <1>8. l = r
    BY <1>3, <1>4, <1>6, <1>7, SameSeq
  <1> QED
    BY <1>8 DEF l, e, p1, p2, r

LEMMA WriteAligned ==
  ASSUME Basic, Aligned, NEW w \in Writer, Write(w)
  PROVE  Aligned'
  <1> USE DEF Basic
  <1> SUFFICES ASSUME ~overlapped'
               PROVE  Aligned'
    BY DEF Aligned
  <1>1. ~overlapped /\ \A v \in Writer \ {w} : ~Unfinished(v)
    <2>1. overlapped' = (overlapped \/ \E v \in Writer \ {w} : Unfinished(v))
      BY DEF Write
    <2> QED
      BY <2>1
  <1>2. UNCHANGED <<open, body, kind, heard>>
    BY DEF Write, clientVars
  <1>3. PICK n, m, j : WroteAs(w, n, m, j)
    BY WriteShape
  <1> DEFINE p == pending[w]
  <1>4. /\ p \in Seq(Msg \X Nat) /\ Len(p) \in Nat /\ n \in Nat /\ n > 0 /\ n <= Len(p)
        /\ m \in Msg /\ j \in Nat /\ j > 0 /\ Size(m) \in Nat
        /\ written \in Seq(Msg) /\ downstream \in Seq(Msg \X Nat)
        /\ pending'[w] \in Seq(Msg \X Nat)
        /\ Len(heard) \in Nat /\ Len(written) \in Nat
    <2>1. m \in Msg
      BY <1>3 DEF WroteAs, Left
    <2>2. Size(m) \in Nat /\ j \in 1 .. Size(m) /\ n \in 1 .. Len(p)
      BY <1>3, <2>1, SizeNat DEF WroteAs, Left
    <2>3. p \in Seq(Msg \X Nat) /\ pending'[w] \in Seq(Msg \X Nat)
      BY <1>3 DEF WroteAs, Typed
    <2> QED
      BY <2>1, <2>2, <2>3, SMTT(30) DEF Typed
  <1>5. \A v \in Writer \ {w} : ~Unfinished(v)'
    <2>1. \A v \in Writer \ {w} : pending'[v] = pending[v]
      BY <1>3 DEF WroteAs
    <2> QED
      BY <1>1, <2>1 DEF Unfinished
  <1>6. Unfinished(w)' \/ pending'[w] = <<>>
    <2>1. CASE n = Len(p)
      BY <1>3, <2>1 DEF WroteAs
    <2>2. CASE n < Len(p)
      <3>1. Left(pending'[w], m, j + n)
        BY <1>3, <2>2 DEF WroteAs
      <3> DEFINE q == pending'[w]
      <3>2. Len(q) = Size(m) - (j + n) + 1 /\ j + n \in 1 .. Size(m)
            /\ \A k \in 1 .. Len(q) : q[k] = <<m, (j + n) + k - 1>>
        BY <3>1 DEF Left
      <3> HIDE DEF q
      <3>3. 1 \in 1 .. Len(q) /\ (j + n) + 1 - 1 = j + n /\ j + n > 1
        BY <1>4, <3>2
      <3>4. q[1] = <<m, j + n>>
        BY <3>2, <3>3
      <3>5. q # <<>> /\ q[1][2] > 1
        BY <3>3, <3>4
      <3> QED
        BY <3>5 DEF q, Unfinished
    <2>3. n = Len(p) \/ n < Len(p)
      BY <1>4
    <2> QED
      BY <2>1, <2>2, <2>3
  <1>7. /\ Len(written) <= Len(written')
        /\ \A k \in 1 .. Len(written) : written'[k] = written[k]
    <2>1. CASE written' = written
      BY <1>4, <2>1
    <2>2. CASE written' = Append(written, m)
      BY <1>4, <2>2, AppendFacts
    <2> QED
      BY <1>3, <2>1, <2>2 DEF WroteAs
  <1>8. Prefix'
    <2>1. Prefix
      BY <1>1 DEF Aligned
    <2>2. \A k \in 1 .. Len(heard) : k \in 1 .. Len(written)
      BY <1>4, <2>1 DEF Prefix
    <2>3. Len(heard) <= Len(written')
      <3>1. Len(written') \in Nat
        BY <1>3, <1>4 DEF WroteAs
      <3> QED
        BY <1>4, <1>7, <2>1, <3>1 DEF Prefix
    <2> QED
      BY <1>2, <1>7, <2>1, <2>2, <2>3 DEF Prefix
  <1>9. ASSUME open', body' > 0
        PROVE  /\ Len(heard') < Len(written')
               /\ kind' = written'[Len(heard') + 1]
               /\ body' = BodyBytes[kind'.type]
    <2>1. /\ Len(heard) < Len(written)
          /\ kind = written[Len(heard) + 1]
          /\ body = BodyBytes[kind.type]
      BY <1>1, <1>2, <1>9 DEF Aligned
    <2>2. Len(heard) + 1 \in 1 .. Len(written)
      BY <1>4, <2>1
    <2>3. Len(heard) < Len(written')
      <3>1. Len(written') \in Nat
        BY <1>3, <1>4 DEF WroteAs
      <3> QED
        BY <1>4, <1>7, <2>1, <3>1
    <2> QED
      BY <1>2, <1>7, <2>1, <2>2, <2>3
  <1>10. ASSUME open'
         PROVE  \E off, rest : Flow(off, rest)'
    <2> DEFINE d == downstream
    <2>0. PICK p2 \in Seq(Msg \X Nat) : p2 = pending'[w]
      BY <1>4
    <2>1. PICK off, rest : Flow(off, rest)
      BY <1>1, <1>2, <1>10 DEF Aligned
    <2>2. downstream' \o p2 = d \o p
      <3>1. downstream' = d \o SubSeq(p, 1, n) /\ p2 = SubSeq(p, n + 1, Len(p))
        BY <1>2, <1>3, <1>10, <2>0 DEF WroteAs
      <3>2. (d \o SubSeq(p, 1, n)) \o SubSeq(p, n + 1, Len(p)) = d \o p
        BY <1>4, Recut, ZenonT(40)
      <3> QED
        BY <3>1, <3>2
    <2>3. d \o p \in Seq(Msg \X Nat)
      BY <1>4, ConcatFacts
    <2>4. \E off2 : Laid(written', off2, Got(off2)', d \o p)
      <3>1. CASE j > 1
        <4>1. rest = p
          BY <1>3, <2>1, <3>1 DEF Flow, WroteAs
        <4>2. Got(off)' = Got(off) /\ written' = written
          BY <1>2, <1>3, <3>1 DEF Got, WroteAs
        <4>3. Laid(written, off, Got(off), d \o p)
          BY <2>1, <4>1 DEF Flow
        <4> QED
          BY <4>2, <4>3
      <3>2. CASE ~(j > 1)
        <4>1. rest = <<>>
          <5>1. ~Unfinished(w)
            BY <1>3, <3>2 DEF WroteAs
          <5>2. \A v \in Writer : ~Unfinished(v)
            BY <1>1, <5>1
          <5> QED
            BY <2>1, <5>2 DEF Flow
        <4>2. d \o rest = d
          BY <1>4, <4>1
        <4>3. Laid(written, off, Got(off), d)
          BY <2>1, <4>2, Zenon DEF Flow
        <4>4. /\ Len(p) = Size(m) /\ \A k \in 1 .. Size(m) : p[k] = <<m, k>>
          <5>1. j = 1
            BY <1>4, <3>2
          <5>2. Left(p, m, 1)
            BY <1>3, <5>1 DEF WroteAs
          <5>3. Len(p) = Size(m) - 1 + 1 /\ \A k \in 1 .. Len(p) : p[k] = <<m, 1 + k - 1>>
            BY <5>2 DEF Left
          <5>4. Len(p) = Size(m) /\ \A k \in 1 .. Size(m) : 1 + k - 1 = k
            BY <1>4, <5>3
          <5> QED
            BY <5>3, <5>4
        <4> HIDE DEF d, p
        <4>5. /\ Len(d \o p) = Len(d) + Size(m)
              /\ \A k \in 1 .. Len(d) : (d \o p)[k] = d[k]
              /\ \A k \in 1 .. Size(m) : (d \o p)[Len(d) + k] = <<m, k>>
          <5>1. Len(d \o p) = Len(d) + Len(p)
            BY <1>4, ConcatFacts DEF d
          <5>2. \A k \in 1 .. Len(d) : (d \o p)[k] = d[k]
            BY <1>4, ConcatFacts DEF d
          <5>3. \A k \in 1 .. Len(p) : (d \o p)[Len(d) + k] = p[k]
            BY <1>4, ConcatFacts DEF d
          <5> QED
            BY <4>4, <5>1, <5>2, <5>3
        <4>6. Got(off) \in Nat /\ Len(heard) + 1 \in 1 .. Len(written) + 1
          <5>1. Len(heard) + 1 \in 1 .. Len(written) + 1
            BY <1>1, <1>4 DEF Aligned, Prefix
          <5>2. off[Len(heard) + 1] \in Nat
            BY <4>3, <5>1 DEF Laid
          <5> QED
            BY <5>1, <5>2 DEF Got
        <4>7. PICK off2 : /\ Laid(Append(written, m), off2, Got(off), d \o p)
                          /\ \A i \in 1 .. Len(written) + 1 : off2[i] = off[i]
          <5>1. d \in Seq(Msg \X Nat) /\ written \in Seq(Msg) /\ m \in Msg
            BY <1>4 DEF d
          <5>2. PICK g \in Nat : g = Got(off)
            BY <4>6
          <5>3. PICK ws \in Seq(Msg) : ws = written
            BY <5>1
          <5>4. PICK c \in Seq(Msg \X Nat) : c = d
            BY <5>1
          <5>5. PICK s2 \in Seq(Msg \X Nat) : s2 = d \o p
            BY <2>3
          <5>6. Followed(s2, c, m)
            BY <4>5, <5>4, <5>5 DEF Followed
          <5>7. Laid(ws, off, g, c)
            BY <4>3, <5>2, <5>3, <5>4, Zenon
          <5>8. Extends(off, ws, Append(ws, m), g, s2)
            BY <5>1, <5>6, <5>7, LaidAppend
          <5> QED
            BY <5>2, <5>3, <5>5, <5>8, Zenon DEF Extends
        <4>8. Got(off2)' = Got(off)
          <5>1. off2[Len(heard) + 1] = off[Len(heard) + 1]
            BY <4>6, <4>7
          <5> QED
            BY <1>2, <5>1 DEF Got
        <4>9. written' = Append(written, m)
          BY <1>3, <3>2 DEF WroteAs
        <4> QED
          BY <4>7, <4>8, <4>9
      <3> QED
        BY <3>1, <3>2
    <2>5. PICK off2 : Laid(written', off2, Got(off2)', d \o p)
      BY <2>4
    <2>6. /\ p2 \in Seq(Msg \X Nat)
          /\ \A v \in Writer : Unfinished(v)' => p2 = pending'[v]
          /\ (\A v \in Writer : ~Unfinished(v)') => p2 = <<>>
      BY <1>5, <1>6, <2>0
    <2>7. Laid(written', off2, Got(off2)', downstream' \o p2)
      BY <2>2, <2>5
    <2>8. Flow(off2, p2)'
      BY <2>6, <2>7, Zenon DEF Flow
    <2> QED
      BY <2>8
  <1>11. \A u, v \in Writer : Unfinished(u)' /\ Unfinished(v)' => u = v
    BY <1>5
  <1> QED
    BY <1>8, <1>9, <1>10, <1>11 DEF Aligned

LEMMA InitAligned == Init => Aligned
  <1> SUFFICES ASSUME Init
               PROVE  Aligned
    OBVIOUS
  <1>1. /\ written = <<>> /\ heard = <<>> /\ downstream = <<>> /\ body = 0
        /\ \A w \in Writer : ~Unfinished(w)
    BY DEF Init, Unfinished
  <1> DEFINE off == [k \in 1 .. 1 |-> 0]
  <1>2. Laid(<<>>, off, 0, <<>>)
    <2>1. off \in [1 .. 0 + 1 -> Nat] /\ off[1] = 0 /\ off[0 + 1] = 0
      OBVIOUS
    <2>2. Len(<<>>) = 0
      OBVIOUS
    <2> HIDE DEF off
    <2> QED
      BY <2>1, <2>2 DEF Laid
  <1>3. Got(off) = 0 /\ downstream \o <<>> = <<>>
    <2>1. Len(heard) + 1 = 1 /\ off[1] = 0
      BY <1>1
    <2> QED
      BY <1>1, <2>1 DEF Got
  <1> HIDE DEF off
  <1>4. Flow(off, <<>>)
    <2>1. Laid(written, off, Got(off), downstream \o <<>>)
      BY <1>1, <1>2, <1>3, Zenon
    <2>2. <<>> \in Seq(Msg \X Nat)
      OBVIOUS
    <2> QED
      BY <1>1, <2>1, <2>2 DEF Flow
  <1>5. Prefix
    BY <1>1 DEF Prefix
  <1> QED
    BY <1>1, <1>4, <1>5 DEF Aligned

LEMMA NextAligned ==
  ASSUME Basic, Aligned, [Next]_vars
  PROVE  Aligned'
  <1> USE DEF Basic
  <1>1. CASE HearType
    BY <1>1, HearTypeAligned
  <1>2. CASE HearBody
    BY <1>2, HearBodyAligned
  <1>3. ASSUME NEW w \in Writer, Write(w)
        PROVE  Aligned'
    BY <1>3, WriteAligned
  <1>4. ASSUME NEW w \in Writer, pending[w] = <<>>,
               pending'[w] = <<>> \/ \E m \in Msg : pending'[w] = Bytes(m),
               \A v \in Writer \ {w} : pending'[v] = pending[v],
               UNCHANGED <<downstream, written, overlapped, body, kind, heard, open>>
        PROVE  Aligned'
    <2>1. ~Unfinished(w)
      BY <1>4 DEF Unfinished
    <2>2. ~Unfinished(w)'
      <3>1. CASE pending'[w] = <<>>
        BY <3>1 DEF Unfinished
      <3>2. ASSUME NEW m \in Msg, pending'[w] = Bytes(m)
            PROVE  ~Unfinished(w)'
        <4>1. Bytes(m)[1] = <<m, 1>>
          <5>1. Size(m) \in Nat /\ 1 \in 1 .. Size(m)
            BY SizeNat
          <5> QED
            BY <5>1, BytesFacts
        <4>2. pending'[w][1][2] = 1
          BY <3>2, <4>1
        <4> QED
          BY <4>2 DEF Unfinished
      <3> QED
        BY <1>4, <3>1, <3>2
    <2>3. \A v \in Writer : (Unfinished(v)' <=> Unfinished(v)) /\ (Unfinished(v) => pending'[v] = pending[v])
      BY <1>4, <2>1, <2>2 DEF Unfinished
    <2> QED
      BY <1>4, <2>3, AlignedKept
  <1>5. CASE readListener
    <2>1. PICK n, d : ReadAs(n, d)
      BY <1>5, ReadShape
    <2>2. /\ pending' = [pending EXCEPT !["handler"] = Bytes(AnswerTo(d))]
          /\ pending \in [Writer -> Seq(Msg \X Nat)] /\ AnswerTo(d) \in Msg
      BY <2>1 DEF ReadAs, Typed
    <2>3. /\ pending'["handler"] = Bytes(AnswerTo(d)) /\ "handler" \in Writer
          /\ \A v \in Writer \ {"handler"} : pending'[v] = pending[v]
      BY <2>2 DEF Writer
    <2>4. /\ pending["handler"] = <<>>
          /\ UNCHANGED <<downstream, written, overlapped, body, kind, heard, open>>
      BY <1>5 DEF readListener, clientVars
    <2> QED
      BY <1>4, <2>2, <2>3, <2>4
  <1>6. CASE process_one
    <2>1. /\ pending["market"] = <<>>
          /\ \A v \in Writer \ {"market"} : pending'[v] = pending[v]
          /\ pending'["market"] = <<>>
               \/ \E m : MarketSays(m) /\ pending'["market"] = Bytes(m)
      BY <1>6, ProcessShape
    <2>2. pending'["market"] = <<>> \/ \E m \in Msg : pending'["market"] = Bytes(m)
      BY <2>1 DEF MarketSays
    <2>3. /\ "market" \in Writer
          /\ UNCHANGED <<downstream, written, overlapped, body, kind, heard, open>>
      BY <1>6 DEF process_one, clientVars, Writer
    <2> QED
      BY <1>4, <2>1, <2>2, <2>3
  <1>7. CASE Send \/ Leave \/ submit_order \/ ReadError
               \/ (\E w \in Writer : WriteThrows(w)) \/ UNCHANGED vars
    <2>1. /\ UNCHANGED <<downstream, written, overlapped, body, kind, heard, pending>>
          /\ open' => open
      BY <1>7 DEF Send, Leave, submit_order, ReadError, WriteThrows, vars, socketVars, clientVars
    <2>2. \A w \in Writer : (Unfinished(w)' <=> Unfinished(w)) /\ pending'[w] = pending[w]
      BY <2>1 DEF Unfinished
    <2> QED
      BY <2>1, <2>2, AlignedKept
  <1> QED
    BY <1>1, <1>2, <1>3, <1>5, <1>6, <1>7 DEF Next

\* As long as no two writes overlapped on the socket, what the client has
\* decoded is the first part of what the server wrote, message by message.
THEOREM MessagesWhole == Spec => []HeardWhole
  <1>1. Basic /\ Aligned => HeardWhole
    <2> SUFFICES ASSUME Basic, Aligned, ~overlapped
                 PROVE  IsPrefix(heard, written)
      BY DEF HeardWhole
    <2>1. Prefix
      BY DEF Aligned
    <2> DEFINE h == Len(heard)
               S == Msg \union {NoMessage}
    <2>2. heard \in Seq(S) /\ written \in Seq(S) /\ h \in Nat /\ Len(written) \in Nat
      BY DEF Basic, Typed
    <2>3. h <= Len(written) /\ h <= h
      BY <2>1, <2>2 DEF Prefix
    <2> HIDE DEF S, h
    <2>4. /\ SubSeq(heard, 1, h) \in Seq(S) /\ Len(SubSeq(heard, 1, h)) = h
          /\ \A k \in 1 .. h : SubSeq(heard, 1, h)[k] = heard[k]
      <3>1. h <= Len(heard)
        BY <2>3 DEF h
      <3> QED
        BY <2>2, <3>1, CutFacts
    <2>5. /\ SubSeq(written, 1, h) \in Seq(S) /\ Len(SubSeq(written, 1, h)) = h
          /\ \A k \in 1 .. h : SubSeq(written, 1, h)[k] = written[k]
      BY <2>2, <2>3, CutFacts
    <2>6. \A k \in 1 .. h : SubSeq(heard, 1, h)[k] = SubSeq(written, 1, h)[k]
      BY <2>1, <2>4, <2>5 DEF Prefix, h
    <2>7. SubSeq(heard, 1, h) = SubSeq(written, 1, h)
      BY <2>4, <2>5, <2>6, SameSeq
    <2> QED
      BY <2>3, <2>7 DEF IsPrefix, h
  <1>2. (Basic /\ Aligned) /\ [Next]_vars => (Basic /\ Aligned)'
    BY NextBasic, NextAligned
  <1> QED
    BY <1>1, <1>2, InitBasic, InitAligned, PTL DEF Spec

-----------------------------------------------------------------------------
(* The wire format: recursive functions *)

LEMMA LeastNumber ==
  ASSUME NEW T, T \subseteq Nat, T # {}
  PROVE  \E m \in T : \A n \in T : m <= n
  <1>1. PICK m \in T : \A n \in T : <<n, m>> \notin OpToRel(<, Nat)
    BY WFMin, NatLessThanWellFounded, Zenon
  <1>2. ASSUME NEW n \in T, n < m
        PROVE  FALSE
    <2>1. <<n, m>> \in OpToRel(<, Nat)
      BY <1>2, Zenon DEF OpToRel
    <2> QED
      BY <1>1, <2>1
  <1>3. \A n \in T : m <= n
    BY <1>2
  <1> QED
    BY <1>3

\* What holds of 0 and passes from each number to the next holds of all.
LEMMA Climb ==
  ASSUME NEW S, 0 \in S, \A m \in Nat : m \in S => m + 1 \in S
  PROVE  Nat \subseteq S
  <1> SUFFICES ASSUME Nat \ S # {}
               PROVE  FALSE
    OBVIOUS
  <1>1. PICK m \in Nat \ S : \A k \in Nat \ S : m <= k
    BY LeastNumber
  <1>2. m - 1 \in Nat /\ m = (m - 1) + 1 /\ ~(m <= m - 1)
    BY <1>1
  <1>3. m - 1 \in S
    BY <1>1, <1>2
  <1> QED
    BY <1>1, <1>2, <1>3

\* The first values of the sequence that begins with base and goes on by step.
Runs(f, n, base, step) == f[0] = base /\ \A k \in 0 .. n - 1 : f[k + 1] = step[k][f[k]]

\* Such a sequence exists.
LEMMA Recursion ==
  ASSUME NEW S, NEW base \in S, NEW step \in [Nat -> [S -> S]]
  PROVE  \E f \in [Nat -> S] : \A n \in Nat : Runs(f, n, base, step)
  <1> DEFINE D == {n \in Nat : \E f \in [Nat -> S] : Runs(f, n, base, step)}
  <1>1. 0 \in D
    <2>1. [k \in Nat |-> base] \in [Nat -> S] /\ Runs([k \in Nat |-> base], 0, base, step)
      BY DEF Runs
    <2> QED
      BY <2>1
  <1>2. ASSUME NEW n \in Nat, n \in D
        PROVE  n + 1 \in D
    <2>1. PICK f \in [Nat -> S] : Runs(f, n, base, step)
      BY <1>2
    <2> DEFINE g == [f EXCEPT ![n + 1] = step[n][f[n]]]
    <2>2. g \in [Nat -> S]
      OBVIOUS
    <2>3. g[n + 1] = step[n][f[n]] /\ \A k \in 0 .. n : g[k] = f[k]
      OBVIOUS
    <2> HIDE DEF g
    <2>4. Runs(g, n + 1, base, step)
      <3>1. g[0] = base
        BY <2>1, <2>3 DEF Runs
      <3>2. ASSUME NEW k \in 0 .. n
            PROVE  g[k + 1] = step[k][g[k]]
        <4>1. g[k] = f[k]
          BY <2>3
        <4>2. CASE k = n
          BY <2>3, <4>1, <4>2
        <4>3. CASE k # n
          <5>1. k \in 0 .. n - 1 /\ k + 1 \in 0 .. n
            BY <4>3
          <5>2. g[k + 1] = f[k + 1] /\ f[k + 1] = step[k][f[k]]
            BY <2>1, <2>3, <5>1 DEF Runs
          <5> QED
            BY <4>1, <5>2
        <4> QED
          BY <4>2, <4>3
      <3>3. (n + 1) - 1 = n
        OBVIOUS
      <3> QED
        BY <3>1, <3>2, <3>3 DEF Runs
    <2> QED
      BY <2>2, <2>4
  <1>3. Nat \subseteq D
    <2> HIDE DEF D
    <2> QED
      BY <1>1, <1>2, Climb
  <1> DEFINE part(n) == CHOOSE f \in [Nat -> S] : Runs(f, n, base, step)
  <1>4. \A n \in Nat : part(n) \in [Nat -> S] /\ Runs(part(n), n, base, step)
    BY <1>3, Zenon
  <1> HIDE DEF D
  <1> DEFINE f == [n \in Nat |-> part(n)[n]]
  <1>5. \A n \in Nat : f[n] = part(n)[n]
    BY Zenon
  <1> HIDE DEF part
  <1>6. f \in [Nat -> S]
    <2>1. \A n \in Nat : part(n)[n] \in S
      BY <1>4
    <2> QED
      BY <2>1
  <1> HIDE DEF f
  <1>7. ASSUME NEW n \in Nat
        PROVE  \A k \in 0 .. n : part(n)[k] = part(n + 1)[k]
    <2> DEFINE E == {k \in Nat : k <= n => part(n)[k] = part(n + 1)[k]}
    <2>1. Runs(part(n), n, base, step) /\ Runs(part(n + 1), n + 1, base, step)
      BY <1>4
    <2>2. 0 \in E
      BY <2>1 DEF Runs
    <2>3. ASSUME NEW k \in Nat, k \in E
          PROVE  k + 1 \in E
      <3> SUFFICES ASSUME k + 1 <= n
                   PROVE  part(n)[k + 1] = part(n + 1)[k + 1]
        OBVIOUS
      <3>1. k \in 0 .. n - 1 /\ k \in 0 .. (n + 1) - 1 /\ k <= n
        OBVIOUS
      <3>2. part(n)[k] = part(n + 1)[k]
        BY <2>3, <3>1
      <3>3. part(n)[k + 1] = step[k][part(n)[k]] /\ part(n + 1)[k + 1] = step[k][part(n + 1)[k]]
        BY <2>1, <3>1, Zenon DEF Runs
      <3> QED
        BY <3>2, <3>3
    <2>4. Nat \subseteq E
      <3> HIDE DEF E
      <3> QED
        BY <2>2, <2>3, Climb
    <2> QED
      BY <2>4
  <1>8. f[0] = base
    BY <1>4, <1>5 DEF Runs
  <1>9. ASSUME NEW k \in Nat
        PROVE  f[k + 1] = step[k][f[k]]
    <2>1. part(k + 1)[k + 1] = step[k][part(k + 1)[k]]
      <3>1. k \in 0 .. (k + 1) - 1 /\ k + 1 \in Nat
        OBVIOUS
      <3> QED
        BY <1>4, <3>1, Zenon DEF Runs
    <2>2. part(k)[k] = part(k + 1)[k]
      BY <1>7
    <2>3. f[k + 1] = part(k + 1)[k + 1] /\ f[k] = part(k)[k]
      BY <1>5
    <2> QED
      BY <2>1, <2>2, <2>3
  <1> QED
    BY <1>6, <1>8, <1>9 DEF Runs

-----------------------------------------------------------------------------
(* Numbers *)

LEMMA Quotient ==
  ASSUME NEW n \in Nat, NEW m \in Nat, m > 0
  PROVE  /\ n \div m \in Nat /\ n % m \in 0 .. m - 1
         /\ n = (n \div m) * m + (n % m)
  <1>1. n = m * (n \div m) + (n % m)
    OBVIOUS
  <1>2. n \div m \in Nat /\ n % m \in 0 .. m - 1
    OBVIOUS
  <1> QED
    BY <1>1, <1>2

LEMMA DivisionMonotone ==
  ASSUME NEW m \in Nat, m > 0, NEW a \in Nat, NEW b \in Nat, a <= b
  PROVE  a \div m <= b \div m
  OBVIOUS

LEMMA QuotientsFacts ==
  ASSUME NEW number \in Int
  PROVE  /\ Quotients(number)[0] = number
         /\ \A k \in Nat : Quotients(number)[k] \in Int
         /\ \A k \in Nat : Quotients(number)[k + 1] = Quotients(number)[k] \div BASE
  <1> USE WidthAssumption
  <1> DEFINE Unfolds(g) == g = [k \in Nat |-> IF k = 0 THEN number ELSE g[k - 1] \div BASE]
             step == [k \in Nat |-> [x \in Int |-> x \div BASE]]
  <1>1. step \in [Nat -> [Int -> Int]]
    OBVIOUS
  <1>2. PICK f \in [Nat -> Int] : \A n \in Nat : Runs(f, n, number, step)
    <2> HIDE DEF step
    <2> QED
      BY <1>1, Recursion
  <1>3. ASSUME NEW k \in Nat
        PROVE  f[k] = IF k = 0 THEN number ELSE f[k - 1] \div BASE
    <2>1. CASE k = 0
      BY <1>2, <2>1 DEF Runs
    <2>2. CASE k # 0
      <3>1. k - 1 \in 0 .. k - 1 /\ (k - 1) + 1 = k /\ k - 1 \in Nat
        BY <2>2
      <3>2. f[k] = step[k - 1][f[k - 1]]
        BY <1>2, <3>1 DEF Runs
      <3>3. f[k - 1] \in Int
        BY <1>2, <3>1
      <3> QED
        BY <2>2, <3>1, <3>2, <3>3
    <2> QED
      BY <2>1, <2>2
  <1>4. Unfolds(f)
    BY <1>3
  <1>5. Quotients(number) = CHOOSE g : Unfolds(g)
    BY Zenon DEF Quotients
  <1>6. Unfolds(Quotients(number))
    BY <1>4, <1>5, Zenon
  <1> DEFINE q == Quotients(number)
  <1>7. \A k \in Nat : q[k] = IF k = 0 THEN number ELSE q[k - 1] \div BASE
    <2>1. \A g : Unfolds(g) => \A k \in Nat : g[k] = IF k = 0 THEN number ELSE g[k - 1] \div BASE
      BY Zenon
    <2> HIDE DEF Unfolds
    <2> QED
      BY <1>6, <2>1, Zenon
  <1> HIDE DEF q, Unfolds
  <1>8. q[0] = number
    BY <1>7
  <1>9. \A k \in Nat : q[k + 1] = q[k] \div BASE
    <2> TAKE k \in Nat
    <2>1. k + 1 \in Nat /\ k + 1 # 0 /\ (k + 1) - 1 = k
      OBVIOUS
    <2> QED
      BY <1>7, <2>1
  <1>10. Nat \subseteq {k \in Nat : q[k] \in Int}
    <2>1. 0 \in {k \in Nat : q[k] \in Int}
      BY <1>8
    <2>2. \A k \in Nat : k \in {j \in Nat : q[j] \in Int} => k + 1 \in {j \in Nat : q[j] \in Int}
      BY <1>9
    <2> QED
      BY <2>1, <2>2, Climb
  <1> QED
    BY <1>8, <1>9, <1>10 DEF q

\* The number has no more than width digits.
Short(number, width) == number \in Int /\ (number > 0 => Quotients(number)[width] = 0)

LEMMA QuotientsNat ==
  ASSUME NEW number \in Nat
  PROVE  \A k \in Nat : Quotients(number)[k] \in Nat
  <1> DEFINE S == {k \in Nat : Quotients(number)[k] \in Nat}
  <1>1. 0 \in S
    BY QuotientsFacts
  <1>2. \A k \in Nat : k \in S => k + 1 \in S
    <2> SUFFICES ASSUME NEW k \in Nat, Quotients(number)[k] \in Nat
                 PROVE  Quotients(number)[k + 1] \in Nat
      OBVIOUS
    <2>1. Quotients(number)[k + 1] = Quotients(number)[k] \div BASE
      BY QuotientsFacts
    <2> QED
      BY <2>1, Quotient, WidthAssumption
  <1>3. Nat \subseteq S
    <2> HIDE DEF S
    <2> QED
      BY <1>1, <1>2, Climb
  <1> QED
    BY <1>3

\* A smaller number leaves less.
LEMMA SmallerLeft ==
  ASSUME NEW a \in Nat, NEW b \in Nat, a <= b
  PROVE  \A k \in Nat : Quotients(a)[k] <= Quotients(b)[k]
  <1> DEFINE S == {k \in Nat : Quotients(a)[k] <= Quotients(b)[k]}
  <1>1. 0 \in S
    BY QuotientsFacts
  <1>2. \A k \in Nat : k \in S => k + 1 \in S
    <2> SUFFICES ASSUME NEW k \in Nat, Quotients(a)[k] <= Quotients(b)[k]
                 PROVE  Quotients(a)[k + 1] <= Quotients(b)[k + 1]
      OBVIOUS
    <2>1. /\ Quotients(a)[k + 1] = Quotients(a)[k] \div BASE
          /\ Quotients(b)[k + 1] = Quotients(b)[k] \div BASE
      BY QuotientsFacts
    <2>2. Quotients(a)[k] \in Nat /\ Quotients(b)[k] \in Nat
      BY QuotientsNat
    <2> QED
      BY <2>1, <2>2, DivisionMonotone, WidthAssumption
  <1>3. Nat \subseteq S
    <2> HIDE DEF S
    <2> QED
      BY <1>1, <1>2, Climb
  <1> QED
    BY <1>3

\* The bytes of a number that fits: digits below BASE, each what its turn of
\* the loop takes.
LEMMA NumberBytes ==
  ASSUME NEW width \in Nat, NEW number, Short(number, width)
  PROVE  /\ number_to_bytes(number, width) \in Seq(Nat)
         /\ Len(number_to_bytes(number, width)) = width
         /\ \A k \in 1 .. width :
              number_to_bytes(number, width)[k] =
                IF number <= 0 THEN 0 ELSE Quotients(number)[width - k] % BASE
  <1>1. number \in Int /\ (number <= 0 \/ Quotients(number)[width] = 0)
    BY DEF Short
  <1> DEFINE f == [k \in 1 .. width |-> IF number <= 0 THEN 0 ELSE Quotients(number)[width - k] % BASE]
  <1>2. number_to_bytes(number, width) = f
    BY <1>1, Zenon DEF number_to_bytes
  <1>3. ASSUME NEW k \in 1 .. width
        PROVE  (IF number <= 0 THEN 0 ELSE Quotients(number)[width - k] % BASE) \in Nat
    <2>1. CASE number <= 0
      BY <2>1
    <2>2. CASE ~(number <= 0)
      <3>1. number \in Nat /\ width - k \in Nat
        BY <1>1, <2>2
      <3>2. Quotients(number)[width - k] \in Nat
        BY <3>1, QuotientsNat
      <3> QED
        BY <2>2, <3>2, Quotient, WidthAssumption
    <2> QED
      BY <2>1, <2>2
  <1>4. f \in [1 .. width -> Nat]
    BY <1>3
  <1>5. \A k \in 1 .. width : f[k] = IF number <= 0 THEN 0 ELSE Quotients(number)[width - k] % BASE
    BY Zenon
  <1> HIDE DEF f
  <1>6. f \in Seq(Nat) /\ Len(f) = width
    BY <1>4, FunctionIsSeq
  <1> QED
    BY <1>2, <1>5, <1>6

\* One turn of the loop that reads a number.
Turn(x, digit) == x * BASE + digit

LEMMA TurnBack ==
  ASSUME NEW n \in Nat
  PROVE  n = Turn(n \div BASE, n % BASE)
  <1>1. BASE \in Nat /\ BASE > 0
    BY WidthAssumption
  <1> QED
    BY ONLY <1>1, n \in Nat, Quotient DEF Turn

\* What Unsigned counts after each digit.
LEMMA UnsignedCounts ==
  ASSUME NEW n \in Nat, NEW digits \in [1 .. n -> Nat], Len(digits) = n
  PROVE  \E value \in [0 .. n -> Int] :
           /\ Unsigned(digits) = value[n]
           /\ value[0] = 0
           /\ \A k \in 1 .. n : value[k] = Turn(value[k - 1], digits[k])
  <1>0. BASE \in Nat
    BY WidthAssumption
  <1> DEFINE Unfolds(g) == g = [k \in 0 .. n |-> IF k = 0 THEN 0 ELSE Turn(g[k - 1], digits[k])]
             g0 == CHOOSE g : Unfolds(g)
             digit(k) == IF k \in 1 .. n THEN digits[k] ELSE 0
             step == [k \in Nat |-> [x \in Int |-> Turn(x, digit(k + 1))]]
  <1>1. step \in [Nat -> [Int -> Int]]
    <2>1. \A k \in Nat : digit(k) \in Nat
      OBVIOUS
    <2> HIDE DEF digit
    <2>2. \A k \in Nat, x \in Int : Turn(x, digit(k + 1)) \in Int
      <3> TAKE k \in Nat, x \in Int
      <3>1. digit(k + 1) \in Nat
        BY <2>1
      <3> QED
        BY <1>0, <3>1 DEF Turn
    <2> QED
      BY <2>2
  <1>2. PICK f \in [Nat -> Int] : \A m \in Nat : Runs(f, m, 0, step)
    <2> HIDE DEF step
    <2>1. 0 \in Int
      OBVIOUS
    <2> QED
      BY ONLY <1>1, <2>1, Recursion
  <1>3. f[0] = 0
    BY <1>2 DEF Runs
  <1>4. ASSUME NEW k \in 1 .. n
        PROVE  f[k] = Turn(f[k - 1], digits[k])
    <2>1. k - 1 \in 0 .. k - 1 /\ (k - 1) + 1 = k /\ k - 1 \in Nat /\ k \in Nat
      OBVIOUS
    <2>2. f[k] = step[k - 1][f[k - 1]]
      BY <1>2, <2>1 DEF Runs
    <2>3. f[k - 1] \in Int
      BY <1>2, <2>1
    <2>4. digit(k) = digits[k]
      OBVIOUS
    <2> HIDE DEF digit
    <2>5. step[k - 1] = [x \in Int |-> Turn(x, digit(k))]
      BY <2>1
    <2> QED
      BY <2>2, <2>3, <2>4, <2>5
  <1> DEFINE v == [k \in 0 .. n |-> f[k]]
  <1>5. \A k \in 0 .. n : v[k] = f[k]
    OBVIOUS
  <1>6. v \in [0 .. n -> Int]
    OBVIOUS
  <1>7. v = [k \in 0 .. n |-> v[k]]
    OBVIOUS
  <1> HIDE DEF v, step, digit
  <1>8. \A k \in 0 .. n : v[k] = IF k = 0 THEN 0 ELSE Turn(v[k - 1], digits[k])
    <2> TAKE k \in 0 .. n
    <2>1. CASE k = 0
      BY <1>3, <1>5, <2>1
    <2>2. CASE k # 0
      <3>1. k \in 1 .. n /\ k - 1 \in 0 .. n
        BY <2>2
      <3> QED
        BY <1>4, <1>5, <2>2, <3>1
    <2> QED
      BY <2>1, <2>2
  <1>9. Unfolds(v)
    BY <1>7, <1>8, Zenon
  <1>10. Unsigned(digits) = g0[n]
    BY Zenon DEF Unsigned, Turn
  <1>11. Unfolds(g0)
    BY <1>9, Zenon
  <1> HIDE DEF g0
  <1>12. \A k \in 0 .. n : g0[k] = IF k = 0 THEN 0 ELSE Turn(g0[k - 1], digits[k])
    <2>1. \A g : Unfolds(g) =>
            \A k \in 0 .. n : g[k] = IF k = 0 THEN 0 ELSE Turn(g[k - 1], digits[k])
      BY Zenon
    <2> HIDE DEF Unfolds
    <2> QED
      BY <1>11, <2>1, Zenon
  <1> HIDE DEF Unfolds
  <1> DEFINE D == {k \in Nat : k <= n => g0[k] = v[k]}
  <1>13. 0 \in D
    BY <1>8, <1>12
  <1>14. \A k \in Nat : k \in D => k + 1 \in D
    <2> SUFFICES ASSUME NEW k \in Nat, k \in D, k + 1 <= n
                 PROVE  g0[k + 1] = v[k + 1]
      BY SMTT(30)
    <2>1. k + 1 \in 0 .. n /\ k + 1 # 0 /\ (k + 1) - 1 = k /\ k <= n
      OBVIOUS
    <2>2. g0[k] = v[k]
      BY <2>1
    <2>3. g0[k + 1] = Turn(g0[k], digits[k + 1])
      BY <1>12, <2>1, Zenon
    <2>4. v[k + 1] = Turn(v[k], digits[k + 1])
      BY <1>8, <2>1, Zenon
    <2> QED
      BY <2>2, <2>3, <2>4, Zenon
  <1>15. Nat \subseteq D
    <2> HIDE DEF D
    <2> QED
      BY <1>13, <1>14, Climb
  <1>16. g0[n] = v[n]
    <2>1. n \in D /\ n <= n
      BY ONLY <1>15, n \in Nat
    <2> QED
      BY <2>1, Zenon
  <1>17. \A k \in 1 .. n : v[k] = Turn(v[k - 1], digits[k])
    <2> TAKE k \in 1 .. n
    <2>1. k \in 0 .. n /\ k # 0
      OBVIOUS
    <2> QED
      BY <1>8, <2>1, Zenon
  <1>18. v[0] = 0 /\ Unsigned(digits) = v[n]
    BY <1>3, <1>5, <1>10, <1>16
  <1> QED
    BY <1>6, <1>17, <1>18, Zenon

\* A number that fits is read back, and one that is not positive as zero.
LEMMA NumberReadBack ==
  ASSUME NEW width \in Nat, NEW number, Short(number, width)
  PROVE  Unsigned(number_to_bytes(number, width)) = IF number <= 0 THEN 0 ELSE number
  <1> DEFINE bytes == number_to_bytes(number, width)
             left(k) == IF number <= 0 THEN 0 ELSE Quotients(number)[k]
  <1>1. /\ bytes \in Seq(Nat) /\ Len(bytes) = width
        /\ \A k \in 1 .. width : bytes[k] = IF number <= 0 THEN 0 ELSE Quotients(number)[width - k] % BASE
    BY NumberBytes
  <1> HIDE DEF bytes
  <1>2. bytes \in [1 .. width -> Nat]
    BY <1>1
  <1>3. PICK value \in [0 .. width -> Int] :
          /\ Unsigned(bytes) = value[width]
          /\ value[0] = 0
          /\ \A k \in 1 .. width : value[k] = Turn(value[k - 1], bytes[k])
    BY <1>1, <1>2, UnsignedCounts
  <1>4. number \in Int /\ left(width) = 0
    BY DEF Short
  <1>5. ASSUME NEW k \in Nat
        PROVE  left(k) \in Nat /\ left(k) = Turn(left(k + 1), left(k) % BASE)
    <2>1. CASE number <= 0
      <3>1. BASE \in Nat /\ 0 % BASE = 0 /\ 0 * BASE + 0 = 0
        BY WidthAssumption
      <3>2. left(k) = 0 /\ left(k + 1) = 0
        BY <2>1
      <3> HIDE DEF left
      <3> QED
        BY <3>1, <3>2 DEF Turn
    <2>2. CASE ~(number <= 0)
      <3>1. number \in Nat
        BY <1>4, <2>2
      <3>2. Quotients(number)[k] \in Nat
        BY <3>1, QuotientsNat
      <3>3. Quotients(number)[k + 1] = Quotients(number)[k] \div BASE
        BY <1>4, QuotientsFacts
      <3> DEFINE q == Quotients(number)[k]
      <3>4. q = Turn(q \div BASE, q % BASE)
        BY <3>2, TurnBack
      <3>5. left(k) = q /\ left(k + 1) = q \div BASE
        BY <2>2, <3>3
      <3> HIDE DEF q, left
      <3> QED
        BY <3>2, <3>4, <3>5, Zenon DEF q
    <2> QED
      BY <2>1, <2>2
  <1>6. \A k \in 1 .. width : bytes[k] = left(width - k) % BASE
    <2>1. CASE number <= 0
      <3>1. 0 % BASE = 0
        BY WidthAssumption
      <3> QED
        BY <1>1, <2>1, <3>1
    <2>2. CASE ~(number <= 0)
      BY <1>1, <2>2
    <2> QED
      BY <2>1, <2>2
  <1>7. left(0) = IF number <= 0 THEN 0 ELSE number
    BY <1>4, QuotientsFacts
  <1> HIDE DEF left
  <1> DEFINE D == {k \in Nat : k <= width => value[k] = left(width - k)}
  <1>8. 0 \in D
    BY <1>3, <1>4
  <1>9. \A k \in Nat : k \in D => k + 1 \in D
    <2> SUFFICES ASSUME NEW k \in Nat, k \in D, k + 1 <= width
                 PROVE  value[k + 1] = left(width - (k + 1))
      OBVIOUS
    <2>1. k + 1 \in 1 .. width /\ (k + 1) - 1 = k /\ k <= width
      OBVIOUS
    <2>2. width - (k + 1) \in Nat /\ (width - (k + 1)) + 1 = width - k
      OBVIOUS
    <2>3. value[k] = left(width - k)
      BY <2>1
    <2>4. value[k + 1] = Turn(value[k], bytes[k + 1])
      BY <1>3, <2>1
    <2>5. left(width - (k + 1)) = Turn(left(width - k), left(width - (k + 1)) % BASE)
      BY <1>5, <2>2
    <2>6. bytes[k + 1] = left(width - (k + 1)) % BASE
      BY <1>6, <2>1
    <2> QED
      BY <2>3, <2>4, <2>5, <2>6, Zenon
  <1>10. Nat \subseteq D
    <2> HIDE DEF D
    <2> QED
      BY <1>8, <1>9, Climb
  <1>11. value[width] = left(0)
    BY <1>10
  <1> QED
    BY <1>3, <1>7, <1>11 DEF bytes

-----------------------------------------------------------------------------
(* Pieces that follow each other *)

\* at tells where each of the pieces ends.
Ends(at, pieces, n) ==
  /\ at[0] = 0
  /\ \A k \in 1 .. n : at[k] = at[k - 1] + Len(pieces[k]) /\ Len(pieces[k]) \in Nat \ {0}

\* The first n pieces can be cut out of s again.
Holds(s, pieces, at, n) ==
  /\ Len(s) = at[n]
  /\ \A k \in 1 .. n : /\ at[k - 1] + 1 \in 1 .. Len(s) /\ at[k] \in 1 .. Len(s)
                       /\ SubSeq(s, at[k - 1] + 1, at[k]) = pieces[k]

\* One more piece.
LEMMA HoldsNext ==
  ASSUME NEW S, NEW n \in Nat, NEW N \in Nat, n + 1 <= N, NEW pieces, NEW at, Ends(at, pieces, N),
         NEW s \in Seq(S), Holds(s, pieces, at, n), pieces[n + 1] \in Seq(S)
  PROVE  /\ s \o pieces[n + 1] \in Seq(S)
         /\ Holds(s \o pieces[n + 1], pieces, at, n + 1)
  <1> DEFINE p == pieces[n + 1]
             t == s \o p
  <1>1. p \in Seq(S) /\ Len(s) = at[n] /\ Len(s) \in Nat
    BY DEF Holds
  <1>2. at[n + 1] = at[n] + Len(p) /\ Len(p) \in Nat \ {0}
    <2>1. n + 1 \in 1 .. N /\ (n + 1) - 1 = n
      OBVIOUS
    <2> QED
      BY <2>1 DEF Ends
  <1> HIDE DEF p
  <1>3. t \in Seq(S) /\ Len(t) = Len(s) + Len(p)
    BY ONLY <1>1, s \in Seq(S), ConcatFacts
  <1>4. ASSUME NEW k \in 1 .. n + 1
        PROVE  /\ at[k - 1] + 1 \in 1 .. Len(t) /\ at[k] \in 1 .. Len(t)
               /\ SubSeq(t, at[k - 1] + 1, at[k]) = pieces[k]
    <2>1. CASE k = n + 1
      <3>1. SubSeq(t, Len(s) + 1, Len(s) + Len(p)) = SubSeq(p, 1, Len(p))
        <4> DEFINE a == Len(s) + 1
                   b == Len(s) + Len(p)
        <4>1. /\ a \in Len(s) + 1 .. Len(s) + Len(p) /\ b \in Len(s) + 1 .. Len(s) + Len(p)
              /\ a - Len(s) = 1 /\ b - Len(s) = Len(p)
          BY <1>1, <1>2
        <4> HIDE DEF a, b
        <4>2. SubSeq(s \o p, a, b) = SubSeq(p, a - Len(s), b - Len(s))
          BY ONLY <1>1, s \in Seq(S), <4>1, SubSeqOfConcat2, ZenonT(40)
        <4>3. SubSeq(s \o p, a, b) = SubSeq(p, 1, Len(p))
          BY <4>1, <4>2, Zenon
        <4> QED
          BY <4>3 DEF a, b
      <3>2. SubSeq(p, 1, Len(p)) = p
        BY <1>1, SubSeqFull
      <3>3. at[k - 1] = Len(s) /\ at[k] = Len(s) + Len(p)
        <4>1. k - 1 = n
          BY <2>1
        <4> QED
          BY <1>1, <1>2, <2>1, <4>1
      <3>4. pieces[k] = p
        BY <2>1 DEF p
      <3>5. Len(s) + 1 \in 1 .. Len(t) /\ Len(s) + Len(p) \in 1 .. Len(t)
        BY <1>1, <1>2, <1>3, SMTT(30)
      <3> HIDE DEF t
      <3> QED
        BY <3>1, <3>2, <3>3, <3>4, <3>5, Zenon
    <2>2. CASE k # n + 1
      <3>1. k \in 1 .. n
        BY <2>2
      <3>2. /\ at[k - 1] + 1 \in 1 .. Len(s) /\ at[k] \in 1 .. Len(s)
            /\ SubSeq(s, at[k - 1] + 1, at[k]) = pieces[k]
        BY <3>1 DEF Holds
      <3>3. at[k - 1] + 1 \in 1 .. Len(t) /\ at[k] \in 1 .. Len(t)
        <4>1. Len(s) \in Nat /\ Len(t) \in Nat /\ Len(s) <= Len(t)
          BY ONLY <1>1, <1>2, <1>3
        <4>2. \A i \in 1 .. Len(s) : i \in 1 .. Len(t)
          BY ONLY <4>1
        <4> QED
          BY ONLY <3>2, <4>2, Zenon
      <3>4. SubSeq(t, at[k - 1] + 1, at[k]) = SubSeq(s, at[k - 1] + 1, at[k])
        BY ONLY <1>1, s \in Seq(S), <3>2, SubSeqOfConcat1
      <3> HIDE DEF t
      <3> QED
        BY <3>2, <3>3, <3>4, Zenon
    <2> QED
      BY <2>1, <2>2
  <1> HIDE DEF t
  <1>5. Len(t) = at[n + 1]
    BY <1>1, <1>2, <1>3
  <1> QED
    BY <1>3, <1>4, <1>5, Zenon DEF Holds, p, t

\* What FlattenSeq joins, step by step.
LEMMA FlattenSteps ==
  ASSUME NEW S, NEW n \in Nat, n > 0, NEW pieces \in [1 .. n -> Seq(S)]
  PROVE  \E f : /\ FlattenSeq(pieces) = f[n]
                /\ f[1] = pieces[1]
                /\ \A k \in 1 .. n : k # 1 => f[k] = f[k - 1] \o pieces[k]
  <1> DEFINE Unfolds(g) == g = [i \in 1 .. n |-> IF i = 1 THEN pieces[i] ELSE g[i - 1] \o pieces[i]]
             g0 == CHOOSE g : Unfolds(g)
             piece(k) == IF k \in 1 .. n THEN pieces[k] ELSE <<>>
             step == [k \in Nat |-> [x \in Seq(S) |-> IF k = 0 THEN piece(1) ELSE x \o piece(k + 1)]]
  <1>1. step \in [Nat -> [Seq(S) -> Seq(S)]]
    <2>1. \A k : piece(k) \in Seq(S)
      OBVIOUS
    <2> HIDE DEF piece
    <2>2. \A k \in Nat, x \in Seq(S) : (IF k = 0 THEN piece(1) ELSE x \o piece(k + 1)) \in Seq(S)
      BY <2>1, ConcatFacts
    <2> QED
      BY <2>2, Zenon
  <1>2. PICK f \in [Nat -> Seq(S)] : \A m \in Nat : Runs(f, m, <<>>, step)
    <2> HIDE DEF step
    <2>1. <<>> \in Seq(S)
      OBVIOUS
    <2> QED
      BY ONLY <1>1, <2>1, Recursion
  <1>3. ASSUME NEW k \in 1 .. n
        PROVE  f[k] = IF k = 1 THEN pieces[k] ELSE f[k - 1] \o pieces[k]
    <2>1. k - 1 \in 0 .. k - 1 /\ (k - 1) + 1 = k /\ k - 1 \in Nat /\ k \in Nat
      OBVIOUS
    <2>2. f[k] = step[k - 1][f[k - 1]]
      BY <1>2, <2>1 DEF Runs
    <2>3. f[k - 1] \in Seq(S)
      BY <1>2, <2>1
    <2>4. piece(k) = pieces[k]
      OBVIOUS
    <2> HIDE DEF piece
    <2>5. step[k - 1] = [x \in Seq(S) |-> IF k - 1 = 0 THEN piece(1) ELSE x \o piece(k)]
      BY <2>1
    <2> HIDE DEF step
    <2>6. f[k] = IF k - 1 = 0 THEN piece(1) ELSE f[k - 1] \o piece(k)
      BY ONLY <2>2, <2>3, <2>5
    <2>7. k - 1 = 0 <=> k = 1
      OBVIOUS
    <2>8. CASE k = 1
      BY <2>4, <2>6, <2>7, <2>8
    <2>9. CASE k # 1
      BY <2>4, <2>6, <2>7, <2>9
    <2> QED
      BY <2>8, <2>9
  <1> HIDE DEF step, piece
  <1> DEFINE v == [k \in 1 .. n |-> f[k]]
  <1>4. \A k \in 1 .. n : v[k] = f[k]
    OBVIOUS
  <1>5. v = [k \in 1 .. n |-> v[k]]
    OBVIOUS
  <1> HIDE DEF v
  <1>6. \A k \in 1 .. n : v[k] = IF k = 1 THEN pieces[k] ELSE v[k - 1] \o pieces[k]
    <2> TAKE k \in 1 .. n
    <2>1. CASE k = 1
      BY <1>3, <1>4, <2>1
    <2>2. CASE k # 1
      <3>1. k - 1 \in 1 .. n
        BY <2>2
      <3>2. v[k - 1] = f[k - 1] /\ v[k] = f[k] /\ f[k] = f[k - 1] \o pieces[k]
        BY <1>3, <1>4, <2>2, <3>1
      <3> QED
        BY <2>2, <3>2
    <2> QED
      BY <2>1, <2>2
  <1>7. Unfolds(v)
    BY <1>5, <1>6, Zenon
  <1>8. Unfolds(g0)
    BY <1>7, Zenon
  <1>9. FlattenSeq(pieces) = g0[n]
    <2>1. Len(pieces) = n /\ n # 0
      BY FunctionIsSeq
    <2> QED
      BY <2>1, Zenon DEF FlattenSeq
  <1> HIDE DEF g0
  <1>10. \A k \in 1 .. n : g0[k] = IF k = 1 THEN pieces[k] ELSE g0[k - 1] \o pieces[k]
    <2>1. \A g : Unfolds(g) =>
            \A k \in 1 .. n : g[k] = IF k = 1 THEN pieces[k] ELSE g[k - 1] \o pieces[k]
      BY Zenon
    <2> HIDE DEF Unfolds
    <2> QED
      BY <1>8, <2>1, Zenon
  <1> HIDE DEF Unfolds
  <1>11. g0[1] = pieces[1]
    <2>1. 1 \in 1 .. n
      OBVIOUS
    <2> QED
      BY <1>10, <2>1
  <1>12. \A k \in 1 .. n : k # 1 => g0[k] = g0[k - 1] \o pieces[k]
    BY <1>10
  <1> QED
    BY <1>9, <1>11, <1>12

\* What has been joined can be cut up again.
LEMMA Flattened ==
  ASSUME NEW S, NEW n \in Nat, n > 0, NEW pieces \in [1 .. n -> Seq(S)], NEW at, Ends(at, pieces, n)
  PROVE  FlattenSeq(pieces) \in Seq(S) /\ Holds(FlattenSeq(pieces), pieces, at, n)
  <1>1. PICK f : /\ FlattenSeq(pieces) = f[n]
                 /\ f[1] = pieces[1]
                 /\ \A k \in 1 .. n : k # 1 => f[k] = f[k - 1] \o pieces[k]
    BY FlattenSteps, ZenonT(40)
  <1> DEFINE D == {k \in Nat : k + 1 <= n => f[k + 1] \in Seq(S) /\ Holds(f[k + 1], pieces, at, k + 1)}
  <1>2. 0 \in D
    <2> DEFINE p == pieces[1]
    <2>1. 1 \in 1 .. n /\ 0 + 1 = 1 /\ 1 - 1 = 0
      OBVIOUS
    <2>2. p \in Seq(S) /\ Len(p) \in Nat \ {0} /\ at[1] = at[0] + Len(p) /\ at[0] = 0
      BY <2>1 DEF Ends
    <2> HIDE DEF p
    <2>3. SubSeq(p, 1, Len(p)) = p
      BY <2>2, SubSeqFull
    <2>4. at[0] + 1 = 1 /\ at[1] = Len(p) /\ 1 \in 1 .. Len(p) /\ Len(p) \in 1 .. Len(p)
      BY <2>2
    <2>5. Holds(p, pieces, at, 1)
      <3>1. \A k \in 1 .. 1 : k = 1 /\ k - 1 = 0
        OBVIOUS
      <3>2. p = pieces[1]
        BY DEF p
      <3>3. ASSUME NEW k \in 1 .. 1
            PROVE  /\ at[k - 1] + 1 \in 1 .. Len(p) /\ at[k] \in 1 .. Len(p)
                   /\ SubSeq(p, at[k - 1] + 1, at[k]) = pieces[k]
        BY <2>3, <2>4, <3>1, <3>2
      <3> QED
        BY <2>4, <3>3 DEF Holds
    <2>6. f[1] = p
      BY <1>1 DEF p
    <2> QED
      BY <2>1, <2>2, <2>5, <2>6
  <1>3. \A k \in Nat : k \in D => k + 1 \in D
    <2> SUFFICES ASSUME NEW k \in Nat, k \in D, k + 2 <= n
                 PROVE  f[k + 2] \in Seq(S) /\ Holds(f[k + 2], pieces, at, k + 2)
      <3>1. \A k \in Nat : (k + 1) + 1 = k + 2
        OBVIOUS
      <3> QED
        BY <3>1
    <2> DEFINE m == k + 1
    <2>1. /\ m \in Nat /\ m + 1 = k + 2 /\ m + 1 \in 1 .. n /\ m + 1 # 1
          /\ (m + 1) - 1 = m /\ m + 1 <= n
      OBVIOUS
    <2>2. f[m] \in Seq(S) /\ Holds(f[m], pieces, at, m)
      BY <2>1
    <2> HIDE DEF m, D
    <2>3. f[m + 1] = f[m] \o pieces[m + 1]
      BY <1>1, <2>1
    <2>4. pieces[m + 1] \in Seq(S)
      BY <2>1
    <2>5. f[m] \o pieces[m + 1] \in Seq(S) /\ Holds(f[m] \o pieces[m + 1], pieces, at, m + 1)
      BY <2>1, <2>2, <2>4, HoldsNext
    <2> QED
      BY <2>1, <2>3, <2>5
  <1>4. Nat \subseteq D
    <2> HIDE DEF D
    <2> QED
      BY <1>2, <1>3, Climb
  <1>5. n - 1 \in D /\ (n - 1) + 1 = n
    <2> HIDE DEF D
    <2> QED
      BY <1>4
  <1>6. f[n] \in Seq(S) /\ Holds(f[n], pieces, at, n)
    BY <1>5
  <1> QED
    BY <1>1, <1>6

-----------------------------------------------------------------------------
(* Fields *)

Type == {"O", "U", "X", "A", "F", "P", "K", "J"}

Cell == Nat \union Type

Plain == {"type", "request_type", "side", "symbol", "order_type"}

\* The value is one the field has room for.
Fills(field, value) ==
  /\ field \in {"type", "request_type"} => value \in Type
  /\ field = "side" => value \in Side
  /\ field \in {"symbol", "order_type"} => value \in Seq(Nat) /\ Len(value) = Width[field]
  /\ field \notin Plain => Short(value, Width[field])

\* The first of INT_BYTES bytes does not reach the sign of an int.
Positive(field, value) ==
  field \notin Plain /\ Width[field] = INT_BYTES /\ value > 0 =>
    Quotients(value)[INT_BYTES - 1] < BASE \div 2

\* What arrives of a value.
Arrives(field, value) == IF field \notin Plain /\ value <= 0 THEN 0 ELSE value

LEMMA Widths ==
  ASSUME NEW field \in DOMAIN Width
  PROVE  Width[field] \in Nat \ {0}
  BY WidthAssumption, FieldAssumption DEF Width

LEMMA OneCell ==
  ASSUME NEW x \in Cell
  PROVE  <<x>> \in Seq(Cell) /\ Len(<<x>>) = 1 /\ <<x>>[1] = x
  OBVIOUS

LEMMA Letters ==
  /\ \A side \in Side : Letter(side) \in Cell /\ SideOf(Letter(side)) = side
  /\ Nat \subseteq Cell /\ Type \subseteq Cell
  <1>1. Nat \subseteq Cell /\ Type \subseteq Cell
    BY DEF Cell
  <1>2. LetterB \in Cell /\ LetterS \in Cell /\ LetterB # LetterS
    BY LetterAssumption DEF Cell
  <1>3. \A side \in Side : Letter(side) \in Cell
    BY <1>2, Zenon DEF Letter
  <1>4. ASSUME NEW side \in Side
        PROVE  SideOf(Letter(side)) = side
    <2>1. (side = "BUY" \/ side = "SELL") /\ "BUY" # "SELL"
      BY DEF Side
    <2> QED
      BY <1>2, <2>1, Zenon DEF Letter, SideOf
  <1> QED
    BY <1>1, <1>3, <1>4, Zenon

LEMMA FieldBytesFacts ==
  ASSUME NEW field \in DOMAIN Width, NEW value, Fills(field, value)
  PROVE  FieldBytes(field, value) \in Seq(Cell) /\ Len(FieldBytes(field, value)) = Width[field]
  <1>1. CASE field \in {"type", "request_type"}
    <2>1. value \in Cell
      BY <1>1, Letters DEF Fills
    <2>2. FieldBytes(field, value) = <<value>>
      BY <1>1 DEF FieldBytes, Strings
    <2>3. Width[field] = 1
      BY <1>1 DEF Width
    <2> QED
      BY <2>1, <2>2, <2>3, OneCell
  <1>2. CASE field = "side"
    <2>1. Letter(value) \in Cell
      BY <1>2, Letters DEF Fills
    <2>2. FieldBytes(field, value) = <<Letter(value)>>
      BY <1>2 DEF FieldBytes, Strings
    <2>3. Width[field] = 1
      BY <1>2 DEF Width
    <2> QED
      BY <2>1, <2>2, <2>3, OneCell
  <1>3. CASE field \in Strings
    <2>1. value \in Seq(Nat) /\ Len(value) = Width[field]
      BY <1>3 DEF Fills, Strings
    <2>2. FieldBytes(field, value) = value
      BY <1>3 DEF FieldBytes, Strings
    <2>3. value \in Seq(Cell)
      BY <2>1, Letters, SeqMonotonic
    <2> QED
      BY <2>1, <2>2, <2>3
  <1>4. CASE field \notin Plain
    <2>1. Short(value, Width[field]) /\ Width[field] \in Nat
      BY <1>4, Widths DEF Fills
    <2>2. FieldBytes(field, value) = number_to_bytes(value, Width[field])
      BY <1>4 DEF FieldBytes, Plain, Strings
    <2>3. number_to_bytes(value, Width[field]) \in Seq(Nat)
          /\ Len(number_to_bytes(value, Width[field])) = Width[field]
      BY <2>1, NumberBytes
    <2>4. Nat \subseteq Cell
      BY DEF Cell
    <2>5. number_to_bytes(value, Width[field]) \in Seq(Cell)
      BY <2>3, <2>4, SeqMonotonic
    <2> QED
      BY <2>2, <2>3, <2>5
  <1> QED
    BY <1>1, <1>2, <1>3, <1>4 DEF Plain, Strings

\* Everybody's byte_conversion reads a number that fits.
LEMMA ConvertedBack ==
  ASSUME NEW width \in 1 .. INT_BYTES \union {SEQ_BYTES}, NEW number, Short(number, width), NEW who,
         who # "subscriber" /\ width = INT_BYTES /\ number > 0 =>
           Quotients(number)[INT_BYTES - 1] < BASE \div 2
  PROVE  Converted(who, number_to_bytes(number, width)) = IF number <= 0 THEN 0 ELSE number
  <1> DEFINE bytes == number_to_bytes(number, width)
  <1>0. /\ width \in Nat \ {0} /\ BASE \in Nat \ {0} /\ BASE \div 2 > 0
        /\ BASE \div 2 \in Nat /\ BASE \div 2 <= BASE
    BY WidthAssumption, FieldAssumption
  <1>1. Unsigned(bytes) = IF number <= 0 THEN 0 ELSE number
    BY <1>0, NumberReadBack
  <1>2. CASE who = "subscriber"
    BY <1>1, <1>2 DEF Converted
  <1>3. CASE who # "subscriber"
    <2>1. Len(bytes) = width /\ bytes[1] = IF number <= 0 THEN 0 ELSE Quotients(number)[width - 1] % BASE
      <3>1. 1 \in 1 .. width
        BY <1>0
      <3> QED
        BY <1>0, <3>1, NumberBytes
    <2>2. ~(Len(bytes) = INT_BYTES /\ bytes[1] >= BASE \div 2)
      <3> SUFFICES ASSUME width = INT_BYTES
                   PROVE  ~(bytes[1] >= BASE \div 2)
        BY <2>1
      <3> HIDE DEF bytes
      <3>1. CASE number <= 0
        BY <1>0, <2>1, <3>1
      <3>2. CASE ~(number <= 0)
        <4> DEFINE q == Quotients(number)[width - 1]
        <4>1. number \in Nat /\ number > 0 /\ width - 1 \in Nat
          BY <1>0, <3>2 DEF Short
        <4>2. q \in Nat
          BY <4>1, QuotientsNat
        <4>3. q < BASE \div 2
          BY <1>3, <4>1
        <4>4. bytes[1] = q % BASE
          BY <2>1, <3>2
        <4> HIDE DEF q
        <4>5. q % BASE = q
          BY ONLY <1>0, <4>2, <4>3
        <4> QED
          BY ONLY <1>0, <4>2, <4>3, <4>4, <4>5
      <3> QED
        BY <3>1, <3>2
    <2>3. byte_conversion(bytes) = Unsigned(bytes)
      BY <2>2, Zenon DEF byte_conversion
    <2> QED
      BY <1>1, <1>3, <2>3 DEF Converted
  <1> QED
    BY <1>2, <1>3

\* A field that has room for its value is read back.
LEMMA FieldReadBack ==
  ASSUME NEW field \in DOMAIN Width, NEW value, Fills(field, value), NEW who,
         who # "subscriber" => Positive(field, value)
  PROVE  FieldValue(field, FieldBytes(field, value), who) = Arrives(field, value)
  <1>1. CASE field \in {"type", "request_type"}
    <2>1. value \in Cell
      BY <1>1, Letters DEF Fills
    <2>2. FieldBytes(field, value) = <<value>> /\ Arrives(field, value) = value
      BY <1>1 DEF FieldBytes, Arrives, Plain, Strings
    <2>3. FieldValue(field, <<value>>, who) = <<value>>[1]
      BY <1>1 DEF FieldValue, Strings
    <2> QED
      BY <2>1, <2>2, <2>3, OneCell
  <1>2. CASE field = "side"
    <2>1. Letter(value) \in Cell /\ SideOf(Letter(value)) = value
      BY <1>2, Letters DEF Fills
    <2>2. FieldBytes(field, value) = <<Letter(value)>> /\ Arrives(field, value) = value
      BY <1>2 DEF FieldBytes, Arrives, Plain, Strings
    <2>3. FieldValue(field, <<Letter(value)>>, who) = SideOf(<<Letter(value)>>[1])
      BY <1>2 DEF FieldValue, Strings
    <2>4. <<Letter(value)>>[1] = Letter(value)
      OBVIOUS
    <2> QED
      BY <2>1, <2>2, <2>3, <2>4
  <1>3. CASE field \in Strings
    BY <1>3 DEF FieldBytes, FieldValue, Arrives, Plain, Strings
  <1>4. CASE field \notin Plain
    <2>1. FieldBytes(field, value) = number_to_bytes(value, Width[field])
      BY <1>4 DEF FieldBytes, Plain, Strings
    <2>2. FieldValue(field, number_to_bytes(value, Width[field]), who) =
            Converted(who, number_to_bytes(value, Width[field]))
      BY <1>4 DEF FieldValue, Plain, Strings
    <2>3. Short(value, Width[field])
      BY <1>4 DEF Fills
    <2>4. Width[field] \in 1 .. INT_BYTES \union {SEQ_BYTES}
      BY <1>4, FieldAssumption DEF Width, Plain
    <2>5. who # "subscriber" /\ Width[field] = INT_BYTES /\ value > 0 =>
            Quotients(value)[INT_BYTES - 1] < BASE \div 2
      BY <1>4 DEF Positive
    <2>6. Converted(who, number_to_bytes(value, Width[field])) = IF value <= 0 THEN 0 ELSE value
      BY <2>3, <2>4, <2>5, ConvertedBack
    <2>7. Arrives(field, value) = IF value <= 0 THEN 0 ELSE value
      BY <1>4 DEF Arrives
    <2> QED
      BY <2>1, <2>2, <2>6, <2>7
  <1> QED
    BY <1>1, <1>2, <1>3, <1>4 DEF Plain, Strings

-----------------------------------------------------------------------------
(* Layouts *)

\* n fields, no two of them alike.
Layout(l, n) ==
  /\ n \in Nat \ {0} /\ l \in [1 .. n -> DOMAIN Width] /\ Len(l) = n
  /\ \A i \in 1 .. n, j \in 1 .. n : l[i] = l[j] => i = j

LEMMA OffsetsFacts ==
  ASSUME NEW l, NEW n, Layout(l, n)
  PROVE  /\ Offsets(l)[0] = 0
         /\ \A k \in 1 .. n : Offsets(l)[k] = Offsets(l)[k - 1] + Width[l[k]]
  <1>0. n \in Nat /\ Len(l) = n /\ \A k \in 1 .. n : l[k] \in DOMAIN Width /\ Width[l[k]] \in Nat
    <2>1. n \in Nat /\ Len(l) = n /\ \A k \in 1 .. n : l[k] \in DOMAIN Width
      BY DEF Layout
    <2> QED
      BY <2>1, Widths
  <1> DEFINE Unfolds(g) == g = [k \in 0 .. n |-> IF k = 0 THEN 0 ELSE g[k - 1] + Width[l[k]]]
             g0 == CHOOSE g : Unfolds(g)
             width(k) == IF k \in 1 .. n THEN Width[l[k]] ELSE 0
             step == [k \in Nat |-> [x \in Nat |-> x + width(k + 1)]]
  <1>1. step \in [Nat -> [Nat -> Nat]]
    <2>1. \A k \in Nat : width(k) \in Nat
      BY <1>0
    <2> HIDE DEF width
    <2>2. \A k \in Nat, x \in Nat : x + width(k + 1) \in Nat
      <3> TAKE k \in Nat, x \in Nat
      <3>1. width(k + 1) \in Nat
        BY <2>1
      <3> QED
        BY <3>1
    <2> QED
      BY <2>2
  <1>2. PICK f \in [Nat -> Nat] : \A m \in Nat : Runs(f, m, 0, step)
    <2> HIDE DEF step
    <2>1. 0 \in Nat
      OBVIOUS
    <2> QED
      BY ONLY <1>1, <2>1, Recursion
  <1>3. f[0] = 0
    BY <1>2 DEF Runs
  <1>4. ASSUME NEW k \in 1 .. n
        PROVE  f[k] = f[k - 1] + Width[l[k]]
    <2>1. k - 1 \in 0 .. k - 1 /\ (k - 1) + 1 = k /\ k - 1 \in Nat /\ k \in Nat
      BY <1>0
    <2>2. f[k] = step[k - 1][f[k - 1]]
      BY <1>2, <2>1 DEF Runs
    <2>3. f[k - 1] \in Nat
      BY <1>2, <2>1
    <2>4. width(k) = Width[l[k]]
      OBVIOUS
    <2> HIDE DEF width
    <2>5. step[k - 1] = [x \in Nat |-> x + width(k)]
      BY <2>1
    <2> QED
      BY <2>2, <2>3, <2>4, <2>5
  <1> DEFINE v == [k \in 0 .. n |-> f[k]]
  <1>5. \A k \in 0 .. n : v[k] = f[k]
    OBVIOUS
  <1>7. v = [k \in 0 .. n |-> v[k]]
    OBVIOUS
  <1> HIDE DEF v, step, width
  <1>8. \A k \in 0 .. n : v[k] = IF k = 0 THEN 0 ELSE v[k - 1] + Width[l[k]]
    <2> TAKE k \in 0 .. n
    <2>1. CASE k = 0
      BY <1>0, <1>3, <1>5, <2>1
    <2>2. CASE k # 0
      <3>1. k \in 1 .. n /\ k - 1 \in 0 .. n
        <4>1. n \in Nat
          BY <1>0
        <4> QED
          BY ONLY <2>2, <4>1, k \in 0 .. n
      <3> QED
        BY <1>4, <1>5, <2>2, <3>1
    <2> QED
      BY <2>1, <2>2
  <1>9. Unfolds(v)
    BY <1>7, <1>8, Zenon
  <1>10. Offsets(l) = g0
    BY <1>0, Zenon DEF Offsets
  <1>11. Unfolds(g0)
    BY <1>9, Zenon
  <1> HIDE DEF g0
  <1>12. \A k \in 0 .. n : g0[k] = IF k = 0 THEN 0 ELSE g0[k - 1] + Width[l[k]]
    <2>1. \A g : Unfolds(g) =>
            \A k \in 0 .. n : g[k] = IF k = 0 THEN 0 ELSE g[k - 1] + Width[l[k]]
      BY Zenon
    <2> HIDE DEF Unfolds
    <2> QED
      BY <1>11, <2>1, Zenon
  <1> HIDE DEF Unfolds
  <1>13. g0[0] = 0
    <2>1. 0 \in 0 .. n
      BY <1>0
    <2> QED
      BY <1>12, <2>1
  <1>14. \A k \in 1 .. n : g0[k] = g0[k - 1] + Width[l[k]]
    <2> TAKE k \in 1 .. n
    <2>1. k \in 0 .. n /\ k # 0
      BY <1>0
    <2> QED
      BY <1>12, <2>1, Zenon
  <1> QED
    BY <1>10, <1>13, <1>14

\* The record has a value for every field.
Filled(l, n, record) == \A k \in 1 .. n : Fills(l[k], record[l[k]])

\* Each field is in s where the layout has it.
LaidOut(s, l, n, record) ==
  \A k \in 1 .. n : SubSeq(s, Offsets(l)[k - 1] + 1, Offsets(l)[k]) = FieldBytes(l[k], record[l[k]])

LEMMA EncodedFacts ==
  ASSUME NEW l, NEW n, Layout(l, n), NEW record, Filled(l, n, record)
  PROVE  /\ Encoded(l, record) \in Seq(Cell)
         /\ Len(Encoded(l, record)) = Offsets(l)[n]
         /\ \A k \in 1 .. n : /\ Offsets(l)[k - 1] + 1 \in 1 .. Len(Encoded(l, record))
                              /\ Offsets(l)[k] \in 1 .. Len(Encoded(l, record))
         /\ LaidOut(Encoded(l, record), l, n, record)
  <1> DEFINE pieces == [k \in 1 .. n |-> FieldBytes(l[k], record[l[k]])]
             at == Offsets(l)
  <1>0. n \in Nat /\ n > 0 /\ Len(l) = n /\ \A k \in 1 .. n : l[k] \in DOMAIN Width
    BY DEF Layout
  <1>1. \A k \in 1 .. n : /\ pieces[k] = FieldBytes(l[k], record[l[k]])
                          /\ pieces[k] \in Seq(Cell) /\ Len(pieces[k]) = Width[l[k]]
                          /\ Width[l[k]] \in Nat \ {0}
    <2> TAKE k \in 1 .. n
    <2>1. l[k] \in DOMAIN Width /\ Fills(l[k], record[l[k]])
      BY <1>0 DEF Filled
    <2>2. pieces[k] = FieldBytes(l[k], record[l[k]])
      OBVIOUS
    <2> HIDE DEF pieces
    <2> QED
      BY <2>1, <2>2, FieldBytesFacts, Widths
  <1>2. pieces \in [1 .. n -> Seq(Cell)]
    <2>1. \A k \in 1 .. n : FieldBytes(l[k], record[l[k]]) \in Seq(Cell)
      <3> HIDE DEF pieces
      <3> QED
        BY <1>1
    <2> QED
      BY <2>1
  <1>3. Encoded(l, record) = FlattenSeq(pieces)
    BY <1>0, Zenon DEF Encoded
  <1> HIDE DEF pieces
  <1>4. Ends(at, pieces, n)
    BY <1>1, OffsetsFacts DEF Ends
  <1> HIDE DEF at
  <1>5. FlattenSeq(pieces) \in Seq(Cell) /\ Holds(FlattenSeq(pieces), pieces, at, n)
    BY <1>0, <1>2, <1>4, Flattened
  <1> DEFINE s == FlattenSeq(pieces)
  <1>6. /\ s \in Seq(Cell) /\ Len(s) = at[n]
        /\ \A k \in 1 .. n : at[k - 1] + 1 \in 1 .. Len(s) /\ at[k] \in 1 .. Len(s)
        /\ \A k \in 1 .. n : SubSeq(s, at[k - 1] + 1, at[k]) = FieldBytes(l[k], record[l[k]])
    BY <1>1, <1>5, Zenon DEF Holds
  <1> HIDE DEF s
  <1>7. Encoded(l, record) = s
    BY <1>3 DEF s
  <1> QED
    BY <1>6, <1>7, Zenon DEF at, LaidOut

\* A decoder has the fields of its layout, each read from where it has it.
LEMMA DecodedAt ==
  ASSUME NEW l, NEW n, Layout(l, n), NEW bytes, NEW who
  PROVE  /\ Decoded(l, bytes, who) = [field \in ToSet(l) |-> Decoded(l, bytes, who)[field]]
         /\ \A k \in 1 .. n : Decoded(l, bytes, who)[l[k]] =
              FieldValue(l[k], SubSeq(bytes, Offsets(l)[k - 1] + 1, Offsets(l)[k]), who)
  <1>0. n \in Nat /\ n > 0 /\ Len(l) = n /\ DOMAIN l = 1 .. n
    BY DEF Layout
  <1>1. ASSUME NEW k \in 1 .. n
        PROVE  Decoded(l, bytes, who)[l[k]] =
                 FieldValue(l[k], SubSeq(bytes, Offsets(l)[k - 1] + 1, Offsets(l)[k]), who)
    <2> DEFINE c == CHOOSE j \in 1 .. Len(l) : l[j] = l[k]
    <2>1. c \in 1 .. n /\ l[c] = l[k]
      BY <1>0, Zenon
    <2> HIDE DEF c
    <2>2. c = k
      BY <2>1 DEF Layout
    <2>3. l[k] \in ToSet(l)
      BY <1>0, Zenon DEF ToSet
    <2>4. Decoded(l, bytes, who)[l[k]] =
            FieldValue(l[k], SubSeq(bytes, Offsets(l)[c - 1] + 1, Offsets(l)[c]), who)
      BY <2>3, Zenon DEF Decoded, c
    <2> QED
      BY <2>2, <2>4, Zenon
  <1>2. Decoded(l, bytes, who) = [field \in ToSet(l) |-> Decoded(l, bytes, who)[field]]
    <2> DEFINE e(field) ==
                 LET k == CHOOSE j \in 1 .. Len(l) : l[j] = field
                 IN  FieldValue(field, SubSeq(bytes, Offsets(l)[k - 1] + 1, Offsets(l)[k]), who)
    <2>1. Decoded(l, bytes, who) = [field \in ToSet(l) |-> e(field)]
      BY Zenon DEF Decoded
    <2> HIDE DEF e
    <2> QED
      BY <2>1
  <1> QED
    BY <1>1, <1>2

\* Every field is read from where it is.
LEMMA DecodedBack ==
  ASSUME NEW l, NEW n, Layout(l, n), NEW record, Filled(l, n, record), NEW who,
         who # "subscriber" => \A k \in 1 .. n : Positive(l[k], record[l[k]]),
         NEW bytes, LaidOut(bytes, l, n, record)
  PROVE  Decoded(l, bytes, who) = [field \in ToSet(l) |-> Arrives(field, record[field])]
  <1>0. n \in Nat /\ n > 0 /\ Len(l) = n /\ DOMAIN l = 1 .. n
    BY DEF Layout
  <1>1. ASSUME NEW field \in ToSet(l)
        PROVE  LET k == CHOOSE j \in 1 .. Len(l) : l[j] = field
               IN  FieldValue(field, SubSeq(bytes, Offsets(l)[k - 1] + 1, Offsets(l)[k]), who)
                     = Arrives(field, record[field])
    <2> DEFINE k == CHOOSE j \in 1 .. Len(l) : l[j] = field
    <2>1. k \in 1 .. n /\ l[k] = field
      <3>1. \E j \in 1 .. Len(l) : l[j] = field
        BY <1>0, Zenon DEF ToSet
      <3> QED
        BY <1>0, <3>1, Zenon
    <2> HIDE DEF k
    <2>2. SubSeq(bytes, Offsets(l)[k - 1] + 1, Offsets(l)[k]) = FieldBytes(field, record[field])
      BY <2>1, Zenon DEF LaidOut
    <2>3. field \in DOMAIN Width /\ Fills(field, record[field])
      BY <2>1 DEF Filled, Layout
    <2>4. who # "subscriber" => Positive(field, record[field])
      BY <2>1
    <2>5. FieldValue(field, FieldBytes(field, record[field]), who) = Arrives(field, record[field])
      BY <2>3, <2>4, FieldReadBack
    <2> QED
      BY <2>2, <2>5, Zenon DEF k
  <1> QED
    BY <1>1, Zenon DEF Decoded

-----------------------------------------------------------------------------
(* The layouts of the program *)

LEMMA RequestLayouts ==
  /\ DOMAIN SendLayout = {"O", "U", "X"}
  /\ Layout(SendLayout["O"], 5) /\ Layout(SendLayout["U"], 6) /\ Layout(SendLayout["X"], 3)
  /\ \A t \in DOMAIN SendLayout : SendLayout[t][1] = "type"
  <1>1. DOMAIN SendLayout = {"O", "U", "X"}
    BY DEF SendLayout
  <1>2. Layout(SendLayout["O"], 5) /\ SendLayout["O"][1] = "type"
    BY DEF Layout, Width, SendLayout
  <1>3. Layout(SendLayout["U"], 6) /\ SendLayout["U"][1] = "type"
    BY DEF Layout, Width, SendLayout
  <1>4. Layout(SendLayout["X"], 3) /\ SendLayout["X"][1] = "type"
    BY DEF Layout, Width, SendLayout
  <1> QED
    BY <1>1, <1>2, <1>3, <1>4

\* The server has a side where the client has an order_type, and every other
\* field of a request where the client has it.
ServerSees(t, n) ==
  /\ Layout(DECODE[t], n)
  /\ \A k \in 1 .. n : DECODE[t][k] = IF SendLayout[t][k] = "order_type" THEN "side" ELSE SendLayout[t][k]
  /\ \A k \in 0 .. n : Offsets(DECODE[t])[k] = Offsets(SendLayout[t])[k]

LEMMA ServerLayouts == ServerSees("O", 5) /\ ServerSees("U", 6) /\ ServerSees("X", 3)
  <1>1. ASSUME NEW t \in {"O", "U", "X"}, NEW n \in {3, 5, 6},
               Layout(SendLayout[t], n), Layout(DECODE[t], n),
               \A k \in 1 .. n : DECODE[t][k] = IF SendLayout[t][k] = "order_type" THEN "side" ELSE SendLayout[t][k]
        PROVE  \A k \in 0 .. n : Offsets(DECODE[t])[k] = Offsets(SendLayout[t])[k]
    <2> DEFINE a == Offsets(SendLayout[t])
               b == Offsets(DECODE[t])
    <2>1. \A k \in 1 .. n : Width[DECODE[t][k]] = Width[SendLayout[t][k]]
      <3>1. Width["side"] = Width["order_type"]
        BY DEF Width
      <3> QED
        BY <1>1, <3>1, Zenon
    <2>2. /\ a[0] = 0 /\ \A k \in 1 .. n : a[k] = a[k - 1] + Width[SendLayout[t][k]]
          /\ b[0] = 0 /\ \A k \in 1 .. n : b[k] = b[k - 1] + Width[DECODE[t][k]]
      BY <1>1, OffsetsFacts
    <2> HIDE DEF a, b
    <2>3. ASSUME NEW k \in 1 .. n, NEW j \in 0 .. n, k = j + 1, b[j] = a[j]
          PROVE  b[k] = a[k]
      <3>1. k - 1 = j
        BY <2>3
      <3> QED
        BY <2>1, <2>2, <2>3, <3>1
    <2>4. b[0] = a[0] /\ b[1] = a[1] /\ b[2] = a[2] /\ b[3] = a[3]
      <3>1. n >= 3 /\ n \in Nat
        OBVIOUS
      <3>2. b[0] = a[0]
        BY <2>2
      <3>3. b[1] = a[1]
        BY <2>3, <3>1, <3>2
      <3>4. b[2] = a[2]
        BY <2>3, <3>1, <3>3
      <3>5. b[3] = a[3]
        BY <2>3, <3>1, <3>4
      <3> QED
        BY <3>2, <3>3, <3>4, <3>5
    <2>5. (n >= 5 => b[4] = a[4] /\ b[5] = a[5]) /\ (n = 6 => b[6] = a[6])
      <3>1. n >= 5 => b[4] = a[4]
        BY <2>3, <2>4
      <3>2. n >= 5 => b[5] = a[5]
        BY <2>3, <3>1
      <3>3. n = 6 => b[6] = a[6]
        BY <2>3, <3>2
      <3> QED
        BY <3>1, <3>2, <3>3
    <2>6. \A k \in 0 .. n : b[k] = a[k]
      BY <2>4, <2>5
    <2> QED
      BY <2>6 DEF a, b
  <1>2. ServerSees("O", 5)
    <2>1. Layout(DECODE["O"], 5)
      BY DEF Layout, Width, DECODE
    <2>2. \A k \in 1 .. 5 :
            DECODE["O"][k] = IF SendLayout["O"][k] = "order_type" THEN "side" ELSE SendLayout["O"][k]
      BY DEF DECODE, SendLayout
    <2> QED
      BY <1>1, <2>1, <2>2, RequestLayouts DEF ServerSees
  <1>3. ServerSees("U", 6)
    <2>1. Layout(DECODE["U"], 6)
      BY DEF Layout, Width, DECODE
    <2>2. \A k \in 1 .. 6 :
            DECODE["U"][k] = IF SendLayout["U"][k] = "order_type" THEN "side" ELSE SendLayout["U"][k]
      BY DEF DECODE, SendLayout
    <2> QED
      BY <1>1, <2>1, <2>2, RequestLayouts DEF ServerSees
  <1>4. ServerSees("X", 3)
    <2>1. Layout(DECODE["X"], 3)
      BY DEF Layout, Width, DECODE
    <2>2. \A k \in 1 .. 3 :
            DECODE["X"][k] = IF SendLayout["X"][k] = "order_type" THEN "side" ELSE SendLayout["X"][k]
      BY DEF DECODE, SendLayout
    <2> QED
      BY <1>1, <2>1, <2>2, RequestLayouts DEF ServerSees
  <1> QED
    BY <1>2, <1>3, <1>4

LEMMA SnapshotLayouts ==
  Layout(order_to_bytes, 3) /\ Layout(<<"symbol", "seq_len">>, 2)
  BY DEF Layout, Width, order_to_bytes

\* The layout b is the layout e, of n fields more than the first, without its
\* type.
BehindType(b, e, n) ==
  /\ Layout(e, n + 1) /\ Layout(b, n)
  /\ e[1] = "type" /\ \A k \in 1 .. n : e[k + 1] = b[k]

LEMMA BodyLayouts ==
  /\ DOMAIN ENCODE = {"A", "F", "P", "K", "J"}
  /\ BehindType(Body["A"], ENCODE["A"], 7) /\ BehindType(Body["F"], ENCODE["F"], 5)
  /\ BehindType(Body["P"], ENCODE["P"], 6) /\ BehindType(Body["K"], ENCODE["K"], 3)
  /\ BehindType(Body["J"], ENCODE["J"], 1)
  <1>1. DOMAIN ENCODE = {"A", "F", "P", "K", "J"}
    BY DEF ENCODE
  <1>2. BehindType(Body["A"], ENCODE["A"], 7)
    BY DEF BehindType, Layout, Width, Body, ENCODE, ENCODE_ACK
  <1>3. BehindType(Body["F"], ENCODE["F"], 5)
    BY DEF BehindType, Layout, Width, Body, ENCODE, ENCODE_FULL_FILL
  <1>4. BehindType(Body["P"], ENCODE["P"], 6)
    BY DEF BehindType, Layout, Width, Body, ENCODE, ENCODE_PARTIAL_FILL
  <1>5. BehindType(Body["K"], ENCODE["K"], 3)
    BY DEF BehindType, Layout, Width, Body, ENCODE, ENCODE_KILL_CONFIRM
  <1>6. BehindType(Body["J"], ENCODE["J"], 1)
    BY DEF BehindType, Layout, Width, Body, ENCODE
  <1> QED
    BY <1>1, <1>2, <1>3, <1>4, <1>5, <1>6

\* The client's table has the length of every encoder's message.
LEMMA BodyLengths ==
  /\ Offsets(ENCODE["A"])[8] = 1 + RESPONSE_BODY_LENGTH["A"]
  /\ Offsets(ENCODE["F"])[6] = 1 + RESPONSE_BODY_LENGTH["F"]
  /\ Offsets(ENCODE["P"])[7] = 1 + RESPONSE_BODY_LENGTH["P"]
  /\ Offsets(ENCODE["K"])[4] = 1 + RESPONSE_BODY_LENGTH["K"]
  /\ Offsets(ENCODE["J"])[2] = 1 + RESPONSE_BODY_LENGTH["J"]
  <1>1. /\ SYMBOL_BYTES \in Nat /\ QTY_BYTES \in Nat /\ PRICE_BYTES \in Nat
        /\ ID_BYTES \in Nat /\ INT_BYTES \in Nat
    BY WidthAssumption, FieldAssumption
  <1>2. Offsets(ENCODE["A"])[8] = 1 + RESPONSE_BODY_LENGTH["A"]
    <2> DEFINE e == ENCODE["A"]
               at == Offsets(e)
    <2>1. /\ at[0] = 0 /\ \A k \in 1 .. 8 : at[k] = at[k - 1] + Width[e[k]]
      BY BodyLayouts, OffsetsFacts DEF BehindType
    <2>2. /\ Width[e[1]] = 1 /\ Width[e[2]] = 1 /\ Width[e[3]] = 1 /\ Width[e[4]] = SYMBOL_BYTES
          /\ Width[e[5]] = QTY_BYTES /\ Width[e[6]] = PRICE_BYTES
          /\ Width[e[7]] = ID_BYTES /\ Width[e[8]] = ID_BYTES
      BY DEF Width, ENCODE, ENCODE_ACK
    <2> HIDE DEF at, e
    <2>3. at[1] = 1 /\ at[2] = 2 /\ at[3] = 3 /\ at[4] = 3 + SYMBOL_BYTES
      BY <1>1, <2>1, <2>2
    <2>4. at[8] = at[4] + QTY_BYTES + PRICE_BYTES + 2 * ID_BYTES
      BY <1>1, <2>1, <2>2, <2>3
    <2> QED
      BY <1>1, <2>3, <2>4 DEF RESPONSE_BODY_LENGTH, at, e
  <1>3. Offsets(ENCODE["F"])[6] = 1 + RESPONSE_BODY_LENGTH["F"]
    <2> DEFINE e == ENCODE["F"]
               at == Offsets(e)
    <2>1. /\ at[0] = 0 /\ \A k \in 1 .. 6 : at[k] = at[k - 1] + Width[e[k]]
      BY BodyLayouts, OffsetsFacts DEF BehindType
    <2>2. /\ Width[e[1]] = 1 /\ Width[e[2]] = 1 /\ Width[e[3]] = SYMBOL_BYTES
          /\ Width[e[4]] = ID_BYTES /\ Width[e[5]] = QTY_BYTES
          /\ Width[e[6]] = PRICE_BYTES
      BY DEF Width, ENCODE, ENCODE_FULL_FILL
    <2> HIDE DEF at, e
    <2>3. at[6] = 2 + SYMBOL_BYTES + ID_BYTES + QTY_BYTES + PRICE_BYTES
      BY <1>1, <2>1, <2>2
    <2> QED
      BY <1>1, <2>3 DEF RESPONSE_BODY_LENGTH, at, e
  <1>4. Offsets(ENCODE["P"])[7] = 1 + RESPONSE_BODY_LENGTH["P"]
    <2> DEFINE e == ENCODE["P"]
               at == Offsets(e)
    <2>1. /\ at[0] = 0 /\ \A k \in 1 .. 7 : at[k] = at[k - 1] + Width[e[k]]
      BY BodyLayouts, OffsetsFacts DEF BehindType
    <2>2. /\ Width[e[1]] = 1 /\ Width[e[2]] = 1 /\ Width[e[3]] = SYMBOL_BYTES
          /\ Width[e[4]] = ID_BYTES /\ Width[e[5]] = QTY_BYTES
          /\ Width[e[6]] = QTY_BYTES /\ Width[e[7]] = PRICE_BYTES
      BY DEF Width, ENCODE, ENCODE_PARTIAL_FILL
    <2> HIDE DEF at, e
    <2>3. at[7] = 2 + SYMBOL_BYTES + ID_BYTES + 2 * QTY_BYTES + PRICE_BYTES
      BY <1>1, <2>1, <2>2
    <2> QED
      BY <1>1, <2>3 DEF RESPONSE_BODY_LENGTH, at, e
  <1>5. Offsets(ENCODE["K"])[4] = 1 + RESPONSE_BODY_LENGTH["K"]
    <2> DEFINE e == ENCODE["K"]
               at == Offsets(e)
    <2>1. /\ at[0] = 0 /\ \A k \in 1 .. 4 : at[k] = at[k - 1] + Width[e[k]]
      BY BodyLayouts, OffsetsFacts DEF BehindType
    <2>2. /\ Width[e[1]] = 1 /\ Width[e[2]] = SYMBOL_BYTES /\ Width[e[3]] = ID_BYTES
          /\ Width[e[4]] = QTY_BYTES
      BY DEF Width, ENCODE, ENCODE_KILL_CONFIRM
    <2> HIDE DEF at, e
    <2>3. at[4] = 1 + SYMBOL_BYTES + ID_BYTES + QTY_BYTES
      BY <1>1, <2>1, <2>2
    <2> QED
      BY <1>1, <2>3 DEF RESPONSE_BODY_LENGTH, at, e
  <1>6. Offsets(ENCODE["J"])[2] = 1 + RESPONSE_BODY_LENGTH["J"]
    <2> DEFINE e == ENCODE["J"]
               at == Offsets(e)
    <2>1. /\ at[0] = 0 /\ \A k \in 1 .. 2 : at[k] = at[k - 1] + Width[e[k]]
      BY BodyLayouts, OffsetsFacts DEF BehindType
    <2>2. Width[e[1]] = 1 /\ Width[e[2]] = INT_BYTES
      BY DEF Width, ENCODE
    <2> HIDE DEF at, e
    <2>3. at[2] = 1 + INT_BYTES
      BY <1>1, <2>1, <2>2
    <2> QED
      BY <1>1, <2>3 DEF RESPONSE_BODY_LENGTH, at, e
  <1> QED
    BY <1>2, <1>3, <1>4, <1>5, <1>6

\* No request is longer than a frame.
LEMMA RequestLengths ==
  /\ Offsets(SendLayout["O"])[5] \in 0 .. REQUEST_BYTES
  /\ Offsets(SendLayout["U"])[6] \in 0 .. REQUEST_BYTES
  /\ Offsets(SendLayout["X"])[3] \in 0 .. REQUEST_BYTES
  <1>1. /\ SYMBOL_BYTES \in Nat /\ QTY_BYTES \in Nat /\ PRICE_BYTES \in Nat /\ ID_BYTES \in Nat
    BY WidthAssumption, FieldAssumption
  <1>2. Offsets(SendLayout["O"])[5] \in 0 .. REQUEST_BYTES
    <2> DEFINE e == SendLayout["O"]
               at == Offsets(e)
    <2>1. /\ at[0] = 0 /\ \A k \in 1 .. 5 : at[k] = at[k - 1] + Width[e[k]]
      BY RequestLayouts, OffsetsFacts
    <2>2. /\ Width[e[1]] = 1 /\ Width[e[2]] = 1 /\ Width[e[3]] = SYMBOL_BYTES
          /\ Width[e[4]] = QTY_BYTES /\ Width[e[5]] = PRICE_BYTES
      BY DEF Width, SendLayout
    <2> HIDE DEF at, e
    <2>3. at[5] = 2 + SYMBOL_BYTES + QTY_BYTES + PRICE_BYTES
      BY <1>1, <2>1, <2>2
    <2> QED
      BY <1>1, <2>3 DEF REQUEST_BYTES, at, e
  <1>3. Offsets(SendLayout["U"])[6] \in 0 .. REQUEST_BYTES
    <2> DEFINE e == SendLayout["U"]
               at == Offsets(e)
    <2>1. /\ at[0] = 0 /\ \A k \in 1 .. 6 : at[k] = at[k - 1] + Width[e[k]]
      BY RequestLayouts, OffsetsFacts
    <2>2. /\ Width[e[1]] = 1 /\ Width[e[2]] = 1 /\ Width[e[3]] = SYMBOL_BYTES
          /\ Width[e[4]] = QTY_BYTES /\ Width[e[5]] = PRICE_BYTES
          /\ Width[e[6]] = ID_BYTES
      BY DEF Width, SendLayout
    <2> HIDE DEF at, e
    <2>3. at[6] = 2 + SYMBOL_BYTES + QTY_BYTES + PRICE_BYTES + ID_BYTES
      BY <1>1, <2>1, <2>2
    <2> QED
      BY <1>1, <2>3 DEF REQUEST_BYTES, at, e
  <1>4. Offsets(SendLayout["X"])[3] \in 0 .. REQUEST_BYTES
    <2> DEFINE e == SendLayout["X"]
               at == Offsets(e)
    <2>1. /\ at[0] = 0 /\ \A k \in 1 .. 3 : at[k] = at[k - 1] + Width[e[k]]
      BY RequestLayouts, OffsetsFacts
    <2>2. Width[e[1]] = 1 /\ Width[e[2]] = SYMBOL_BYTES /\ Width[e[3]] = ID_BYTES
      BY DEF Width, SendLayout
    <2> HIDE DEF at, e
    <2>3. at[3] = 1 + SYMBOL_BYTES + ID_BYTES
      BY <1>1, <2>1, <2>2
    <2> QED
      BY <1>1, <2>3 DEF REQUEST_BYTES, at, e
  <1> QED
    BY <1>2, <1>3, <1>4

-----------------------------------------------------------------------------
(* Answers *)

\* The first cell is the type.
LEMMA FirstCell ==
  ASSUME NEW l, NEW n, Layout(l, n), l[1] = "type", NEW record, NEW s \in Seq(Cell), LaidOut(s, l, n, record),
         Len(s) >= 1
  PROVE  s[1] = record.type /\ record.type \in Cell
  <1>0. 1 \in 1 .. n /\ n \in Nat /\ 1 - 1 = 0
    BY DEF Layout
  <1>1. Offsets(l)[0] = 0 /\ Offsets(l)[1] = 1
    <2>1. Offsets(l)[0] = 0 /\ Offsets(l)[1] = Offsets(l)[0] + Width[l[1]]
      BY <1>0, OffsetsFacts
    <2>2. Width["type"] = 1
      BY DEF Width
    <2> QED
      BY <2>1, <2>2
  <1>2. SubSeq(s, 0 + 1, 1) = FieldBytes(l[1], record[l[1]])
    BY <1>0, <1>1 DEF LaidOut
  <1>3. SubSeq(s, 1, 1) = <<record.type>>
    <2>1. FieldBytes("type", record["type"]) = <<record["type"]>>
      BY DEF FieldBytes, Strings
    <2>2. 0 + 1 = 1
      OBVIOUS
    <2>3. SubSeq(s, 1, 1) = FieldBytes("type", record["type"])
      BY <1>2, <2>2, Zenon
    <2> QED
      BY <2>1, <2>3, Zenon
  <1>4. s[1] \in Cell /\ SubSeq(s, 1, 1)[1] = s[1]
    <2>1. 1 \in 1 .. Len(s)
      OBVIOUS
    <2>2. s[1] \in Cell
      BY <2>1
    <2>3. \A i \in 1 .. 1 : s[i] \in Cell
      BY <2>2
    <2>4. SubSeq(s, 1, 1)[1] = s[1 + 1 - 1]
      <3>1. 1 \in Int /\ 1 \in 1 .. 1 - 1 + 1
        OBVIOUS
      <3> QED
        BY ONLY <2>3, <3>1, SubSeqProperties
    <2> QED
      BY <2>2, <2>4
  <1>5. <<record.type>>[1] = record.type
    OBVIOUS
  <1> QED
    BY <1>3, <1>4, <1>5

\* A body is laid out as the rest of the message.
LEMMA BodyLaid ==
  ASSUME NEW b, NEW e, NEW n, BehindType(b, e, n), NEW record, NEW s \in Seq(Cell),
         LaidOut(s, e, n + 1, record),
         Len(s) = Offsets(e)[n + 1],
         \A k \in 1 .. n + 1 : Offsets(e)[k - 1] + 1 \in 1 .. Len(s) /\ Offsets(e)[k] \in 1 .. Len(s)
  PROVE  LaidOut(SubSeq(s, 2, Len(s)), b, n, record)
  <1> DEFINE at == Offsets(e)
             from == Offsets(b)
  <1>0. n \in Nat \ {0} /\ Layout(e, n + 1) /\ Layout(b, n) /\ e[1] = "type" /\ \A k \in 1 .. n : e[k + 1] = b[k]
    BY DEF BehindType, Layout
  <1>1. at[0] = 0 /\ \A k \in 1 .. n + 1 : at[k] = at[k - 1] + Width[e[k]]
    BY <1>0, OffsetsFacts
  <1>2. from[0] = 0 /\ \A k \in 1 .. n : from[k] = from[k - 1] + Width[b[k]]
    BY <1>0, OffsetsFacts
  <1>3. \A k \in 1 .. n : Width[b[k]] \in Nat
    BY <1>0, Widths DEF Layout
  <1> HIDE DEF at, from
  <1>4. ASSUME NEW k \in Nat, k <= n
        PROVE  from[k] \in Nat /\ at[k + 1] = from[k] + 1
    <2> DEFINE D == {i \in Nat : i <= n => from[i] \in Nat /\ at[i + 1] = from[i] + 1}
    <2>1. 0 \in D
      <3>1. 1 \in 1 .. n + 1 /\ 1 - 1 = 0 /\ 0 + 1 = 1
        BY <1>0
      <3>2. at[1] = at[0] + Width[e[1]]
        BY <1>1, <3>1
      <3>3. Width["type"] = 1
        BY DEF Width
      <3> QED
        BY <1>0, <1>1, <1>2, <3>1, <3>2, <3>3
    <2>2. \A i \in Nat : i \in D => i + 1 \in D
      <3> SUFFICES ASSUME NEW i \in Nat, i \in D, i + 1 <= n
                   PROVE  from[i + 1] \in Nat /\ at[(i + 1) + 1] = from[i + 1] + 1
        OBVIOUS
      <3>0. n \in Nat
        BY <1>0
      <3>1. /\ i <= n /\ i + 1 \in 1 .. n /\ (i + 1) - 1 = i
            /\ (i + 1) + 1 \in 1 .. n + 1 /\ ((i + 1) + 1) - 1 = i + 1
        BY ONLY <3>0, i \in Nat, i + 1 <= n
      <3>2. from[i] \in Nat /\ at[i + 1] = from[i] + 1
        BY <3>1
      <3>3. from[i + 1] = from[i] + Width[b[i + 1]] /\ Width[b[i + 1]] \in Nat
        BY <1>2, <1>3, <3>1
      <3>4. at[(i + 1) + 1] = at[i + 1] + Width[e[(i + 1) + 1]]
        BY <1>1, <3>1
      <3>5. e[(i + 1) + 1] = b[i + 1]
        BY <1>0, <3>1
      <3> HIDE DEF D
      <3> QED
        BY <3>2, <3>3, <3>4, <3>5
    <2>3. Nat \subseteq D
      <3> HIDE DEF D
      <3> QED
        BY <2>1, <2>2, Climb
    <2>4. k \in D
      BY ONLY <2>3, k \in Nat
    <2> QED
      BY <1>4, <2>4
  <1>5. ASSUME NEW k \in 1 .. n
        PROVE  SubSeq(SubSeq(s, 2, Len(s)), from[k - 1] + 1, from[k]) = FieldBytes(b[k], record[b[k]])
    <2>1. /\ k \in Nat /\ k - 1 \in Nat /\ k <= n /\ k - 1 <= n /\ (k - 1) + 1 = k
          /\ k + 1 \in 1 .. n + 1 /\ (k + 1) - 1 = k
      BY <1>0
    <2>2. /\ from[k] \in Nat /\ at[k + 1] = from[k] + 1 /\ from[k - 1] \in Nat
          /\ at[k] = from[k - 1] + 1
      BY <1>4, <2>1
    <2>3. SubSeq(s, at[k] + 1, at[k + 1]) = FieldBytes(b[k], record[b[k]])
      <3>1. SubSeq(s, at[k] + 1, at[k + 1]) = FieldBytes(e[k + 1], record[e[k + 1]])
        BY <2>1, Zenon DEF LaidOut, at
      <3> QED
        BY <1>0, <3>1
    <2>4. at[k] + 1 \in 1 .. Len(s) /\ at[k + 1] \in 1 .. Len(s)
      BY <2>1 DEF at
    <2>5. SubSeq(SubSeq(s, 2, Len(s)), from[k - 1] + 1, from[k]) = SubSeq(s, at[k] + 1, at[k + 1])
      <3> DEFINE i == from[k - 1] + 1
                 j == from[k]
                 len == Len(s)
      <3>1. /\ len \in Nat /\ 2 \in 1 .. len /\ len \in 1 .. len
            /\ i \in 1 .. (len - 2) + 1 /\ j \in 1 .. (len - 2) + 1
            /\ 2 + i - 1 = at[k] + 1 /\ 2 + j - 1 = at[k + 1]
        <4>1. len \in Nat
          OBVIOUS
        <4>2. from[k] >= 1
          <5>1. from[k] = from[k - 1] + Width[b[k]]
            BY <1>2
          <5>2. Width[b[k]] \in Nat \ {0}
            BY <1>0, Widths DEF Layout
          <5> QED
            BY <2>2, <5>1, <5>2
        <4> DEFINE a == at[k]
                   z == at[k + 1]
        <4>3. /\ i = a /\ j = z - 1 /\ a \in Nat /\ a >= 1 /\ z \in Nat
              /\ a + 1 <= len /\ z <= len /\ j >= 1
          BY <2>2, <2>4, <4>1, <4>2, SMTT(30)
        <4> HIDE DEF len, a, z, i, j
        <4>4. /\ len \in Nat /\ 2 \in 1 .. len /\ len \in 1 .. len
              /\ i \in 1 .. (len - 2) + 1 /\ j \in 1 .. (len - 2) + 1
              /\ 2 + i - 1 = a + 1 /\ 2 + j - 1 = z
          BY ONLY <4>1, <4>3
        <4> QED
          BY <4>4 DEF a, z
      <3> HIDE DEF i, j, len
      <3>2. SubSeq(SubSeq(s, 2, len), i, j) = SubSeq(s, 2 + i - 1, 2 + j - 1)
        BY <3>1, SubSeqOfSubSeq, SMTT(30) DEF len
      <3> QED
        BY <3>1, <3>2 DEF i, j, len
    <2> QED
      BY <2>3, <2>5
  <1> QED
    BY <1>5 DEF LaidOut, from

\* A value that the field has room for and that arrives as it is.
Sound(field, value) == Fills(field, value) /\ Positive(field, value) /\ Arrives(field, value) = value

LEMMA TypeSound == \A t \in Type : Sound("type", t) /\ Sound("request_type", t)
  BY DEF Sound, Fills, Positive, Arrives, Plain

LEMMA ToSetFacts ==
  ASSUME NEW l, NEW n, Layout(l, n)
  PROVE  /\ \A k \in 1 .. n : l[k] \in ToSet(l)
         /\ \A field \in ToSet(l) : \E k \in 1 .. n : l[k] = field
  <1>1. DOMAIN l = 1 .. n
    BY DEF Layout
  <1> QED
    BY <1>1, Zenon DEF ToSet

\* The client hears the message m.
HeardBack(m) ==
  LET bytes == Encoded(ENCODE[m.type], m)
  IN  /\ Len(bytes) = 1 + RESPONSE_BODY_LENGTH[m.type]
      /\ Heard(bytes) = Restrict(m, ToSet(ENCODE[m.type]))

LEMMA OneHeard ==
  ASSUME NEW m, NEW n, BehindType(Body[m.type], ENCODE[m.type], n),
         Offsets(ENCODE[m.type])[n + 1] = 1 + RESPONSE_BODY_LENGTH[m.type],
         \A field \in ToSet(ENCODE[m.type]) : Sound(field, m[field])
  PROVE  HeardBack(m)
  <1> DEFINE t == m.type
             e == ENCODE[t]
             b == Body[t]
             s == Encoded(e, m)
  <1>0. /\ Layout(e, n + 1) /\ Layout(b, n) /\ e[1] = "type" /\ \A k \in 1 .. n : e[k + 1] = b[k]
        /\ n \in Nat \ {0}
    BY DEF BehindType, Layout
  <1>1. \A field \in ToSet(e) : Fills(field, m[field]) /\ Positive(field, m[field]) /\ Arrives(field, m[field]) = m[field]
    BY DEF Sound
  <1>2. BehindType(b, e, n) /\ Offsets(e)[n + 1] = 1 + RESPONSE_BODY_LENGTH[t]
    OBVIOUS
  <1>3. HeardBack(m) = (/\ Len(s) = 1 + RESPONSE_BODY_LENGTH[t] /\ Heard(s) = Restrict(m, ToSet(e)))
    BY Zenon DEF HeardBack
  <1>4. Heard(s) = LET type == s[1]
                       rest == SubSeq(s, 2, 1 + RESPONSE_BODY_LENGTH[type])
                   IN  Joined([type |-> type], Decoded(Body[type], rest, "client"))
    BY Zenon DEF Heard
  <1>5. b = Body[t]
    OBVIOUS
  <1> HIDE DEF e, b
  <1>6. Filled(e, n + 1, m)
    BY <1>0, <1>1, ToSetFacts DEF Filled
  <1>7. /\ s \in Seq(Cell) /\ Len(s) = Offsets(e)[n + 1]
        /\ \A k \in 1 .. n + 1 : Offsets(e)[k - 1] + 1 \in 1 .. Len(s) /\ Offsets(e)[k] \in 1 .. Len(s)
        /\ LaidOut(s, e, n + 1, m)
    BY <1>0, <1>6, EncodedFacts
  <1> HIDE DEF s
  <1>8. s[1] = t
    <2>1. 1 \in 1 .. n + 1
      BY <1>0
    <2>2. Len(s) >= 1
      <3>1. Len(s) \in Nat /\ Offsets(e)[1] \in 1 .. Len(s)
        BY <1>7, <2>1
      <3> QED
        BY <3>1
    <2> QED
      BY <1>0, <1>7, <2>2, FirstCell
  <1> HIDE DEF t
  <1>9. \A k \in 1 .. n : b[k] \in ToSet(e)
    <2> TAKE k \in 1 .. n
    <2>1. k + 1 \in 1 .. n + 1
      BY <1>0
    <2>2. e[k + 1] \in ToSet(e)
      BY <1>0, <2>1, ToSetFacts
    <2> QED
      BY <1>0, <2>2
  <1>10. Filled(b, n, m) /\ \A k \in 1 .. n : Positive(b[k], m[b[k]])
    BY <1>1, <1>9 DEF Filled
  <1> DEFINE rest == SubSeq(s, 2, Len(s))
  <1>11. LaidOut(rest, b, n, m)
    BY <1>2, <1>7, BodyLaid
  <1> HIDE DEF rest
  <1>12. Decoded(b, rest, "client") = [field \in ToSet(b) |-> Arrives(field, m[field])]
    BY <1>0, <1>10, <1>11, DecodedBack
  <1>13. ToSet(b) \subseteq ToSet(e) /\ ToSet(e) = {"type"} \union ToSet(b)
    <2>1. ToSet(b) \subseteq ToSet(e)
      BY <1>0, <1>9, ToSetFacts
    <2>2. "type" \in ToSet(e)
      <3>1. 1 \in 1 .. n + 1
        BY <1>0
      <3> QED
        BY <1>0, <3>1, ToSetFacts
    <2>3. ASSUME NEW field \in ToSet(e), field # "type"
          PROVE  field \in ToSet(b)
      <3>1. PICK k \in 1 .. n + 1 : e[k] = field
        BY <1>0, ToSetFacts
      <3>2. k # 1
        BY <1>0, <2>3, <3>1
      <3>3. k - 1 \in 1 .. n /\ (k - 1) + 1 = k
        BY <1>0, <3>2
      <3>4. b[k - 1] = field
        BY <1>0, <3>1, <3>3
      <3> QED
        BY <1>0, <3>3, <3>4, ToSetFacts
    <2> QED
      BY <2>1, <2>2, <2>3
  <1> DEFINE d == [field \in ToSet(b) |-> m[field]]
  <1>14. Decoded(b, rest, "client") = d
    BY <1>1, <1>12, <1>13
  <1>15. Heard(s) = Joined([type |-> t], d)
    <2>1. SubSeq(s, 2, 1 + RESPONSE_BODY_LENGTH[t]) = rest
      BY <1>2, <1>7 DEF rest
    <2> HIDE DEF d
    <2> QED
      BY <1>4, <1>5, <1>8, <1>14, <2>1, Zenon
  <1>16. Joined([type |-> t], d) = [field \in ToSet(e) |-> m[field]]
    <2>1. DOMAIN [type |-> t] = {"type"} /\ DOMAIN d = ToSet(b) /\ [type |-> t]["type"] = m["type"]
      BY DEF t
    <2>2. \A field \in ToSet(e) : (IF field \in {"type"} THEN [type |-> t][field] ELSE d[field]) = m[field]
      BY <1>13, <2>1
    <2> HIDE DEF d
    <2> QED
      BY <1>13, <2>1, <2>2 DEF Joined
  <1> QED
    BY <1>2, <1>3, <1>7, <1>15, <1>16, Zenon DEF Restrict

LEMMA AnswerHeard ==
  ASSUME NEW m, m.type \in DOMAIN ENCODE,
         \A field \in ToSet(ENCODE[m.type]) : Sound(field, m[field])
  PROVE  HeardBack(m)
  <1>1. m.type \in {"A", "F", "P", "K", "J"}
    BY BodyLayouts
  <1>2. 7 + 1 = 8 /\ 5 + 1 = 6 /\ 6 + 1 = 7 /\ 3 + 1 = 4 /\ 1 + 1 = 2
    OBVIOUS
  <1>3. CASE m.type = "A"
    BY <1>2, <1>3, BodyLayouts, BodyLengths, OneHeard
  <1>4. CASE m.type = "F"
    BY <1>2, <1>4, BodyLayouts, BodyLengths, OneHeard
  <1>5. CASE m.type = "P"
    BY <1>2, <1>5, BodyLayouts, BodyLengths, OneHeard
  <1>6. CASE m.type = "K"
    BY <1>2, <1>6, BodyLayouts, BodyLengths, OneHeard
  <1>7. CASE m.type = "J"
    BY <1>2, <1>7, BodyLayouts, BodyLengths, OneHeard
  <1> QED
    BY <1>1, <1>3, <1>4, <1>5, <1>6, <1>7

-----------------------------------------------------------------------------
(* Requests *)

LEMMA SoundZero ==
  ASSUME NEW field, field \notin Plain
  PROVE  Sound(field, 0)
  BY DEF Sound, Fills, Short, Positive, Arrives, Plain

\* What arrives is sound.
LEMMA SoundArrival ==
  ASSUME NEW field, NEW value, Fills(field, value), Positive(field, value)
  PROVE  Sound(field, Arrives(field, value))
  <1>1. CASE field \notin Plain /\ value <= 0
    BY <1>1, SoundZero DEF Arrives
  <1>2. CASE ~(field \notin Plain /\ value <= 0)
    <2>1. Arrives(field, value) = value
      BY <1>2 DEF Arrives
    <2> QED
      BY <2>1 DEF Sound
  <1> QED
    BY <1>1, <1>2

\* A number that fits fills its field.
LEMMA NumberFills ==
  ASSUME NEW field, field \notin Plain, NEW number \in Int, Fits(number, Width[field])
  PROVE  Fills(field, number) /\ Positive(field, number)
  BY DEF Fills, Positive, Fits, Short, Plain

LEMMA Padded ==
  ASSUME NEW s \in Seq(Cell), Len(s) <= REQUEST_BYTES
  PROVE  /\ pad_message(s) \in Seq(Cell) /\ Len(pad_message(s)) = REQUEST_BYTES
         /\ \A m \in 1 .. Len(s), n \in 1 .. Len(s) : SubSeq(pad_message(s), m, n) = SubSeq(s, m, n)
  <1> DEFINE blank == [k \in 1 .. REQUEST_BYTES - Len(s) |-> Blank]
             d == REQUEST_BYTES - Len(s)
  <1>1. Len(s) \in Nat /\ REQUEST_BYTES \in Nat /\ d \in Nat /\ Len(s) + d = REQUEST_BYTES
    <2>1. REQUEST_BYTES \in Nat
      BY WidthAssumption, FieldAssumption DEF REQUEST_BYTES
    <2> QED
      BY <2>1
  <1>2. blank \in [1 .. d -> Cell]
    BY LetterAssumption DEF Cell
  <1> HIDE DEF d
  <1>3. blank \in Seq(Cell) /\ Len(blank) = d
    BY ONLY <1>1, <1>2, FunctionIsSeq
  <1>4. pad_message(s) = s \o blank
    BY Zenon DEF pad_message
  <1> HIDE DEF blank
  <1>5. s \o blank \in Seq(Cell) /\ Len(s \o blank) = REQUEST_BYTES
    BY ONLY <1>1, <1>3, s \in Seq(Cell), ConcatFacts
  <1>6. \A m \in 1 .. Len(s), n \in 1 .. Len(s) : SubSeq(s \o blank, m, n) = SubSeq(s, m, n)
    BY ONLY <1>3, s \in Seq(Cell), SubSeqOfConcat1
  <1> QED
    BY <1>4, <1>5, <1>6

\* A request that is laid out for its type, with room for every number.
LEMMA AskedFacts ==
  ASSUME NumbersFit, OneLetterSides, NEW r \in Asked
  PROVE  \E n : /\ r.type \in DOMAIN SendLayout /\ ServerSees(r.type, n)
                /\ Layout(SendLayout[r.type], n) /\ DOMAIN r = ToSet(SendLayout[r.type])
                /\ Offsets(SendLayout[r.type])[n] <= REQUEST_BYTES
                /\ \A field \in DOMAIN r : Fills(field, r[field]) /\ Positive(field, r[field])
  <1>0. \A s \in Seq(0 .. BASE - 1) : s \in Seq(Nat)
    <2>1. 0 .. BASE - 1 \subseteq Nat
      OBVIOUS
    <2> QED
      BY <2>1, SeqMonotonic
  <1>1. ASSUME NEW s \in Symbol
        PROVE  Fills("symbol", s) /\ Positive("symbol", s)
    <2>1. s \in Seq(Nat) /\ Len(s) = Width["symbol"]
      BY <1>0, SymbolAssumption DEF Width
    <2> QED
      BY <2>1 DEF Fills, Positive, Plain
  <1>2. ASSUME NEW s \in OrderType
        PROVE  Fills("order_type", s) /\ Positive("order_type", s)
    <2>1. s \in Seq(Nat) /\ Len(s) = Width["order_type"]
      BY <1>0, OrderTypeAssumption DEF OneLetterSides, Width
    <2> QED
      BY <2>1 DEF Fills, Positive, Plain
  <1>3. /\ \A number \in Qty : Fills("qty", number) /\ Positive("qty", number)
        /\ \A number \in Price : Fills("price", number) /\ Positive("price", number)
        /\ \A number \in Id : Fills("del_id", number) /\ Positive("del_id", number)
    <2>1. /\ Width["qty"] = QTY_BYTES /\ Width["price"] = PRICE_BYTES /\ Width["del_id"] = ID_BYTES
          /\ "qty" \notin Plain /\ "price" \notin Plain /\ "del_id" \notin Plain
      BY DEF Width, Plain
    <2>2. /\ \A number \in Qty : number \in Int /\ Fits(number, QTY_BYTES)
          /\ \A number \in Price : number \in Int /\ Fits(number, PRICE_BYTES)
          /\ \A number \in Id : number \in Int /\ Fits(number, ID_BYTES)
      BY NumberAssumption DEF NumbersFit
    <2> QED
      BY <2>1, <2>2, NumberFills
  <1>4. \A t \in Type : Fills("type", t) /\ Positive("type", t)
    BY DEF Fills, Positive, Plain
  <1>5. CASE r \in [type : {"O"}, order_type : OrderType, symbol : Symbol, qty : Qty, price : Price]
    <2>1. /\ r.type = "O" /\ r.order_type \in OrderType /\ r.symbol \in Symbol /\ r.qty \in Qty /\ r.price \in Price
          /\ DOMAIN r = {"type", "order_type", "symbol", "qty", "price"} /\ "O" \in Type
      BY <1>5 DEF Type
    <2>2. ToSet(SendLayout["O"]) = {"type", "order_type", "symbol", "qty", "price"}
      BY DEF ToSet, SendLayout
    <2>3. \A field \in DOMAIN r : Fills(field, r[field]) /\ Positive(field, r[field])
      BY <1>1, <1>2, <1>3, <1>4, <2>1
    <2> QED
      BY <2>1, <2>2, <2>3, RequestLayouts, ServerLayouts, RequestLengths
  <1>6. CASE r \in [type : {"U"}, order_type : OrderType, symbol : Symbol, qty : Qty, price : Price, del_id : Id]
    <2>1. /\ r.type = "U" /\ r.order_type \in OrderType /\ r.symbol \in Symbol /\ r.qty \in Qty /\ r.price \in Price
          /\ r.del_id \in Id
          /\ DOMAIN r = {"type", "order_type", "symbol", "qty", "price", "del_id"} /\ "U" \in Type
      BY <1>6 DEF Type
    <2>2. ToSet(SendLayout["U"]) = {"type", "order_type", "symbol", "qty", "price", "del_id"}
      BY DEF ToSet, SendLayout
    <2>3. \A field \in DOMAIN r : Fills(field, r[field]) /\ Positive(field, r[field])
      BY <1>1, <1>2, <1>3, <1>4, <2>1
    <2> QED
      BY <2>1, <2>2, <2>3, RequestLayouts, ServerLayouts, RequestLengths
  <1>7. CASE r \in [type : {"X"}, symbol : Symbol, del_id : Id]
    <2>1. /\ r.type = "X" /\ r.symbol \in Symbol /\ r.del_id \in Id
          /\ DOMAIN r = {"type", "symbol", "del_id"} /\ "X" \in Type
      BY <1>7 DEF Type
    <2>2. ToSet(SendLayout["X"]) = {"type", "symbol", "del_id"}
      BY DEF ToSet, SendLayout
    <2>3. \A field \in DOMAIN r : Fills(field, r[field]) /\ Positive(field, r[field])
      BY <1>1, <1>3, <1>4, <2>1
    <2> QED
      BY <2>1, <2>2, <2>3, RequestLayouts, ServerLayouts, RequestLengths
  <1> QED
    BY <1>5, <1>6, <1>7 DEF Asked

\* The frame of a request.
Frame(r) == pad_message(Encoded(SendLayout[r.type], r))

\* What the server reads from it.
ReadOf(r) ==
  [field \in ToSet(DECODE[r.type]) |->
     IF field = "side" THEN SideOf(r.order_type[1]) ELSE Arrives(field, r[field])]

\* The server's fields of a request.
LEMMA ReadFields ==
  ASSUME NEW r \in Asked
  PROVE  /\ DOMAIN ReadOf(r) = (DOMAIN r \ {"order_type"}) \union (IF "order_type" \in DOMAIN r THEN {"side"} ELSE {})
         /\ "side" \notin DOMAIN r
  <1>1. DOMAIN ReadOf(r) = ToSet(DECODE[r.type])
    BY Zenon DEF ReadOf
  <1>2. CASE r \in [type : {"O"}, order_type : OrderType, symbol : Symbol, qty : Qty, price : Price]
    <2>1. r.type = "O" /\ DOMAIN r = {"type", "order_type", "symbol", "qty", "price"}
      BY <1>2
    <2>2. ToSet(DECODE["O"]) = {"type", "side", "symbol", "qty", "price"}
      BY DEF ToSet, DECODE
    <2> QED
      BY <1>1, <2>1, <2>2
  <1>3. CASE r \in [type : {"U"}, order_type : OrderType, symbol : Symbol, qty : Qty, price : Price, del_id : Id]
    <2>1. r.type = "U" /\ DOMAIN r = {"type", "order_type", "symbol", "qty", "price", "del_id"}
      BY <1>3
    <2>2. ToSet(DECODE["U"]) = {"type", "side", "symbol", "qty", "price", "del_id"}
      BY DEF ToSet, DECODE
    <2> QED
      BY <1>1, <2>1, <2>2
  <1>4. CASE r \in [type : {"X"}, symbol : Symbol, del_id : Id]
    <2>1. r.type = "X" /\ DOMAIN r = {"type", "symbol", "del_id"}
      BY <1>4
    <2>2. ToSet(DECODE["X"]) = {"type", "symbol", "del_id"}
      BY DEF ToSet, DECODE
    <2> QED
      BY <1>1, <2>1, <2>2
  <1> QED
    BY <1>2, <1>3, <1>4 DEF Asked

\* It fills the server's buffer, and the server reads from it what was meant.
LEMMA FrameRead ==
  ASSUME NumbersFit, OneLetterSides, NEW r \in Asked
  PROVE  /\ Len(Frame(r)) = REQUEST_BYTES
         /\ Frame(r)[1] = r.type
         /\ Decoded(DECODE[r.type], Frame(r), "server") = ReadOf(r)
  <1> DEFINE l == SendLayout[r.type]
             d == DECODE[r.type]
             s == Encoded(l, r)
             p == pad_message(s)
  <1>1. PICK n : /\ r.type \in DOMAIN SendLayout /\ ServerSees(r.type, n)
                 /\ Layout(l, n) /\ DOMAIN r = ToSet(l)
                 /\ Offsets(l)[n] <= REQUEST_BYTES
                 /\ \A field \in DOMAIN r : Fills(field, r[field]) /\ Positive(field, r[field])
    BY AskedFacts
  <1>2. l[1] = "type"
    BY <1>1, RequestLayouts
  <1>3. Frame(r) = p
    BY DEF Frame
  <1>4. /\ n \in Nat \ {0} /\ Layout(d, n)
        /\ \A k \in 1 .. n : d[k] = IF l[k] = "order_type" THEN "side" ELSE l[k]
        /\ \A k \in 0 .. n : Offsets(d)[k] = Offsets(l)[k]
    BY <1>1 DEF Layout, ServerSees
  <1> HIDE DEF l, d
  <1>5. Filled(l, n, r) /\ \A k \in 1 .. n : Positive(l[k], r[l[k]])
    BY <1>1, ToSetFacts DEF Filled
  <1>6. /\ s \in Seq(Cell) /\ Len(s) = Offsets(l)[n]
        /\ \A k \in 1 .. n : Offsets(l)[k - 1] + 1 \in 1 .. Len(s) /\ Offsets(l)[k] \in 1 .. Len(s)
        /\ LaidOut(s, l, n, r)
    BY <1>1, <1>5, EncodedFacts
  <1> HIDE DEF s
  <1>7. /\ p \in Seq(Cell) /\ Len(p) = REQUEST_BYTES
        /\ \A i \in 1 .. Len(s), j \in 1 .. Len(s) : SubSeq(p, i, j) = SubSeq(s, i, j)
    BY <1>1, <1>6, Padded
  <1> HIDE DEF p
  <1>8. LaidOut(p, l, n, r)
    <2> SUFFICES ASSUME NEW k \in 1 .. n
                 PROVE  SubSeq(p, Offsets(l)[k - 1] + 1, Offsets(l)[k]) = FieldBytes(l[k], r[l[k]])
      BY DEF LaidOut
    <2>1. SubSeq(s, Offsets(l)[k - 1] + 1, Offsets(l)[k]) = FieldBytes(l[k], r[l[k]])
      BY <1>6 DEF LaidOut
    <2>2. SubSeq(p, Offsets(l)[k - 1] + 1, Offsets(l)[k]) = SubSeq(s, Offsets(l)[k - 1] + 1, Offsets(l)[k])
      BY <1>6, <1>7
    <2> QED
      BY <2>1, <2>2
  <1>9. p[1] = r.type
    <2>1. REQUEST_BYTES >= 1
      BY WidthAssumption, FieldAssumption DEF REQUEST_BYTES
    <2>2. Len(p) >= 1
      BY <1>7, <2>1
    <2> QED
      BY <1>1, <1>2, <1>7, <1>8, <2>2, FirstCell
  <1>10. ASSUME NEW field \in ToSet(d)
         PROVE  Decoded(d, p, "server")[field] =
                  IF field = "side" THEN SideOf(r.order_type[1]) ELSE Arrives(field, r[field])
    <2>1. PICK k \in 1 .. n : d[k] = field
      BY <1>4, Zenon DEF ToSet, Layout
    <2>2. Offsets(d)[k - 1] = Offsets(l)[k - 1] /\ Offsets(d)[k] = Offsets(l)[k]
      BY <1>4
    <2>3. Decoded(d, p, "server")[field] = FieldValue(field, FieldBytes(l[k], r[l[k]]), "server")
      <3>1. Decoded(d, p, "server")[d[k]] =
              FieldValue(d[k], SubSeq(p, Offsets(d)[k - 1] + 1, Offsets(d)[k]), "server")
        BY <1>4, DecodedAt
      <3>2. SubSeq(p, Offsets(l)[k - 1] + 1, Offsets(l)[k]) = FieldBytes(l[k], r[l[k]])
        BY <1>8 DEF LaidOut
      <3> QED
        BY <2>1, <2>2, <3>1, <3>2
    <2>4. CASE l[k] = "order_type"
      <3>1. field = "side"
        BY <1>4, <2>1, <2>4
      <3>2. FieldBytes("order_type", r["order_type"]) = r.order_type
        BY DEF FieldBytes, Strings
      <3>3. FieldValue("side", r.order_type, "server") = SideOf(r.order_type[1])
        BY DEF FieldValue, Strings
      <3> QED
        BY <2>3, <2>4, <3>1, <3>2, <3>3
    <2>5. CASE l[k] # "order_type"
      <3>1. field = l[k]
        BY <1>4, <2>1, <2>5
      <3>2. l[k] # "side"
        BY <1>1, ToSetFacts, ReadFields
      <3>3. field \in DOMAIN Width /\ Fills(field, r[field]) /\ Positive(field, r[field])
        BY <1>1, <1>5, <3>1 DEF Filled, Layout
      <3>4. FieldValue(field, FieldBytes(field, r[field]), "server") = Arrives(field, r[field])
        BY <3>3, FieldReadBack
      <3> QED
        BY <2>3, <3>1, <3>2, <3>4
    <2> QED
      BY <2>4, <2>5
  <1>11. Decoded(d, p, "server") = ReadOf(r)
    <2>1. Decoded(d, p, "server") = [field \in ToSet(d) |-> Decoded(d, p, "server")[field]]
      BY <1>4, DecodedAt
    <2> QED
      BY <1>10, <2>1, Zenon DEF ReadOf, d
  <1> QED
    BY <1>3, <1>7, <1>9, <1>11 DEF d

OrderFields == {"type", "side", "symbol", "qty", "price", "del_id", "order_id"}

\* An order as the server has it.
OrderSound(o) ==
  /\ DOMAIN o = OrderFields /\ o.type \in {"O", "U", "X"}
  /\ \A field \in OrderFields : Sound(field, o[field])

\* The order has what arrived of the request.
Understood(r, o) ==
  /\ \A field \in DOMAIN r \ {"order_type"} : o[field] = Arrives(field, r[field])
  /\ "order_type" \in DOMAIN r => o.side = SideOf(r.order_type[1])

LEMMA OrderDecoded ==
  ASSUME NumbersFit, OneLetterSides, NEW r \in Asked, NEW side \in Side, NEW id \in Id, id > 0
  PROVE  LET o == Joined(Decoded(DECODE[r.type], Frame(r), "server"),
                         [side |-> side, qty |-> 0, price |-> 0, del_id |-> 0, order_id |-> id])
         IN  OrderSound(o) /\ Understood(r, o)
  <1> DEFINE d == ReadOf(r)
             rest == [side |-> side, qty |-> 0, price |-> 0, del_id |-> 0, order_id |-> id]
             o == Joined(d, rest)
  <1>1. Decoded(DECODE[r.type], Frame(r), "server") = d
    BY FrameRead
  <1>2. ASSUME NEW field \in DOMAIN d
        PROVE  /\ Sound(field, d[field])
               /\ d[field] = IF field = "side" THEN SideOf(r.order_type[1]) ELSE Arrives(field, r[field])
    <2>1. d[field] = IF field = "side" THEN SideOf(r.order_type[1]) ELSE Arrives(field, r[field])
      BY Zenon DEF ReadOf
    <2>2. CASE field = "side"
      <3>1. SideOf(r.order_type[1]) \in Side
        BY DEF SideOf, Side
      <3> QED
        BY <2>1, <2>2, <3>1 DEF Sound, Fills, Positive, Arrives, Plain
    <2>3. CASE field # "side"
      <3>1. field \in DOMAIN r
        BY <2>3, ReadFields
      <3>2. Fills(field, r[field]) /\ Positive(field, r[field])
        BY <3>1, AskedFacts
      <3> QED
        BY <2>1, <2>3, <3>2, SoundArrival
    <2> QED
      BY <2>1, <2>2, <2>3
  <1>3. /\ DOMAIN rest = {"side", "qty", "price", "del_id", "order_id"}
        /\ \A field \in DOMAIN rest : Sound(field, rest[field])
    <2>1. DOMAIN rest = {"side", "qty", "price", "del_id", "order_id"}
      OBVIOUS
    <2>2. Sound("side", side)
      BY DEF Sound, Fills, Positive, Arrives, Plain
    <2>3. Sound("qty", 0) /\ Sound("price", 0) /\ Sound("del_id", 0)
      BY SoundZero DEF Plain
    <2>4. Sound("order_id", id)
      <3>1. "order_id" \notin Plain /\ id \in Int /\ Fits(id, Width["order_id"])
        BY NumberAssumption DEF Plain, NumbersFit, Width
      <3>2. Fills("order_id", id) /\ Positive("order_id", id)
        BY <3>1, NumberFills
      <3>3. Arrives("order_id", id) = id
        BY <3>1 DEF Arrives
      <3> QED
        BY <3>2, <3>3 DEF Sound
    <2> QED
      BY <2>1, <2>2, <2>3, <2>4
  <1>4. /\ {"type", "symbol"} \subseteq DOMAIN r /\ DOMAIN r \subseteq OrderFields \union {"order_type"}
        /\ r.type \in {"O", "U", "X"}
    BY DEF Asked, OrderFields
  <1>5. /\ {"type", "symbol"} \subseteq DOMAIN d /\ DOMAIN d \subseteq OrderFields
        /\ DOMAIN r \ {"order_type"} \subseteq DOMAIN d /\ "side" \notin DOMAIN r
        /\ "order_type" \in DOMAIN r => "side" \in DOMAIN d
    BY <1>4, ReadFields DEF OrderFields
  <1> HIDE DEF d, rest
  <1>6. /\ DOMAIN o = DOMAIN d \union DOMAIN rest
        /\ \A field \in DOMAIN d \union DOMAIN rest : o[field] = IF field \in DOMAIN d THEN d[field] ELSE rest[field]
    BY Zenon DEF Joined
  <1> HIDE DEF o
  <1>7. DOMAIN o = OrderFields
    BY <1>3, <1>5, <1>6 DEF OrderFields
  <1>8. \A field \in OrderFields : Sound(field, o[field])
    BY <1>2, <1>3, <1>6, <1>7
  <1>9. Understood(r, o)
    BY <1>2, <1>5, <1>6 DEF Understood
  <1>10. o.type \in {"O", "U", "X"}
    <2>1. o.type = Arrives("type", r.type)
      BY <1>4, <1>9 DEF Understood
    <2>2. Arrives("type", r.type) = r.type
      BY DEF Arrives, Plain
    <2> QED
      BY <1>4, <2>1, <2>2
  <1>11. OrderSound(o)
    BY <1>7, <1>8, <1>10 DEF OrderSound
  <1> QED
    BY <1>1, <1>9, <1>11 DEF o, rest

-----------------------------------------------------------------------------
(* What is said of an order *)

\* What remains of a quantity fits where the quantity does.
LEMMA SoundSmaller ==
  ASSUME NEW n \in Nat, Sound("qty", n), NEW m \in Nat, m > 0, m <= n
  PROVE  Sound("qty", m) /\ Sound("remaining", m)
  <1>1. /\ "qty" \notin Plain /\ "remaining" \notin Plain
        /\ Width["qty"] = QTY_BYTES /\ Width["remaining"] = QTY_BYTES
    BY DEF Plain, Width
  <1>2. QTY_BYTES \in Nat /\ INT_BYTES - 1 \in Nat /\ BASE \div 2 \in Nat
    BY FieldAssumption, WidthAssumption
  <1>3. /\ Quotients(n)[QTY_BYTES] = 0
        /\ QTY_BYTES = INT_BYTES => Quotients(n)[INT_BYTES - 1] < BASE \div 2
    <2>1. Short(n, QTY_BYTES) /\ Positive("qty", n) /\ n > 0
      BY <1>1 DEF Sound, Fills
    <2> QED
      BY <1>1, <2>1 DEF Short, Positive
  <1>4. /\ Quotients(m)[QTY_BYTES] <= Quotients(n)[QTY_BYTES]
        /\ Quotients(m)[INT_BYTES - 1] <= Quotients(n)[INT_BYTES - 1]
        /\ Quotients(m)[QTY_BYTES] \in Nat /\ Quotients(m)[INT_BYTES - 1] \in Nat
        /\ Quotients(n)[INT_BYTES - 1] \in Nat
    BY <1>2, SmallerLeft, QuotientsNat
  <1>5. Short(m, QTY_BYTES) /\ (QTY_BYTES = INT_BYTES => Quotients(m)[INT_BYTES - 1] < BASE \div 2)
    <2>1. Quotients(m)[QTY_BYTES] = 0
      BY <1>3, <1>4
    <2>2. QTY_BYTES = INT_BYTES => Quotients(m)[INT_BYTES - 1] < BASE \div 2
      BY <1>2, <1>3, <1>4
    <2> QED
      BY <2>1, <2>2 DEF Short
  <1>6. ASSUME NEW field \in {"qty", "remaining"}
        PROVE  Sound(field, m)
    <2>1. field \notin Plain /\ Width[field] = QTY_BYTES /\ ~(m <= 0)
      BY <1>1
    <2>2. Fills(field, m)
      BY <1>5, <2>1 DEF Fills, Plain
    <2>3. Positive(field, m)
      BY <1>5, <2>1 DEF Positive
    <2> QED
      BY <2>1, <2>2, <2>3 DEF Sound, Arrives
  <1> QED
    BY <1>6

LEMMA SoundIsNumber ==
  ASSUME NEW field, field \notin Plain, NEW value, Sound(field, value)
  PROVE  value \in Nat
  BY DEF Sound, Fills, Short, Arrives

\* Fields put in front of an order leave its other fields.
LEMMA InFront ==
  ASSUME NEW o, NEW f, NEW field, field \in DOMAIN f \union DOMAIN o
  PROVE  Joined(f, o)[field] = IF field \in DOMAIN f THEN f[field] ELSE o[field]
  BY DEF Joined

\* Every message that writeToClient sends of an order.
Said(o) ==
  {[type |-> "J", code |-> code] : code \in ErrorCode}
  \union {Joined([type |-> t], o) : t \in {"K", "F"}}
  \union {Joined([type |-> "A", request_type |-> o.type], o)}
  \union {Joined([type |-> "P", qty |-> q, remaining |-> o.qty - q], o) : q \in Qty \intersect 1 .. o.qty - 1}

LEMMA SaidHeard ==
  ASSUME NumbersFit, OneLetterSides, NEW o, OrderSound(o), NEW m \in Said(o)
  PROVE  HeardBack(m) /\ m.type \in DOMAIN ENCODE
  <1>0. /\ DOMAIN o = OrderFields /\ o.type \in {"O", "U", "X"}
        /\ \A field \in OrderFields : Sound(field, o[field])
    BY DEF OrderSound
  <1>1. CASE m \in {[type |-> "J", code |-> code] : code \in ErrorCode}
    <2>1. PICK code \in ErrorCode : m = [type |-> "J", code |-> code]
      BY <1>1
    <2>2. m.type = "J" /\ m.code = code
      BY <2>1
    <2>3. Sound("code", code)
      <3>1. code \in Int /\ code > 0 /\ Fits(code, Width["code"]) /\ "code" \notin Plain
        BY NumberAssumption DEF NumbersFit, Width, Plain
      <3>2. Fills("code", code) /\ Positive("code", code)
        BY <3>1, NumberFills
      <3> QED
        BY <3>1, <3>2 DEF Sound, Arrives
    <2>4. ToSet(ENCODE["J"]) = {"type", "code"}
      BY DEF ToSet, ENCODE
    <2>5. Sound("type", "J")
      BY TypeSound DEF Type
    <2>6. m.type \in DOMAIN ENCODE
      BY <2>2, BodyLayouts
    <2>7. \A field \in ToSet(ENCODE[m.type]) : Sound(field, m[field])
      BY <2>2, <2>3, <2>4, <2>5
    <2> QED
      BY <2>6, <2>7, AnswerHeard
  <1>2. CASE m \in {Joined([type |-> t], o) : t \in {"K", "F"}}
    <2>1. PICK t \in {"K", "F"} : m = Joined([type |-> t], o)
      BY <1>2
    <2>2. \A field \in OrderFields : m[field] = IF field = "type" THEN t ELSE o[field]
      <3>1. DOMAIN [type |-> t] = {"type"} /\ [type |-> t]["type"] = t
        OBVIOUS
      <3> QED
        BY <1>0, <2>1, <3>1, InFront
    <2>3. m.type = t /\ t \in DOMAIN ENCODE
      BY <2>2, BodyLayouts DEF OrderFields
    <2>4. ToSet(ENCODE[t]) \subseteq OrderFields
      BY DEF ToSet, ENCODE, ENCODE_KILL_CONFIRM, ENCODE_FULL_FILL, OrderFields
    <2>5. Sound("type", t)
      BY TypeSound DEF Type
    <2>6. \A field \in ToSet(ENCODE[m.type]) : Sound(field, m[field])
      BY <1>0, <2>2, <2>3, <2>4, <2>5
    <2> QED
      BY <2>3, <2>6, AnswerHeard
  <1>3. CASE m = Joined([type |-> "A", request_type |-> o.type], o)
    <2> DEFINE f == [type |-> "A", request_type |-> o.type]
    <2>1. DOMAIN f = {"type", "request_type"} /\ f["type"] = "A" /\ f["request_type"] = o.type
      OBVIOUS
    <2> HIDE DEF f
    <2>2. m = Joined(f, o)
      BY <1>3 DEF f
    <2>3. /\ \A field \in OrderFields : field # "type" => m[field] = o[field]
          /\ m["type"] = "A" /\ m["request_type"] = o.type
      <3>1. "request_type" \notin OrderFields
        BY DEF OrderFields
      <3> QED
        BY <1>0, <2>1, <2>2, <3>1, InFront
    <2>4. m.type = "A" /\ "A" \in DOMAIN ENCODE
      BY <2>3, BodyLayouts
    <2>5. ToSet(ENCODE["A"]) \subseteq OrderFields \union {"request_type"}
      BY DEF ToSet, ENCODE, ENCODE_ACK, OrderFields
    <2>6. Sound("type", "A") /\ Sound("request_type", o.type)
      BY <1>0, TypeSound DEF Type
    <2>7. \A field \in ToSet(ENCODE[m.type]) : Sound(field, m[field])
      BY <1>0, <2>3, <2>4, <2>5, <2>6
    <2> QED
      BY <2>4, <2>7, AnswerHeard
  <1>4. CASE m \in {Joined([type |-> "P", qty |-> q, remaining |-> o.qty - q], o) :
                      q \in Qty \intersect 1 .. o.qty - 1}
    <2>1. PICK q \in Qty \intersect 1 .. o.qty - 1 :
            m = Joined([type |-> "P", qty |-> q, remaining |-> o.qty - q], o)
      BY <1>4
    <2> DEFINE f == [type |-> "P", qty |-> q, remaining |-> o.qty - q]
    <2>2. /\ DOMAIN f = {"type", "qty", "remaining"} /\ f["type"] = "P"
          /\ f["qty"] = q /\ f["remaining"] = o.qty - q
      OBVIOUS
    <2> HIDE DEF f
    <2>3. m = Joined(f, o)
      BY <2>1 DEF f
    <2>4. /\ \A field \in OrderFields \ {"type", "qty"} : m[field] = o[field]
          /\ m["type"] = "P" /\ m["qty"] = q /\ m["remaining"] = o.qty - q
      <3>1. "remaining" \notin OrderFields
        BY DEF OrderFields
      <3> QED
        BY <1>0, <2>2, <2>3, <3>1, InFront
    <2>5. m.type = "P" /\ "P" \in DOMAIN ENCODE
      BY <2>4, BodyLayouts
    <2>6. ToSet(ENCODE["P"]) \subseteq OrderFields \union {"remaining"}
      BY DEF ToSet, ENCODE, ENCODE_PARTIAL_FILL, OrderFields
    <2>7. Sound("type", "P")
      BY TypeSound DEF Type
    <2>8. Sound("qty", q) /\ Sound("remaining", o.qty - q)
      <3>1. Sound("qty", o.qty)
        BY <1>0 DEF OrderFields
      <3>2. o.qty \in Nat
        BY <3>1, SoundIsNumber DEF Plain
      <3>3. /\ q \in Nat /\ q > 0 /\ q <= o.qty
            /\ o.qty - q \in Nat /\ o.qty - q > 0 /\ o.qty - q <= o.qty
        BY <3>2
      <3> QED
        BY <3>1, <3>2, <3>3, SoundSmaller
    <2>9. \A field \in ToSet(ENCODE[m.type]) : Sound(field, m[field])
      BY <1>0, <2>4, <2>5, <2>6, <2>7, <2>8
    <2> QED
      BY <2>5, <2>9, AnswerHeard
  <1> QED
    BY <1>1, <1>2, <1>3, <1>4 DEF Said

-----------------------------------------------------------------------------
(* Snapshots *)

\* What a place of a snapshot holds.
Shown(x) ==
  /\ x = Restrict(x, ToSet(order_to_bytes))
  /\ \A field \in ToSet(order_to_bytes) : Sound(field, x[field])

ShownFields == {"order_id", "price", "qty"}

LEMMA ShownFacts ==
  /\ ToSet(order_to_bytes) = ShownFields
  /\ \A o : OrderSound(o) => Shown(Restrict(o, ToSet(order_to_bytes)))
  /\ Shown(NoOrder)
  <1>1. ToSet(order_to_bytes) = ShownFields
    BY DEF ToSet, order_to_bytes, ShownFields
  <1>2. ASSUME NEW o, OrderSound(o)
        PROVE  Shown(Restrict(o, ToSet(order_to_bytes)))
    <2> DEFINE x == Restrict(o, ShownFields)
    <2>1. \A field \in ShownFields : Sound(field, o[field])
      BY <1>2 DEF OrderSound, OrderFields, ShownFields
    <2>2. x = [field \in ShownFields |-> o[field]]
      BY DEF Restrict
    <2>3. \A field \in ShownFields : x[field] = o[field]
      BY <2>2
    <2> HIDE DEF x
    <2>4. x = Restrict(x, ShownFields)
      BY <2>2, <2>3 DEF Restrict
    <2>5. Shown(x)
      BY <1>1, <2>1, <2>3, <2>4 DEF Shown
    <2> QED
      BY <1>1, <2>5 DEF x
  <1>3. Shown(NoOrder)
    <2>1. NoOrder = [field \in ShownFields |-> 0]
      BY DEF NoOrder, ShownFields
    <2>2. \A field \in ShownFields : NoOrder[field] = 0
      BY <2>1
    <2>3. NoOrder = Restrict(NoOrder, ShownFields)
      BY <2>1, <2>2 DEF Restrict
    <2>4. \A field \in ShownFields : Sound(field, 0)
      BY SoundZero DEF ShownFields, Plain
    <2> QED
      BY <1>1, <2>2, <2>3, <2>4 DEF Shown
  <1> QED
    BY <1>1, <1>2, <1>3

\* The bytes of one order, and what the subscriber reads from them.
LEMMA OrderShown ==
  ASSUME NEW x, Shown(x)
  PROVE  /\ Encoded(order_to_bytes, x) \in Seq(Cell)
         /\ Len(Encoded(order_to_bytes, x)) = ID_BYTES + PRICE_BYTES + QTY_BYTES
         /\ Decoded(<<"order_id", "price", "qty">>, Encoded(order_to_bytes, x), "subscriber") = x
  <1> DEFINE l == order_to_bytes
             s == Encoded(l, x)
  <1>1. Layout(l, 3)
    BY SnapshotLayouts
  <1>2. l = <<"order_id", "price", "qty">>
    BY DEF order_to_bytes
  <1>3. \A field \in ToSet(l) : Fills(field, x[field]) /\ Arrives(field, x[field]) = x[field]
    BY DEF Shown, Sound
  <1>4. x = [field \in ToSet(l) |-> x[field]]
    BY DEF Shown, Restrict
  <1> HIDE DEF l
  <1>5. Filled(l, 3, x)
    BY <1>1, <1>3, ToSetFacts DEF Filled
  <1>6. s \in Seq(Cell) /\ Len(s) = Offsets(l)[3] /\ LaidOut(s, l, 3, x)
    BY <1>1, <1>5, EncodedFacts
  <1>7. Offsets(l)[3] = ID_BYTES + PRICE_BYTES + QTY_BYTES
    <2>1. ID_BYTES \in Nat /\ PRICE_BYTES \in Nat /\ QTY_BYTES \in Nat
      BY FieldAssumption
    <2> DEFINE at == Offsets(l)
    <2>2. at[0] = 0 /\ \A k \in 1 .. 3 : at[k] = at[k - 1] + Width[l[k]]
      BY <1>1, OffsetsFacts
    <2>3. Width[l[1]] = ID_BYTES /\ Width[l[2]] = PRICE_BYTES /\ Width[l[3]] = QTY_BYTES
      BY <1>2 DEF Width
    <2> HIDE DEF at
    <2>4. at[3] = ID_BYTES + PRICE_BYTES + QTY_BYTES
      BY <2>1, <2>2, <2>3
    <2> QED
      BY <2>4 DEF at
  <1>8. Decoded(l, s, "subscriber") = [field \in ToSet(l) |-> Arrives(field, x[field])]
    BY <1>1, <1>5, <1>6, DecodedBack
  <1>9. Decoded(l, s, "subscriber") = x
    BY <1>3, <1>4, <1>8
  <1>10. Decoded(<<"order_id", "price", "qty">>, s, "subscriber") = x
    BY <1>2, <1>9
  <1> QED
    BY <1>6, <1>7, <1>10 DEF l

LEMMA Multiples ==
  ASSUME NEW k \in Nat, NEW size \in Nat
  PROVE  k * size \in Nat /\ (k + 1) * size = k * size + size /\ 0 * size = 0
  OBVIOUS

\* As many pieces of one size.
LEMMA EvenPieces ==
  ASSUME NEW n \in Nat, n > 0, NEW size \in Nat \ {0}, NEW pieces \in [1 .. n -> Seq(Cell)],
         \A k \in 1 .. n : Len(pieces[k]) = size
  PROVE  /\ FlattenSeq(pieces) \in Seq(Cell)
         /\ \A k \in 1 .. n : /\ (k - 1) * size + 1 \in 1 .. Len(FlattenSeq(pieces))
                              /\ k * size \in 1 .. Len(FlattenSeq(pieces))
                              /\ SubSeq(FlattenSeq(pieces), (k - 1) * size + 1, k * size) = pieces[k]
  <1> DEFINE at == [k \in 0 .. n |-> k * size]
  <1>1. \A k \in 0 .. n : at[k] = k * size
    OBVIOUS
  <1> HIDE DEF at
  <1>2. \A k \in 1 .. n : k \in 0 .. n /\ k - 1 \in 0 .. n /\ k - 1 \in Nat /\ (k - 1) + 1 = k
    OBVIOUS
  <1>3. Ends(at, pieces, n)
    <2>1. at[0] = 0
      <3>1. 0 \in 0 .. n /\ 0 * size = 0
        BY Multiples
      <3> QED
        BY <1>1, <3>1
    <2>2. ASSUME NEW k \in 1 .. n
          PROVE  at[k] = at[k - 1] + Len(pieces[k]) /\ Len(pieces[k]) \in Nat \ {0}
      <3>1. at[k] = k * size /\ at[k - 1] = (k - 1) * size
        BY <1>1, <1>2
      <3>2. ((k - 1) + 1) * size = (k - 1) * size + size
        BY <1>2, Multiples
      <3>3. k * size = (k - 1) * size + size
        BY <1>2, <3>2
      <3>4. Len(pieces[k]) = size
        OBVIOUS
      <3> QED
        BY ONLY <3>1, <3>3, <3>4, size \in Nat \ {0}
    <2> QED
      BY <2>1, <2>2 DEF Ends
  <1>4. FlattenSeq(pieces) \in Seq(Cell) /\ Holds(FlattenSeq(pieces), pieces, at, n)
    BY <1>3, Flattened
  <1>5. ASSUME NEW k \in 1 .. n
        PROVE  /\ (k - 1) * size + 1 \in 1 .. Len(FlattenSeq(pieces))
               /\ k * size \in 1 .. Len(FlattenSeq(pieces))
               /\ SubSeq(FlattenSeq(pieces), (k - 1) * size + 1, k * size) = pieces[k]
    <2>1. at[k] = k * size /\ at[k - 1] = (k - 1) * size
      BY <1>1, <1>2
    <2>2. /\ at[k - 1] + 1 \in 1 .. Len(FlattenSeq(pieces)) /\ at[k] \in 1 .. Len(FlattenSeq(pieces))
          /\ SubSeq(FlattenSeq(pieces), at[k - 1] + 1, at[k]) = pieces[k]
      BY <1>4, Zenon DEF Holds
    <2> QED
      BY <2>1, <2>2, Zenon
  <1> QED
    BY <1>4, <1>5

\* A snapshot of orders that fit.
SnapshotSound(s) ==
  /\ s = [type |-> "S", symbol |-> s.symbol, seq_len |-> s.seq_len, orders |-> s.orders]
  /\ Sound("symbol", s.symbol) /\ s.seq_len \in Id /\ s.seq_len > 0
  /\ s.orders = [k \in 1 .. 2 * SNAPSHOT_LEN |-> s.orders[k]]
  /\ \A k \in 1 .. 2 * SNAPSHOT_LEN : Shown(s.orders[k])

LEMMA SnapshotRead ==
  ASSUME NumbersFit, OneLetterSides, NEW s, SnapshotSound(s)
  PROVE  get_snapshot(SNAPSHOT_TO_BYTES(s)) = s
  <1> DEFINE N == 2 * SNAPSHOT_LEN
             l == <<"symbol", "seq_len">>
             first == Encoded(l, s)
             size == ID_BYTES + PRICE_BYTES + QTY_BYTES
             head == SYMBOL_BYTES + SEQ_BYTES
             pieces == [k \in 1 .. N |-> Encoded(order_to_bytes, s.orders[k])]
             rest == FlattenSeq(pieces)
             w == first \o rest
  <1>0. /\ N \in Nat /\ N > 0 /\ size \in Nat \ {0} /\ head \in Nat
        /\ SYMBOL_BYTES \in Nat /\ SEQ_BYTES \in Nat
    BY WidthAssumption, FieldAssumption
  <1>1. SNAPSHOT_TO_BYTES(s) = w
    BY Zenon DEF SNAPSHOT_TO_BYTES
  <1>2. \A k \in 1 .. N : Shown(s.orders[k])
    BY DEF SnapshotSound
  <1>3. \A k \in 1 .. N : /\ pieces[k] = Encoded(order_to_bytes, s.orders[k])
                          /\ pieces[k] \in Seq(Cell) /\ Len(pieces[k]) = size
                          /\ Decoded(<<"order_id", "price", "qty">>, pieces[k], "subscriber") = s.orders[k]
    <2> TAKE k \in 1 .. N
    <2>1. pieces[k] = Encoded(order_to_bytes, s.orders[k])
      OBVIOUS
    <2>2. Shown(s.orders[k])
      BY <1>2
    <2> HIDE DEF pieces
    <2> QED
      BY <2>1, <2>2, OrderShown
  <1>4. pieces \in [1 .. N -> Seq(Cell)]
    <2>1. \A k \in 1 .. N : Encoded(order_to_bytes, s.orders[k]) \in Seq(Cell)
      <3> HIDE DEF pieces
      <3> QED
        BY <1>3
    <2> QED
      BY <2>1
  <1> HIDE DEF N, pieces
  <1>5. /\ rest \in Seq(Cell)
        /\ \A k \in 1 .. N : /\ (k - 1) * size + 1 \in 1 .. Len(rest) /\ k * size \in 1 .. Len(rest)
                             /\ SubSeq(rest, (k - 1) * size + 1, k * size) = pieces[k]
    <2>1. N \in Nat /\ N > 0 /\ size \in Nat \ {0}
      BY <1>0
    <2>2. \A k \in 1 .. N : Len(pieces[k]) = size
      BY <1>3, Zenon
    <2> HIDE DEF size, rest
    <2>3. rest = FlattenSeq(pieces)
      BY Zenon DEF rest
    <2> QED
      BY ONLY <2>1, <2>2, <2>3, <1>4, EvenPieces, ZenonT(40)
  <1>6. Layout(l, 2) /\ l[1] = "symbol" /\ l[2] = "seq_len" /\ ToSet(l) = {"symbol", "seq_len"}
    BY SnapshotLayouts DEF ToSet
  <1>7. /\ Fills("symbol", s["symbol"]) /\ Arrives("symbol", s["symbol"]) = s["symbol"]
        /\ Fills("seq_len", s["seq_len"]) /\ Arrives("seq_len", s["seq_len"]) = s["seq_len"]
    <2>1. Sound("symbol", s.symbol) /\ s.seq_len \in Id /\ s.seq_len > 0
      BY DEF SnapshotSound
    <2>2. Fills("symbol", s["symbol"]) /\ Arrives("symbol", s["symbol"]) = s["symbol"]
      BY <2>1 DEF Sound
    <2>3. "seq_len" \notin Plain /\ s.seq_len \in Int /\ Fits(s.seq_len, Width["seq_len"])
      BY <2>1, NumberAssumption DEF NumbersFit, Width, Plain
    <2>4. Fills("seq_len", s["seq_len"])
      BY <2>3, NumberFills
    <2>5. Arrives("seq_len", s["seq_len"]) = s["seq_len"]
      BY <2>1, <2>3 DEF Arrives
    <2> QED
      BY <2>2, <2>4, <2>5
  <1>8. Width["symbol"] = SYMBOL_BYTES /\ Width["seq_len"] = SEQ_BYTES
    BY DEF Width
  <1> HIDE DEF l
  <1>9. Filled(l, 2, s)
    BY <1>6, <1>7 DEF Filled
  <1>10. /\ first \in Seq(Cell) /\ Len(first) = Offsets(l)[2]
         /\ \A k \in 1 .. 2 : Offsets(l)[k - 1] + 1 \in 1 .. Len(first) /\ Offsets(l)[k] \in 1 .. Len(first)
         /\ LaidOut(first, l, 2, s)
    BY <1>6, <1>9, EncodedFacts
  <1>11. Offsets(l)[2] = head
    <2> DEFINE at == Offsets(l)
    <2>1. at[0] = 0 /\ \A k \in 1 .. 2 : at[k] = at[k - 1] + Width[l[k]]
      BY <1>6, OffsetsFacts
    <2> HIDE DEF at
    <2>2. at[2] = SYMBOL_BYTES + SEQ_BYTES
      BY <1>0, <1>6, <1>8, <2>1
    <2> QED
      BY <2>2 DEF at
  <1> HIDE DEF first, rest
  <1>12. LaidOut(w, l, 2, s)
    <2> SUFFICES ASSUME NEW k \in 1 .. 2
                 PROVE  SubSeq(w, Offsets(l)[k - 1] + 1, Offsets(l)[k]) = FieldBytes(l[k], s[l[k]])
      BY DEF LaidOut
    <2>1. SubSeq(first, Offsets(l)[k - 1] + 1, Offsets(l)[k]) = FieldBytes(l[k], s[l[k]])
      BY <1>10 DEF LaidOut
    <2>2. Offsets(l)[k - 1] + 1 \in 1 .. Len(first) /\ Offsets(l)[k] \in 1 .. Len(first)
      BY <1>10
    <2>3. SubSeq(w, Offsets(l)[k - 1] + 1, Offsets(l)[k]) = SubSeq(first, Offsets(l)[k - 1] + 1, Offsets(l)[k])
      BY ONLY <1>5, <1>10, <2>2, SubSeqOfConcat1
    <2> QED
      BY <2>1, <2>3
  <1>13. Decoded(l, w, "subscriber") = [field \in ToSet(l) |-> Arrives(field, s[field])]
    BY <1>6, <1>9, <1>12, DecodedBack
  <1>14. /\ Decoded(l, w, "subscriber").symbol = s.symbol
         /\ Decoded(l, w, "subscriber").seq_len = s.seq_len
    BY <1>6, <1>7, <1>13
  <1>15. ASSUME NEW k \in 1 .. N
         PROVE  SubSeq(w, head + (k - 1) * size + 1, head + k * size) = pieces[k]
    <2> DEFINE a == (k - 1) * size + 1
               b == k * size
               i == head + (k - 1) * size + 1
               j == head + k * size
    <2>0. (k - 1) * size \in Nat /\ k * size \in Nat
      <3>1. k - 1 \in Nat /\ k \in Nat /\ size \in Nat
        BY <1>0
      <3> HIDE DEF size
      <3> QED
        BY <3>1, Multiples
    <2>1. a \in 1 .. Len(rest) /\ b \in 1 .. Len(rest) /\ SubSeq(rest, a, b) = pieces[k]
      BY <1>5
    <2>2. i = head + a /\ j = head + b
      <3> HIDE DEF size, head
      <3> QED
        BY <1>0, <2>0
    <2> HIDE DEF a, b, i, j
    <2>3. /\ Len(first) = head /\ Len(first) \in Nat /\ Len(rest) \in Nat
      BY <1>5, <1>10, <1>11
    <2>4. /\ i \in Len(first) + 1 .. Len(first) + Len(rest) /\ j \in Len(first) + 1 .. Len(first) + Len(rest)
          /\ i - Len(first) = a /\ j - Len(first) = b
      <3> HIDE DEF head
      <3> QED
        BY <1>0, <2>1, <2>2, <2>3
    <2>5. SubSeq(first \o rest, i, j) = SubSeq(rest, i - Len(first), j - Len(first))
      BY ONLY <1>5, <1>10, <2>4, SubSeqOfConcat2, ZenonT(40)
    <2>6. SubSeq(w, i, j) = pieces[k]
      BY <2>1, <2>4, <2>5
    <2> QED
      BY <2>6 DEF i, j
  <1> HIDE DEF w, size, head
  <1>16. [k \in 1 .. N |-> Decoded(<<"order_id", "price", "qty">>,
                                   SubSeq(w, head + (k - 1) * size + 1, head + k * size), "subscriber")]
           = s.orders
    <2>1. \A k \in 1 .. N : Decoded(<<"order_id", "price", "qty">>,
                                    SubSeq(w, head + (k - 1) * size + 1, head + k * size), "subscriber")
                              = s.orders[k]
      BY <1>3, <1>15
    <2>2. s.orders = [k \in 1 .. N |-> s.orders[k]]
      BY Zenon DEF SnapshotSound, N
    <2> QED
      BY <2>1, <2>2, Zenon
  <1>17. get_snapshot(w) =
           [type |-> "S", symbol |-> Decoded(l, w, "subscriber").symbol,
            seq_len |-> Decoded(l, w, "subscriber").seq_len,
            orders |-> [k \in 1 .. N |-> Decoded(<<"order_id", "price", "qty">>,
                                           SubSeq(w, head + (k - 1) * size + 1, head + k * size), "subscriber")]]
    BY Zenon DEF get_snapshot, l, N, head, size
  <1>18. s = [type |-> "S", symbol |-> s.symbol, seq_len |-> s.seq_len, orders |-> s.orders]
    BY Zenon DEF SnapshotSound
  <1>19. get_snapshot(w) = s
    BY <1>14, <1>16, <1>17, <1>18, Zenon
  <1> QED
    BY <1>1, <1>19

-----------------------------------------------------------------------------
(* The invariant of the wire format *)

\* One request is on its way at most, as its frame until the server has decoded
\* it; the order that the server holds has what arrived of it, and only numbers
\* that fit their fields; and the message last sent is read back as it is meant.
CodecInv ==
  /\ request = {} => order = {}
  /\ \A r \in request : r \in Asked /\ (order = {} => wire = Frame(r))
  /\ \A r \in request, o \in order : Understood(r, o)
  /\ \A o \in order : OrderSound(o)
  /\ AnswersSurvive
  /\ SnapshotsSurvive

LEMMA CodecInitial == CodecInit => CodecInv
  BY DEF CodecInit, CodecInv, AnswersSurvive, SnapshotsSurvive

LEMMA NotAnswers ==
  /\ "S" \notin DOMAIN ENCODE
  /\ \A r \in Asked : r.type \in {"O", "U", "X"} /\ r.type \notin DOMAIN ENCODE /\ r.type # "S"
  <1>1. DOMAIN ENCODE = {"A", "F", "P", "K", "J"}
    BY BodyLayouts
  <1>2. \A r \in Asked : r.type \in {"O", "U", "X"}
    BY DEF Asked
  <1> QED
    BY <1>1, <1>2

LEMMA RequestKeeps == CodecInv /\ ProcessOrdersFromJSON => CodecInv'
  <1> SUFFICES ASSUME CodecInv, ProcessOrdersFromJSON
               PROVE  CodecInv'
    OBVIOUS
  <1>1. PICK r \in Asked : /\ request' = {r} /\ meant' = {r} /\ order' = {}
                           /\ wire' = Frame(r)
    BY Zenon DEF ProcessOrdersFromJSON, Frame
  <1>2. r.type \notin DOMAIN ENCODE /\ r.type # "S"
    BY NotAnswers
  <1>3. AnswersSurvive' /\ SnapshotsSurvive'
    BY <1>1, <1>2 DEF AnswersSurvive, SnapshotsSurvive
  <1> QED
    BY <1>1, <1>3 DEF CodecInv

LEMMA DecodeKeeps == ASSUME NumbersFit, OneLetterSides PROVE CodecInv /\ Decode => CodecInv'
  <1> SUFFICES ASSUME CodecInv, Decode
               PROVE  CodecInv'
    OBVIOUS
  <1>1. PICK side \in Side, id \in Id :
          /\ id > 0
          /\ order' = {Joined(Decoded(DECODE[wire[1]], wire, "server"),
                              [side |-> side, qty |-> 0, price |-> 0, del_id |-> 0, order_id |-> id])}
    BY DEF Decode
  <1>2. order = {} /\ request' = request /\ meant' = meant /\ wire' = wire /\ request # {}
    BY DEF Decode
  <1> DEFINE o == Joined(Decoded(DECODE[wire[1]], wire, "server"),
                         [side |-> side, qty |-> 0, price |-> 0, del_id |-> 0, order_id |-> id])
  <1>3. order' = {o}
    BY <1>1
  <1>4. ASSUME NEW r \in request
        PROVE  r \in Asked /\ OrderSound(o) /\ Understood(r, o)
    <2>1. r \in Asked /\ wire = Frame(r)
      BY <1>2 DEF CodecInv
    <2>2. wire[1] = r.type
      BY <2>1, FrameRead
    <2>3. o = Joined(Decoded(DECODE[r.type], Frame(r), "server"),
                     [side |-> side, qty |-> 0, price |-> 0, del_id |-> 0, order_id |-> id])
      BY <2>1, <2>2
    <2> QED
      BY <1>1, <2>1, <2>3, OrderDecoded
  <1> HIDE DEF o
  <1>5. AnswersSurvive' /\ SnapshotsSurvive'
    BY <1>2 DEF CodecInv, AnswersSurvive, SnapshotsSurvive
  <1> QED
    BY <1>2, <1>3, <1>4, <1>5 DEF CodecInv

\* A message said of the order is heard back.
LEMMA AnswerKeeps ==
  ASSUME NumbersFit, OneLetterSides, CodecInv, NEW o \in order, NEW m \in Said(o), Answer(m)
  PROVE  CodecInv'
  <1> DEFINE n == Restrict(m, ToSet(ENCODE[m.type]))
  <1>1. OrderSound(o)
    BY DEF CodecInv
  <1>2. HeardBack(m) /\ m.type \in DOMAIN ENCODE
    BY <1>1, SaidHeard
  <1>3. /\ meant' = {n} /\ wire' = Encoded(ENCODE[m.type], m)
        /\ request' = request /\ order' = order
    BY DEF Answer
  <1>4. n.type = m.type
    <2>1. \A type \in {"A", "F", "P", "K", "J"} : "type" \in ToSet(ENCODE[type])
      BY DEF ToSet, ENCODE, ENCODE_ACK, ENCODE_FULL_FILL, ENCODE_PARTIAL_FILL, ENCODE_KILL_CONFIRM
    <2>2. "type" \in ToSet(ENCODE[m.type])
      BY <1>2, <2>1, BodyLayouts
    <2> QED
      BY <2>2, Zenon DEF Restrict
  <1>5. Len(wire') = 1 + RESPONSE_BODY_LENGTH[n.type] /\ Heard(wire') = n
    BY <1>2, <1>3, <1>4 DEF HeardBack
  <1> HIDE DEF n
  <1>6. AnswersSurvive'
    BY <1>3, <1>5 DEF AnswersSurvive
  <1>7. SnapshotsSurvive'
    <2>1. n.type # "S"
      BY <1>2, <1>4, NotAnswers
    <2> QED
      BY <1>3, <2>1 DEF SnapshotsSurvive
  <1>8. /\ (request = {} => order = {})'
        /\ (\A r \in request : r \in Asked /\ (order = {} => wire = Frame(r)))'
        /\ (\A r \in request, x \in order : Understood(r, x))'
        /\ (\A x \in order : OrderSound(x))'
    BY <1>3 DEF CodecInv
  <1> QED
    BY <1>6, <1>7, <1>8 DEF CodecInv

LEMMA AnswersKeep == ASSUME NumbersFit, OneLetterSides PROVE CodecInv /\ writeToClient => CodecInv'
  <1> SUFFICES ASSUME CodecInv, writeToClient
               PROVE  CodecInv'
    OBVIOUS
  <1>1. PICK o \in order :
          \/ \E code \in ErrorCode : Answer([type |-> "J", code |-> code])
          \/ Answer(Joined([type |-> "A", request_type |-> o.type], o))
          \/ Answer(Joined([type |-> "K"], o))
          \/ Answer(Joined([type |-> "F"], o))
          \/ \E q \in Qty \intersect 1 .. o.qty - 1 :
               Answer(Joined([type |-> "P", qty |-> q, remaining |-> o.qty - q], o))
    BY Zenon DEF writeToClient
  <1>2. \E m \in Said(o) : Answer(m)
    BY <1>1, Zenon DEF Said
  <1> QED
    BY <1>2, AnswerKeeps

LEMMA SnapshotKeeps == ASSUME NumbersFit, OneLetterSides PROVE CodecInv /\ SEND_BROADCAST => CodecInv'
  <1> SUFFICES ASSUME CodecInv, SEND_BROADCAST
               PROVE  CodecInv'
    OBVIOUS
  <1> DEFINE N == 2 * SNAPSHOT_LEN
             place(o, p) == IF o.side = "BUY" THEN p ELSE SNAPSHOT_LEN + p
             places(o, at) ==
               [k \in 1 .. N |-> IF k = at THEN Restrict(o, ToSet(order_to_bytes)) ELSE NoOrder]
             shown(o, at, seq_len) ==
               [type |-> "S", symbol |-> o.symbol, seq_len |-> seq_len, orders |-> places(o, at)]
  <1>1. PICK o \in order, p \in 1 .. SNAPSHOT_LEN, seq_len \in Id :
          /\ seq_len > 0
          /\ meant' = {shown(o, place(o, p), seq_len)}
          /\ wire' = SNAPSHOT_TO_BYTES(shown(o, place(o, p), seq_len))
          /\ request' = request /\ order' = order
    BY Zenon DEF SEND_BROADCAST
  <1> DEFINE at == place(o, p)
             s == shown(o, at, seq_len)
  <1>2. OrderSound(o)
    BY DEF CodecInv
  <1>3. SnapshotSound(s)
    <2> HIDE DEF at
    <2>1. /\ s.type = "S" /\ s.symbol = o.symbol /\ s.seq_len = seq_len /\ s.orders = places(o, at)
          /\ s = [type |-> "S", symbol |-> s.symbol, seq_len |-> s.seq_len, orders |-> s.orders]
      <3> HIDE DEF places
      <3> QED
        OBVIOUS
    <2> HIDE DEF s
    <2>2. Sound("symbol", s.symbol)
      BY <1>2, <2>1 DEF OrderSound, OrderFields
    <2>3. ASSUME NEW k \in 1 .. N
          PROVE  Shown(places(o, at)[k])
      <3> HIDE DEF N
      <3>1. places(o, at)[k] = IF k = at THEN Restrict(o, ToSet(order_to_bytes)) ELSE NoOrder
        OBVIOUS
      <3>2. Shown(Restrict(o, ToSet(order_to_bytes))) /\ Shown(NoOrder)
        BY <1>2, ShownFacts
      <3> QED
        BY <3>1, <3>2
    <2>4. places(o, at) = [k \in 1 .. N |-> places(o, at)[k]]
      <3> HIDE DEF N
      <3> QED
        BY Zenon
    <2> HIDE DEF places
    <2> QED
      BY <1>1, <2>1, <2>2, <2>3, <2>4 DEF SnapshotSound
  <1>4. s.type = "S"
    <2> HIDE DEF at, places
    <2> QED
      OBVIOUS
  <1>5. meant' = {s} /\ wire' = SNAPSHOT_TO_BYTES(s) /\ request' = request /\ order' = order
    BY <1>1
  <1> HIDE DEF at, s
  <1>6. AnswersSurvive'
    BY <1>4, <1>5, NotAnswers DEF AnswersSurvive
  <1>7. SnapshotsSurvive'
    BY <1>3, <1>5, SnapshotRead DEF SnapshotsSurvive
  <1>8. order # {}
    BY <1>1
  <1>9. /\ (request = {} => order = {})'
        /\ (\A r \in request : r \in Asked /\ (order = {} => wire = Frame(r)))'
        /\ (\A r \in request, x \in order : Understood(r, x))'
        /\ (\A x \in order : OrderSound(x))'
    BY <1>5, <1>8 DEF CodecInv
  <1> QED
    BY <1>6, <1>7, <1>9 DEF CodecInv

\* The wire format keeps its invariant, while numbers fit their fields and
\* order_types are one letter.
THEOREM WireInvariant == ASSUME NumbersFit, OneLetterSides PROVE CodecSpec => []CodecInv
  <1>1. ASSUME CodecInv, [CodecNext]_codecVars
        PROVE  CodecInv'
    <2>1. CASE ProcessOrdersFromJSON
      BY <1>1, <2>1, RequestKeeps
    <2>2. CASE Decode
      BY <1>1, <2>2, DecodeKeeps
    <2>3. CASE writeToClient
      BY <1>1, <2>3, AnswersKeep
    <2>4. CASE SEND_BROADCAST
      BY <1>1, <2>4, SnapshotKeeps
    <2>5. CASE UNCHANGED codecVars
      BY <1>1, <2>5 DEF CodecInv, AnswersSurvive, SnapshotsSurvive, codecVars
    <2> QED
      BY <1>1, <2>1, <2>2, <2>3, <2>4, <2>5 DEF CodecNext
  <1> QED
    BY <1>1, CodecInitial, PTL DEF CodecSpec

LEMMA InvRequests == ASSUME NumbersFit, OneLetterSides PROVE CodecInv => RequestsSurvive
  <1> SUFFICES ASSUME CodecInv, NEW r \in request, NEW o \in order
               PROVE  /\ Len(pad_message(Encoded(SendLayout[r.type], r))) = REQUEST_BYTES
                      /\ \A field \in DOMAIN r \ {"order_type"} :
                           o[field] = IF field \in {"qty", "price", "del_id"} /\ r[field] <= 0
                                      THEN 0 ELSE r[field]
                      /\ "order_type" \in DOMAIN r =>
                           o.side = IF r.order_type = <<LetterB>> THEN "BUY" ELSE "SELL"
    BY DEF RequestsSurvive
  <1>1. r \in Asked /\ Understood(r, o)
    BY DEF CodecInv
  <1>2. Len(pad_message(Encoded(SendLayout[r.type], r))) = REQUEST_BYTES
    BY <1>1, FrameRead DEF Frame
  <1>3. DOMAIN r \subseteq {"type", "order_type", "symbol", "qty", "price", "del_id"}
    BY <1>1 DEF Asked
  <1>4. ASSUME NEW field \in DOMAIN r \ {"order_type"}
        PROVE  o[field] = IF field \in {"qty", "price", "del_id"} /\ r[field] <= 0
                          THEN 0 ELSE r[field]
    <2>1. o[field] = Arrives(field, r[field])
      BY <1>1 DEF Understood
    <2>2. field \notin Plain <=> field \in {"qty", "price", "del_id"}
      BY <1>3 DEF Plain
    <2> QED
      BY <2>1, <2>2, Zenon DEF Arrives
  <1>5. ASSUME "order_type" \in DOMAIN r
        PROVE  o.side = IF r.order_type = <<LetterB>> THEN "BUY" ELSE "SELL"
    <2>1. r.order_type \in Seq(0 .. BASE - 1) /\ Len(r.order_type) = 1
      <3>1. r.order_type \in OrderType
        BY <1>1, <1>5 DEF Asked
      <3> QED
        BY <3>1, OrderTypeAssumption DEF OneLetterSides
    <2>2. r.order_type = <<LetterB>> <=> r.order_type[1] = LetterB
      BY <2>1
    <2>3. o.side = SideOf(r.order_type[1])
      BY <1>1, <1>5 DEF Understood
    <2> QED
      BY <2>2, <2>3, Zenon DEF SideOf
  <1> QED
    BY <1>2, <1>4, <1>5

\* Whatever numbers, symbols, sides and widths there are, the server makes of
\* every frame what the client meant by it, and the frame fills the server's
\* buffer, if each number fits the field that is meant for it and each
\* order_type is one letter. The code does not see to either.
THEOREM RequestsDecoded == ASSUME NumbersFit, OneLetterSides PROVE CodecSpec => []RequestsSurvive
  BY WireInvariant, InvRequests, PTL

\* The client hears every report and error as the server means it, and takes
\* exactly its bytes from the stream, if the numbers of the requests fit their
\* fields and arrived there, behind an order_type of one letter.
THEOREM AnswersDecoded == ASSUME NumbersFit, OneLetterSides PROVE CodecSpec => []AnswersSurvive
  <1>1. CodecInv => AnswersSurvive
    BY DEF CodecInv
  <1> QED
    BY <1>1, WireInvariant, PTL

\* A subscriber reads every snapshot as the server means it, order by order,
\* under the same conditions.
THEOREM SnapshotsDecoded == ASSUME NumbersFit, OneLetterSides PROVE CodecSpec => []SnapshotsSurvive
  <1>1. CodecInv => SnapshotsSurvive
    BY DEF CodecInv
  <1> QED
    BY <1>1, WireInvariant, PTL

=============================================================================

------------------------------- MODULE Session -------------------------------
(***************************************************************************)
(* One client's connection: MatchingSession of server_classes.hpp and .cpp   *)
(* with its read handler, the market thread that answers on the same socket, *)
(* and the client's own listener. TCP keeps the order of bytes and nothing   *)
(* else: a read returns any first part of what has come, and a write goes    *)
(* out in pieces. A byte is a cell <<x, k>>: the k-th of request or message  *)
(* x. Bytes that are not a whole request or message decode to anything.      *)
(***************************************************************************)
EXTENDS Integers, Sequences, SequencesExt

CONSTANTS
  Request,       \* what may be asked for
  FRAME,         \* bytes of a request, the size of the server's buffer
  Refusal,       \* codes of the market thread's errors, 101 and 104
  MaxRequests,   \* bound: requests the client sends
  MaxCuts        \* bound: reads that return less than a frame

\* O: send, U: modify, X: kill, Z: any other letter. price and qty tell
\* whether those numbers are positive.
ASSUME RequestAssumption ==
  Request \subseteq [letter : {"O", "U", "X", "Z"}, price : BOOLEAN, qty : BOOLEAN]

ASSUME BoundAssumption == FRAME \in Nat \ {0} /\ MaxRequests \in Nat /\ MaxCuts \in Nat

ASSUME RefusalAssumption == Refusal \subseteq {101, 104}

VARIABLES
  asked,       \* the requests the client has sent
  upstream,    \* bytes of them that the server has not read
  open,        \* FALSE once the client has gone
  handler,     \* what the read handler does next: a read, or the rest of an answer
  decoded,     \* which requests the handler decoded, 0 for one nobody sent
  cuts,        \* reads that returned less than a frame
  queue,       \* requests submitted, that the market thread has not taken
  taken,       \* requests it has taken
  pending,     \* per writer, the bytes of its message that are still to go out
  downstream,  \* bytes the client has not read
  written,     \* messages by their first byte on the socket
  overlapped,  \* TRUE once a writer wrote within a message of the other
  body,        \* bytes the client's listener waits for, 0 for a type byte
  kind,        \* the message whose body it waits for, NoMessage if nobody's
  heard,       \* messages the client has decoded
  halted       \* TRUE once an exception has ended the server

serverVars == <<handler, decoded, cuts, queue, taken>>
socketVars == <<pending, downstream, written, overlapped>>
clientVars == <<body, kind, heard>>
vars == <<asked, upstream, open, serverVars, socketVars, clientVars, halted>>

\* A: ACK, J: error with a code, F: any report on an order. about: the request
\* it answers, which is not in the code's message.
NoMessage == [type |-> "", about |-> 0, code |-> 0]

\* Bytes after the type byte: only that they differ matters here (Codec).
BodyBytes == [A |-> 2, F |-> 1, J |-> 1]

Bytes(m) == [k \in 1 .. 1 + BodyBytes[m.type] |-> <<m, k>>]

Writer == {"handler", "market"}

Reading == [step |-> "read", request |-> 0, letter |-> "Z"]

Init ==
  /\ asked = <<>> /\ upstream = <<>> /\ open = TRUE
  /\ handler = Reading /\ decoded = <<>> /\ cuts = 0 /\ queue = <<>> /\ taken = <<>>
  /\ pending = [w \in Writer |-> <<>>] /\ downstream = <<>> /\ written = <<>>
  /\ overlapped = FALSE
  /\ body = 0 /\ kind = NoMessage /\ heard = <<>>
  /\ halted = FALSE

-----------------------------------------------------------------------------
(* The client *)

\* A request is written whole.
Send ==
  /\ open /\ Len(asked) < MaxRequests
  /\ \E r \in Request :
       /\ asked' = Append(asked, r)
       /\ upstream' = upstream \o [k \in 1 .. FRAME |-> <<Len(asked) + 1, k>>]
  /\ UNCHANGED <<open, serverVars, socketVars, clientVars, halted>>

\* The client ends at any time. What it has sent can still be read.
Leave ==
  /\ open
  /\ open' = FALSE
  /\ UNCHANGED <<asked, upstream, serverVars, socketVars, clientVars, halted>>

\* The type byte. Out of step with the stream it is any: a type the client
\* knows, or one it skips.
HearType ==
  /\ open /\ body = 0 /\ downstream # <<>>
  /\ LET m == Head(downstream)[1]
         inStep == Head(downstream)[2] = 1
     IN  \/ /\ inStep
            /\ body' = BodyBytes[m.type] /\ kind' = m
         \/ /\ ~inStep
            /\ body' \in {0} \union {BodyBytes[t] : t \in {"A", "F", "J"}}
            /\ kind' = NoMessage
  /\ downstream' = Tail(downstream)
  /\ UNCHANGED <<asked, upstream, open, serverVars, pending, written, overlapped, heard, halted>>

\* Mutant: async_read_some in place of async_read.
BodyRead_Some == 1 .. body

\* How many bytes the read of a body returns.
BodyRead == {body}

HearBody ==
  /\ open /\ body > 0
  /\ \E n \in BodyRead :
       /\ Len(downstream) >= n
       /\ LET whole == kind # NoMessage /\ SubSeq(downstream, 1, n) = Tail(Bytes(kind))
          IN  heard' = Append(heard, IF whole THEN kind ELSE NoMessage)
       /\ downstream' = SubSeq(downstream, n + 1, Len(downstream))
  /\ body' = 0 /\ kind' = NoMessage
  /\ UNCHANGED <<asked, upstream, open, serverVars, pending, written, overlapped, halted>>

-----------------------------------------------------------------------------
(* writeToClient: boost::asio::write sends a message in any pieces *)

Unfinished(w) == pending[w] # <<>> /\ pending[w][1][2] > 1

\* The next piece. Nothing keeps the other writer out: mtx is never taken.
Write(w) ==
  /\ ~halted /\ pending[w] # <<>>
  /\ \E n \in 1 .. Len(pending[w]) :
       /\ downstream' = IF open THEN downstream \o SubSeq(pending[w], 1, n) ELSE downstream
       /\ pending' = [pending EXCEPT ![w] = SubSeq(@, n + 1, Len(@))]
  /\ written' = IF Unfinished(w) THEN written ELSE Append(written, pending[w][1][1])
  /\ overlapped' = (overlapped \/ \E v \in Writer \ {w} : Unfinished(v))
  /\ UNCHANGED <<asked, upstream, open, serverVars, clientVars, halted>>

\* A write to a client that has gone throws, sooner or later. Nothing catches
\* it, neither in io_context.run() nor in a market thread: the process ends.
WriteThrows(w) ==
  /\ ~halted /\ pending[w] # <<>> /\ ~open
  /\ halted' = TRUE
  /\ UNCHANGED <<asked, upstream, open, serverVars, socketVars, clientVars>>

-----------------------------------------------------------------------------
(* readListener's handler *)

\* Mutant: the price of a MODIFY is not looked at.
simpleReject_SendOnly(r) ==
  IF ~r.price /\ r.letter = "O" THEN 103 ELSE IF ~r.qty THEN 102 ELSE 0

\* The code of the error, or 0: the price is looked at first.
simpleReject(r) == IF ~r.price THEN 103 ELSE IF ~r.qty THEN 102 ELSE 0

Verdict(r) ==
  CASE r.letter \in {"O", "U"} -> simpleReject(r)
    [] r.letter = "X" -> 0
    [] r.letter = "Z" -> 100

\* What n bytes that were read decode to: the request they are the frame of,
\* or, of other bytes, anything behind the letter that begins them.
Decodings(n) ==
  LET first == upstream[1]
  IN  IF n = FRAME /\ first[2] = 1
      THEN {<<first[1], asked[first[1]]>>}
      ELSE {0} \X {r \in Request : first[2] = 1 => r.letter = asked[first[1]].letter}

\* Mutant: the buffer has no room for the two letters in front.
BufferSize_Short == FRAME - 1

BufferSize == FRAME

\* Mutant: the handler does not read again after an error.
AfterAnswer_OnlyACK(code) == IF code = 0 THEN "submit" ELSE "gone"

\* After the ACK comes the submission, after an error the next read.
AfterAnswer(code) == IF code = 0 THEN "submit" ELSE "read"

\* async_read_some returns between one byte and a buffer; the handler decodes
\* them, and answers with an error or, under a new id, with an ACK.
readListener ==
  /\ ~halted /\ handler.step = "read" /\ pending["handler"] = <<>>
  /\ \E n \in 1 .. BufferSize :
       /\ n <= Len(upstream)
       /\ cuts' = cuts + (IF n < BufferSize THEN 1 ELSE 0)
       /\ cuts' <= MaxCuts
       /\ upstream' = SubSeq(upstream, n + 1, Len(upstream))
       /\ \E d \in Decodings(n) :
            LET code == Verdict(d[2])
                answer == [type |-> IF code = 0 THEN "A" ELSE "J",
                           about |-> d[1], code |-> code]
            IN  /\ decoded' = Append(decoded, d[1])
                /\ pending' = [pending EXCEPT !["handler"] = Bytes(answer)]
                /\ handler' = [step |-> AfterAnswer(code), request |-> d[1], letter |-> d[2].letter]
  /\ UNCHANGED <<asked, open, queue, taken, downstream, written, overlapped, clientVars, halted>>

submit_order ==
  /\ ~halted /\ handler.step = "submit" /\ pending["handler"] = <<>>
  /\ queue' = Append(queue, handler.request)
  /\ handler' = Reading
  /\ UNCHANGED <<asked, upstream, open, decoded, cuts, taken, socketVars, clientVars, halted>>

\* The read fails once the client has gone and its bytes are read. The handler
\* reads again, and so keeps the session that SessionRegistry holds weakly.
ReadError ==
  /\ ~halted /\ ~open /\ upstream = <<>>
  /\ handler.step = "read" /\ pending["handler"] = <<>>
  /\ UNCHANGED vars

-----------------------------------------------------------------------------
(* The market thread *)

\* SessionRegistry::lock: some handler still holds the session.
Resolves == handler.step # "gone"

\* A request is applied. The book may have nothing to say, an error, or a
\* report on any request it has taken.
process_one ==
  /\ ~halted /\ pending["market"] = <<>> /\ queue # <<>>
  /\ taken' = Append(taken, Head(queue)) /\ queue' = Tail(queue)
  /\ \E m \in {<<>>}
              \union {Bytes([type |-> "J", about |-> Head(queue), code |-> c]) : c \in Refusal}
              \union {Bytes([type |-> "F", about |-> n, code |-> 0]) : n \in ToSet(taken')} :
       pending' = [pending EXCEPT !["market"] = IF Resolves THEN m ELSE <<>>]
  /\ UNCHANGED <<asked, upstream, open, handler, decoded, cuts, downstream, written,
                 overlapped, clientVars, halted>>

Next ==
  \/ Send \/ Leave \/ HearType \/ HearBody
  \/ readListener \/ submit_order \/ ReadError \/ process_one
  \/ \E w \in Writer : Write(w) \/ WriteThrows(w)

\* The server's threads go on; a client that stays listens. Nobody has to send.
Fairness ==
  /\ WF_vars(readListener) /\ WF_vars(submit_order) /\ WF_vars(process_one)
  /\ \A w \in Writer : WF_vars(Write(w))
  /\ WF_vars(HearType) /\ WF_vars(HearBody)

Spec == Init /\ [][Next]_vars /\ Fairness

-----------------------------------------------------------------------------
(* Properties *)

\* As long as every read has returned a whole frame, the server decodes the
\* requests the client sent, each once and in order. One short read is enough
\* to break it: nothing in the stream lets the server find the next request.
DecodedAsSent == cuts = 0 => \A k \in 1 .. Len(decoded) : decoded[k] = k

\* The handler's answers that are out or on their way.
Answers(n) ==
  LET out == ToSet(written) \union {cell[1] : cell \in ToSet(pending["handler"])}
  IN  {m \in out : m.about = n /\ (m.type = "A" \/ m.code \in {100, 102, 103})}

\* A request that was decoded gets one answer, an ACK or an error, and reaches
\* the market thread if it is an ACK and only after the whole of it is out: so
\* the price and the quantity of every SEND and MODIFY there are positive.
AnsweredOnce ==
  \A n \in ToSet(decoded) \ {0} :
    /\ Cardinality(Answers(n)) = 1
    /\ n \in ToSet(queue) \union ToSet(taken) =>
         /\ \A m \in Answers(n) :
              m.type = "A" /\ m \notin {cell[1] : cell \in ToSet(pending["handler"])}
         /\ asked[n].letter \in {"O", "U"} => asked[n].price /\ asked[n].qty
         /\ asked[n].letter # "Z"

\* As long as no two writes overlapped, the client decodes every message the
\* server wrote, whole and in order, however the bytes were cut.
HeardWhole == ~overlapped => IsPrefix(heard, written)

\* A client that stays and whose requests were read whole gets an answer to
\* each of them.
EveryRequestAnswered ==
  \A n \in 1 .. MaxRequests :
    (Len(asked) >= n) ~> (Answers(n) # {} \/ ~open \/ cuts > 0)

=============================================================================

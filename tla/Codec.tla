-------------------------------- MODULE Codec --------------------------------
(***************************************************************************)
(* The wire format: the CONVERSION_PACKAGE of the server, of the client and  *)
(* of the subscriber, with the client's Send functions. A message is a       *)
(* sequence of cells: the letter of its type is a string, any other cell a   *)
(* byte, which is a number below BASE; so whatever stands in a place can be  *)
(* read as any field. Each side has its own idea of which fields follow each *)
(* other, which is a layout here; the offsets of the code are sums of the    *)
(* widths before a field.                                                    *)
(***************************************************************************)
EXTENDS Integers, Sequences, SequencesExt

CONSTANTS
  BASE,             \* values of a byte, 256
  INT_BYTES,        \* sizeof(int), which a byte is shifted as: 4
  SYMBOL_BYTES, QTY_BYTES, PRICE_BYTES, ID_BYTES,   \* 4 each
  SEQ_BYTES,        \* bytes of a snapshot's sequence number, 8
  SNAPSHOT_LEN,     \* orders shown of a side
  LetterB, LetterS, Blank,   \* the bytes 'B', 'S' and ' '
  Symbol,           \* symbols: sequences of SYMBOL_BYTES bytes
  OrderType,        \* strings that orders.json has for "order_type"
  Qty, Price, Id,   \* numbers that occur in orders.json, and assigned ids
  ErrorCode         \* 100 .. 104

ASSUME WidthAssumption ==
  /\ BASE \in Nat \ {0} /\ BASE % 2 = 0
  /\ {SYMBOL_BYTES, SEQ_BYTES, SNAPSHOT_LEN} \subseteq Nat \ {0}

ASSUME LetterAssumption == {LetterB, LetterS, Blank} \subseteq 0 .. BASE - 1 /\ LetterB # LetterS

\* README.md:191: a symbol is exactly SYMBOL_BYTES characters.
ASSUME SymbolAssumption == \A s \in Symbol : s \in Seq(0 .. BASE - 1) /\ Len(s) = SYMBOL_BYTES

\* Of any length: README.md:220 has "B", and anything else, for a side.
ASSUME OrderTypeAssumption == OrderType \subseteq Seq(0 .. BASE - 1)

ASSUME NumberAssumption == (Qty \union Price \union Id) \subseteq Int /\ ErrorCode \subseteq Nat \ {0}

\* A field is no wider than an int: of a wider one, such as the 8 bytes that
\* README.md:176 offers, the first bytes would be shifted out of the int.
ASSUME FieldAssumption ==
  INT_BYTES \in Nat /\ {QTY_BYTES, PRICE_BYTES, ID_BYTES} \subseteq 1 .. INT_BYTES

VARIABLES
  request, \* the request the client makes
  order,   \* the ORDER the server decodes from it, with the id it assigns
  meant,   \* the message last sent, as its sender means it
  wire     \* that message as bytes

codecVars == <<request, order, meant, wire>>

-----------------------------------------------------------------------------
(* Numbers *)

\* What is left of a number after each turn of the loop.
Quotients(number) ==
  LET left[k \in Nat] == IF k = 0 THEN number ELSE left[k - 1] \div BASE
  IN  left

\* Big-endian, with zeros in front, and never cut: a number that has more
\* digits makes the message longer. A negative one never enters the loop.
number_to_bytes(number, num_bytes) ==
  LET left == Quotients(number)
      len == IF number <= 0 \/ left[num_bytes] = 0 THEN num_bytes
             ELSE CHOOSE n \in num_bytes + 1 .. num_bytes + number :
                    left[n] = 0 /\ left[n - 1] > 0
  IN  [k \in 1 .. len |-> IF number <= 0 THEN 0 ELSE left[len - k] % BASE]

\* The subscriber's byte_conversion, which shifts a long long.
Unsigned(digits) ==
  LET value[k \in 0 .. Len(digits)] ==
        IF k = 0 THEN 0 ELSE value[k - 1] * BASE + digits[k]
  IN  value[Len(digits)]

\* Server and client shift each byte as an int: the first of INT_BYTES bytes
\* reaches its sign.
byte_conversion(digits) ==
  IF Len(digits) = INT_BYTES /\ digits[1] >= BASE \div 2
  THEN Unsigned(digits) - BASE ^ INT_BYTES
  ELSE Unsigned(digits)

\* Everybody has a byte_conversion of their own.
Converted(who, digits) ==
  IF who = "subscriber" THEN Unsigned(digits) ELSE byte_conversion(digits)

-----------------------------------------------------------------------------
(* Fields and layouts *)

\* What a reader takes a field for. A writer may write more than that.
Width ==
  [type |-> 1, request_type |-> 1, side |-> 1, order_type |-> 1, symbol |-> SYMBOL_BYTES,
   qty |-> QTY_BYTES, remaining |-> QTY_BYTES, price |-> PRICE_BYTES,
   order_id |-> ID_BYTES, del_id |-> ID_BYTES, seq_len |-> SEQ_BYTES,
   code |-> INT_BYTES]

Letter(side) == IF side = "BUY" THEN LetterB ELSE LetterS

SideOf(letter) == IF letter = LetterB THEN "BUY" ELSE "SELL"

\* These are copied, whatever their length.
Strings == {"symbol", "order_type"}

FieldBytes(field, value) ==
  CASE field \in {"type", "request_type"} -> <<value>>
    [] field = "side" -> <<Letter(value)>>
    [] field \in Strings -> value
    [] OTHER -> number_to_bytes(value, Width[field])

FieldValue(field, bytes, who) ==
  CASE field \in {"type", "request_type"} -> bytes[1]
    [] field = "side" -> SideOf(bytes[1])
    [] field \in Strings -> bytes
    [] OTHER -> Converted(who, bytes)

\* Where each field ends, and so where the next begins.
Offsets(layout) ==
  LET sum[k \in 0 .. Len(layout)] == IF k = 0 THEN 0 ELSE sum[k - 1] + Width[layout[k]]
  IN  sum

Encoded(layout, record) ==
  FlattenSeq([k \in 1 .. Len(layout) |-> FieldBytes(layout[k], record[layout[k]])])

Decoded(layout, bytes, who) ==
  [field \in ToSet(layout) |->
     LET k == CHOOSE j \in 1 .. Len(layout) : layout[j] = field
     IN  FieldValue(field, SubSeq(bytes, Offsets(layout)[k - 1] + 1, Offsets(layout)[k]), who)]

\* The fields of f, and those of g that f does not have.
Joined(f, g) ==
  [field \in DOMAIN f \union DOMAIN g |-> IF field \in DOMAIN f THEN f[field] ELSE g[field]]

\* SendOrder, SendModify and SendKill: the order_type of orders.json stands
\* where the server looks for one letter.
SendLayout ==
  [O |-> <<"type", "order_type", "symbol", "qty", "price">>,
   U |-> <<"type", "order_type", "symbol", "qty", "price", "del_id">>,
   X |-> <<"type", "symbol", "del_id">>]

REQUEST_BYTES == 2 + SYMBOL_BYTES + QTY_BYTES + PRICE_BYTES + ID_BYTES

pad_message(bytes) == bytes \o [k \in 1 .. REQUEST_BYTES - Len(bytes) |-> Blank]

\* Mutant: the server looks for the price of a SEND before its quantity.
DECODE_PriceFirst ==
  [O |-> <<"type", "side", "symbol", "price", "qty">>,
   U |-> <<"type", "side", "symbol", "qty", "price", "del_id">>,
   X |-> <<"type", "symbol", "del_id">>]

\* DECODE_SEND_ORDER, DECODE_MODIFY_ORDER and DECODE_KILL_ORDER.
DECODE ==
  [O |-> <<"type", "side", "symbol", "qty", "price">>,
   U |-> <<"type", "side", "symbol", "qty", "price", "del_id">>,
   X |-> <<"type", "symbol", "del_id">>]

ENCODE_ACK == <<"type", "request_type", "side", "symbol", "qty", "price", "order_id", "del_id">>
ENCODE_FULL_FILL == <<"type", "side", "symbol", "order_id", "qty", "price">>
ENCODE_PARTIAL_FILL == <<"type", "side", "symbol", "order_id", "qty", "remaining", "price">>
ENCODE_KILL_CONFIRM == <<"type", "symbol", "order_id", "qty">>

\* What the server writes: the four encoders, and an error with its code.
ENCODE ==
  [A |-> ENCODE_ACK, F |-> ENCODE_FULL_FILL, P |-> ENCODE_PARTIAL_FILL,
   K |-> ENCODE_KILL_CONFIRM, J |-> <<"type", "code">>]

\* Mutant: a partial fill is taken for as long as a full one.
RESPONSE_BODY_LENGTH_OneQty ==
  [A |-> 2 + SYMBOL_BYTES + QTY_BYTES + PRICE_BYTES + 2 * ID_BYTES,
   F |-> 1 + SYMBOL_BYTES + ID_BYTES + QTY_BYTES + PRICE_BYTES,
   P |-> 1 + SYMBOL_BYTES + ID_BYTES + QTY_BYTES + PRICE_BYTES,
   K |-> SYMBOL_BYTES + ID_BYTES + QTY_BYTES,
   J |-> INT_BYTES]

RESPONSE_BODY_LENGTH ==
  [A |-> 2 + SYMBOL_BYTES + QTY_BYTES + PRICE_BYTES + 2 * ID_BYTES,
   F |-> 1 + SYMBOL_BYTES + ID_BYTES + QTY_BYTES + PRICE_BYTES,
   P |-> 1 + SYMBOL_BYTES + ID_BYTES + 2 * QTY_BYTES + PRICE_BYTES,
   K |-> SYMBOL_BYTES + ID_BYTES + QTY_BYTES,
   J |-> INT_BYTES]

\* What the client makes of a body: its own DECODE_ACK .. DECODE_ERROR.
Body ==
  [A |-> <<"request_type", "side", "symbol", "qty", "price", "order_id", "del_id">>,
   F |-> <<"side", "symbol", "order_id", "qty", "price">>,
   P |-> <<"side", "symbol", "order_id", "qty", "remaining", "price">>,
   K |-> <<"symbol", "order_id", "qty">>,
   J |-> <<"code">>]

\* ClientTCPListener: the type byte, then a body of the length it stands for.
Heard(bytes) ==
  LET type == bytes[1]
      rest == SubSeq(bytes, 2, 1 + RESPONSE_BODY_LENGTH[type])
  IN  Joined([type |-> type], Decoded(Body[type], rest, "client"))

-----------------------------------------------------------------------------
(* Snapshots *)

\* Mutant: quantity before price.
order_to_bytes_QtyFirst == <<"order_id", "qty", "price">>

order_to_bytes == <<"order_id", "price", "qty">>

\* A place of a snapshot that holds no order: the defaults of ORDER.
NoOrder == [order_id |-> 0, price |-> 0, qty |-> 0]

\* Both sides follow each other, SNAPSHOT_LEN orders each.
SNAPSHOT_TO_BYTES(s) ==
  Encoded(<<"symbol", "seq_len">>, s)
  \o FlattenSeq([k \in 1 .. 2 * SNAPSHOT_LEN |-> Encoded(order_to_bytes, s.orders[k])])

get_snapshot(bytes) ==
  LET head == SYMBOL_BYTES + SEQ_BYTES
      size == ID_BYTES + PRICE_BYTES + QTY_BYTES
      first == Decoded(<<"symbol", "seq_len">>, bytes, "subscriber")
  IN  [type |-> "S", symbol |-> first.symbol, seq_len |-> first.seq_len,
       orders |-> [k \in 1 .. 2 * SNAPSHOT_LEN |->
         Decoded(<<"order_id", "price", "qty">>,
                 SubSeq(bytes, head + (k - 1) * size + 1, head + k * size), "subscriber")]]

-----------------------------------------------------------------------------
(* A request, and what is said of its order *)

Side == {"BUY", "SELL"}

\* The entries of orders.json: a KILL has no side, price or quantity.
Asked ==
  [type : {"O"}, order_type : OrderType, symbol : Symbol, qty : Qty, price : Price]
  \union [type : {"U"}, order_type : OrderType, symbol : Symbol, qty : Qty, price : Price, del_id : Id]
  \union [type : {"X"}, symbol : Symbol, del_id : Id]

CodecInit == request = {} /\ order = {} /\ meant = {} /\ wire = <<>>

ProcessOrdersFromJSON ==
  \E r \in Asked :
    /\ request' = {r} /\ meant' = {r}
    /\ wire' = pad_message(Encoded(SendLayout[r.type], r))
    /\ order' = {}

\* readListener decodes by the first letter. What a decoder leaves alone keeps
\* the defaults of ORDER, but the side of a KILL has none and is any.
Decode ==
  /\ request # {} /\ order = {}
  /\ \E side \in Side, id \in Id :
       /\ id > 0
       /\ order' = {Joined(Decoded(DECODE[wire[1]], wire, "server"),
                           [side |-> side, qty |-> 0, price |-> 0, del_id |-> 0, order_id |-> id])}
  /\ UNCHANGED <<request, meant, wire>>

Answer(m) ==
  /\ meant' = {Restrict(m, ToSet(ENCODE[m.type]))}
  /\ wire' = Encoded(ENCODE[m.type], m)
  /\ UNCHANGED <<request, order>>

Rests(o) == o.type # "X" /\ o.qty > 0 /\ o.price > 0

\* An error, which any request may get; the ACK of one that simpleReject lets
\* pass; and the reports on an order that rests.
writeToClient ==
  \E o \in order :
    \/ \E code \in ErrorCode : Answer([type |-> "J", code |-> code])
    \/ /\ Rests(o) \/ o.type = "X"
       /\ Answer(Joined([type |-> "A", request_type |-> o.type], o))
    \/ /\ Rests(o)
       /\ \/ Answer(Joined([type |-> "K"], o))
          \/ Answer(Joined([type |-> "F"], o))
          \/ \E q \in Qty \intersect 1 .. o.qty - 1 :
               Answer(Joined([type |-> "P", qty |-> q, remaining |-> o.qty - q], o))

\* The order is one of those shown, at any place of its side.
SEND_BROADCAST ==
  \E o \in order, place \in 1 .. SNAPSHOT_LEN, seq_len \in Id :
    LET at == IF o.side = "BUY" THEN place ELSE SNAPSHOT_LEN + place
        s == [type |-> "S", symbol |-> o.symbol, seq_len |-> seq_len,
              orders |-> [k \in 1 .. 2 * SNAPSHOT_LEN |->
                            IF k = at THEN Restrict(o, ToSet(order_to_bytes)) ELSE NoOrder]]
    IN  /\ Rests(o) /\ seq_len > 0
        /\ meant' = {s}
        /\ wire' = SNAPSHOT_TO_BYTES(s)
        /\ UNCHANGED <<request, order>>

CodecNext == ProcessOrdersFromJSON \/ Decode \/ writeToClient \/ SEND_BROADCAST

CodecSpec == CodecInit /\ [][CodecNext]_codecVars

-----------------------------------------------------------------------------
(* Properties *)

\* A number of no more than width digits, the first of which leaves the sign of
\* an int alone.
Fits(number, width) ==
  number > 0 =>
    /\ Quotients(number)[width] = 0
    /\ width = INT_BYTES => Quotients(number)[width - 1] < BASE \div 2

\* Nothing in the code sees to it that numbers fit their fields.
NumbersFit ==
  /\ \A n \in Qty : Fits(n, QTY_BYTES)
  /\ \A n \in Price : Fits(n, PRICE_BYTES)
  /\ \A n \in Id : Fits(n, ID_BYTES) /\ Fits(n, SEQ_BYTES)
  /\ \A n \in ErrorCode : Fits(n, INT_BYTES)

\* Nothing in the code sees to it either that an order_type has one letter,
\* which puts the symbol and the numbers where the server looks for them.
OneLetterSides == \A t \in OrderType : Len(t) = 1

\* The server makes of every frame what the client meant by it: client and
\* server count the same offsets, and the frame fills the server's buffer. A
\* number that is not positive arrives as zero, which is refused like itself,
\* and an order_type of one letter as a buy if it is "B", else as a sell.
RequestsSurvive ==
  \A r \in request, o \in order :
    /\ Len(pad_message(Encoded(SendLayout[r.type], r))) = REQUEST_BYTES
    /\ \A field \in DOMAIN r \ {"order_type"} :
         o[field] = IF field \in {"qty", "price", "del_id"} /\ r[field] <= 0
                    THEN 0 ELSE r[field]
    /\ "order_type" \in DOMAIN r =>
         o.side = IF r.order_type = <<LetterB>> THEN "BUY" ELSE "SELL"

\* The client hears what the server said, and takes exactly the bytes of the
\* message from the stream: its table of lengths agrees with every encoder.
AnswersSurvive ==
  \A m \in meant :
    m.type \in DOMAIN ENCODE => /\ Len(wire) = 1 + RESPONSE_BODY_LENGTH[m.type]
                                /\ Heard(wire) = m

\* A subscriber decodes the symbol, the sequence number and every order of a
\* snapshot, each at its place of its side.
SnapshotsSurvive == \A m \in meant : m.type = "S" => get_snapshot(wire) = m

\* README.md:181 has a field as wide as an int hold any number of that many
\* bytes, "up to ~4.29 x 10^9".
FieldRange ==
  \A r \in request, o \in order :
    r.type = "O" /\ r.qty \in 0 .. BASE ^ QTY_BYTES - 1 => o.qty = r.qty

=============================================================================

------------------------------- MODULE MCCodec -------------------------------
(* Small instances of Codec: two symbols of two bytes, and the bytes 1, 2    *)
(* and 3 for ' ', 'S' and 'B'.                                               *)
EXTENDS Codec

Symbols == {<<1, 3>>, <<3, 2>>}

\* "B", "S", and a letter that stands for neither.
OneLetter == {<<3>>, <<2>>, <<0>>}

\* Numbers of two and of three digits of base 4, to half the range of an int
\* of three; -1 stands for every number that is not positive.
TwoDigits == {-1, 1, 6, 15}
ThreeDigits == {-1, 1, 27, 31}

-----------------------------------------------------------------------------
(* What the server makes of a SEND whose order_type is longer than the one   *)
(* letter it looks for, as README.md:220 allows.                             *)

ServerReads(order_type) ==
  LET r == [type |-> "O", order_type |-> order_type, symbol |-> <<1, 3>>, qty |-> 6, price |-> 1]
  IN  Decoded(DECODE["O"], pad_message(Encoded(SendLayout["O"], r)), "server")

\* "SB": the second letter is taken for the first of the symbol, and every
\* byte behind it for the one that follows, so that no field but the side is
\* what the client meant.
ASSUME LongSideShifts ==
  LET o == ServerReads(<<2, 3>>)
  IN  o.side = "SELL" /\ o.symbol = <<3, 1>> /\ o.qty # 6 /\ o.price # 1

\* "BS" is not "B", and yet a buy.
ASSUME LongSideBuys == ServerReads(<<3, 2>>).side = "BUY"

=============================================================================

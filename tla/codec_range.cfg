SPECIFICATION CodecSpec
CONSTANTS
  BASE = 4
  INT_BYTES = 2
  SYMBOL_BYTES = 2
  QTY_BYTES = 2
  PRICE_BYTES = 2
  ID_BYTES = 2
  SEQ_BYTES = 4
  SNAPSHOT_LEN = 2
  LetterB = 3
  LetterS = 2
  Blank = 1
  Symbol <- Symbols
  OrderType <- OneLetter
  Qty <- TwoDigits
  Price = {1}
  Id = {1}
  ErrorCode = {5}
INVARIANT FieldRange

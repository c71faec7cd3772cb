SPECIFICATION CodecSpec
CONSTANTS
  BASE = 4
  INT_BYTES = 3
  SYMBOL_BYTES = 2
  QTY_BYTES = 2
  PRICE_BYTES = 3
  ID_BYTES = 3
  SEQ_BYTES = 4
  SNAPSHOT_LEN = 2
  LetterB = 3
  LetterS = 2
  Blank = 1
  Symbol <- Symbols
  OrderType <- OneLetter
  Qty <- TwoDigits
  Price <- ThreeDigits
  Id <- ThreeDigits
  ErrorCode = {25, 26}
INVARIANTS
  RequestsSurvive
  AnswersSurvive
  SnapshotsSurvive

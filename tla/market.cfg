SPECIFICATION Spec
CONSTANTS
  Session = {c1, c2}
  Symbol = {x1, x2}
  Listed = {x1}
  NUM_SHARDS = 3
  NUM_MARKET_BOOK_THREADS = 2
  NUM_SERVER_THREADS = 2
  MaxRequests = 3
INVARIANTS
  TypeOK
  BookExclusive
  NothingLost
  AckPrecedes
  SessionFifo
PROPERTY EveryRequestTaken

SPECIFICATION BookSpec
CONSTANTS
  WORD_BITS = 2
  PRICE_WINDOW = 6
  Order = {o1, o2, o3}
  NIL = NIL
  ORDER_POOL_INITIAL_CAP = 2
  ORDER_POOL_GROWTH_CHUNK = 2
  ORDER_POOL_MAX_CAP = 3
SYMMETRY Orders
CHECK_DEADLOCK FALSE
INVARIANTS
  BookTypeOK
  SummaryExact
  SearchesExact
  VisitsInOrder
  NodesPartitioned
  BitmapsAgree
PROPERTY ImplementsLevelQueues

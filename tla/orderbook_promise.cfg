SPECIFICATION Spec
CONSTANTS
  OrderId = {1, 2, 3}
  Price = {4, 5}
  Qty = {1, 2}
  PRICE_WINDOW = 3
  Session = {c0, c1}
  Registered = {c1}
  MaxRequests = 3
  SNAPSHOT_LEN = 2
  SNAPSHOT_FREQUENCY = 1
ACTION_CONSTRAINT InOrder
INVARIANT FlagsMatchBook
PROPERTIES
  ImplementsLimitOrderBook
  UpdateEnds

SPECIFICATION Spec
CONSTANTS
  OrderId = {i1, i2, i3}
  Price = {3, 4}
  Qty = {1}
  PRICE_WINDOW = 4
  Session = {c1}
  Registered = {c1}
  MaxRequests = 3
  SNAPSHOT_LEN = 2
  SNAPSHOT_FREQUENCY = 1
INVARIANT Uncrossed

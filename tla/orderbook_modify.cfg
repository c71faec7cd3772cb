SPECIFICATION Spec
CONSTANTS
  OrderId = {i1, i2}
  Price = {1}
  Qty = {1}
  PRICE_WINDOW = 4
  Session = {c1}
  Registered = {c1}
  MaxRequests = 2
  SNAPSHOT_LEN = 2
  SNAPSHOT_FREQUENCY = 1
PROPERTY ErrorMeansNoOrder

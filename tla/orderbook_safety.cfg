SPECIFICATION Spec
CONSTANTS
  OrderId = {i1, i2, i3}
  Price = {4, 5}
  Qty = {1, 2}
  PRICE_WINDOW = 3
  Session = {c1}
  Registered = {c1}
  MaxRequests = 4
  SNAPSHOT_LEN = 2
  SNAPSHOT_FREQUENCY = 1
SYMMETRY Ids
INVARIANTS
  TypeOK
  BitmapMarksLevels
  QueuesWellFormed
  TopsSettled
  Uncrossed
  ReportsAddUp
  OneFinalReport
  SnapshotIsTop
PROPERTIES
  KilledNeverFilled
  PriceTimePriority

SPECIFICATION Spec
CONSTANTS
  OrderId = {i1, i2, i3, i4}
  Named = {i1, i2, i3, i4}
  EMPTY_KEY = minus1
  TOMBSTONE_KEY = minus2
  CAPACITY = 4
  Hash = {0, 1, 6, 7}
  MaxSlots = 8
SYMMETRY Ids
INVARIANTS
  CountsExact
  ProbesEnd
  ChainsUnbroken
PROPERTY ImplementsFlagMap

SPECIFICATION Spec
CONSTANTS
  Shard = {0, 1}
  LastShard = 1
  SNAPSHOT_LEN = 2
  SNAPSHOT_FREQUENCY = 1
  MaxMarkets = 2
  Thread = {t1, t2}
  Iterations = 1
CHECK_DEADLOCK FALSE
INVARIANTS
  PrintedTrue
  NothingLeft
PROPERTY JoinEnds

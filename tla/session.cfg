SPECIFICATION Spec
CONSTANTS
  Request <- Requests
  Refusal = {104}
  FRAME = 2
  MaxRequests = 2
  MaxCuts = 1
CHECK_DEADLOCK FALSE
INVARIANTS
  DecodedAsSent
  AnsweredOnce
  HeardWhole
PROPERTY EveryRequestAnswered

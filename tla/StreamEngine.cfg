CONSTANTS
  Byte = 4
  Long = 2
  InBatch = 3
  OutBatch = 4
  Buffer = 5
  Room = 1
  Plans <- MCPlans
SPECIFICATION Spec
CHECK_DEADLOCK FALSE
INVARIANTS StreamEngineSound IntactWithinLimit NothingLost

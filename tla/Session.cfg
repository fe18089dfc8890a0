CONSTANTS
  MaxConns = 3
  MaxPipes = 3
  Batch = 2
  Wire = 1
  Plans <- MCPlans
SPECIFICATION Spec
CHECK_DEADLOCK FALSE
INVARIANTS SessionSound MessagesWhole Reconnects
PROPERTIES CloseEnds

SPECIFICATION Spec
CONSTANTS
  P = {p1, p2}
  Types = {"PULL", "PUSH", "PAIR", "DEALER", "ROUTER", "REQ", "REP"}
  Hwm = 1
  MaxMsgs = 3
  MidMessage = FALSE
CHECK_DEADLOCK FALSE
INVARIANTS PatternsSound EveryPipeServed SentRight

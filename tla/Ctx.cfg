SPECIFICATION Spec
CONSTANTS
  Sockets = {sa, sb, sc}
  Slots = {k1, k2}
  Binders = {sa}
  Connectors = {sb}
  MixTransports = FALSE
  MaxInterrupts = 1
CHECK_DEADLOCK FALSE
INVARIANTS CtxSound
PROPERTIES TermReturns

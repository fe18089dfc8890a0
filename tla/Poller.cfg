SPECIFICATION Spec
CONSTANTS
  Regs = {1, 2, 3, 4}
  Fds = {1, 2, 3}
  MaxEvents = 2
  Sinks = {1, 2}
  Timeouts = {0, 1, 2}
  MaxTime = 3
  Plans <- MCPlans
CHECK_DEADLOCK FALSE
INVARIANTS PollerSound
PROPERTIES EventsReachTheirOwner TimersFire

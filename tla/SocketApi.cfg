SPECIFICATION Spec
CONSTANTS
  Socks = {"f", "b", "c"}
  Rate = 3
  Hwm = 3
  MaxWmDelta = 1024
  Early = 1
  MaxTime = 5
  MaxIdentity = 2
  Addrs = {1, 2}
  Trials <- MCTrials
  Plans <- MCPlans
CHECK_DEADLOCK FALSE
INVARIANTS SocketApiSound ProxyFaithful OptionsKept
PROPERTIES Progress

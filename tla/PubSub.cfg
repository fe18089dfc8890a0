CONSTANTS
  u1 = u1
  u2 = u2
  S <- MCSubs
  Prefixes <- MCPrefixes
  Topics <- MCTopics
  Filters = {u1}
  SubHwm <- MCSubHwm
  PubHwm = 1
  MaxDistinct = 3
  Plans <- MCPlans
SPECIFICATION Spec
CHECK_DEADLOCK FALSE
INVARIANTS PubSubSound SubscriptionsAgree
PROPERTIES MatchingGetIt ReceivesWhole

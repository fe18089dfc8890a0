SPECIFICATION MCSpec
CONSTANTS
  Services = { "a.b", "ab" }
  InstanceName <- MCInstanceName
  MaxCount = 3
  Deployers = { 1, 2, 3, 4 }
  Components = { "client", "server" }
  Params = { "times" }
  deployedURI <- MCDeployedURI
  webDeployments = { 3 }
  Bad = { 4 }
  configuration <- MCConfiguration
  params <- MCParams
  components <- MCComponents
  Null = "null"
  NoName = "no name"
  Exclusive = FALSE
  Faults = { "extract", "slow flush", "crash" }
CHECK_DEADLOCK FALSE
INVARIANTS DenseCounts
PROPERTIES TurnsKeepDatabases DeployersSettle

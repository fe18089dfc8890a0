SPECIFICATION MCSpec
CONSTANTS
  Deployers = { 1, 2, 3 }
  Types = { "server", "client" }
  Images = { "server001", "client001" }
  networkName <- MCNetworkName
  cardinality <- MCCardinality
  declared <- MCDeclared
  imageName <- MCImageName
  MaxInstances = 1
  Services = { "ab" }
  InstanceName <- MCInstanceName
  MaxCount = 3
  deployedURI <- MCDeployedURI
  Faults = { "network", "list", "untagged", "build", "broken build", "attach",
             "kill" }
CHECK_DEADLOCK FALSE
INVARIANTS Followed TeardownSound
PROPERTIES RequestedOnce DeploymentsEnd

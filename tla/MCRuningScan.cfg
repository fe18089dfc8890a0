SPECIFICATION Spec
CONSTANTS
  Services <- MCServices
  InstanceName <- MCInstanceName
  MaxCount = 13
  MaxKeys = 12
CHECK_DEADLOCK FALSE
INVARIANTS ScanFindsFirstFree
PROPERTIES ImplementsRuningDB ScanTerminates

SPECIFICATION FairSpec
CONSTANTS
  Null = Null
  QueueSize = 1
  BatchSize = 1
  Retries = 1
  MaxLogs = 3
  MaxReceived = 3
  MaxTries = 2
  FaultSets <- OnlyHttp
  MaxFaults = 3
CHECK_DEADLOCK FALSE
PROPERTY Recovers

SPECIFICATION ExpiringSpec
CONSTANTS
  Null = Null
  QueueSize = 1
  BatchSize = 1
  Retries = 1
  MaxLogs = 3
  MaxReceived = 3
  MaxTries = 3
  FaultSets <- AnyFaults
  MaxFaults = 2
CHECK_DEADLOCK FALSE
INVARIANTS TypeOK AcceptHasToken NotStranded
PROPERTIES Recovers Drains

SPECIFICATION FairSpec
CONSTANTS
  Null = Null
  QueueSize = 3
  BatchSize = 2
  Retries = 2
  MaxLogs = 4
  MaxReceived = 8
CHECK_DEADLOCK FALSE
INVARIANTS TypeOK EntriesAccounted NothingVanishes LogsInOrder
PROPERTIES Promise Drains ShutdownEnds

SPECIFICATION FairSpec
CONSTANTS
  b1 = b1
  b2 = b2
  b3 = b3
  Blocks <- ThreeBlocks
  IdLimit = 4
  Freed = Freed
  Idle = Idle
CHECK_DEADLOCK FALSE
INVARIANTS TypeOK TimersAreRegistered MemoryAccounted UniqueIds
PROPERTIES Promise EachRuns

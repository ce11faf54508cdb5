SPECIFICATION FairSpec
CONSTANTS
  None = None
  Junk = Junk
  MaxTokens = 3
  MaxAttempts = 2
  FaultSets <- Outages
  MaxFaults = 1
PROPERTY ComesBack

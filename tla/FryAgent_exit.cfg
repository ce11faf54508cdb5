SPECIFICATION Spec
CONSTANTS
  None = None
  Junk = Junk
  MaxTokens = 3
  MaxAttempts = 2
  FaultSets <- OneOutage
  MaxFaults = 1
INVARIANT RequestTaken

SPECIFICATION GatewaySpec
CONSTANTS
  None = None
  Junk = Junk
  MaxTokens = 3
  MaxAttempts = 3
  Clients = {c1}
  MaxEvents = 3
  MaxCA = 2
  FaultSets <- InOrder
  MaxFaults = 1
INVARIANT EventsKept

SPECIFICATION GatewayFairSpec
CONSTANTS
  None = None
  Junk = Junk
  MaxTokens = 3
  MaxAttempts = 3
  Clients = {c1}
  MaxEvents = 3
  MaxCA = 2
  FaultSets <- Each
  MaxFaults = 3
INVARIANTS GatewayTypeOK FileIsToken SubscribedWhenUp AttemptsStartOver WelcomeIsRecent CredentialsMatch
PROPERTIES ComesBackInTime PortalReleased BorrowerServed

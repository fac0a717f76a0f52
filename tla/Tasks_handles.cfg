SPECIFICATION FairSpec
CONSTANTS
  None = None
  h1 = h1
  h2 = h2
  c1 = c1
  c2 = c2
  k1 = k1
  Tasks <- OneTask
  Clients <- TwoClients
  Tokens <- NoTokens
  Uses <- AllUses
INVARIANTS OneOutcome JoinTellsTheTruth
PROPERTIES CancelledStops TimedJoinReturns
CHECK_DEADLOCK FALSE

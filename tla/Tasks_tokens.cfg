SPECIFICATION FairSpec
CONSTANTS
  None = None
  h1 = h1
  h2 = h2
  c1 = c1
  c2 = c2
  k1 = k1
  Tasks <- TwoTasks
  Clients <- TwoClients
  Tokens <- OneToken
  Uses <- CancelOnly
INVARIANTS NoHandleEscapes FirstCancelWins
PROPERTIES CompletionWins TokenStopsLinked
CHECK_DEADLOCK FALSE

SPECIFICATION FairSpec
CONSTANTS
  Main = Main
  h1 = h1
  h2 = h2
  Tasks <- TwoTasks
  Blockers <- MainAndTwo
  Failing <- TwoTasks
  MaxBlocks = 3
INVARIANTS ScopeBalance RegisteredSettles AloneKeepsPromises
PROPERTIES NoTimeoutRaises ExitEnds
CHECK_DEADLOCK FALSE

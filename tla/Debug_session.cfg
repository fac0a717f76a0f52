SPECIFICATION Spec
CONSTANTS
  Main = Main
  task = task
  p1 = p1
  p2 = p2
  name = name
  imported = imported
  Runs <- TwoRuns
  Threads <- TaskAndRerun
  Paths <- TwoFiles
  Namespaces <- Names
  NamespaceOf <- OneName
  Lines <- OneLine
  MaxDepth = 0
  MaxMessages = 3
INVARIANTS CommandsMatchStops BreakpointsAgree ConfiguredStarts
PROPERTIES TimeoutLetsRun
CHECK_DEADLOCK FALSE

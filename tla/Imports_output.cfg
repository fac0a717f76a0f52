SPECIFICATION Spec
CONSTANTS
  t1 = t1
  t2 = t2
  a = a
  b = b
  broken = broken
  Program = Program
  Threads <- OneImporter
  Modules <- ThreeModules
  Unparsable <- OneBroken
  MaxSteps = 5
INVARIANT ImportsKeepOutput
CHECK_DEADLOCK FALSE

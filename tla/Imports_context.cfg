SPECIFICATION Spec
CONSTANTS
  t1 = t1
  t2 = t2
  a = a
  b = b
  broken = broken
  Program = Program
  Threads <- TwoThreads
  Modules <- ThreeModules
  Unparsable <- OneBroken
  MaxSteps = 3
SYMMETRY Symmetry
INVARIANTS TypeOK InProgressIsHeld ContextRestored OutputKept LoadedOnce
CHECK_DEADLOCK FALSE

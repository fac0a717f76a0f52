SPECIFICATION Spec
CONSTANTS
  t1 = t1
  t2 = t2
  Text = Text
  Threads <- TwoThreads
  Labels <- OneLabel
  MaxSize = 2
  MaxAllocs = 1
SYMMETRY ThreadSymmetry
INVARIANTS TypeOK Bookkeeping 
PROPERTIES FreedStaysFrozen TypesStable
CHECK_DEADLOCK FALSE

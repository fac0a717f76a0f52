SPECIFICATION MCSpec
CONSTANTS
  main = main
  other = other
  w1 = w1
  v1 = v1
  v2 = v2
  Threads <- ThreeThreads
  Workers <- OneWorker
  Values <- TwoValues
  RequestedCapacity = 2
  MaxSends = 4
INVARIANTS NoLostWakeup NullMeansDrained
PROPERTIES CloseEndsCancelled QueueSpec CloseWakesAll ValuesMoveOn
CHECK_DEADLOCK FALSE

\* The other threads go on while main exits.
SPECIFICATION Spec
CONSTANTS
  Threads = {main, t1, t2}
  main = main
  Instances = {i1, i2}
  Null = Null
  ThreadsOutliveMain = TRUE
  MaxHandlers = 2
INVARIANT DestroyedOnce
CHECK_DEADLOCK FALSE

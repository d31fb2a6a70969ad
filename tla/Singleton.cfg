SPECIFICATION Spec
CONSTANTS
  Threads = {main, t1, t2}
  main = main
  Instances = {i1, i2}
  Null = Null
  ThreadsOutliveMain = FALSE
  MaxHandlers = 2
INVARIANT OneLiveInstance DestroyedOnce DestroyedAtExit
\* The program ends.
CHECK_DEADLOCK FALSE

SPECIFICATION Spec
CONSTANTS
  Threads = {t1, t2}
  Dir = Dir  Closed = Closed  NoCall = NoCall
  MaxFds = 4  BufSize = 2  MaxCalls = 3
  Calls <- MCCalls
  Inodes <- MCInodes
  InitialTree <- MCInitialTree
  InitialData <- MCInitialData
SYMMETRY Symmetry
INVARIANT NeverMixed EveryDescriptorHeld
PROPERTY CopyExact
CHECK_DEADLOCK FALSE

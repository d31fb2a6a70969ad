SPECIFICATION FairSpec
CONSTANTS
  Files = {f1}
  Paths = {p1}
  PathOf <- OnePath
  Callers = {c1, c2}
  Dog = Dog  NoThread = NoThread  NoFile = NoFile
  WriteTimes = "later"  MaxTime = 3  MaxVersion = 3
INVARIANT LoadsSerialized OnlyWatchedLoaded ChangeDetectable SuccessReported
PROPERTY ChangeLoaded CallsReturn StopEndsRun

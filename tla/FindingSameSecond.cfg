\* A file may be written again in the second of its last load.
SPECIFICATION FairSpec
CONSTANTS
  Files = {f1}
  Paths = {p1}
  PathOf <- OnePath
  Callers = {c1, c2}
  Dog = Dog  NoThread = NoThread  NoFile = NoFile
  WriteTimes = "now"  MaxTime = 3  MaxVersion = 3
PROPERTY ChangeLoaded

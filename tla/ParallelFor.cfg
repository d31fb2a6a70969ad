SPECIFICATION FairSpec
CONSTANT SizeMod = 10
CHECK_DEADLOCK FALSE
INVARIANT PartsDisjoint AllDone
PROPERTY Returns

SPECIFICATION Spec
CONSTANTS
  Keys = {k1, k2}
  Values = {v1, v2}
  Default = v1
  NoValue = NoValue
  Threads = {t1, t2}
  NoThread = NoThread  NoOp = NoOp  NoKey = NoKey  Dangling = Dangling
  Methods = {"insert", "insert_and_assign", "find", "find_with_value", "erase", "operator[]", "at"}
SYMMETRY Symmetry
PROPERTY ImplementsMap

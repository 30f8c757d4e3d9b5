SPECIFICATION Spec
CONSTANTS
  Var = {x, y}
  Unnamed = Unnamed
  Literal <- First
  Obj = {o1, o2}
  NoObj = NoObj
  RcMod = 65536
  MaxLen = 2
  Tables = {}
  MaxStack = 2
  Careless = {"append"}
SYMMETRY Interchangeable
PROPERTIES CopySemantics
CHECK_DEADLOCK FALSE

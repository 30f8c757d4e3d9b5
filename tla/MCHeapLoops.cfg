SPECIFICATION Spec
CONSTANTS
  Var = {x, y}
  Unnamed = Unnamed
  Literal <- First
  Obj = {o1, o2, o3}
  NoObj = NoObj
  RcMod = 65536
  MaxLen = 1
  Tables = {}
  MaxStack = 3
  Careless = {"declare"}
SYMMETRY Interchangeable
INVARIANTS TypeOK NeverDangling
PROPERTIES ImplementsValueSem
CHECK_DEADLOCK FALSE

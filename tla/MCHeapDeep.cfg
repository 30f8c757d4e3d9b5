SPECIFICATION Spec
CONSTANTS
  Var = {x, y}
  Unnamed = Unnamed
  Literal <- First
  Obj = {o1, o2, o3, o4}
  NoObj = NoObj
  RcMod = 65536
  MaxLen = 1
  Tables = {1}
  MaxStack = 2
  Careless = {"declare"}
SYMMETRY Interchangeable
INVARIANTS CountsExact NoLeak
PROPERTIES ImplementsValueSem CopySemantics
CHECK_DEADLOCK FALSE

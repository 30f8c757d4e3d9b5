SPECIFICATION Spec
CONSTANTS
  Var = {x}
  Unnamed = Unnamed
  Literal <- Keys
  Obj = {o1, o2}
  NoObj = NoObj
  RcMod = 65536
  MaxLen = 2
  Tables = {2}
  MaxStack = 4
  Careless = {"declare"}
SYMMETRY Interchangeable
CONSTRAINT Shallow
INVARIANTS KeysUnique
PROPERTIES ImplementsValueSem
CHECK_DEADLOCK FALSE

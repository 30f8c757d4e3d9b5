SPECIFICATION Spec
CONSTANTS
  Func <- Functions
  Main <- Scripts
  Code <- CodeOf
  Args <- ArgsOf
  Caps <- CapsOf
  Locals <- LocalsOf
  Consts <- ConstsOf
  Shape <- ShapeIn
  StackSize = 12
  MaxExecutes = 2
  ReuseAfterError = TRUE
  NoFunc = NoFunc
INVARIANTS TypeOK FramesFit OperandsFit VariablesFit  NoMisuse
PROPERTIES CallersUntouched
CHECK_DEADLOCK FALSE

SPECIFICATION Spec
CONSTANTS
  Func <- BranchFunctions
  Main <- BranchFunctions
  Code <- BranchCodeOf
  Args <- BranchNone
  Caps <- BranchNone
  Locals <- BranchLocals
  Consts <- BranchConsts
  Shape <- BranchShape
  StackSize = 12
  MaxExecutes = 1
  ReuseAfterError = FALSE
  NoFunc = NoFunc
INVARIANTS NoMisuse
CHECK_DEADLOCK FALSE

SPECIFICATION Spec
CONSTANTS
  IntWidth = 6
  CmpWidth = 4
  IndexMod = 8
  Minus <- MCMinus
  Zero <- MCZero
  Words <- MCWords
  Functions <- MCFunctions
  Scripts <- MCScripts
  MaxText = 5
  MaxPartials = 3
  MaxArray = 2
INVARIANTS TypeOK CountsExact SlotsInOrder
PROPERTY ImplementsOperandSem
CHECK_DEADLOCK FALSE

SPECIFICATION FairSpec
CONSTANT Families <- MCFamilies
INVARIANTS
  TypeOK
  NeverPastEnd
  BracketsNest
  NewlinesSeparate
  PlacesRight
  WholeScript
  ParsesByPrecedence
  LeavesInOrder
  TreeWellMade
PROPERTY Terminates
CHECK_DEADLOCK FALSE

SPECIFICATION Spec
CONSTANTS
  Scripts <- NestedScripts
  PosBit = 64
INVARIANTS NamesResolve
CHECK_DEADLOCK FALSE

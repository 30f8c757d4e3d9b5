SPECIFICATION Spec
CONSTANTS
  Scripts <- UndeclaredScripts
  PosBit = 64
INVARIANTS FreedOnce
CHECK_DEADLOCK FALSE

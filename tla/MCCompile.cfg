SPECIFICATION Spec
CONSTANTS
  Scripts <- CompileScripts
  PosBit = 64
INVARIANTS TypeOK StackDiscipline NamesResolve 
CHECK_DEADLOCK FALSE

SPECIFICATION Spec
CONSTANTS
  Lines <- MCLines
  MaxLines = 4
INVARIANT DefinitionsPersist
CHECK_DEADLOCK FALSE

SPECIFICATION Spec
CONSTANT
  Width = 5
INVARIANTS
  CoversExactly
PROPERTY
  Terminates
CHECK_DEADLOCK FALSE

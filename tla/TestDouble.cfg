SPECIFICATION Spec
CONSTANTS
  Tests = {t}
  Callers = {c1, c2}
  NoThread = NoThread
  Doubles <- SomeDoubles
  MaxOps = 2
INVARIANTS
  RecordsAgree
  OnlyInvocationsBlocks
PROPERTIES
  SnapshotIsConsistent
  OperationsReturn
CHECK_DEADLOCK FALSE

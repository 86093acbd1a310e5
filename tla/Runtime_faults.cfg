SPECIFICATION Spec
CONSTANTS
  Procs = {p1}
  Ids = {c1}
  NoId = NoId
  Host = Host
  Pids = {q1, q2}
  NoPid = NoPid
  Owner <- NoSidecars
  Commands <- WithOnlookers
  MaxStarts = 3
  Overlap = FALSE
  Faults = {"crash", "hcs", "fs", "win", "mount", "vanish"}
SYMMETRY Symmetry
INVARIANTS
  DeleteReleasesResources
  FailedCreateLeavesNothing
PROPERTIES
  RunningIsNotStarted
  LifecycleKept
CHECK_DEADLOCK FALSE

SPECIFICATION Spec
CONSTANTS
  Procs = {p1, p2}
  Ids = {c1}
  NoId = NoId
  Host = Host
  Pids = {q1}
  NoPid = NoPid
  Owner <- NoSidecars
  Commands <- Attached
  MaxStarts = 3
  Overlap = TRUE
  Faults = {"code259"}
SYMMETRY Symmetry
INVARIANTS
  RecordedInitIsOwn
PROPERTIES
  RunningIsTrue
CHECK_DEADLOCK FALSE

SPECIFICATION Spec
CONSTANTS
  Procs = {p1, p2}
  Ids = {c1, c2}
  NoId = NoId
  Host = Host
  Pids = {q1, q2}
  NoPid = NoPid
  Owner <- OneSidecar
  Commands <- WithSidecars
  MaxStarts = 2
  Overlap = FALSE
  Faults = {"crash"}
SYMMETRY Symmetry
INVARIANTS
  TypeOK
  DeletedMeansGone
  StartedMeansRecorded
  MountsAreRecorded
  SidecarsGoFirst
CHECK_DEADLOCK FALSE

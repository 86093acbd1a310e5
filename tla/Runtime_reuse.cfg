SPECIFICATION Spec
CONSTANTS
  Procs = {p1}
  Ids = {c1, c2}
  NoId = NoId
  Host = Host
  Pids = {q1, q2}
  NoPid = NoPid
  Owner <- NoSidecars
  Commands <- Lifecycle
  MaxStarts = 3
  Overlap = FALSE
  Faults = {}
SYMMETRY Symmetry
PROPERTIES
  UnmountsOwnVolume
CHECK_DEADLOCK FALSE

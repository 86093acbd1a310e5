SPECIFICATION Spec
CONSTANTS
  Procs = {p1, p2}
  Handles = {h1, h2}
  NoHandle = NoHandle
  Ports = {40000, 40001}
  Commands <- SomeCommands
  MaxFails = 2
  Faults = {"crash", "com", "netsh", "pool"}
INVARIANTS
  CleanupMeansClean
  LiveRulesLast
PROPERTIES
  CleanupEnds

SPECIFICATION Spec
CONSTANTS
  Procs = {p1, p2}
  Handles = {h1}
  NoHandle = NoHandle
  Eids = {e1, e2}
  NoEid = NoEid
  Ports = {40000}
  Commands <- AllInputs
  MaxNetworks = 2
  AllowOutbound = TRUE
  DNSServers = FALSE
  ConfigMTU = "zero"
  UpOnce = TRUE
  MayLose = TRUE
  Faults = {"crash", "pool", "hns", "stdout"}
SYMMETRY Symmetry
INVARIANTS
  TypeOK
  DownMeansClean
  CreatedAsConfigured
  PoliciesFitInputs
  MtuFollowsNetwork

SPECIFICATION Spec
CONSTANTS
  Procs = {p1}
  Handles = {h1}
  NoHandle = NoHandle
  Eids = {e1, e2}
  NoEid = NoEid
  Ports = {40000}
  Commands <- NetInOnly
  MaxNetworks = 1
  AllowOutbound = TRUE
  DNSServers = FALSE
  ConfigMTU = "zero"
  UpOnce = TRUE
  MayLose = TRUE
  Faults = {}
SYMMETRY Symmetry
INVARIANT
  BlockedWithoutNetOut

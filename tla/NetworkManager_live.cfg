SPECIFICATION Spec
CONSTANTS
  Procs = {p1, p2}
  Handles = {h1, h2}
  NoHandle = NoHandle
  Eids = {e1, e2, e3}
  NoEid = NoEid
  Ports = {40000, 40001}
  Commands <- TwoPorts
  MaxNetworks = 1
  AllowOutbound = FALSE
  DNSServers = FALSE
  ConfigMTU = "config"
  UpOnce = TRUE
  MayLose = FALSE
  Faults = {"hns", "netsh", "mtu", "pool"}
SYMMETRY Symmetry
INVARIANTS
  LiveNetworksLast
  LivePortsApart
  FailedUpLeavesNothing

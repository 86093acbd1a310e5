SPECIFICATION FairSpec
CONSTANTS
  Procs = {p1, p2}
  Handles = {h1, h2}
  NoHandle = NoHandle
  NoProc = NoProc
  StartPort = 40000
  Capacity = 2
  HostPorts <- MCHostPorts
  Faults = {"crash", "io"}
  OnePerHandle = TRUE
INVARIANTS
  TypeOK
  ToldPortsAreOwned
  NoPortToldTwice
  PoolInv
PROPERTIES
  ReplyIsRecorded
  PoolSpec
  LockIsReleased

-------------------------- MODULE MCPortAllocator --------------------------
(***************************************************************************)
(* Small instances of PortAllocator: the pool is small enough to run out   *)
(* and the ports that callers name are its two ends and the port after it.  *)
(***************************************************************************)
EXTENDS PortAllocator, TLC

MCHostPorts == {StartPort, StartPort + Capacity - 1, StartPort + Capacity}

Symmetry == Permutations(Procs) \cup Permutations(Handles)
=============================================================================

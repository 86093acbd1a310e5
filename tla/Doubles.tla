------------------------------ MODULE Doubles ------------------------------
(***************************************************************************)
(* The test doubles of the repository: the methods of each one in the      *)
(* order in which Invocations locks them, with the number of arguments and *)
(* results.  Every method is as module TestDouble has it.                  *)
(***************************************************************************)
EXTENDS Integers

M(name, args, results) == [name |-> name, args |-> args, results |-> results]

\* hcs/fakes
Container ==
  <<M("Close", 0, 1), M("CreateProcess", 1, 2), M("HasPendingUpdates", 0, 2),
    M("MappedVirtualDisks", 0, 2), M("Modify", 1, 1), M("OpenProcess", 1, 2),
    M("Pause", 0, 1), M("ProcessList", 0, 2), M("Resume", 0, 1),
    M("Shutdown", 0, 1), M("Start", 0, 1), M("Statistics", 0, 2),
    M("Terminate", 0, 1), M("Wait", 0, 1), M("WaitTimeout", 1, 1)>>
Process ==
  <<M("Close", 0, 1), M("CloseStdin", 0, 1), M("ExitCode", 0, 2),
    M("Kill", 0, 1), M("Pid", 0, 1), M("ResizeConsole", 2, 1), M("Stdio", 0, 4),
    M("Wait", 0, 1), M("WaitTimeout", 1, 1)>>

\* network/endpoint/fakes
EndpointHCSClient ==
  <<M("CreateEndpoint", 1, 2), M("DeleteEndpoint", 1, 2),
    M("GetHNSEndpointByID", 1, 2), M("GetHNSEndpointByName", 1, 2),
    M("GetHNSNetworkByName", 1, 2), M("HotAttachEndpoint", 3, 1),
    M("HotDetachEndpoint", 2, 1), M("UpdateEndpoint", 1, 2)>>

\* network/fakes
EndpointManager ==
  <<M("ApplyPolicies", 3, 2), M("Create", 0, 2), M("Delete", 0, 1)>>
NetworkHCSClient ==
  <<M("CreateNetwork", 2, 2), M("DeleteNetwork", 1, 2),
    M("GetHNSNetworkByName", 1, 2)>>
Mtu ==
  <<M("SetContainer", 1, 1), M("SetNat", 1, 1)>>
NetRuleApplier ==
  <<M("Cleanup", 0, 1), M("In", 2, 3), M("OpenPort", 1, 1), M("Out", 2, 2)>>

\* network/mtu/fakes
NetInterface ==
  <<M("ByIP", 1, 2), M("ByName", 1, 2), M("GetMTU", 2, 2), M("SetMTU", 3, 1)>>

\* network/netrules/fakes
NetShRunner ==
  <<M("RunContainer", 1, 1)>>
PortAllocator ==
  <<M("AllocatePort", 2, 2), M("ReleaseAllPorts", 1, 1)>>

\* network/netrules/firewallapplier/fakes
Firewall ==
  <<M("CreateRule", 1, 1), M("DeleteRule", 1, 1), M("RuleExists", 1, 2)>>
FirewallNetShRunner ==
  <<M("RunContainer", 1, 1)>>
FirewallPortAllocator ==
  <<M("AllocatePort", 2, 2), M("ReleaseAllPorts", 1, 1)>>

\* network/netsh/fakes
NetShHCSClient ==
  <<M("OpenContainer", 1, 2)>>

\* network/port_allocator/fakes
Tracker ==
  <<M("AcquireOne", 2, 2), M("InRange", 1, 1), M("ReleaseAll", 2, 1)>>

\* network/port_allocator/serial/fakes
OverwriteableFile ==
  <<M("Read", 1, 2), M("Seek", 2, 2), M("Truncate", 1, 1), M("Write", 1, 2)>>
Serializer ==
  <<M("DecodeAll", 2, 1), M("EncodeAndOverwrite", 2, 1)>>

\* runtime/container/fakes
ContainerHCSClient ==
  <<M("CreateContainer", 2, 2), M("GetContainerProperties", 1, 2),
    M("GetContainers", 1, 2), M("GetHNSEndpointByName", 1, 2),
    M("IsPending", 1, 1), M("NameToGuid", 1, 2), M("OpenContainer", 1, 2)>>

\* runtime/fakes
ContainerFactory ==
  <<M("NewManager", 3, 1)>>
ContainerManager ==
  <<M("Create", 2, 1), M("CredentialSpecFromEnv", 5, 2),
    M("CredentialSpecFromFile", 1, 2), M("Delete", 1, 1), M("Exec", 2, 2),
    M("Spec", 1, 2), M("Stats", 0, 2)>>
HCSQuery ==
  <<M("GetContainers", 1, 2)>>
Mounter ==
  <<M("Mount", 3, 1), M("Unmount", 1, 1)>>
ProcessWrapper ==
  <<M("Wrap", 1, 1)>>
StateFactory ==
  <<M("NewManager", 5, 1)>>
StateManager ==
  <<M("Delete", 0, 1), M("Initialize", 1, 1), M("SetFailure", 0, 1),
    M("SetSuccess", 1, 1), M("State", 0, 2)>>
WrappedProcess ==
  <<M("AttachIO", 3, 2), M("SetInterrupt", 1, 0), M("WritePIDFile", 1, 1)>>

\* runtime/state/fakes
StateHCSClient ==
  <<M("GetContainerProperties", 1, 2)>>
WinSyscall ==
  <<M("CloseHandle", 1, 1), M("GetExitCodeProcess", 1, 2),
    M("GetProcessStartTime", 1, 2), M("OpenProcess", 3, 2)>>

AllDoubles ==
  {Container, Process, EndpointHCSClient, EndpointManager, NetworkHCSClient,
   Mtu, NetRuleApplier, NetInterface, NetShRunner, PortAllocator, Firewall,
   FirewallNetShRunner, FirewallPortAllocator, NetShHCSClient, Tracker,
   OverwriteableFile, Serializer, ContainerHCSClient, ContainerFactory,
   ContainerManager, HCSQuery, Mounter, ProcessWrapper, StateFactory,
   StateManager, WrappedProcess, StateHCSClient, WinSyscall}
=============================================================================

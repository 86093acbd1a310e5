-------------------------------- MODULE Mtu --------------------------------
(***************************************************************************)
(* network/mtu and network/netinterface: the MTU of the interfaces that    *)
(* HNS makes for the NAT network and for the containers' endpoints.        *)
(*                                                                         *)
(* An interface is found by its alias, which is made from the name of the  *)
(* network or of the container, and not by the endpoint's id.  MTUs are    *)
(* told apart only by where they come from: HNS's default, the host's own  *)
(* interface, or the configuration.                                        *)
(***************************************************************************)
EXTENDS EndpointManager

\* getAdapterInfoByName for the alias of a container's endpoint; it is in the
\* container's compartment as long as it is attached
Interfaces(h) == {e \in Named(h) : eps[e].attached}

\* InterfaceExists, for the alias of the NAT network
InterfaceExists == nat.id # 0

\* getAdapterInfoByName or GetIpInterfaceEntry may fail.
InterfaceFails == "mtu" \in Faults

\* GetMTU of the NAT network's interface
GetMTU(p, ok, bad) ==
  /\ \/ /\ InterfaceExists
        /\ mtu' = [mtu EXCEPT ![p] = nat.mtu]
        /\ early' = IF nat.mtu = "default" THEN early \cup {cmd[p].handle}
                                           ELSE early \ {cmd[p].handle}
        /\ Go(p, ok)
     \/ /\ ~InterfaceExists \/ InterfaceFails
        /\ Go(p, bad)
        /\ UNCHANGED <<mtu, early>>
  /\ UNCHANGED <<hostVars, poolVars, inputVars, ep, tries, phase, doomed>>

\* SetMTU of a container's interface
SetMTU(p, value, ok, bad) ==
  LET found == Interfaces(cmd[p].handle)
  IN
  /\ \/ /\ \E e \in found : eps' = [eps EXCEPT ![e].mtu = value]
        /\ Go(p, ok)
     \/ /\ found = {} \/ InterfaceFails
        /\ Go(p, bad)
        /\ UNCHANGED eps
  /\ UNCHANGED <<nat, made, cont, poolVars, inputVars, ep, tries, mtu, historyVars>>

\* Faulty variant: an MTU that is not configured is not set.
SetContainerUnset(p, ok, bad) ==
  /\ pc[p] = "mtu"
  /\ IF ConfigMTU = "zero" THEN Skip(p, ok) ELSE SetMTU(p, ConfigMTU, ok, bad)

\* SetContainer: with the MTU of the configuration or, if it has none, the one the
\* NAT network has at that moment
SetContainer(p, ok, bad) ==
  \/ pc[p] = "mtu" /\ ConfigMTU = "zero" /\ GetMTU(p, To("mtu.set"), bad)
  \/ pc[p] = "mtu" /\ ConfigMTU # "zero" /\ SetMTU(p, ConfigMTU, ok, bad)
  \/ pc[p] = "mtu.set" /\ SetMTU(p, mtu[p], ok, bad)

\* ByIP finds the host's own interface, or fails; its MTU does not change.
HostMTU == "host"

\* SetNat, with the MTU of the configuration or the host's
SetNat(p, ok, bad) ==
  /\ pc[p] = "nat.mtu"
  /\ \/ /\ InterfaceExists
        /\ nat' = [nat EXCEPT !.mtu = IF ConfigMTU = "zero" THEN HostMTU ELSE ConfigMTU]
        /\ Go(p, ok)
     \/ /\ ~InterfaceExists \/ InterfaceFails
        /\ Go(p, bad)
        /\ UNCHANGED nat
  /\ UNCHANGED <<made, eps, cont, poolVars, inputVars, ep, tries, mtu, historyVars>>
=============================================================================

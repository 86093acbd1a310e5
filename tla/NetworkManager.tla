--------------------------- MODULE NetworkManager ---------------------------
(***************************************************************************)
(* network: the commands of winc-network, composed from the endpoint       *)
(* manager, the net rule applier, the MTU setter and the port allocator.   *)
(* The allocator appears as the abstract pool that PortAllocator           *)
(* implements: a call of it takes effect in one step.                      *)
(***************************************************************************)
EXTENDS Mtu

CONSTANT MayLose  \* TRUE when a rewrite of the pool's file may be cut short

Pool == INSTANCE PortPool

NoCommand == [op |-> "none", handle |-> NoHandle]

Init ==
  /\ nat = NoNetwork
  /\ made = 0
  /\ eps = [e \in Eids |-> NoEndpoint]
  /\ cont = [h \in Handles |-> FALSE]
  /\ Pool!Init
  /\ pc = [p \in Procs |-> "idle"]
  /\ cmd = [p \in Procs |-> NoCommand]
  /\ net = [p \in Procs |-> 0]
  /\ ep = [p \in Procs |-> NoEid]
  /\ tries = [p \in Procs |-> 0]
  /\ rule = [p \in Procs |-> 0]
  /\ nats = [p \in Procs |-> {}]
  /\ acls = [p \in Procs |-> {}]
  /\ mtu = [p \in Procs |-> "none"]
  /\ result = [p \in Procs |-> "ok"]
  /\ phase = [h \in Handles |-> "down"]
  /\ doomed = {}
  /\ early = {}

-----------------------------------------------------------------------------
(* Commands begin and end                                                  *)

\* garden runs one command per container at a time; nothing orders the commands
\* for the network.
MayBegin(k) ==
  /\ \A q \in Procs : pc[q] # "idle" /\ cmd[q].handle = k.handle => k.handle \notin Handles
  /\ UpOnce /\ k.op = "up" => phase[k.handle] = "down"

FirstStep == [create |-> "nat.get", delete |-> "nat.find",
              up |-> "ep.network", down |-> "find"]

Begin(p) ==
  \E k \in Commands :
    /\ pc[p] = "idle"
    /\ MayBegin(k)
    /\ pc' = [pc EXCEPT ![p] = FirstStep[k.op]]
    /\ cmd' = [cmd EXCEPT ![p] = k]
    /\ phase' = IF k.handle \in Handles THEN [phase EXCEPT ![k.handle] = "begun"]
                                        ELSE phase
    /\ UNCHANGED <<hostVars, poolVars, net, ep, tries, rule, nats, acls, mtu,
                   result, doomed, early>>

\* The process is gone with all its locals.
ProcessGone(p) ==
  /\ pc' = [pc EXCEPT ![p] = "idle"]
  /\ cmd' = [cmd EXCEPT ![p] = NoCommand]
  /\ net' = [net EXCEPT ![p] = 0]
  /\ ep' = [ep EXCEPT ![p] = NoEid]
  /\ tries' = [tries EXCEPT ![p] = 0]
  /\ rule' = [rule EXCEPT ![p] = 0]
  /\ nats' = [nats EXCEPT ![p] = {}]
  /\ acls' = [acls EXCEPT ![p] = {}]
  /\ mtu' = [mtu EXCEPT ![p] = "none"]
  /\ result' = [result EXCEPT ![p] = "ok"]

Return(p) ==
  /\ pc[p] = "exit"
  /\ ProcessGone(p)
  /\ phase' = IF result[p] # "ok" \/ cmd[p].handle \notin Handles THEN phase
              ELSE [phase EXCEPT ![cmd[p].handle] = IF cmd[p].op = "up" THEN "live" ELSE "down"]
  /\ UNCHANGED <<hostVars, poolVars, doomed, early>>

\* A process killed in a call of the port allocator may cut the file.
Crash(p) ==
  /\ "crash" \in Faults
  /\ pc[p] \notin {"idle", "exit"}
  /\ ProcessGone(p)
  /\ \/ UNCHANGED poolVars
     \/ pc[p] \in {"in", "undo", "clean"} /\ Pool!Lose
  /\ UNCHANGED <<hostVars, historyVars>>

-----------------------------------------------------------------------------
(* The net rule applier                                                    *)

\* A failing AllocatePort or ReleaseAllPorts changes nothing or loses the pool.
PoolFails == UNCHANGED poolVars \/ ("pool" \in Faults /\ Pool!Lose)

\* Faulty variant: a port is chosen without asking the port allocator.
InUnallocated(p, next, bad) ==
  /\ pc[p] = "in"
  /\ \/ /\ rule[p] = Len(cmd[p].in)
        /\ Go(p, To(next))
        /\ UNCHANGED <<rule, nats, acls>>
     \/ /\ rule[p] < Len(cmd[p].in)
        /\ nats' = [nats EXCEPT ![p] = @ \cup {CHOOSE n \in Ports : TRUE}]
        /\ rule' = [rule EXCEPT ![p] = @ + 1]
        /\ acls' = [acls EXCEPT ![p] = @ \cup {"allowIn"}]
        /\ Go(p, To("in"))
  /\ UNCHANGED <<hostVars, poolVars, cmd, net, ep, tries, mtu, historyVars>>

\* Applier.In, once per NetIn rule: only for HostPort 0 a port is allocated.
In(p, next, bad) ==
  LET h == cmd[p].handle
      i == rule[p] + 1
      host == cmd[p].in[i]
  IN
  /\ pc[p] = "in"
  /\ \/ /\ rule[p] = Len(cmd[p].in)
        /\ Go(p, To(next))
        /\ UNCHANGED <<poolVars, rule, nats, acls>>
     \/ /\ rule[p] < Len(cmd[p].in)
        /\ \/ /\ host # 0
              /\ nats' = [nats EXCEPT ![p] = @ \cup {host}]
              /\ UNCHANGED poolVars
           \/ /\ host = 0
              /\ Pool!Acquire(h)
              /\ nats' = [nats EXCEPT ![p] = @ \cup (acquired'[h] \ acquired[h])]
        /\ rule' = [rule EXCEPT ![p] = i]
        /\ acls' = [acls EXCEPT ![p] = @ \cup {"allowIn"}]
        /\ Go(p, To("in"))
     \/ /\ rule[p] < Len(cmd[p].in) /\ host = 0
        /\ \/ "pool" \in Faults
           \/ ~readable
           \/ \A n \in Ports : \E g \in Handles : n \in acquired[g]
        /\ PoolFails
        /\ Go(p, bad)
        /\ UNCHANGED <<rule, nats, acls>>
  /\ UNCHANGED <<hostVars, cmd, net, ep, tries, mtu, historyVars>>

\* Runner.RunContainer: netsh cannot be started, does not end in time, or fails
NetshFails(h) == ~cont[h] \/ "netsh" \in Faults

\* OpenPort for each port of Properties["ports"], by netsh in the container
OpenPorts(p, ok, bad) ==
  /\ pc[p] = "ports"
  /\ \/ cmd[p].ports \in {"none", "other"} /\ Skip(p, ok)
     \/ cmd[p].ports = "list" /\ cont[cmd[p].handle] /\ Skip(p, ok)
     \/ /\ \/ cmd[p].ports = "invalid"
           \/ cmd[p].ports = "list" /\ NetshFails(cmd[p].handle)
        /\ Skip(p, bad)

\* Inputs that are empty get a rule that allows all outbound traffic, if the
\* configuration says so; every DNS server gets two rules.
IsEmpty(k) == k.in = <<>> /\ k.out = "none" /\ k.ports = "none"

HasNetOut(k) == k.out # "none" \/ DNSServers \/ (IsEmpty(k) /\ AllowOutbound)

\* Faulty variant: the rules have no direction.
OutUndirected(p, ok, bad) ==
  /\ pc[p] = "out"
  /\ acls' = [acls EXCEPT ![p] = @ \cup {"allow"}]
  /\ Go(p, ok)
  /\ UNCHANGED <<hostVars, poolVars, cmd, net, ep, tries, rule, nats, mtu, historyVars>>

\* Applier.Out, for all NetOut rules
Out(p, ok, bad) ==
  /\ pc[p] = "out"
  /\ \/ /\ cmd[p].out # "invalid"
        /\ acls' = [acls EXCEPT ![p] =
                      @ \cup (IF HasNetOut(cmd[p]) THEN {"allowOut"} ELSE {})]
        /\ Go(p, ok)
     \/ /\ cmd[p].out = "invalid"
        /\ Go(p, bad)
        /\ UNCHANGED acls
  /\ UNCHANGED <<hostVars, poolVars, cmd, net, ep, tries, rule, nats, mtu, historyVars>>

\* Applier.Cleanup
Cleanup(p, here, ok, bad) ==
  /\ pc[p] = here
  /\ \/ Pool!Release(cmd[p].handle) /\ Go(p, ok)
     \/ ("pool" \in Faults \/ ~readable) /\ PoolFails /\ Go(p, bad)
  /\ UNCHANGED <<hostVars, inputVars, ep, tries, mtu, historyVars>>

\* The outputs are printed last, by main.  If that fails nothing is undone.
PrintOutputs(p, ok, bad) ==
  /\ pc[p] = "print"
  /\ Skip(p, ok) \/ ("stdout" \in Faults /\ Skip(p, bad))

-----------------------------------------------------------------------------
(* The commands                                                            *)

\* Faulty variant: up that fails keeps the ports it has allocated.
UpKeepsPorts(p) ==
  /\ cmd[p].op = "up"
  /\ \/ CreateEndpoint(p, To("in"), Err("find"))
     \/ In(p, "ports", Err("find"))
     \/ OpenPorts(p, To("out"), Err("find"))
     \/ Out(p, To("apply"), Err("find"))
     \/ ApplyPolicies(p, To("mtu"), Err("find"))
     \/ SetContainer(p, To("print"), Err("find"))
     \/ PrintOutputs(p, To("exit"), Unclean("exit"))
     \/ DeleteEndpoint(p, "exit")

UpCommand(p) ==
  /\ cmd[p].op = "up"
  /\ \/ CreateEndpoint(p, To("in"), Err("undo"))
     \/ In(p, "ports", Err("undo"))
     \/ OpenPorts(p, To("out"), Err("undo"))
     \/ Out(p, To("apply"), Err("undo"))
     \/ ApplyPolicies(p, To("mtu"), Err("undo"))
     \/ SetContainer(p, To("print"), Err("undo"))
     \/ PrintOutputs(p, To("exit"), Unclean("exit"))
     \/ Cleanup(p, "undo", To("find"), Unclean("find"))
     \/ DeleteEndpoint(p, "exit")

\* Faulty variant: down leaves the ports allocated.
DownKeepsPorts(p) ==
  /\ cmd[p].op = "down"
  /\ DeleteEndpoint(p, "exit")

\* Down deletes the endpoint first and releases its ports in any case.
DownCommand(p) ==
  /\ cmd[p].op = "down"
  /\ \/ DeleteEndpoint(p, "clean")
     \/ Cleanup(p, "clean", To("exit"), Unclean("exit"))

\* GetHNSNetworkByName, when there is a network: p has its id from then on.
Found(p, ok) ==
  /\ net' = [net EXCEPT ![p] = nat.id]
  /\ Go(p, ok)
  /\ UNCHANGED <<hostVars, poolVars, cmd, rule, nats, acls, ep, tries, mtu, phase, early>>

\* hcs.Client.CreateNetwork waits, not for ever, for the network's interface.
CreateNetwork(p, ok, bad) ==
  \/ /\ pc[p] = "nat.create"
     /\ \/ /\ nat.id = 0 /\ made < MaxNetworks
           /\ nat' = [id |-> made + 1, subnet |-> cmd[p].subnet, mtu |-> "default"]
           /\ made' = made + 1
           /\ net' = [net EXCEPT ![p] = made + 1]
           /\ Go(p, To("nat.ready"))
           /\ UNCHANGED tries
        \/ /\ nat.id # 0 \/ made = MaxNetworks \/ "hns" \in Faults
           /\ \E e \in HNSErrors : Retry(p, e, ErrElmNotFound, "nat.create", bad)
           /\ UNCHANGED <<nat, made, net>>
     /\ UNCHANGED <<eps, cont, poolVars, cmd, rule, nats, acls, ep, mtu, historyVars>>
  \/ /\ pc[p] = "nat.ready"
     /\ \/ InterfaceExists /\ Skip(p, ok)
        \/ (~InterfaceExists \/ "hns" \in Faults) /\ Skip(p, bad)

\* CreateHostNATNetwork.  A network of that name with the same subnet will do as
\* it is.
CreateCommand(p) ==
  /\ cmd[p].op = "create"
  /\ \/ /\ pc[p] = "nat.get"
        /\ \/ nat.id = 0 /\ cmd[p].suffix /\ Skip(p, To("nat.create"))
           \/ /\ nat.id # 0 /\ nat.subnet = cmd[p].subnet
              /\ Found(p, To("exit"))
              /\ UNCHANGED doomed
           \/ /\ \/ nat.id # 0 /\ nat.subnet # cmd[p].subnet
                 \/ nat.id = 0 /\ ~cmd[p].suffix
                 \/ "hns" \in Faults
              /\ Skip(p, Err("exit"))
     \/ CreateNetwork(p, To("nat.mtu"), Err("exit"))
     \/ SetNat(p, To("exit"), Err("exit"))

\* HNS deletes a network, and its endpoints with it.
DeleteNetwork(id) ==
  /\ nat' = NoNetwork
  /\ eps' = [e \in Eids |-> IF eps[e].net = id THEN NoEndpoint ELSE eps[e]]

\* Faulty variant: what is deleted is the network that has the name by then.
DeleteByName(p) ==
  /\ cmd[p].op = "delete"
  /\ \/ /\ pc[p] = "nat.find"
        /\ nat.id # 0
        /\ Found(p, To("nat.delete"))
        /\ doomed' = doomed \cup {nat.id}
     \/ /\ pc[p] = "nat.delete"
        /\ DeleteNetwork(nat.id)
        /\ Go(p, To("exit"))
        /\ UNCHANGED <<made, cont, poolVars, inputVars, ep, tries, mtu, historyVars>>

\* DeleteHostNATNetwork deletes the network it has looked up, by its id.
DeleteCommand(p) ==
  /\ cmd[p].op = "delete"
  /\ \/ /\ pc[p] = "nat.find"
        /\ \/ /\ nat.id # 0
              /\ Found(p, To("nat.delete"))
              /\ doomed' = doomed \cup {nat.id}
           \/ nat.id = 0 /\ Skip(p, To("exit"))
           \/ "hns" \in Faults /\ Skip(p, Err("exit"))
     \/ /\ pc[p] = "nat.delete"
        /\ \/ nat.id = net[p] /\ DeleteNetwork(net[p]) /\ Go(p, To("exit"))
           \/ /\ nat.id # net[p] \/ "hns" \in Faults
              /\ Go(p, Err("exit"))
              /\ UNCHANGED <<nat, eps>>
        /\ UNCHANGED <<made, cont, poolVars, inputVars, ep, tries, mtu, historyVars>>

-----------------------------------------------------------------------------
(* winc creates and deletes the containers meanwhile.                      *)

ContainerStarts ==
  \E h \in Handles :
    /\ ~cont[h]
    /\ cont' = [cont EXCEPT ![h] = TRUE]
    /\ UNCHANGED <<nat, made, eps, poolVars, pc, inputVars, ep, tries, mtu,
                   result, historyVars>>

ContainerStops ==
  \E h \in Handles :
    /\ cont[h]
    /\ cont' = [cont EXCEPT ![h] = FALSE]
    /\ eps' = [e \in Eids |-> IF eps[e].name = h
                                THEN [eps[e] EXCEPT !.attached = FALSE] ELSE eps[e]]
    /\ UNCHANGED <<nat, made, poolVars, pc, inputVars, ep, tries, mtu, result,
                   historyVars>>

Step(p) ==
  \/ UpCommand(p) \/ DownCommand(p) \/ CreateCommand(p) \/ DeleteCommand(p)
  \/ Return(p)

Next ==
  \/ \E p \in Procs : Begin(p) \/ Step(p) \/ Crash(p)
  \/ ContainerStarts \/ ContainerStops

Spec == Init /\ [][Next]_vars

-----------------------------------------------------------------------------
(* Properties                                                              *)

Steps ==
  {"idle", "exit", "ep.network", "ep.create", "ep.attach", "ep.ready", "ep.undo",
   "in", "ports", "out", "apply", "mtu", "mtu.set", "print", "undo", "find", "detach",
   "remove", "clean", "nat.get", "nat.create", "nat.ready", "nat.mtu", "nat.find",
   "nat.delete"}

MTUs == {"default", "host", "config"}

HostPorts ==
  (UNION {{k.in[i] : i \in DOMAIN k.in} : k \in {c \in Commands : c.op = "up"}}) \ {0}

Networks == [id : 0..MaxNetworks, subnet : {"a", "b"}, mtu : MTUs \cup {"none"}]

Endpoints == [name : Handles \cup {NoHandle},
              net : 0..MaxNetworks,
              attached : BOOLEAN,
              nats : SUBSET (Ports \cup HostPorts),
              acls : SUBSET {"allowIn", "allowOut", "blockIn", "blockOut"},
              mtu : MTUs \cup {"none"}]

\* The variables have the shapes of the Go and HNS types they model.
TypeOK ==
  /\ nat \in Networks
  /\ made \in 0..MaxNetworks
  /\ eps \in [Eids -> Endpoints]
  /\ cont \in [Handles -> BOOLEAN]
  /\ acquired \in [Handles -> SUBSET Ports] /\ readable \in BOOLEAN
  /\ pc \in [Procs -> Steps]
  /\ cmd \in [Procs -> Commands \cup {NoCommand}]
  /\ net \in [Procs -> 0..MaxNetworks]
  /\ ep \in [Procs -> Eids \cup {NoEid}]
  /\ tries \in [Procs -> 0..3]
  /\ rule \in [Procs -> Nat]
  /\ nats \in [Procs -> SUBSET (Ports \cup HostPorts)]
  /\ acls \in [Procs -> SUBSET {"allowIn", "allowOut"}]
  /\ mtu \in [Procs -> MTUs \cup {"none"}]
  /\ result \in [Procs -> {"ok", "error", "unclean"}]
  /\ phase \in [Handles -> {"down", "begun", "live"}]
  /\ doomed \subseteq 1..MaxNetworks /\ early \subseteq Handles

NetworkStays == \A k \in Commands : k.op # "delete"

\* As long as the NAT network is not deleted, a container whose up succeeded
\* keeps its network until its down, whatever the commands for other containers
\* do: it has one endpoint, with policies on it, and every pool port the
\* endpoint maps is acquired for this container.
LiveNetworksLast ==
  NetworkStays =>
    \A h \in Handles : phase[h] = "live" =>
      \E e \in Eids :
        /\ Named(h) = {e}
        /\ eps[e].acls # {}
        /\ eps[e].nats \cap Ports \subseteq acquired[h]

\* No two containers that are up map the same pool port, whatever failed and
\* was cleaned up between their ups.
LivePortsApart ==
  \A e, f \in Eids :
    /\ e # f /\ Used(e) /\ Used(f)
    /\ phase[eps[e].name] = "live" /\ phase[eps[f].name] = "live"
    => eps[e].nats \cap eps[f].nats \cap Ports = {}

\* down that reports success has left neither an endpoint nor a port, also when
\* the up before it failed, was killed, or the container is gone already.
DownMeansClean ==
  \A p \in Procs :
    pc[p] = "exit" /\ cmd[p].op = "down" /\ result[p] = "ok" =>
      Named(cmd[p].handle) = {} /\ acquired[cmd[p].handle] = {}

\* up that fails "cleans up allocated ports, firewall rules and deletes the
\* endpoint", if no call of the cleanup fails.
FailedUpLeavesNothing ==
  \A p \in Procs :
    pc[p] = "exit" /\ cmd[p].op = "up" /\ result[p] = "error" =>
      Named(cmd[p].handle) = {} /\ acquired[cmd[p].handle] = {}

\* create that reports success has found or made a network with the subnet that
\* was asked for, and it is still there, unless a delete has looked up that very
\* network: a delete that comes late does not take a newer one.
CreatedAsConfigured ==
  \A p \in Procs :
    pc[p] = "exit" /\ cmd[p].op = "create" /\ result[p] = "ok" =>
      net[p] \in doomed \/ (nat.id = net[p] /\ nat.subnet = cmd[p].subnet)

\* The access rules of an endpoint whose up succeeded: traffic is allowed for the
\* directions that have rules, and all of it is blocked only if neither has.
ExpectedACLs(k) ==
  IF k.in = <<>> /\ ~HasNetOut(k) THEN {"blockIn", "blockOut"}
  ELSE {a \in {"allowIn", "allowOut"} :
          IF a = "allowIn" THEN k.in # <<>> ELSE HasNetOut(k)}

\* up that reports success has put one port mapping for each NetIn rule on the
\* endpoint and, unless its inputs have NetIn rules only, the access rules of its
\* inputs and no others.  (For NetIn rules only, see BlockedWithoutNetOut.)
PoliciesFitInputs ==
  \A p \in Procs : pc[p] = "exit" /\ cmd[p].op = "up" /\ result[p] = "ok" =>
    \A e \in Named(cmd[p].handle) :
      /\ Cardinality(eps[e].nats) = Len(cmd[p].in)
      /\ HasNetOut(cmd[p]) \/ cmd[p].in = <<>> => eps[e].acls = ExpectedACLs(cmd[p])

\* What the comment in ApplyPolicies says: "make sure everything's blocked if no
\* netout rules present".
BlockedWithoutNetOut ==
  \A p \in Procs : pc[p] = "exit" /\ cmd[p].op = "up" /\ result[p] = "ok" =>
    \A e \in Named(cmd[p].handle) :
      ~HasNetOut(cmd[p]) => "blockOut" \in eps[e].acls

\* A container that is up has the MTU of the configuration or, if there is none,
\* the MTU of the NAT network.  It has HNS's default if, and only if, a create was
\* still under way, or never came to its end, when its up read the MTU.
MtuFollowsNetwork ==
  \A e \in Eids : Used(e) /\ phase[eps[e].name] = "live" =>
    eps[e].mtu = IF ConfigMTU # "zero" THEN ConfigMTU
                 ELSE IF eps[e].name \in early THEN "default" ELSE nat.mtu
=============================================================================

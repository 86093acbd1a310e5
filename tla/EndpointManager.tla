-------------------------- MODULE EndpointManager --------------------------
(***************************************************************************)
(* network/endpoint and the part of hcs.Client behind it: the endpoint that *)
(* connects a container to the NAT network, kept by the Host Networking    *)
(* Service (HNS).                                                          *)
(*                                                                         *)
(* One element of Procs is the slot of one winc-network process.  As in    *)
(* WincHost, an operation takes the steps its caller resumes at.           *)
(***************************************************************************)
EXTENDS Integers, FiniteSets, Sequences

CONSTANTS
  Procs,        \* slots for concurrent winc-network processes
  Handles,      \* container handles
  NoHandle,     \* no handle
  Eids,         \* ids of HNS endpoints
  NoEid,        \* no endpoint
  Ports,        \* the host ports of the port allocator's pool
  Commands,     \* the winc-network commands that are run, see Command
  MaxNetworks,  \* bound on the number of NAT networks ever created
  AllowOutbound,\* Config.AllowOutboundTrafficByDefault
  DNSServers,   \* Config.DNSServers is not empty
  ConfigMTU,    \* Config.MTU: "zero" or "config"
  UpOnce,       \* TRUE: after an up comes a down before the next up
  Faults        \* what may go wrong, a subset of FaultKinds

FaultKinds == {"crash",  \* a winc-network process is killed
               "hns",    \* an HNS or HCS call fails, or is too slow
               "netsh",  \* netsh in the container fails or is too slow
               "mtu",    \* reading or setting an MTU fails
               "stdout", \* the outputs of up cannot be printed
               "pool"}   \* a call of the port allocator fails

Command == [op : {"create", "delete", "up", "down"},
            handle : Handles \cup {NoHandle},
            subnet : {"a", "b"},           \* create: Config.SubnetRange
            suffix : BOOLEAN,              \* create: Config.DNSSuffix is valid
            in : Seq(Nat),                 \* up: HostPort of each NetIn rule
            out : {"none", "rules", "invalid"},  \* up: NetOut
            \* up: Properties, by its "ports"; "other" has other keys only
            ports : {"none", "other", "list", "invalid"}]

ASSUME NetworkAssumption ==
  /\ NoHandle \notin Handles
  /\ NoEid \notin Eids
  /\ Ports \subseteq Nat \ {0}
  /\ Commands \subseteq Command
  /\ \A k \in Commands : k.handle \in Handles <=> k.op \in {"up", "down"}
  /\ MaxNetworks \in Nat
  /\ AllowOutbound \in BOOLEAN
  /\ DNSServers \in BOOLEAN
  /\ ConfigMTU \in {"zero", "config"}
  /\ UpOnce \in BOOLEAN
  /\ Faults \subseteq FaultKinds

VARIABLES
  nat,     \* HNS: the NAT network of the configured name; id 0: there is none
  made,    \* the number of NAT networks created so far
  eps,     \* HNS: the endpoints
  cont,    \* HCS: is the container of a handle there?
  acquired, readable,  \* the port allocator's pool, see PortPool
  pc,      \* where a winc-network process is
  cmd,     \* its command
  net,     \* the id of the network it looked up
  ep,      \* the endpoint it is working on
  tries,   \* attempts made in the retry loop it is in
  rule,    \* up: the number of NetIn rules done
  nats,    \* up: hnsNats, by the external port
  acls,    \* up: hnsAcls, by action and direction
  mtu,     \* up: the MTU it has read
  result,  \* "ok", "error", or "unclean" if something was not cleaned up
  phase,   \* history: "down", "begun" by an up, or "live" once it succeeded
  doomed,  \* history: ids of the networks that a delete has looked up
  early    \* history: handles whose up read the NAT network's MTU before a
           \* create had set it

hostVars == <<nat, made, eps, cont>>
poolVars == <<acquired, readable>>
inputVars == <<cmd, net, rule, nats, acls>>
historyVars == <<phase, doomed, early>>
vars == <<nat, made, eps, cont, acquired, readable, pc, cmd, net, ep, tries,
          rule, nats, acls, mtu, result, phase, doomed, early>>

NoNetwork == [id |-> 0, subnet |-> "a", mtu |-> "none"]

NoEndpoint == [name |-> NoHandle, net |-> 0, attached |-> FALSE, nats |-> {},
               acls |-> {}, mtu |-> "none"]

Used(e) == eps[e] # NoEndpoint

Named(h) == {e \in Eids : eps[e].name = h /\ Used(e)}

\* The endpoint a process works on is still there.  (HNS never uses an id again,
\* and a handle has one command at a time.)
Mine(p) == ep[p] \in Named(cmd[p].handle)

-----------------------------------------------------------------------------
(* Control                                                                 *)

To(l) == [at |-> l, result |-> "ok"]
Err(l) == [at |-> l, result |-> "error"]
Unclean(l) == [at |-> l, result |-> "unclean"]

\* The worse of two results
Worse(r, s) == IF "unclean" \in {r, s} THEN "unclean"
               ELSE IF "error" \in {r, s} THEN "error" ELSE "ok"

Go(p, k) ==
  /\ pc' = [pc EXCEPT ![p] = k.at]
  /\ result' = [result EXCEPT ![p] = Worse(@, k.result)]

Skip(p, k) ==
  /\ Go(p, k)
  /\ UNCHANGED <<hostVars, poolVars, inputVars, ep, tries, mtu, historyVars>>

-----------------------------------------------------------------------------
(* Errors of HNS, as hcsshim words them and as winc compares them          *)

HNSErrors == {"Unspecified error", "Element not found. ", "some other error"}

HNSError(e) == [prefix |-> "hns failed with error : ", text |-> e]

UnspecifiedError ==
  [prefix |-> "HNS failed with error : ", text |-> "Unspecified error"]

ErrElmNotFound ==
  [prefix |-> "network create: HNS failed with error : ",
   text |-> "Element not found. "]

\* The loops of createEndpoint and CreateNetwork after a failed attempt
Retry(p, e, retried, here, bad) ==
  /\ tries' = [tries EXCEPT ![p] = @ + 1]
  /\ Go(p, IF HNSError(e) = retried /\ tries[p] < 2 THEN To(here) ELSE bad)

-----------------------------------------------------------------------------
\* HotAttachEndpoint, and attachEndpoint's GetHNSEndpointByID: attach the endpoint
\* and wait, not for ever, until its interface is up.
HotAttachEndpoint(p, ok, bad) ==
  LET h == cmd[p].handle
  IN
  \/ /\ pc[p] = "ep.attach"
     /\ \/ /\ cont[h] /\ Mine(p)
           /\ eps' = [eps EXCEPT ![ep[p]].attached = TRUE]
           /\ Go(p, To("ep.ready"))
        \/ /\ ~cont[h] \/ ~Mine(p) \/ "hns" \in Faults
           /\ Go(p, bad)
           /\ UNCHANGED eps
     /\ UNCHANGED <<nat, made, cont, poolVars, inputVars, ep, tries, mtu, historyVars>>
  \/ /\ pc[p] = "ep.ready"
     /\ \/ Mine(p) /\ Skip(p, ok)
        \/ (~Mine(p) \/ ~cont[h] \/ "hns" \in Faults) /\ Skip(p, bad)

\* Create: look up the network, create the endpoint, attach it to the container
\* and wait until its interface is up; an endpoint that cannot be attached is
\* deleted again, and an error of that is only logged.
CreateEndpoint(p, ok, bad) ==
  LET h == cmd[p].handle
  IN
  \/ /\ pc[p] = "ep.network"
     /\ \/ /\ nat.id # 0
           /\ net' = [net EXCEPT ![p] = nat.id]
           /\ Go(p, To("ep.create"))
        \/ /\ nat.id = 0 \/ "hns" \in Faults
           /\ Go(p, bad)
           /\ UNCHANGED net
     /\ UNCHANGED <<hostVars, poolVars, cmd, rule, nats, acls, ep, tries, mtu, historyVars>>
  \/ /\ pc[p] = "ep.create"
     /\ \/ /\ nat.id = net[p]
           /\ \E e \in Eids :
                /\ ~Used(e)
                /\ eps' = [eps EXCEPT ![e] = [NoEndpoint EXCEPT !.name = h, !.net = net[p],
                                                               !.mtu = "default"]]
                /\ ep' = [ep EXCEPT ![p] = e]
           /\ Go(p, To("ep.attach"))
           /\ UNCHANGED tries
        \/ /\ nat.id # net[p] \/ "hns" \in Faults \/ \A e \in Eids : Used(e)
           /\ \E e \in HNSErrors : Retry(p, e, UnspecifiedError, "ep.create", bad)
           /\ UNCHANGED <<eps, ep>>
     /\ UNCHANGED <<nat, made, cont, poolVars, inputVars, mtu, historyVars>>
  \/ HotAttachEndpoint(p, ok, To("ep.undo"))
  \/ /\ pc[p] = "ep.undo"
     /\ \/ eps' = IF Mine(p) THEN [eps EXCEPT ![ep[p]] = NoEndpoint] ELSE eps
        \/ "hns" \in Faults /\ UNCHANGED eps
     /\ Go(p, bad)
     /\ UNCHANGED <<nat, made, cont, poolVars, inputVars, ep, tries, mtu, historyVars>>

\* Faulty variant: without rules nothing is blocked.
ApplyPoliciesOpen(p, ok, bad) ==
  /\ pc[p] = "apply"
  /\ Mine(p)
  /\ eps' = [eps EXCEPT ![ep[p]].nats = @ \cup nats[p], ![ep[p]].acls = acls[p]]
  /\ Go(p, ok)
  /\ UNCHANGED <<nat, made, cont, poolVars, inputVars, ep, tries, mtu, historyVars>>

\* ApplyPolicies; an external port that another endpoint maps may be refused.
ApplyPolicies(p, ok, bad) ==
  /\ pc[p] = "apply"
  /\ \/ /\ Mine(p)
        /\ eps' = [eps EXCEPT
             ![ep[p]].nats = @ \cup nats[p],
             ![ep[p]].acls = @ \cup (IF acls[p] = {} THEN {"blockOut", "blockIn"}
                                                     ELSE acls[p])]
        /\ Go(p, ok)
     \/ /\ \/ ~Mine(p) \/ "hns" \in Faults
           \/ \E e \in Eids \ {ep[p]} : eps[e].nats \cap nats[p] # {}
        /\ Go(p, bad)
        /\ UNCHANGED eps
  /\ UNCHANGED <<nat, made, cont, poolVars, inputVars, ep, tries, mtu, historyVars>>

\* Faulty variant: the first endpoint listed is taken, whatever its name.
DeleteEndpointUnnamed(p, next) ==
  /\ pc[p] = "find"
  /\ eps' \in {[eps EXCEPT ![e] = NoEndpoint] : e \in Eids}
  /\ Go(p, To(next))
  /\ UNCHANGED <<nat, made, cont, poolVars, inputVars, ep, tries, mtu, historyVars>>

\* Delete finds an endpoint by the container's name and deletes it, whether or
\* not it can be detached; an endpoint that is not attached, or whose container
\* is missing, is no error.
DeleteEndpoint(p, next) ==
  LET h == cmd[p].handle
  IN
  \/ /\ pc[p] = "find"
     /\ \/ /\ \E e \in Named(h) : ep' = [ep EXCEPT ![p] = e]
           /\ Go(p, To("detach"))
        \/ /\ Named(h) = {}
           /\ Go(p, To(next))
           /\ UNCHANGED ep
        \/ /\ "hns" \in Faults
           /\ Go(p, Unclean(next))
           /\ UNCHANGED ep
     /\ UNCHANGED <<hostVars, poolVars, inputVars, tries, mtu, historyVars>>
  \/ /\ pc[p] = "detach"
     /\ \/ /\ Mine(p)
           /\ eps' = [eps EXCEPT ![ep[p]].attached = @ /\ ~cont[h]]
           /\ Go(p, To("remove"))
        \/ /\ ~Mine(p) \/ "hns" \in Faults
           /\ Go(p, Unclean("remove"))
           /\ UNCHANGED eps
     /\ UNCHANGED <<nat, made, cont, poolVars, inputVars, ep, tries, mtu, historyVars>>
  \/ /\ pc[p] = "remove"
     /\ \/ /\ Mine(p)
           /\ eps' = [eps EXCEPT ![ep[p]] = NoEndpoint]
           /\ Go(p, To(next))
        \/ /\ ~Mine(p) \/ "hns" \in Faults
           /\ Go(p, Unclean(next))
           /\ UNCHANGED eps
     /\ UNCHANGED <<nat, made, cont, poolVars, inputVars, ep, tries, mtu, historyVars>>
=============================================================================

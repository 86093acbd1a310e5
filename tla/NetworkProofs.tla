---------------------------- MODULE NetworkProofs ----------------------------
(***************************************************************************)
(* What is proved about NetworkManager, for every number of winc-network   *)
(* processes, containers, endpoints and ports.                             *)
(***************************************************************************)
EXTENDS NetworkManager, FiniteSetTheorems, TLAPS

-----------------------------------------------------------------------------
(* Types                                                                   *)

\* What the locals of a winc-network process are good for, given where it is
Control(p) ==
  /\ pc[p] = "idle" =>
       /\ cmd[p] = NoCommand /\ tries[p] = 0 /\ rule[p] = 0 /\ nats[p] = {} /\ acls[p] = {}
       /\ result[p] = "ok"
  /\ pc[p] # "idle" => cmd[p] \in Commands
  /\ pc[p] \in {"ep.network", "nat.get"} => tries[p] = 0
  /\ pc[p] \in {"ep.create", "nat.create"} => tries[p] \in 0..2

TypeInv == TypeOK /\ \A p \in Procs : Control(p)

\* Continuations of a command
Conts == [at : Steps \ {"idle"}, result : {"ok", "error", "unclean"}]

\* The locals of the other processes stay as they are.
Alone(p) ==
  \A q \in Procs \ {p} :
    /\ pc'[q] = pc[q] /\ cmd'[q] = cmd[q] /\ net'[q] = net[q] /\ ep'[q] = ep[q]
    /\ tries'[q] = tries[q] /\ rule'[q] = rule[q] /\ nats'[q] = nats[q] /\ acls'[q] = acls[q]
    /\ mtu'[q] = mtu[q] /\ result'[q] = result[q]

\* Continuations, field by field
LEMMA ContTypes ==
  ASSUME NEW l \in Steps \ {"idle"}
  PROVE  /\ To(l) \in Conts /\ To(l).at = l /\ To(l).result = "ok"
         /\ Err(l) \in Conts /\ Err(l).at = l /\ Err(l).result = "error"
         /\ Unclean(l) \in Conts /\ Unclean(l).at = l /\ Unclean(l).result = "unclean"
  BY DEF To, Err, Unclean, Conts

\* Where a step goes on, and what becomes of the result
LEMMA Goes ==
  ASSUME TypeOK, NEW p \in Procs
  PROVE  /\ \A l : Go(p, To(l)) => pc'[p] = l /\ result'[p] = result[p]
         /\ \A l : Go(p, Err(l)) => /\ pc'[p] = l /\ result'[p] \in {"error", "unclean"}
                                    /\ result[p] = "ok" => result'[p] = "error"
         /\ \A l : Go(p, Unclean(l)) => pc'[p] = l /\ result'[p] = "unclean"
  <1>1. pc \in [Procs -> Steps] /\ result \in [Procs -> {"ok", "error", "unclean"}]
    BY DEF TypeOK
  <1>2. ASSUME NEW k, Go(p, k)
        PROVE  pc'[p] = k.at /\ result'[p] = Worse(result[p], k.result)
    BY <1>1, <1>2 DEF Go
  <1>3. \A r \in {"ok", "error", "unclean"} :
          /\ Worse(r, "ok") = r /\ Worse(r, "unclean") = "unclean"
          /\ Worse(r, "error") \in {"error", "unclean"} /\ Worse("ok", "error") = "error"
    BY DEF Worse
  <1>4. result[p] \in {"ok", "error", "unclean"}
    BY <1>1
  <1>5. \A l : /\ To(l).at = l /\ To(l).result = "ok"
               /\ Err(l).at = l /\ Err(l).result = "error"
               /\ Unclean(l).at = l /\ Unclean(l).result = "unclean"
    BY DEF To, Err, Unclean
  <1>6. ASSUME NEW l, Go(p, To(l)) PROVE pc'[p] = l /\ result'[p] = result[p]
    BY <1>2, <1>3, <1>4, <1>5, <1>6
  <1>7. ASSUME NEW l, Go(p, Err(l))
        PROVE  /\ pc'[p] = l /\ result'[p] \in {"error", "unclean"}
               /\ result[p] = "ok" => result'[p] = "error"
    BY <1>2, <1>3, <1>4, <1>5, <1>7
  <1>8. ASSUME NEW l, Go(p, Unclean(l)) PROVE pc'[p] = l /\ result'[p] = "unclean"
    BY <1>2, <1>3, <1>4, <1>5, <1>8
  <1> QED
    BY <1>6, <1>7, <1>8

\* A continuation keeps the types.
LEMMA GoTypes ==
  ASSUME TypeOK, NEW p \in Procs, NEW k \in Conts, Go(p, k)
  PROVE  /\ pc' \in [Procs -> Steps] /\ result' \in [Procs -> {"ok", "error", "unclean"}]
         /\ \A q \in Procs \ {p} : pc'[q] = pc[q] /\ result'[q] = result[q]
         /\ pc'[p] = k.at /\ pc'[p] # "idle"
  <1>1. pc \in [Procs -> Steps] /\ result \in [Procs -> {"ok", "error", "unclean"}]
    BY DEF TypeOK
  <1>2. k.at \in Steps \ {"idle"} /\ k.result \in {"ok", "error", "unclean"}
    BY DEF Conts
  <1>3. Worse(result[p], k.result) \in {"ok", "error", "unclean"}
    BY DEF Worse
  <1> QED
    BY <1>1, <1>2, <1>3 DEF Go

\* A command for a container, and its inputs
LEMMA CommandTypes ==
  ASSUME NEW k \in Commands
  PROVE  /\ k.op \in {"create", "delete", "up", "down"}
         /\ k.handle \in Handles \cup {NoHandle}
         /\ k.handle \in Handles <=> k.op \in {"up", "down"}
         /\ k.subnet \in {"a", "b"} /\ k.in \in Seq(Nat)
  <1>1. k \in Command
    BY NetworkAssumption
  <1> QED
    BY <1>1, NetworkAssumption DEF Command

\* Host ports that are named in the inputs
LEMMA HostPortTypes ==
  ASSUME NEW k \in Commands, k.op = "up", NEW i \in DOMAIN k.in, k.in[i] # 0
  PROVE  k.in[i] \in HostPorts
  <1> DEFINE Ups == {c \in Commands : c.op = "up"}
             PortsIn(c) == {c.in[j] : j \in DOMAIN c.in}
  <1>1. k \in Ups /\ k.in[i] \in PortsIn(k)
    OBVIOUS
  <1>2. k.in[i] \in UNION {PortsIn(c) : c \in Ups}
    <2> HIDE DEF Ups, PortsIn
    <2> QED
      BY <1>1
  <1>3. HostPorts = (UNION {PortsIn(c) : c \in Ups}) \ {0}
    BY DEF HostPorts
  <1> HIDE DEF Ups, PortsIn
  <1> QED
    BY <1>2, <1>3

\* Endpoints, changed in the ways in which winc changes them
LEMMA EndpointTypes ==
  /\ NoEndpoint \in Endpoints
  /\ \A h \in Handles, n \in 0..MaxNetworks :
       [NoEndpoint EXCEPT !.name = h, !.net = n, !.mtu = "default"] \in Endpoints
  /\ \A r \in Endpoints :
       /\ \A b \in BOOLEAN : [r EXCEPT !.attached = b] \in Endpoints
       /\ \A m \in MTUs \cup {"none"} : [r EXCEPT !.mtu = m] \in Endpoints
       /\ \A s \in SUBSET (Ports \cup HostPorts),
             a \in SUBSET {"allowIn", "allowOut", "blockIn", "blockOut"} :
            [r EXCEPT !.nats = s, !.acls = a] \in Endpoints
  <1>1. 0 \in 0..MaxNetworks
    BY NetworkAssumption
  <1>2. NoEndpoint \in Endpoints
    BY <1>1 DEF NoEndpoint, Endpoints
  <1>3. ASSUME NEW h \in Handles, NEW n \in 0..MaxNetworks
        PROVE  [NoEndpoint EXCEPT !.name = h, !.net = n, !.mtu = "default"] \in Endpoints
    BY DEF NoEndpoint, Endpoints, MTUs
  <1>4. ASSUME NEW r \in Endpoints, NEW b \in BOOLEAN PROVE [r EXCEPT !.attached = b] \in Endpoints
    BY DEF Endpoints
  <1>5. ASSUME NEW r \in Endpoints, NEW m \in MTUs \cup {"none"}
        PROVE  [r EXCEPT !.mtu = m] \in Endpoints
    BY DEF Endpoints
  <1>6. ASSUME NEW r \in Endpoints, NEW s \in SUBSET (Ports \cup HostPorts),
               NEW a \in SUBSET {"allowIn", "allowOut", "blockIn", "blockOut"}
        PROVE  [r EXCEPT !.nats = s, !.acls = a] \in Endpoints
    BY DEF Endpoints
  <1> QED
    BY <1>2, <1>3, <1>4, <1>5, <1>6

\* What every step of a command keeps
Framed(p) == TypeOK' /\ Alone(p) /\ Control(p)' /\ pc'[p] # "idle" /\ cmd' = cmd

\* The steps of winc-network as labels
LEMMA ContsOf ==
  \A l \in Steps \ {"idle"} : To(l) \in Conts /\ Err(l) \in Conts /\ Unclean(l) \in Conts
  BY ContTypes

\* Skip keeps the types, unless it goes to a retry loop.
LEMMA SkipTypes ==
  ASSUME TypeInv, NEW p \in Procs, pc[p] # "idle", NEW k \in Conts, Skip(p, k),
         k.at \notin {"ep.network", "nat.get", "ep.create"},
         k.at = "nat.create" => tries[p] = 0
  PROVE  Framed(p)
  <1>0. TypeOK /\ Control(p)
    BY DEF TypeInv
  <1>1. /\ pc' \in [Procs -> Steps] /\ result' \in [Procs -> {"ok", "error", "unclean"}]
        /\ \A q \in Procs \ {p} : pc'[q] = pc[q] /\ result'[q] = result[q]
        /\ pc'[p] = k.at /\ pc'[p] # "idle"
    BY <1>0, GoTypes DEF Skip
  <1>2. UNCHANGED <<nat, made, eps, cont, acquired, readable, cmd, net, rule, nats, acls, ep, tries,
                    mtu, phase, doomed, early>>
    BY DEF Skip, hostVars, poolVars, historyVars, inputVars
  <1>3. TypeOK'
    BY <1>0, <1>1, <1>2 DEF TypeOK
  <1>4. Control(p)'
    BY <1>0, <1>1, <1>2 DEF Control
  <1> QED
    BY <1>1, <1>2, <1>3, <1>4 DEF Framed, Alone

\* A step that changes only the endpoints keeps the types if they do.
LEMMA EpsTypes ==
  ASSUME TypeInv, NEW p \in Procs, pc[p] # "idle", NEW k \in Conts, Go(p, k),
         k.at \notin {"ep.network", "nat.get", "ep.create", "nat.create"},
         UNCHANGED <<nat, made, cont, poolVars, inputVars, ep, tries, mtu, historyVars>>,
         eps' \in [Eids -> Endpoints]
  PROVE  Framed(p)
  <1>0. TypeOK /\ Control(p)
    BY DEF TypeInv
  <1>1. /\ pc' \in [Procs -> Steps] /\ result' \in [Procs -> {"ok", "error", "unclean"}]
        /\ \A q \in Procs \ {p} : pc'[q] = pc[q] /\ result'[q] = result[q]
        /\ pc'[p] = k.at /\ pc'[p] # "idle"
    BY <1>0, GoTypes
  <1>2. UNCHANGED <<nat, made, cont, acquired, readable, cmd, net, rule, nats, acls, ep, tries,
                    mtu, phase, doomed, early>>
    BY DEF poolVars, historyVars, inputVars
  <1>3. TypeOK'
    BY <1>0, <1>1, <1>2 DEF TypeOK
  <1>4. Control(p)'
    BY <1>0, <1>1, <1>2 DEF Control
  <1> QED
    BY <1>1, <1>2, <1>3, <1>4 DEF Framed, Alone

-----------------------------------------------------------------------------
(* What the operations on one container do, field by field                 *)

\* Where p goes on: with the result it had, with an error, or with something not cleaned up
Advances(p, l) == pc'[p] = l /\ result'[p] = result[p]
Fails(p, l) == /\ pc'[p] = l /\ result'[p] \in {"error", "unclean"}
               /\ result[p] = "ok" => result'[p] = "error"
Soils(p, l) == pc'[p] = l /\ result'[p] = "unclean"

\* Nothing happens to the endpoints but at e.
OnlyAt(e) == \A f \in Eids \ {e} : eps'[f] = eps[f]

\* An endpoint is created, attached or detached, or deleted.
Creates(p) ==
  \E e \in Eids :
    /\ eps[e] = NoEndpoint /\ ep'[p] = e /\ OnlyAt(e)
    /\ eps'[e].name = cmd[p].handle /\ eps'[e].net = net[p] /\ eps'[e].mtu = "default"
    /\ eps'[e].nats = {} /\ eps'[e].acls = {}

Reattaches ==
  \A e \in Eids :
    /\ eps'[e].name = eps[e].name /\ eps'[e].net = eps[e].net /\ eps'[e].mtu = eps[e].mtu
    /\ eps'[e].nats = eps[e].nats /\ eps'[e].acls = eps[e].acls
    /\ ~Used(e) => eps'[e] = NoEndpoint

Deletes(p) ==
  /\ ep[p] \in Eids /\ eps[ep[p]].name = cmd[p].handle
  /\ eps'[ep[p]] = NoEndpoint /\ OnlyAt(ep[p])

\* An endpoint that belongs to a handle, and the one of p
LEMMA MineIsNamed ==
  ASSUME NEW p \in Procs, Mine(p)
  PROVE  ep[p] \in Eids /\ eps[ep[p]].name = cmd[p].handle /\ Used(ep[p])
  BY DEF Mine, Named

\* Attaching or detaching an endpoint
LEMMA ReattachEffect ==
  ASSUME TypeOK, NEW p \in Procs, Mine(p), NEW b \in BOOLEAN,
         eps' = [eps EXCEPT ![ep[p]].attached = b]
  PROVE  Reattaches /\ eps' \in [Eids -> Endpoints]
  <1>1. ep[p] \in Eids /\ eps \in [Eids -> Endpoints] /\ Used(ep[p])
    BY MineIsNamed DEF TypeOK
  <1>2. eps' = [eps EXCEPT ![ep[p]] = [eps[ep[p]] EXCEPT !.attached = b]]
    BY <1>1
  <1>3. [eps[ep[p]] EXCEPT !.attached = b] \in Endpoints
    BY <1>1, EndpointTypes
  <1>4. /\ eps'[ep[p]] = [eps[ep[p]] EXCEPT !.attached = b]
        /\ \A e \in Eids : e # ep[p] => eps'[e] = eps[e]
    BY <1>1, <1>2
  <1>5. eps[ep[p]] \in [name : Handles \cup {NoHandle}, net : 0..MaxNetworks, attached : BOOLEAN,
                        nats : SUBSET (Ports \cup HostPorts),
                        acls : SUBSET {"allowIn", "allowOut", "blockIn", "blockOut"},
                        mtu : MTUs \cup {"none"}]
    BY <1>1 DEF Endpoints
  <1>6. /\ eps'[ep[p]].name = eps[ep[p]].name /\ eps'[ep[p]].net = eps[ep[p]].net
        /\ eps'[ep[p]].mtu = eps[ep[p]].mtu /\ eps'[ep[p]].nats = eps[ep[p]].nats
        /\ eps'[ep[p]].acls = eps[ep[p]].acls
    BY <1>4, <1>5
  <1> QED
    BY <1>1, <1>2, <1>3, <1>4, <1>6 DEF Reattaches, Used

\* Deleting an endpoint
LEMMA DeleteEffect ==
  ASSUME TypeOK, NEW p \in Procs, Mine(p), eps' = [eps EXCEPT ![ep[p]] = NoEndpoint]
  PROVE  Deletes(p) /\ eps' \in [Eids -> Endpoints]
  BY MineIsNamed, EndpointTypes DEF TypeOK, Deletes, OnlyAt

\* Create
Creating(p) ==
  /\ UNCHANGED <<nat, made, cont, acquired, readable, rule, nats, acls, mtu, phase, doomed, early>>
  /\ \/ /\ pc[p] = "ep.network" /\ Advances(p, "ep.create") /\ UNCHANGED <<eps, ep>>
        /\ nat.id # 0 /\ net'[p] = nat.id
     \/ /\ pc[p] \in {"ep.network", "ep.create"} /\ Fails(p, "undo") /\ UNCHANGED <<eps, ep, net>>
     \/ pc[p] = "ep.create" /\ Advances(p, "ep.create") /\ UNCHANGED <<eps, ep, net>>
     \/ /\ pc[p] = "ep.create" /\ Advances(p, "ep.attach") /\ net' = net /\ nat.id = net[p]
        /\ Creates(p)
     \/ pc[p] = "ep.attach" /\ Advances(p, "ep.ready") /\ UNCHANGED <<ep, net>> /\ Reattaches
     \/ /\ pc[p] \in {"ep.attach", "ep.ready"} /\ Advances(p, "ep.undo")
        /\ UNCHANGED <<eps, ep, net>>
     \/ pc[p] = "ep.ready" /\ Advances(p, "in") /\ UNCHANGED <<eps, ep, net>>
     \/ /\ pc[p] = "ep.undo" /\ Fails(p, "undo") /\ UNCHANGED <<ep, net>>
        /\ eps' = eps \/ Deletes(p)

\* Create does that.
LEMMA CreatingEffect ==
  ASSUME TypeInv, NEW p \in Procs, pc[p] # "idle", cmd[p].op = "up",
         CreateEndpoint(p, To("in"), Err("undo"))
  PROVE  Framed(p) /\ Creating(p)
  <1>0. TypeOK /\ Control(p) /\ cmd[p] \in Commands /\ eps \in [Eids -> Endpoints]
    BY DEF TypeInv, TypeOK, Control
  <1>h. cmd[p].handle \in Handles
    BY <1>0, CommandTypes
  <1>c. /\ To("in") \in Conts /\ Err("undo") \in Conts /\ To("ep.create") \in Conts
        /\ To("ep.attach") \in Conts /\ To("ep.ready") \in Conts /\ To("ep.undo") \in Conts
        /\ To("in").at = "in" /\ Err("undo").at = "undo" /\ To("ep.create").at = "ep.create"
        /\ To("ep.attach").at = "ep.attach" /\ To("ep.ready").at = "ep.ready"
        /\ To("ep.undo").at = "ep.undo"
    <2>1. {"in", "undo", "ep.create", "ep.attach", "ep.ready", "ep.undo"} \subseteq Steps \ {"idle"}
      BY DEF Steps
    <2> QED
      BY <2>1, ContTypes
  <1>1. CASE pc[p] = "ep.network"
    <2>1. /\ UNCHANGED <<nat, made, eps, cont, acquired, readable, cmd, rule, nats, acls, ep, tries,
                         mtu, phase, doomed, early>>
          /\ \/ nat.id # 0 /\ net' = [net EXCEPT ![p] = nat.id] /\ Go(p, To("ep.create"))
             \/ net' = net /\ Go(p, Err("undo"))
      BY <1>1 DEF CreateEndpoint, HotAttachEndpoint, hostVars, poolVars, historyVars
    <2>2. /\ pc' \in [Procs -> Steps] /\ result' \in [Procs -> {"ok", "error", "unclean"}]
          /\ \A q \in Procs \ {p} : pc'[q] = pc[q] /\ result'[q] = result[q]
          /\ pc'[p] \in {"ep.create", "undo"}
      BY <1>0, <1>c, <2>1, GoTypes
    <2>3. net' \in [Procs -> 0..MaxNetworks] /\ \A q \in Procs \ {p} : net'[q] = net[q]
      <3>1. nat.id \in 0..MaxNetworks
        BY <1>0 DEF TypeOK, Networks
      <3> QED
        BY <1>0, <2>1, <3>1 DEF TypeOK
    <2>4. TypeOK'
      BY <1>0, <2>1, <2>2, <2>3 DEF TypeOK
    <2>5. tries[p] = 0
      BY <1>0, <1>1 DEF Control
    <2>6. Control(p)'
      BY <1>0, <2>1, <2>2, <2>5 DEF Control
    <2>7. Framed(p)
      BY <2>1, <2>2, <2>3, <2>4, <2>6 DEF Framed, Alone
    <2>8. \/ Advances(p, "ep.create") /\ nat.id # 0 /\ net'[p] = nat.id
          \/ Fails(p, "undo") /\ net' = net
      BY <1>0, <2>1, Goes DEF Advances, Fails, TypeOK
    <2> QED
      BY <1>1, <2>1, <2>7, <2>8 DEF Creating
  <1>2. CASE pc[p] = "ep.create"
    <2>1. /\ UNCHANGED <<nat, made, cont, acquired, readable, cmd, net, rule, nats, acls, mtu, phase,
                         doomed, early>>
          /\ \/ /\ nat.id = net[p] /\ tries' = tries /\ Go(p, To("ep.attach"))
                /\ \E e \in Eids :
                     /\ ~Used(e)
                     /\ eps' = [eps EXCEPT ![e] = [NoEndpoint EXCEPT !.name = cmd[p].handle,
                                                                    !.net = net[p],
                                                                    !.mtu = "default"]]
                     /\ ep' = [ep EXCEPT ![p] = e]
             \/ /\ UNCHANGED <<eps, ep>> /\ tries' = [tries EXCEPT ![p] = @ + 1]
                /\ \/ tries[p] < 2 /\ Go(p, To("ep.create"))
                   \/ Go(p, Err("undo"))
      BY <1>2 DEF CreateEndpoint, HotAttachEndpoint, Retry, poolVars, historyVars, inputVars
    <2>2. /\ pc' \in [Procs -> Steps] /\ result' \in [Procs -> {"ok", "error", "unclean"}]
          /\ \A q \in Procs \ {p} : pc'[q] = pc[q] /\ result'[q] = result[q]
          /\ pc'[p] \in {"ep.attach", "ep.create", "undo"}
      BY <1>0, <1>c, <2>1, GoTypes
    <2>3. tries[p] \in 0..2
      BY <1>0, <1>2 DEF Control
    <2>4. /\ tries' \in [Procs -> 0..3] /\ \A q \in Procs \ {p} : tries'[q] = tries[q]
          /\ pc'[p] = "ep.create" => tries'[p] \in 0..2
      BY <1>0, <1>c, <2>1, <2>3, GoTypes DEF TypeOK
    <2>5. CASE UNCHANGED <<eps, ep>> /\ (Go(p, To("ep.create")) \/ Go(p, Err("undo")))
      <3>1. TypeOK'
        BY <1>0, <2>1, <2>2, <2>4, <2>5 DEF TypeOK
      <3>2. Control(p)'
        BY <1>0, <2>1, <2>2, <2>4 DEF Control
      <3>3. Framed(p)
        BY <2>1, <2>2, <2>4, <2>5, <3>1, <3>2 DEF Framed, Alone
      <3>4. Advances(p, "ep.create") \/ Fails(p, "undo")
        BY <1>0, <2>5, Goes DEF Advances, Fails
      <3> QED
        BY <1>2, <2>1, <2>5, <3>3, <3>4 DEF Creating
    <2>6. ASSUME nat.id = net[p], tries' = tries, Go(p, To("ep.attach")),
                 NEW e \in Eids, ~Used(e),
                 eps' = [eps EXCEPT ![e] = [NoEndpoint EXCEPT !.name = cmd[p].handle, !.net = net[p],
                                                             !.mtu = "default"]],
                 ep' = [ep EXCEPT ![p] = e]
          PROVE  Framed(p) /\ Creating(p)
      <3> DEFINE new == [NoEndpoint EXCEPT !.name = cmd[p].handle, !.net = net[p],
                                          !.mtu = "default"]
      <3>1. new \in Endpoints
        BY <1>0, <1>h, EndpointTypes DEF TypeOK
      <3>2. /\ new.name = cmd[p].handle /\ new.net = net[p] /\ new.mtu = "default"
            /\ new.nats = {} /\ new.acls = {}
        BY DEF NoEndpoint
      <3> HIDE DEF new
      <3>3. eps' = [eps EXCEPT ![e] = new]
        BY <2>6 DEF new
      <3>4. eps' \in [Eids -> Endpoints] /\ ep' \in [Procs -> Eids \cup {NoEid}]
            /\ \A q \in Procs \ {p} : ep'[q] = ep[q]
        BY <1>0, <2>6, <3>1, <3>3 DEF TypeOK
      <3>5. Creates(p)
        <4>1. eps'[e] = new /\ OnlyAt(e) /\ ep'[p] = e /\ eps[e] = NoEndpoint
          BY <1>0, <2>6, <3>3 DEF OnlyAt, TypeOK, Used
        <4> QED
          BY <3>2, <4>1 DEF Creates
      <3>6. TypeOK'
        BY <1>0, <2>1, <2>2, <2>4, <3>4 DEF TypeOK
      <3>7. Control(p)'
        BY <1>0, <2>1, <2>2, <2>4 DEF Control
      <3>8. Framed(p)
        BY <2>1, <2>2, <2>4, <3>4, <3>6, <3>7 DEF Framed, Alone
      <3>9. Advances(p, "ep.attach")
        BY <1>0, <2>6, Goes DEF Advances
      <3> QED
        BY <1>2, <2>1, <2>6, <3>5, <3>8, <3>9 DEF Creating
    <2> QED
      BY <2>1, <2>5, <2>6
  <1>3. CASE pc[p] = "ep.attach"
    <2>1. /\ UNCHANGED <<nat, made, cont, poolVars, inputVars, ep, tries, mtu, historyVars>>
          /\ \/ Mine(p) /\ eps' = [eps EXCEPT ![ep[p]].attached = TRUE] /\ Go(p, To("ep.ready"))
             \/ eps' = eps /\ Go(p, To("ep.undo"))
      BY <1>3 DEF CreateEndpoint, HotAttachEndpoint
    <2>2. UNCHANGED <<nat, made, cont, acquired, readable, rule, nats, acls, mtu, phase,
                      doomed, early, ep, net>>
      BY <2>1 DEF poolVars, historyVars, inputVars
    <2>3. CASE eps' = eps /\ Go(p, To("ep.undo"))
      <3>1. Framed(p)
        BY <1>0, <1>c, <2>1, <2>3, EpsTypes
      <3>2. Advances(p, "ep.undo")
        BY <1>0, <2>3, Goes DEF Advances
      <3> QED
        BY <1>3, <2>2, <2>3, <3>1, <3>2 DEF Creating
    <2>4. CASE Mine(p) /\ eps' = [eps EXCEPT ![ep[p]].attached = TRUE] /\ Go(p, To("ep.ready"))
      <3>1. Reattaches /\ eps' \in [Eids -> Endpoints]
        BY <1>0, <2>4, ReattachEffect
      <3>2. Framed(p)
        BY <1>0, <1>c, <2>1, <2>4, <3>1, EpsTypes
      <3>3. Advances(p, "ep.ready")
        BY <1>0, <2>4, Goes DEF Advances
      <3> QED
        BY <1>3, <2>2, <3>1, <3>2, <3>3 DEF Creating
    <2> QED
      BY <2>1, <2>3, <2>4
  <1>4. CASE pc[p] = "ep.ready"
    <2>1. Skip(p, To("in")) \/ Skip(p, To("ep.undo"))
      BY <1>4 DEF CreateEndpoint, HotAttachEndpoint
    <2>2. Framed(p)
      BY <1>0, <1>c, <2>1, SkipTypes
    <2>3. UNCHANGED <<nat, made, cont, acquired, readable, rule, nats, acls, mtu, phase,
                      doomed, early, eps, ep, net>>
      BY <2>1 DEF Skip, hostVars, poolVars, historyVars, inputVars
    <2>4. Advances(p, "in") \/ Advances(p, "ep.undo")
      BY <1>0, <2>1, Goes DEF Advances, Skip
    <2> QED
      BY <1>4, <2>2, <2>3, <2>4 DEF Creating
  <1>5. CASE pc[p] = "ep.undo"
    <2>1. /\ UNCHANGED <<nat, made, cont, poolVars, inputVars, ep, tries, mtu, historyVars>>
          /\ Go(p, Err("undo"))
          /\ eps' = eps \/ (Mine(p) /\ eps' = [eps EXCEPT ![ep[p]] = NoEndpoint])
      BY <1>5 DEF CreateEndpoint, HotAttachEndpoint
    <2>2. UNCHANGED <<nat, made, cont, acquired, readable, rule, nats, acls, mtu, phase,
                      doomed, early, ep, net>>
      BY <2>1 DEF poolVars, historyVars, inputVars
    <2>3. (eps' = eps \/ Deletes(p)) /\ eps' \in [Eids -> Endpoints]
      BY <1>0, <2>1, DeleteEffect
    <2>4. Framed(p)
      BY <1>0, <1>c, <2>1, <2>3, EpsTypes
    <2>5. Fails(p, "undo")
      BY <1>0, <2>1, Goes DEF Fails
    <2> QED
      BY <1>5, <2>2, <2>3, <2>4, <2>5 DEF Creating
  <1> QED
    BY <1>1, <1>2, <1>3, <1>4, <1>5 DEF CreateEndpoint, HotAttachEndpoint

-----------------------------------------------------------------------------
(* The net rule applier                                                    *)

\* The port allocator's file is lost.
Loses == MayLose /\ \A h \in Handles : acquired'[h] = {}

\* Applier.In takes a port that nobody has, or one of the caller's choice.
Allocating(p) ==
  LET h == cmd[p].handle
      i == rule[p] + 1
      port == cmd[p].in[i]
  IN
  /\ pc[p] = "in" /\ UNCHANGED <<nat, made, eps, cont, net, ep, mtu, phase, doomed, early>>
  /\ \/ /\ rule[p] = Len(cmd[p].in) /\ Advances(p, "ports")
        /\ UNCHANGED <<acquired, readable, rule, nats, acls>>
     \/ /\ rule[p] < Len(cmd[p].in) /\ Advances(p, "in")
        /\ rule'[p] = i /\ acls'[p] = acls[p] \cup {"allowIn"}
        /\ \/ port # 0 /\ nats'[p] = nats[p] \cup {port} /\ acquired' = acquired
           \/ \E n \in Ports :
                /\ \A g \in Handles : n \notin acquired[g]
                /\ nats'[p] = nats[p] \cup {n}
                /\ acquired'[h] = acquired[h] \cup {n}
                /\ \A g \in Handles \ {h} : acquired'[g] = acquired[g]
     \/ /\ Fails(p, "undo") /\ UNCHANGED <<rule, nats, acls>>
        /\ acquired' = acquired \/ Loses

\* Losing the pool, and failing to use it
LEMMA LoseEffect ==
  ASSUME TypeOK, Pool!Lose
  PROVE  Loses /\ acquired' \in [Handles -> SUBSET Ports] /\ readable' \in BOOLEAN
  BY DEF Pool!Lose, Pool!Nothing, Loses

\* Applier.In does that.
LEMMA AllocatingEffect ==
  ASSUME TypeInv, NEW p \in Procs, pc[p] # "idle", cmd[p].op = "up", In(p, "ports", Err("undo"))
  PROVE  Framed(p) /\ Allocating(p)
  <1>0. /\ TypeOK /\ Control(p) /\ cmd[p] \in Commands /\ rule \in [Procs -> Nat]
        /\ nats \in [Procs -> SUBSET (Ports \cup HostPorts)]
        /\ acls \in [Procs -> SUBSET {"allowIn", "allowOut"}]
        /\ acquired \in [Handles -> SUBSET Ports] /\ readable \in BOOLEAN
    BY DEF TypeInv, TypeOK, Control
  <1> DEFINE h == cmd[p].handle
             i == rule[p] + 1
             port == cmd[p].in[i]
  <1>h. h \in Handles /\ cmd[p].in \in Seq(Nat)
    BY <1>0, CommandTypes
  <1>c. /\ To("in") \in Conts /\ Err("undo") \in Conts /\ To("ports") \in Conts
        /\ To("in").at = "in" /\ Err("undo").at = "undo" /\ To("ports").at = "ports"
    <2>1. {"in", "undo", "ports"} \subseteq Steps \ {"idle"}
      BY DEF Steps
    <2> QED
      BY <2>1, ContTypes
  <1>u. /\ UNCHANGED <<nat, made, eps, cont, cmd, net, ep, tries, mtu, phase,
                       doomed, early>> /\ pc[p] = "in"
    BY DEF In, hostVars, historyVars
  <1>k. ASSUME NEW k \in Conts, Go(p, k), k.at \in {"in", "undo", "ports"},
               acquired' \in [Handles -> SUBSET Ports], readable' \in BOOLEAN,
               rule' \in [Procs -> Nat], nats' \in [Procs -> SUBSET (Ports \cup HostPorts)],
               acls' \in [Procs -> SUBSET {"allowIn", "allowOut"}],
               \A q \in Procs \ {p} : rule'[q] = rule[q] /\ nats'[q] = nats[q] /\ acls'[q] = acls[q]
        PROVE  Framed(p)
    <2>1. /\ pc' \in [Procs -> Steps] /\ result' \in [Procs -> {"ok", "error", "unclean"}]
          /\ \A q \in Procs \ {p} : pc'[q] = pc[q] /\ result'[q] = result[q]
          /\ pc'[p] = k.at /\ pc'[p] # "idle"
      BY <1>0, <1>k, GoTypes
    <2>2. TypeOK'
      BY <1>0, <1>u, <1>k, <2>1 DEF TypeOK
    <2>3. Control(p)'
      BY <1>0, <1>u, <1>k, <2>1 DEF Control
    <2> QED
      BY <1>u, <1>k, <2>1, <2>2, <2>3 DEF Framed, Alone
  <1>1. CASE /\ rule[p] = Len(cmd[p].in) /\ Go(p, To("ports"))
             /\ UNCHANGED <<poolVars, rule, nats, acls>>
    <2>1. UNCHANGED <<acquired, readable, rule, nats, acls>>
      BY <1>1 DEF poolVars, historyVars
    <2>2. Framed(p)
      BY <1>0, <1>c, <1>k, <1>1, <2>1
    <2>3. Advances(p, "ports")
      BY <1>0, <1>1, Goes DEF Advances
    <2> QED
      BY <1>u, <1>1, <2>1, <2>2, <2>3 DEF Allocating
  <1>2. CASE /\ Go(p, Err("undo")) /\ UNCHANGED <<rule, nats, acls>> /\ PoolFails
    <2>1. /\ acquired' \in [Handles -> SUBSET Ports] /\ readable' \in BOOLEAN
          /\ acquired' = acquired \/ Loses
      BY <1>0, <1>2, LoseEffect DEF PoolFails, poolVars, historyVars
    <2>2. Framed(p)
      BY <1>0, <1>c, <1>k, <1>2, <2>1
    <2>3. Fails(p, "undo")
      BY <1>0, <1>2, Goes DEF Fails
    <2> QED
      BY <1>u, <1>2, <2>1, <2>2, <2>3 DEF Allocating
  <1>3. ASSUME NEW n, n \in Ports \cup HostPorts, rule[p] < Len(cmd[p].in), Go(p, To("in")),
               nats' = [nats EXCEPT ![p] = @ \cup {n}],
               rule' = [rule EXCEPT ![p] = i],
               acls' = [acls EXCEPT ![p] = @ \cup {"allowIn"}],
               acquired' \in [Handles -> SUBSET Ports], readable' \in BOOLEAN
        PROVE  /\ Framed(p) /\ Advances(p, "in") /\ nats'[p] = nats[p] \cup {n}
               /\ rule'[p] = i /\ acls'[p] = acls[p] \cup {"allowIn"}
    <2>1. /\ rule' \in [Procs -> Nat] /\ rule'[p] = i
          /\ \A q \in Procs \ {p} : rule'[q] = rule[q]
      BY <1>0, <1>3
    <2>2. /\ nats' \in [Procs -> SUBSET (Ports \cup HostPorts)] /\ nats'[p] = nats[p] \cup {n}
          /\ \A q \in Procs \ {p} : nats'[q] = nats[q]
      BY <1>0, <1>3
    <2>3. /\ acls' \in [Procs -> SUBSET {"allowIn", "allowOut"}]
          /\ acls'[p] = acls[p] \cup {"allowIn"}
          /\ \A q \in Procs \ {p} : acls'[q] = acls[q]
      BY <1>0, <1>3
    <2>4. Framed(p)
      BY <1>c, <1>k, <1>3, <2>1, <2>2, <2>3
    <2>5. Advances(p, "in")
      BY <1>0, <1>3, Goes DEF Advances
    <2> QED
      BY <2>1, <2>2, <2>3, <2>4, <2>5
  <1>4. CASE /\ rule[p] < Len(cmd[p].in) /\ port # 0 /\ nats' = [nats EXCEPT ![p] = @ \cup {port}]
             /\ UNCHANGED poolVars /\ rule' = [rule EXCEPT ![p] = i] /\ Go(p, To("in"))
             /\ acls' = [acls EXCEPT ![p] = @ \cup {"allowIn"}]
    <2>1. i \in DOMAIN cmd[p].in
      BY <1>0, <1>h, <1>4
    <2>2. port \in Ports \cup HostPorts
      BY <1>0, <1>4, <2>1, HostPortTypes
    <2>3. acquired' = acquired /\ readable' = readable
      BY <1>4 DEF poolVars, historyVars
    <2> HIDE DEF port
    <2>4. /\ Framed(p) /\ Advances(p, "in") /\ nats'[p] = nats[p] \cup {port}
          /\ rule'[p] = i /\ acls'[p] = acls[p] \cup {"allowIn"}
      BY <1>0, <1>3, <1>4, <2>2, <2>3
    <2> QED
      BY <1>u, <1>4, <2>3, <2>4 DEF Allocating, port
  <1>5. CASE /\ rule[p] < Len(cmd[p].in) /\ Pool!Acquire(h)
             /\ nats' = [nats EXCEPT ![p] = @ \cup (acquired'[h] \ acquired[h])]
             /\ rule' = [rule EXCEPT ![p] = i] /\ Go(p, To("in"))
             /\ acls' = [acls EXCEPT ![p] = @ \cup {"allowIn"}]
    <2>1. PICK n \in Ports : /\ \A g \in Handles : n \notin acquired[g]
                             /\ acquired' = [acquired EXCEPT ![h] = @ \cup {n}]
      BY <1>5 DEF Pool!Acquire
    <2>2. /\ acquired'[h] = acquired[h] \cup {n} /\ acquired' \in [Handles -> SUBSET Ports]
          /\ \A g \in Handles \ {h} : acquired'[g] = acquired[g]
      BY <1>0, <1>h, <2>1
    <2>3. acquired'[h] \ acquired[h] = {n}
      BY <1>h, <2>1, <2>2
    <2>4. readable' = readable
      BY <1>5 DEF Pool!Acquire
    <2>5. nats' = [nats EXCEPT ![p] = @ \cup {n}]
      BY <1>5, <2>3
    <2>6. /\ Framed(p) /\ Advances(p, "in") /\ nats'[p] = nats[p] \cup {n}
          /\ rule'[p] = i /\ acls'[p] = acls[p] \cup {"allowIn"}
      BY <1>0, <1>3, <1>5, <2>2, <2>4, <2>5
    <2> QED
      BY <1>u, <1>5, <2>1, <2>2, <2>6 DEF Allocating
  <1> QED
    BY <1>1, <1>2, <1>4, <1>5 DEF In

\* Applier.Cleanup, from "undo" to "find" or from "clean" to "exit"
Cleaning(p, here, next) ==
  LET h == cmd[p].handle
  IN
  /\ pc[p] = here
  /\ UNCHANGED <<nat, made, eps, cont, net, ep, rule, nats, acls, mtu, phase, doomed, early>>
  /\ \/ /\ Advances(p, next) /\ acquired'[h] = {}
        /\ \A g \in Handles \ {h} : acquired'[g] = acquired[g]
     \/ Soils(p, next) /\ (acquired' = acquired \/ Loses)

\* Applier.Cleanup does that.
LEMMA CleaningEffect ==
  ASSUME TypeInv, NEW p \in Procs, pc[p] # "idle", cmd[p].op \in {"up", "down"}, NEW here,
         NEW next \in {"find", "exit"}, Cleanup(p, here, To(next), Unclean(next))
  PROVE  Framed(p) /\ Cleaning(p, here, next)
  <1>0. /\ TypeOK /\ Control(p) /\ cmd[p] \in Commands
        /\ acquired \in [Handles -> SUBSET Ports] /\ readable \in BOOLEAN
    BY DEF TypeInv, TypeOK, Control
  <1>h. cmd[p].handle \in Handles
    BY <1>0, CommandTypes
  <1>c. /\ To(next) \in Conts /\ Unclean(next) \in Conts
        /\ To(next).at = next /\ Unclean(next).at = next
    <2>1. next \in Steps \ {"idle"}
      BY DEF Steps
    <2> QED
      BY <2>1, ContTypes
  <1>u. UNCHANGED <<nat, made, eps, cont, cmd, net, rule, nats, acls, ep, tries, mtu, phase,
                    doomed, early>>
        /\ pc[p] = here
    BY DEF Cleanup, hostVars, inputVars, historyVars
  <1>1. /\ acquired' \in [Handles -> SUBSET Ports] /\ readable' \in BOOLEAN
        /\ \/ /\ Go(p, To(next)) /\ acquired'[cmd[p].handle] = {}
              /\ \A g \in Handles \ {cmd[p].handle} : acquired'[g] = acquired[g]
           \/ Go(p, Unclean(next)) /\ (acquired' = acquired \/ Loses)
    <2>1. CASE Pool!Release(cmd[p].handle) /\ Go(p, To(next))
      BY <1>0, <1>h, <2>1 DEF Pool!Release
    <2>2. CASE PoolFails /\ Go(p, Unclean(next))
      BY <1>0, <2>2, LoseEffect DEF PoolFails, poolVars, historyVars
    <2> QED
      BY <2>1, <2>2 DEF Cleanup
  <1>2. PICK k \in Conts : Go(p, k) /\ k.at = next
    BY <1>1, <1>c
  <1>3. /\ pc' \in [Procs -> Steps] /\ result' \in [Procs -> {"ok", "error", "unclean"}]
        /\ \A q \in Procs \ {p} : pc'[q] = pc[q] /\ result'[q] = result[q]
        /\ pc'[p] = next /\ pc'[p] # "idle"
    BY <1>0, <1>2, GoTypes
  <1>4. TypeOK'
    BY <1>0, <1>u, <1>1, <1>3 DEF TypeOK
  <1>5. Control(p)'
    BY <1>0, <1>u, <1>3 DEF Control
  <1>6. Framed(p)
    BY <1>u, <1>3, <1>4, <1>5 DEF Framed, Alone
  <1>7. \/ /\ Advances(p, next) /\ acquired'[cmd[p].handle] = {}
           /\ \A g \in Handles \ {cmd[p].handle} : acquired'[g] = acquired[g]
        \/ Soils(p, next) /\ (acquired' = acquired \/ Loses)
    BY <1>0, <1>1, Goes DEF Advances, Soils
  <1> QED
    BY <1>u, <1>6, <1>7 DEF Cleaning

\* OpenPorts and the end of up, which only go on
Opening(p) ==
  /\ UNCHANGED <<nat, made, eps, cont, acquired, readable, net, ep, rule, nats, acls, mtu, phase,
                 doomed, early>>
  /\ \/ pc[p] = "ports" /\ (Advances(p, "out") \/ Fails(p, "undo"))
     \/ pc[p] = "print" /\ (Advances(p, "exit") \/ Soils(p, "exit"))

\* They do.
LEMMA OpeningEffect ==
  ASSUME TypeInv, NEW p \in Procs, pc[p] # "idle",
         \/ OpenPorts(p, To("out"), Err("undo"))
         \/ PrintOutputs(p, To("exit"), Unclean("exit"))
  PROVE  Framed(p) /\ Opening(p)
  <1>0. TypeOK
    BY DEF TypeInv
  <1>1. /\ To("out") \in Conts /\ Err("undo") \in Conts /\ To("exit") \in Conts
        /\ Unclean("exit") \in Conts
        /\ To("out").at = "out" /\ Err("undo").at = "undo" /\ To("exit").at = "exit"
        /\ Unclean("exit").at = "exit"
    <2>1. {"out", "undo", "exit"} \subseteq Steps \ {"idle"}
      BY DEF Steps
    <2> QED
      BY <2>1, ContTypes
  <1>2. \/ pc[p] = "ports" /\ (Skip(p, To("out")) \/ Skip(p, Err("undo")))
        \/ pc[p] = "print" /\ (Skip(p, To("exit")) \/ Skip(p, Unclean("exit")))
    BY DEF OpenPorts, PrintOutputs
  <1>3. Framed(p)
    BY <1>1, <1>2, SkipTypes
  <1>4. UNCHANGED <<nat, made, eps, cont, acquired, readable, net, ep, rule, nats, acls, mtu, phase,
                    doomed, early>>
    BY <1>2 DEF Skip, hostVars, poolVars, historyVars, inputVars
  <1>5. \/ pc[p] = "ports" /\ (Advances(p, "out") \/ Fails(p, "undo"))
        \/ pc[p] = "print" /\ (Advances(p, "exit") \/ Soils(p, "exit"))
    BY <1>0, <1>2, Goes DEF Skip, Advances, Fails, Soils
  <1> QED
    BY <1>3, <1>4, <1>5 DEF Opening

\* Applier.Out
Ruling(p) ==
  /\ pc[p] = "out"
  /\ UNCHANGED <<nat, made, eps, cont, acquired, readable, net, ep, rule, nats, mtu, phase,
                 doomed, early>>
  /\ \/ /\ Advances(p, "apply")
        /\ acls'[p] = acls[p] \cup (IF HasNetOut(cmd[p]) THEN {"allowOut"} ELSE {})
     \/ Fails(p, "undo") /\ acls' = acls

\* Applier.Out does that.
LEMMA RulingEffect ==
  ASSUME TypeInv, NEW p \in Procs, pc[p] # "idle", Out(p, To("apply"), Err("undo"))
  PROVE  Framed(p) /\ Ruling(p)
  <1>0. TypeOK /\ Control(p) /\ acls \in [Procs -> SUBSET {"allowIn", "allowOut"}]
    BY DEF TypeInv, TypeOK
  <1>1. /\ To("apply") \in Conts /\ Err("undo") \in Conts
        /\ To("apply").at = "apply" /\ Err("undo").at = "undo"
    <2>1. {"apply", "undo"} \subseteq Steps \ {"idle"}
      BY DEF Steps
    <2> QED
      BY <2>1, ContTypes
  <1> DEFINE more == IF HasNetOut(cmd[p]) THEN {"allowOut"} ELSE {}
  <1>2. more \subseteq {"allowIn", "allowOut"}
    OBVIOUS
  <1>u. /\ UNCHANGED <<nat, made, eps, cont, acquired, readable, cmd, net, ep, tries, rule, nats, mtu,
                       phase, doomed, early>>
        /\ pc[p] = "out"
        /\ \/ acls' = [acls EXCEPT ![p] = @ \cup more] /\ Go(p, To("apply"))
           \/ acls' = acls /\ Go(p, Err("undo"))
    BY DEF Out, hostVars, poolVars, historyVars
  <1>3. \/ acls'[p] = acls[p] \cup more /\ Advances(p, "apply")
        \/ acls' = acls /\ Fails(p, "undo")
    <2> HIDE DEF more
    <2> QED
      BY <1>0, <1>u, Goes DEF Advances, Fails
  <1>4. /\ acls' \in [Procs -> SUBSET {"allowIn", "allowOut"}]
        /\ \A q \in Procs \ {p} : acls'[q] = acls[q]
    <2> HIDE DEF more
    <2> QED
      BY <1>0, <1>2, <1>u
  <1>5. /\ pc' \in [Procs -> Steps] /\ result' \in [Procs -> {"ok", "error", "unclean"}]
        /\ \A q \in Procs \ {p} : pc'[q] = pc[q] /\ result'[q] = result[q]
        /\ pc'[p] \in {"apply", "undo"}
    <2> HIDE DEF more
    <2> QED
      BY <1>0, <1>1, <1>u, GoTypes
  <1>6. TypeOK'
    BY <1>0, <1>u, <1>4, <1>5 DEF TypeOK
  <1>7. Control(p)'
    BY <1>0, <1>u, <1>5 DEF Control
  <1>8. Framed(p)
    BY <1>u, <1>4, <1>5, <1>6, <1>7 DEF Framed, Alone
  <1> QED
    BY <1>u, <1>3, <1>8 DEF Ruling

-----------------------------------------------------------------------------
(* Policies, MTU and deletion                                              *)

\* ApplyPolicies
Applying(p) ==
  /\ pc[p] = "apply"
  /\ UNCHANGED <<nat, made, cont, acquired, readable, net, ep, rule, nats, acls, mtu, phase,
                 doomed, early>>
  /\ \/ /\ Advances(p, "mtu")
        /\ ep[p] \in Eids /\ eps[ep[p]].name = cmd[p].handle /\ OnlyAt(ep[p])
        /\ eps'[ep[p]].name = eps[ep[p]].name /\ eps'[ep[p]].net = eps[ep[p]].net
        /\ eps'[ep[p]].mtu = eps[ep[p]].mtu
        /\ eps'[ep[p]].nats = eps[ep[p]].nats \cup nats[p]
        /\ eps'[ep[p]].acls = eps[ep[p]].acls \cup (IF acls[p] = {} THEN {"blockOut", "blockIn"}
                                                                   ELSE acls[p])
     \/ Fails(p, "undo") /\ eps' = eps

\* ApplyPolicies does that.
LEMMA ApplyingEffect ==
  ASSUME TypeInv, NEW p \in Procs, pc[p] # "idle", ApplyPolicies(p, To("mtu"), Err("undo"))
  PROVE  Framed(p) /\ Applying(p)
  <1>0. /\ TypeOK /\ Control(p) /\ acls[p] \in SUBSET {"allowIn", "allowOut"}
        /\ nats[p] \in SUBSET (Ports \cup HostPorts) /\ eps \in [Eids -> Endpoints]
    BY DEF TypeInv, TypeOK
  <1>1. /\ To("mtu") \in Conts /\ Err("undo") \in Conts
        /\ To("mtu").at = "mtu" /\ Err("undo").at = "undo"
    <2>1. {"mtu", "undo"} \subseteq Steps \ {"idle"}
      BY DEF Steps
    <2> QED
      BY <2>1, ContTypes
  <1> DEFINE rules == IF acls[p] = {} THEN {"blockOut", "blockIn"} ELSE acls[p]
  <1>2. rules \in SUBSET {"allowIn", "allowOut", "blockIn", "blockOut"}
    BY <1>0
  <1>u. /\ UNCHANGED <<nat, made, cont, poolVars, inputVars, ep, tries, mtu, historyVars>> /\ pc[p] = "apply"
        /\ \/ /\ Mine(p) /\ Go(p, To("mtu"))
              /\ eps' = [eps EXCEPT ![ep[p]].nats = @ \cup nats[p], ![ep[p]].acls = @ \cup rules]
           \/ eps' = eps /\ Go(p, Err("undo"))
    BY DEF ApplyPolicies
  <1>v. UNCHANGED <<nat, made, cont, acquired, readable, net, ep, rule, nats, acls, mtu, phase,
                    doomed, early>>
    BY <1>u DEF poolVars, historyVars, inputVars
  <1> HIDE DEF rules
  <1>3. CASE eps' = eps /\ Go(p, Err("undo"))
    <2>1. Framed(p)
      BY <1>0, <1>1, <1>u, <1>3, EpsTypes
    <2>2. Fails(p, "undo")
      BY <1>0, <1>3, Goes DEF Fails
    <2> QED
      BY <1>u, <1>v, <1>3, <2>1, <2>2 DEF Applying
  <1>4. CASE /\ Mine(p) /\ Go(p, To("mtu"))
             /\ eps' = [eps EXCEPT ![ep[p]].nats = @ \cup nats[p], ![ep[p]].acls = @ \cup rules]
    <2>1. ep[p] \in Eids /\ eps[ep[p]].name = cmd[p].handle
      BY <1>4, MineIsNamed
    <2> DEFINE old == eps[ep[p]]
               new == [old EXCEPT !.nats = @ \cup nats[p], !.acls = @ \cup rules]
    <2>2. eps' = [eps EXCEPT ![ep[p]] = new]
      BY <1>0, <1>4, <2>1
    <2>3. old \in [name : Handles \cup {NoHandle}, net : 0..MaxNetworks, attached : BOOLEAN,
                   nats : SUBSET (Ports \cup HostPorts),
                   acls : SUBSET {"allowIn", "allowOut", "blockIn", "blockOut"},
                   mtu : MTUs \cup {"none"}]
      BY <1>0, <2>1 DEF Endpoints
    <2>4. /\ new.name = old.name /\ new.net = old.net /\ new.mtu = old.mtu
          /\ new.nats = old.nats \cup nats[p] /\ new.acls = old.acls \cup rules
      BY <2>3
    <2>5. new \in Endpoints
      BY <1>0, <1>2, <2>3 DEF Endpoints
    <2> HIDE DEF new
    <2>6. eps'[ep[p]] = new /\ eps' \in [Eids -> Endpoints] /\ OnlyAt(ep[p])
      BY <1>0, <2>1, <2>2, <2>5 DEF OnlyAt
    <2>7. Framed(p)
      BY <1>0, <1>1, <1>u, <1>4, <2>6, EpsTypes
    <2>8. Advances(p, "mtu")
      BY <1>0, <1>4, Goes DEF Advances
    <2> QED
      BY <1>u, <1>v, <2>1, <2>4, <2>6, <2>7, <2>8 DEF Applying, rules
  <1> QED
    BY <1>u, <1>3, <1>4

\* The interface of an endpoint of p's container gets an MTU.
Resizes(p, value) ==
  \E e \in Eids :
    /\ eps[e].name = cmd[p].handle /\ OnlyAt(e)
    /\ eps'[e].name = eps[e].name /\ eps'[e].net = eps[e].net /\ eps'[e].nats = eps[e].nats
    /\ eps'[e].acls = eps[e].acls /\ eps'[e].mtu = value

\* The history remembers whether up for h has read the MTU before a create has set it.
Reads(h) == early' = IF nat.mtu = "default" THEN early \cup {h} ELSE early \ {h}

\* SetContainer
Sizing(p) ==
  /\ UNCHANGED <<nat, made, cont, acquired, readable, net, ep, rule, nats, acls, phase, doomed>>
  /\ \/ /\ pc[p] = "mtu" /\ ConfigMTU = "zero" /\ Advances(p, "mtu.set") /\ eps' = eps
        /\ nat.id # 0 /\ mtu'[p] = nat.mtu /\ Reads(cmd[p].handle)
     \/ /\ pc[p] = "mtu" /\ ConfigMTU # "zero" /\ Advances(p, "print") /\ UNCHANGED <<mtu, early>>
        /\ Resizes(p, ConfigMTU)
     \/ /\ pc[p] = "mtu.set" /\ Advances(p, "print") /\ UNCHANGED <<mtu, early>>
        /\ Resizes(p, mtu[p])
     \/ pc[p] \in {"mtu", "mtu.set"} /\ Fails(p, "undo") /\ UNCHANGED <<eps, mtu, early>>

\* SetContainer does that.
LEMMA SizingEffect ==
  ASSUME TypeInv, NEW p \in Procs, pc[p] # "idle", cmd[p].op = "up",
         SetContainer(p, To("print"), Err("undo"))
  PROVE  Framed(p) /\ Sizing(p)
  <1>0. /\ TypeOK /\ Control(p) /\ eps \in [Eids -> Endpoints]
        /\ mtu \in [Procs -> MTUs \cup {"none"}] /\ nat.mtu \in MTUs \cup {"none"}
    BY DEF TypeInv, TypeOK, Networks
  <1>h. cmd[p].handle \in Handles
    BY <1>0, CommandTypes DEF Control
  <1>1. /\ To("print") \in Conts /\ Err("undo") \in Conts /\ To("mtu.set") \in Conts
        /\ To("print").at = "print" /\ Err("undo").at = "undo" /\ To("mtu.set").at = "mtu.set"
    <2>1. {"print", "undo", "mtu.set"} \subseteq Steps \ {"idle"}
      BY DEF Steps
    <2> QED
      BY <2>1, ContTypes
  <1>2. CASE pc[p] = "mtu" /\ ConfigMTU = "zero" /\ GetMTU(p, To("mtu.set"), Err("undo"))
    <2>1. /\ UNCHANGED <<nat, made, eps, cont, acquired, readable, cmd, net, rule, nats, acls, ep,
                         tries, phase, doomed>>
          /\ \/ /\ nat.id # 0 /\ mtu' = [mtu EXCEPT ![p] = nat.mtu] /\ Go(p, To("mtu.set"))
                /\ Reads(cmd[p].handle)
             \/ UNCHANGED <<mtu, early>> /\ Go(p, Err("undo"))
      BY <1>2 DEF GetMTU, Reads, InterfaceExists, hostVars, poolVars, historyVars, inputVars
    <2>2. /\ pc' \in [Procs -> Steps] /\ result' \in [Procs -> {"ok", "error", "unclean"}]
          /\ \A q \in Procs \ {p} : pc'[q] = pc[q] /\ result'[q] = result[q]
          /\ pc'[p] \in {"mtu.set", "undo"}
      BY <1>0, <1>1, <2>1, GoTypes
    <2>3. /\ mtu' \in [Procs -> MTUs \cup {"none"}] /\ \A q \in Procs \ {p} : mtu'[q] = mtu[q]
          /\ early' \subseteq Handles
      BY <1>0, <1>h, <2>1 DEF TypeOK, Reads
    <2>4. TypeOK'
      BY <1>0, <2>1, <2>2, <2>3 DEF TypeOK
    <2>5. Control(p)'
      BY <1>0, <2>1, <2>2 DEF Control
    <2>6. Framed(p)
      BY <2>1, <2>2, <2>3, <2>4, <2>5 DEF Framed, Alone
    <2>7. \/ nat.id # 0 /\ mtu'[p] = nat.mtu /\ Advances(p, "mtu.set") /\ Reads(cmd[p].handle)
          \/ UNCHANGED <<mtu, early>> /\ Fails(p, "undo")
      BY <1>0, <2>1, Goes DEF Advances, Fails
    <2> QED
      BY <1>2, <2>1, <2>6, <2>7 DEF Sizing
  <1>3. ASSUME NEW value \in MTUs \cup {"none"}, SetMTU(p, value, To("print"), Err("undo"))
        PROVE  /\ Framed(p) /\ mtu' = mtu
               /\ UNCHANGED <<nat, made, cont, acquired, readable, net, ep, rule, nats, acls, phase,
                              doomed, early>>
               /\ \/ Advances(p, "print") /\ Resizes(p, value)
                  \/ Fails(p, "undo") /\ eps' = eps
    <2>1. /\ UNCHANGED <<nat, made, cont, poolVars, inputVars, ep, tries, mtu, historyVars>>
          /\ \/ /\ \E e \in Interfaces(cmd[p].handle) : eps' = [eps EXCEPT ![e].mtu = value]
                /\ Go(p, To("print"))
             \/ Go(p, Err("undo")) /\ eps' = eps
      BY <1>3 DEF SetMTU
    <2>2. UNCHANGED <<nat, made, cont, acquired, readable, net, ep, rule, nats, acls, phase,
                      doomed, early, mtu>>
      BY <2>1 DEF poolVars, historyVars, inputVars
    <2>3. CASE Go(p, Err("undo")) /\ eps' = eps
      <3>1. Framed(p)
        BY <1>0, <1>1, <2>1, <2>3, EpsTypes
      <3>2. Fails(p, "undo")
        BY <1>0, <2>3, Goes DEF Fails
      <3> QED
        BY <2>2, <2>3, <3>1, <3>2
    <2>4. ASSUME NEW e \in Interfaces(cmd[p].handle), eps' = [eps EXCEPT ![e].mtu = value],
                 Go(p, To("print"))
          PROVE  Framed(p) /\ Advances(p, "print") /\ Resizes(p, value)
      <3> DEFINE new == [eps[e] EXCEPT !.mtu = value]
      <3>1. e \in Eids /\ eps[e].name = cmd[p].handle
        BY DEF Interfaces, Named
      <3>2. eps[e] \in [name : Handles \cup {NoHandle}, net : 0..MaxNetworks, attached : BOOLEAN,
                        nats : SUBSET (Ports \cup HostPorts),
                        acls : SUBSET {"allowIn", "allowOut", "blockIn", "blockOut"},
                        mtu : MTUs \cup {"none"}]
        BY <1>0, <3>1 DEF Endpoints
      <3>3. /\ new.name = eps[e].name /\ new.net = eps[e].net /\ new.nats = eps[e].nats
            /\ new.acls = eps[e].acls /\ new.mtu = value
        BY <3>2
      <3>4. new \in Endpoints
        BY <1>0, <3>1, EndpointTypes
      <3>5. eps' = [eps EXCEPT ![e] = new]
        BY <1>0, <2>4, <3>1
      <3> HIDE DEF new
      <3>6. eps'[e] = new /\ OnlyAt(e) /\ eps' \in [Eids -> Endpoints]
        BY <1>0, <3>1, <3>4, <3>5 DEF OnlyAt
      <3>7. Resizes(p, value)
        BY <3>1, <3>3, <3>6 DEF Resizes
      <3>8. Framed(p)
        BY <1>0, <1>1, <2>1, <2>4, <3>6, EpsTypes
      <3>9. Advances(p, "print")
        BY <1>0, <2>4, Goes DEF Advances
      <3> QED
        BY <3>7, <3>8, <3>9
    <2> QED
      BY <2>1, <2>2, <2>3, <2>4
  <1>4. CASE pc[p] = "mtu" /\ ConfigMTU # "zero" /\ SetMTU(p, ConfigMTU, To("print"), Err("undo"))
    <2>1. ConfigMTU \in MTUs \cup {"none"}
      BY <1>4, NetworkAssumption DEF MTUs
    <2> QED
      BY <1>3, <1>4, <2>1 DEF Sizing
  <1>5. CASE pc[p] = "mtu.set" /\ SetMTU(p, mtu[p], To("print"), Err("undo"))
    <2>1. mtu[p] \in MTUs \cup {"none"}
      BY <1>0
    <2> QED
      BY <1>3, <1>5, <2>1 DEF Sizing
  <1> QED
    BY <1>2, <1>4, <1>5 DEF SetContainer

\* HNS keeps no endpoint for the container.
NoneOf(h) == \A e \in Eids : eps[e].name # h

\* Delete, for up before "exit" and for down before "clean"
Removing(p, next) ==
  /\ UNCHANGED <<nat, made, cont, acquired, readable, net, rule, nats, acls, mtu, phase, doomed, early>>
  /\ \/ /\ pc[p] = "find" /\ Advances(p, "detach") /\ eps' = eps
        /\ ep'[p] \in Eids /\ eps[ep'[p]].name = cmd[p].handle
     \/ /\ pc[p] = "find" /\ Advances(p, next) /\ UNCHANGED <<eps, ep>>
        /\ NoneOf(cmd[p].handle)
     \/ /\ pc[p] = "detach" /\ (Advances(p, "remove") \/ Soils(p, "remove")) /\ ep' = ep
        /\ Reattaches
     \/ pc[p] = "remove" /\ Advances(p, next) /\ ep' = ep /\ Deletes(p)
     \/ pc[p] \in {"find", "remove"} /\ Soils(p, next) /\ UNCHANGED <<eps, ep>>

\* Delete does that.
LEMMA RemovingEffect ==
  ASSUME TypeInv, NEW p \in Procs, pc[p] # "idle", cmd[p].op \in {"up", "down"},
         NEW next \in {"exit", "clean"}, DeleteEndpoint(p, next)
  PROVE  Framed(p) /\ Removing(p, next)
  <1>0. TypeOK /\ Control(p) /\ cmd[p] \in Commands /\ eps \in [Eids -> Endpoints]
    BY DEF TypeInv, TypeOK, Control
  <1>h. cmd[p].handle \in Handles
    BY <1>0, CommandTypes
  <1>1. /\ To(next) \in Conts /\ Unclean(next) \in Conts /\ To("detach") \in Conts
        /\ To("remove") \in Conts /\ Unclean("remove") \in Conts
        /\ To(next).at = next /\ Unclean(next).at = next /\ To("detach").at = "detach"
        /\ To("remove").at = "remove" /\ Unclean("remove").at = "remove"
    <2>1. {"exit", "clean", "detach", "remove"} \subseteq Steps \ {"idle"}
      BY DEF Steps
    <2> QED
      BY <2>1, ContTypes
  <1>2. CASE pc[p] = "find"
    <2>1. /\ UNCHANGED <<nat, made, eps, cont, acquired, readable, cmd, net, rule, nats, acls, tries,
                         mtu, phase, doomed, early>>
          /\ \/ (\E e \in Named(cmd[p].handle) : ep' = [ep EXCEPT ![p] = e]) /\ Go(p, To("detach"))
             \/ Named(cmd[p].handle) = {} /\ Go(p, To(next)) /\ ep' = ep
             \/ Go(p, Unclean(next)) /\ ep' = ep
      BY <1>2 DEF DeleteEndpoint, hostVars, poolVars, historyVars, inputVars
    <2>2. /\ pc' \in [Procs -> Steps] /\ result' \in [Procs -> {"ok", "error", "unclean"}]
          /\ \A q \in Procs \ {p} : pc'[q] = pc[q] /\ result'[q] = result[q]
          /\ pc'[p] \in {"detach", next}
      BY <1>0, <1>1, <2>1, GoTypes
    <2>3. /\ ep' \in [Procs -> Eids \cup {NoEid}] /\ \A q \in Procs \ {p} : ep'[q] = ep[q]
          /\ \/ Go(p, To("detach")) /\ ep'[p] \in Eids /\ eps[ep'[p]].name = cmd[p].handle
             \/ Named(cmd[p].handle) = {} /\ Go(p, To(next)) /\ ep' = ep
             \/ Go(p, Unclean(next)) /\ ep' = ep
      BY <1>0, <2>1 DEF TypeOK, Named
    <2>4. TypeOK'
      BY <1>0, <2>1, <2>2, <2>3 DEF TypeOK
    <2>5. Control(p)'
      BY <1>0, <2>1, <2>2 DEF Control
    <2>6. Framed(p)
      BY <2>1, <2>2, <2>3, <2>4, <2>5 DEF Framed, Alone
    <2>7. Named(cmd[p].handle) = {} => NoneOf(cmd[p].handle)
      <3>1. NoEndpoint.name = NoHandle /\ NoHandle # cmd[p].handle
        BY <1>h, NetworkAssumption DEF NoEndpoint
      <3> QED
        BY <3>1 DEF Named, NoneOf, Used
    <2>8. \/ Advances(p, "detach") /\ ep'[p] \in Eids /\ eps[ep'[p]].name = cmd[p].handle
          \/ NoneOf(cmd[p].handle) /\ Advances(p, next) /\ ep' = ep
          \/ Soils(p, next) /\ ep' = ep
      BY <1>0, <2>3, <2>7, Goes DEF Advances, Soils
    <2> QED
      BY <1>2, <2>1, <2>6, <2>8 DEF Removing
  <1>3. CASE pc[p] = "detach"
    <2>1. /\ UNCHANGED <<nat, made, cont, poolVars, inputVars, ep, tries, mtu, historyVars>>
          /\ Go(p, To("remove")) \/ Go(p, Unclean("remove"))
          /\ \/ eps' = eps
             \/ /\ Mine(p)
                /\ eps' = [eps EXCEPT ![ep[p]].attached = @ /\ ~cont[cmd[p].handle]]
      BY <1>3 DEF DeleteEndpoint
    <2>2. UNCHANGED <<nat, made, cont, acquired, readable, net, rule, nats, acls, mtu, phase,
                      doomed, early, ep>>
      BY <2>1 DEF poolVars, historyVars, inputVars
    <2>3. Reattaches /\ eps' \in [Eids -> Endpoints]
      <3>1. CASE eps' = eps
        BY <1>0, <3>1 DEF Reattaches, Used
      <3>2. CASE Mine(p) /\ eps' = [eps EXCEPT ![ep[p]].attached = @ /\ ~cont[cmd[p].handle]]
        <4> DEFINE b == eps[ep[p]].attached /\ ~cont[cmd[p].handle]
        <4>1. b \in BOOLEAN
          OBVIOUS
        <4>2. eps' = [eps EXCEPT ![ep[p]].attached = b]
          BY <1>0, <3>2, MineIsNamed
        <4> HIDE DEF b
        <4> QED
          BY <1>0, <3>2, <4>1, <4>2, ReattachEffect
      <3> QED
        BY <2>1, <3>1, <3>2
    <2>4. Framed(p)
      BY <1>0, <1>1, <2>1, <2>3, EpsTypes
    <2>5. Advances(p, "remove") \/ Soils(p, "remove")
      BY <1>0, <2>1, Goes DEF Advances, Soils
    <2> QED
      BY <1>3, <2>2, <2>3, <2>4, <2>5 DEF Removing
  <1>4. CASE pc[p] = "remove"
    <2>1. /\ UNCHANGED <<nat, made, cont, poolVars, inputVars, ep, tries, mtu, historyVars>>
          /\ \/ Go(p, To(next)) /\ Mine(p) /\ eps' = [eps EXCEPT ![ep[p]] = NoEndpoint]
             \/ Go(p, Unclean(next)) /\ eps' = eps
      BY <1>4 DEF DeleteEndpoint
    <2>2. UNCHANGED <<nat, made, cont, acquired, readable, net, rule, nats, acls, mtu, phase,
                      doomed, early, ep>>
      BY <2>1 DEF poolVars, historyVars, inputVars
    <2>3. /\ eps' \in [Eids -> Endpoints]
          /\ \/ Go(p, To(next)) /\ Deletes(p)
             \/ Go(p, Unclean(next)) /\ eps' = eps
      BY <1>0, <2>1, DeleteEffect
    <2>4. Framed(p)
      BY <1>0, <1>1, <2>1, <2>3, EpsTypes
    <2>5. (Advances(p, next) /\ Deletes(p)) \/ (Soils(p, next) /\ eps' = eps)
      BY <1>0, <2>3, Goes DEF Advances, Soils
    <2> QED
      BY <1>4, <2>2, <2>4, <2>5 DEF Removing
  <1> QED
    BY <1>2, <1>3, <1>4 DEF DeleteEndpoint

-----------------------------------------------------------------------------
(* The NAT network                                                         *)

\* Looking up the network keeps the types.
LEMMA FoundTypes ==
  ASSUME TypeInv, NEW p \in Procs, pc[p] # "idle", NEW k \in Conts, Found(p, k),
         k.at \notin {"ep.network", "nat.get", "ep.create", "nat.create"},
         doomed' \subseteq 1..MaxNetworks
  PROVE  Framed(p) /\ net'[p] = nat.id
  <1>0. TypeOK /\ Control(p) /\ nat.id \in 0..MaxNetworks
    BY DEF TypeInv, TypeOK, Networks
  <1>1. /\ pc' \in [Procs -> Steps] /\ result' \in [Procs -> {"ok", "error", "unclean"}]
        /\ \A q \in Procs \ {p} : pc'[q] = pc[q] /\ result'[q] = result[q]
        /\ pc'[p] = k.at /\ pc'[p] # "idle"
    BY <1>0, GoTypes DEF Found
  <1>2. UNCHANGED <<nat, made, eps, cont, acquired, readable, cmd, rule, nats, acls, ep, tries, mtu,
                    phase, early>>
    BY DEF Found, hostVars, poolVars
  <1>3. /\ net' \in [Procs -> 0..MaxNetworks] /\ net'[p] = nat.id
        /\ \A q \in Procs \ {p} : net'[q] = net[q]
    BY <1>0 DEF Found, TypeOK
  <1>4. TypeOK'
    BY <1>0, <1>1, <1>2, <1>3 DEF TypeOK
  <1>5. Control(p)'
    BY <1>0, <1>1, <1>2 DEF Control
  <1> QED
    BY <1>1, <1>2, <1>3, <1>4, <1>5 DEF Framed, Alone

\* CreateHostNATNetwork
Networking(p) ==
  /\ UNCHANGED <<eps, cont, acquired, readable, ep, rule, nats, acls, mtu, phase, doomed, early>>
  /\ \/ /\ pc[p] \in {"nat.get", "nat.create"} /\ Advances(p, "nat.create")
        /\ UNCHANGED <<nat, net>>
     \/ /\ pc[p] = "nat.get" /\ Advances(p, "exit") /\ nat' = nat
        /\ nat.id # 0 /\ nat.subnet = cmd[p].subnet /\ net'[p] = nat.id
     \/ /\ pc[p] = "nat.create" /\ Advances(p, "nat.ready")
        /\ nat.id = 0 /\ nat'.id # 0 /\ nat'.subnet = cmd[p].subnet /\ nat'.mtu = "default"
        /\ net'[p] = nat'.id
     \/ pc[p] = "nat.ready" /\ Advances(p, "nat.mtu") /\ UNCHANGED <<nat, net>>
     \/ /\ pc[p] = "nat.mtu" /\ Advances(p, "exit") /\ net' = net
        /\ nat.id # 0 /\ nat'.id = nat.id /\ nat'.subnet = nat.subnet
        /\ nat'.mtu = IF ConfigMTU = "zero" THEN HostMTU ELSE ConfigMTU
     \/ /\ pc[p] \in {"nat.get", "nat.create", "nat.ready", "nat.mtu"} /\ Fails(p, "exit")
        /\ UNCHANGED <<nat, net>>

\* CreateHostNATNetwork does that.
LEMMA NetworkingEffect ==
  ASSUME TypeInv, NEW p \in Procs, pc[p] # "idle", CreateCommand(p)
  PROVE  Framed(p) /\ Networking(p)
  <1>0. /\ TypeOK /\ Control(p) /\ cmd[p] \in Commands /\ nat \in Networks
        /\ made \in 0..MaxNetworks /\ MaxNetworks \in Nat
    BY NetworkAssumption DEF TypeInv, TypeOK, Control
  <1>1. /\ To("exit") \in Conts /\ Err("exit") \in Conts /\ To("nat.create") \in Conts
        /\ To("nat.ready") \in Conts /\ To("nat.mtu") \in Conts
        /\ To("exit").at = "exit" /\ Err("exit").at = "exit" /\ To("nat.create").at = "nat.create"
        /\ To("nat.ready").at = "nat.ready" /\ To("nat.mtu").at = "nat.mtu"
    <2>1. {"exit", "nat.create", "nat.ready", "nat.mtu"} \subseteq Steps \ {"idle"}
      BY DEF Steps
    <2> QED
      BY <2>1, ContTypes
  <1>2. CASE pc[p] = "nat.get"
    <2>1. \/ Skip(p, To("nat.create"))
          \/ nat.id # 0 /\ nat.subnet = cmd[p].subnet /\ Found(p, To("exit")) /\ doomed' = doomed
          \/ Skip(p, Err("exit"))
      BY <1>2 DEF CreateCommand, CreateNetwork, SetNat
    <2>2. tries[p] = 0
      BY <1>0, <1>2 DEF Control
    <2>3. CASE Skip(p, To("nat.create")) \/ Skip(p, Err("exit"))
      <3>1. Framed(p)
        BY <1>1, <2>2, <2>3, SkipTypes
      <3>2. UNCHANGED <<nat, eps, cont, acquired, readable, net, ep, rule, nats, acls, mtu, phase,
                        doomed, early>>
        BY <2>3 DEF Skip, hostVars, poolVars, historyVars, inputVars
      <3>3. Advances(p, "nat.create") \/ Fails(p, "exit")
        BY <1>0, <2>3, Goes DEF Skip, Advances, Fails
      <3> QED
        BY <1>2, <3>1, <3>2, <3>3 DEF Networking
    <2>4. CASE nat.id # 0 /\ nat.subnet = cmd[p].subnet /\ Found(p, To("exit")) /\ doomed' = doomed
      <3>1. Framed(p) /\ net'[p] = nat.id
        BY <1>1, <2>4, FoundTypes DEF TypeOK, TypeInv
      <3>2. UNCHANGED <<nat, eps, cont, acquired, readable, ep, rule, nats, acls, mtu, phase,
                        doomed, early>>
        BY <2>4 DEF Found, hostVars, poolVars
      <3>3. Advances(p, "exit")
        BY <1>0, <2>4, Goes DEF Found, Advances
      <3> QED
        BY <1>2, <2>4, <3>1, <3>2, <3>3 DEF Networking
    <2> QED
      BY <2>1, <2>3, <2>4
  <1>3. CASE pc[p] = "nat.create"
    <2>1. /\ UNCHANGED <<eps, cont, acquired, readable, cmd, rule, nats, acls, ep, mtu, phase,
                         doomed, early>>
          /\ \/ /\ nat.id = 0 /\ made < MaxNetworks /\ made' = made + 1 /\ tries' = tries
                /\ net' = [net EXCEPT ![p] = made + 1]
                /\ nat' = [id |-> made + 1, subnet |-> cmd[p].subnet, mtu |-> "default"]
                /\ Go(p, To("nat.ready"))
             \/ /\ UNCHANGED <<nat, made, net>> /\ tries' = [tries EXCEPT ![p] = @ + 1]
                /\ \/ tries[p] < 2 /\ Go(p, To("nat.create"))
                   \/ Go(p, Err("exit"))
      BY <1>3 DEF CreateCommand, CreateNetwork, SetNat, Retry, poolVars, historyVars, inputVars
    <2>2. /\ pc' \in [Procs -> Steps] /\ result' \in [Procs -> {"ok", "error", "unclean"}]
          /\ \A q \in Procs \ {p} : pc'[q] = pc[q] /\ result'[q] = result[q]
          /\ pc'[p] \in {"nat.ready", "nat.create", "exit"}
      BY <1>0, <1>1, <2>1, GoTypes
    <2>3. tries[p] \in 0..2
      BY <1>0, <1>3 DEF Control
    <2>4. /\ tries' \in [Procs -> 0..3] /\ \A q \in Procs \ {p} : tries'[q] = tries[q]
          /\ pc'[p] = "nat.create" => tries'[p] \in 0..2
      <3>1. Go(p, Err("exit")) \/ Go(p, To("nat.ready")) => pc'[p] # "nat.create"
        BY <1>0, <1>1, GoTypes
      <3>2. \/ tries' = tries /\ Go(p, To("nat.ready"))
            \/ /\ tries' = [tries EXCEPT ![p] = @ + 1]
               /\ tries[p] < 2 \/ Go(p, Err("exit"))
        BY <2>1
      <3>3. tries \in [Procs -> 0..3]
        BY <1>0 DEF TypeOK
      <3> QED
        BY <2>3, <3>1, <3>2, <3>3
    <2>5. /\ nat' \in Networks /\ made' \in 0..MaxNetworks
          /\ net' \in [Procs -> 0..MaxNetworks] /\ \A q \in Procs \ {p} : net'[q] = net[q]
          /\ \/ UNCHANGED <<nat, net>> /\ (Go(p, To("nat.create")) \/ Go(p, Err("exit")))
             \/ /\ Go(p, To("nat.ready")) /\ nat.id = 0 /\ nat'.id # 0 /\ net'[p] = nat'.id
                /\ nat'.subnet = cmd[p].subnet /\ nat'.mtu = "default"
      <3>1. cmd[p].subnet \in {"a", "b"} /\ net \in [Procs -> 0..MaxNetworks]
        BY <1>0, CommandTypes DEF TypeOK
      <3> QED
        BY <1>0, <2>1, <3>1 DEF Networks, MTUs
    <2>6. TypeOK'
      BY <1>0, <2>1, <2>2, <2>4, <2>5 DEF TypeOK
    <2>7. Control(p)'
      BY <1>0, <2>1, <2>2, <2>4 DEF Control
    <2>8. Framed(p)
      BY <2>1, <2>2, <2>4, <2>5, <2>6, <2>7 DEF Framed, Alone
    <2>9. \/ UNCHANGED <<nat, net>> /\ (Advances(p, "nat.create") \/ Fails(p, "exit"))
          \/ /\ Advances(p, "nat.ready") /\ nat.id = 0 /\ nat'.id # 0 /\ net'[p] = nat'.id
             /\ nat'.subnet = cmd[p].subnet /\ nat'.mtu = "default"
      BY <1>0, <2>5, Goes DEF Advances, Fails
    <2> QED
      BY <1>3, <2>1, <2>8, <2>9 DEF Networking
  <1>4. CASE pc[p] = "nat.ready"
    <2>1. Skip(p, To("nat.mtu")) \/ Skip(p, Err("exit"))
      BY <1>4 DEF CreateCommand, CreateNetwork, SetNat
    <2>2. Framed(p)
      BY <1>1, <2>1, SkipTypes
    <2>3. UNCHANGED <<nat, eps, cont, acquired, readable, net, ep, rule, nats, acls, mtu, phase,
                      doomed, early>>
      BY <2>1 DEF Skip, hostVars, poolVars, historyVars, inputVars
    <2>4. Advances(p, "nat.mtu") \/ Fails(p, "exit")
      BY <1>0, <2>1, Goes DEF Skip, Advances, Fails
    <2> QED
      BY <1>4, <2>2, <2>3, <2>4 DEF Networking
  <1>5. CASE pc[p] = "nat.mtu"
    <2> DEFINE new == IF ConfigMTU = "zero" THEN HostMTU ELSE ConfigMTU
    <2>1. /\ UNCHANGED <<made, eps, cont, acquired, readable, cmd, net, rule, nats, acls, ep, tries,
                         mtu, phase, doomed, early>>
          /\ \/ nat.id # 0 /\ nat' = [nat EXCEPT !.mtu = new] /\ Go(p, To("exit"))
             \/ nat' = nat /\ Go(p, Err("exit"))
      BY <1>5 DEF CreateCommand, CreateNetwork, SetNat, InterfaceExists, poolVars, historyVars, inputVars
    <2>2. new \in MTUs
      BY NetworkAssumption DEF HostMTU, MTUs
    <2> HIDE DEF new
    <2>3. /\ nat' \in Networks
          /\ \/ /\ Go(p, To("exit")) /\ nat.id # 0 /\ nat'.id = nat.id /\ nat'.subnet = nat.subnet
                /\ nat'.mtu = new
             \/ Go(p, Err("exit")) /\ nat' = nat
      BY <1>0, <2>1, <2>2 DEF Networks
    <2>4. /\ pc' \in [Procs -> Steps] /\ result' \in [Procs -> {"ok", "error", "unclean"}]
          /\ \A q \in Procs \ {p} : pc'[q] = pc[q] /\ result'[q] = result[q]
          /\ pc'[p] = "exit"
      BY <1>0, <1>1, <2>1, GoTypes
    <2>5. TypeOK'
      BY <1>0, <2>1, <2>3, <2>4 DEF TypeOK
    <2>6. Control(p)'
      BY <1>0, <2>1, <2>4 DEF Control
    <2>7. Framed(p)
      BY <2>1, <2>4, <2>5, <2>6 DEF Framed, Alone
    <2>8. \/ /\ Advances(p, "exit") /\ nat.id # 0 /\ nat'.id = nat.id /\ nat'.subnet = nat.subnet
             /\ nat'.mtu = new
          \/ Fails(p, "exit") /\ nat' = nat
      BY <1>0, <2>3, Goes DEF Advances, Fails
    <2> QED
      BY <1>5, <2>1, <2>7, <2>8 DEF Networking, new
  <1> QED
    BY <1>2, <1>3, <1>4, <1>5 DEF CreateCommand, CreateNetwork, SetNat

\* DeleteHostNATNetwork
Clearing(p) ==
  /\ UNCHANGED <<made, cont, acquired, readable, ep, rule, nats, acls, mtu, phase, early>>
  /\ \/ /\ pc[p] = "nat.find" /\ Advances(p, "nat.delete") /\ UNCHANGED <<nat, eps>>
        /\ net'[p] = nat.id /\ doomed' = doomed \cup {nat.id}
     \/ pc[p] = "nat.find" /\ Advances(p, "exit") /\ UNCHANGED <<nat, eps, net, doomed>>
     \/ /\ pc[p] = "nat.delete" /\ Advances(p, "exit") /\ nat' = NoNetwork
        /\ nat.id = net[p] /\ UNCHANGED <<net, doomed>>
        /\ \A e \in Eids : eps'[e] = IF eps[e].net = nat.id THEN NoEndpoint ELSE eps[e]
     \/ /\ pc[p] \in {"nat.find", "nat.delete"} /\ Fails(p, "exit")
        /\ UNCHANGED <<nat, eps, net, doomed>>

\* DeleteHostNATNetwork does that.
LEMMA ClearingEffect ==
  ASSUME TypeInv, NEW p \in Procs, pc[p] # "idle", DeleteCommand(p)
  PROVE  Framed(p) /\ Clearing(p)
  <1>0. /\ TypeOK /\ Control(p) /\ cmd[p] \in Commands /\ eps \in [Eids -> Endpoints]
        /\ nat.id \in 0..MaxNetworks /\ doomed \subseteq 1..MaxNetworks
    BY DEF TypeInv, TypeOK, Control, Networks
  <1>1. /\ To("exit") \in Conts /\ Err("exit") \in Conts /\ To("nat.delete") \in Conts
        /\ To("exit").at = "exit" /\ Err("exit").at = "exit" /\ To("nat.delete").at = "nat.delete"
    <2>1. {"exit", "nat.delete"} \subseteq Steps \ {"idle"}
      BY DEF Steps
    <2> QED
      BY <2>1, ContTypes
  <1>2. CASE pc[p] = "nat.find"
    <2>1. \/ nat.id # 0 /\ Found(p, To("nat.delete")) /\ doomed' = doomed \cup {nat.id}
          \/ Skip(p, To("exit")) \/ Skip(p, Err("exit"))
      BY <1>2 DEF DeleteCommand
    <2>2. CASE Skip(p, To("exit")) \/ Skip(p, Err("exit"))
      <3>1. Framed(p)
        BY <1>1, <2>2, SkipTypes
      <3>2. UNCHANGED <<nat, made, eps, cont, acquired, readable, net, ep, rule, nats, acls, mtu, phase,
                        doomed, early>>
        BY <2>2 DEF Skip, hostVars, poolVars, historyVars, inputVars
      <3>3. Advances(p, "exit") \/ Fails(p, "exit")
        BY <1>0, <2>2, Goes DEF Skip, Advances, Fails
      <3> QED
        BY <1>2, <3>1, <3>2, <3>3 DEF Clearing
    <2>3. CASE nat.id # 0 /\ Found(p, To("nat.delete")) /\ doomed' = doomed \cup {nat.id}
      <3>1. doomed' \subseteq 1..MaxNetworks
        <4>1. nat.id \in 1..MaxNetworks
          BY <1>0, <2>3, NetworkAssumption
        <4> QED
          BY <1>0, <2>3, <4>1
      <3>2. Framed(p) /\ net'[p] = nat.id
        BY <1>1, <2>3, <3>1, FoundTypes
      <3>3. UNCHANGED <<nat, made, eps, cont, acquired, readable, ep, rule, nats, acls, mtu, phase, early>>
        BY <2>3 DEF Found, hostVars, poolVars
      <3>4. Advances(p, "nat.delete")
        BY <1>0, <2>3, Goes DEF Found, Advances
      <3> QED
        BY <1>2, <2>3, <3>2, <3>3, <3>4 DEF Clearing
    <2> QED
      BY <2>1, <2>2, <2>3
  <1>3. CASE pc[p] = "nat.delete"
    <2>1. /\ UNCHANGED <<made, cont, acquired, readable, cmd, net, rule, nats, acls, ep, tries, mtu,
                         phase, doomed, early>>
          /\ \/ /\ nat' = NoNetwork /\ Go(p, To("exit")) /\ nat.id = net[p]
                /\ eps' = [e \in Eids |-> IF eps[e].net = nat.id THEN NoEndpoint ELSE eps[e]]
             \/ UNCHANGED <<nat, eps>> /\ Go(p, Err("exit"))
      BY <1>3 DEF DeleteCommand, DeleteNetwork, poolVars, historyVars, inputVars
    <2>2. nat' \in Networks /\ eps' \in [Eids -> Endpoints]
      <3>1. NoNetwork \in Networks
        BY NetworkAssumption DEF NoNetwork, Networks
      <3> QED
        BY <1>0, <2>1, <3>1, EndpointTypes DEF TypeOK
    <2>3. /\ pc' \in [Procs -> Steps] /\ result' \in [Procs -> {"ok", "error", "unclean"}]
          /\ \A q \in Procs \ {p} : pc'[q] = pc[q] /\ result'[q] = result[q]
          /\ pc'[p] = "exit"
      BY <1>0, <1>1, <2>1, GoTypes
    <2>4. TypeOK'
      BY <1>0, <2>1, <2>2, <2>3 DEF TypeOK
    <2>5. Control(p)'
      BY <1>0, <2>1, <2>3 DEF Control
    <2>6. Framed(p)
      BY <2>1, <2>3, <2>4, <2>5 DEF Framed, Alone
    <2>7. \/ /\ Advances(p, "exit") /\ nat' = NoNetwork /\ nat.id = net[p]
             /\ \A e \in Eids : eps'[e] = IF eps[e].net = nat.id THEN NoEndpoint ELSE eps[e]
          \/ Fails(p, "exit") /\ UNCHANGED <<nat, eps>>
      BY <1>0, <2>1, Goes DEF Advances, Fails
    <2> QED
      BY <1>3, <2>1, <2>6, <2>7 DEF Clearing
  <1> QED
    BY <1>2, <1>3 DEF DeleteCommand

-----------------------------------------------------------------------------
(* Steps of the whole system                                               *)

\* A process in the middle of a command
Works(p) ==
  /\ pc[p] # "idle" /\ cmd[p] \in Commands /\ Framed(p)
  /\ \/ /\ cmd[p].op = "up"
        /\ \/ Creating(p) \/ Allocating(p) \/ Opening(p) \/ Ruling(p) \/ Applying(p) \/ Sizing(p)
           \/ Cleaning(p, "undo", "find") \/ Removing(p, "exit")
     \/ cmd[p].op = "down" /\ (Removing(p, "clean") \/ Cleaning(p, "clean", "exit"))
     \/ cmd[p].op = "create" /\ Networking(p)
     \/ cmd[p].op = "delete" /\ Clearing(p)

\* A command begins.
Starts(p) ==
  /\ pc[p] = "idle" /\ Alone(p) /\ cmd'[p] \in Commands
  /\ UNCHANGED <<nat, made, eps, cont, acquired, readable, net, ep, tries, rule, nats, acls, mtu,
                 result, doomed, early>>
  /\ \A q \in Procs : pc[q] # "idle" /\ cmd'[p].handle \in Handles =>
       cmd[q].handle # cmd'[p].handle
  /\ cmd'[p].op = "up" => pc'[p] = "ep.network" /\ (UpOnce => phase[cmd'[p].handle] = "down")
  /\ cmd'[p].op = "down" => pc'[p] = "find"
  /\ cmd'[p].op = "create" => pc'[p] = "nat.get"
  /\ cmd'[p].op = "delete" => pc'[p] = "nat.find"
  /\ \A h \in Handles : phase'[h] = IF h = cmd'[p].handle THEN "begun" ELSE phase[h]

\* A process returns to its caller, or is killed.
Ends(p) ==
  /\ pc[p] # "idle" /\ pc'[p] = "idle" /\ Alone(p)
  /\ cmd'[p] = NoCommand /\ rule'[p] = 0 /\ nats'[p] = {} /\ acls'[p] = {} /\ result'[p] = "ok"
  /\ UNCHANGED <<nat, made, eps, cont, doomed, early>>
  /\ \/ /\ pc[p] = "exit" /\ acquired' = acquired
        /\ IF result[p] = "ok"
             THEN \A h \in Handles :
                    phase'[h] = IF h # cmd[p].handle THEN phase[h]
                                ELSE IF cmd[p].op = "up" THEN "live" ELSE "down"
             ELSE phase' = phase
     \/ phase' = phase /\ (acquired' = acquired \/ Loses)

\* winc starts or stops a container, or nothing happens.
Idles ==
  /\ UNCHANGED <<nat, made, acquired, readable, pc, cmd, net, ep, tries, rule, nats, acls, mtu, result,
                 phase, doomed, early>>
  /\ Reattaches

\* Begin does what Starts says.
LEMMA StartEffect ==
  ASSUME TypeInv, NEW p \in Procs, Begin(p)
  PROVE  TypeInv' /\ Starts(p)
  <1>0. TypeOK /\ \A q \in Procs : Control(q)
    BY DEF TypeInv
  <1>1. PICK k \in Commands :
          /\ pc[p] = "idle" /\ MayBegin(k)
          /\ pc' = [pc EXCEPT ![p] = FirstStep[k.op]]
          /\ cmd' = [cmd EXCEPT ![p] = k]
          /\ phase' = IF k.handle \in Handles THEN [phase EXCEPT ![k.handle] = "begun"] ELSE phase
          /\ UNCHANGED <<nat, made, eps, cont, acquired, readable, net, ep, tries, rule, nats, acls, mtu,
                         result, doomed, early>>
    BY DEF Begin, hostVars, poolVars, historyVars
  <1>2. /\ k.op \in {"create", "delete", "up", "down"}
        /\ k.handle \in Handles <=> k.op \in {"up", "down"}
    BY CommandTypes
  <1>3. /\ FirstStep["create"] = "nat.get" /\ FirstStep["delete"] = "nat.find"
        /\ FirstStep["up"] = "ep.network" /\ FirstStep["down"] = "find"
    BY DEF FirstStep
  <1>4. FirstStep[k.op] \in {"nat.get", "nat.find", "ep.network", "find"}
    BY <1>2, <1>3
  <1>5. /\ pc' \in [Procs -> Steps] /\ pc'[p] = FirstStep[k.op]
        /\ \A q \in Procs \ {p} : pc'[q] = pc[q]
    BY <1>0, <1>1, <1>4 DEF TypeOK, Steps
  <1>6. /\ cmd' \in [Procs -> Commands \cup {NoCommand}] /\ cmd'[p] = k
        /\ \A q \in Procs \ {p} : cmd'[q] = cmd[q]
    BY <1>0, <1>1 DEF TypeOK
  <1>7. /\ phase' \in [Handles -> {"down", "begun", "live"}]
        /\ \A h \in Handles : phase'[h] = IF h = k.handle THEN "begun" ELSE phase[h]
    BY <1>0, <1>1 DEF TypeOK
  <1>8. TypeOK'
    BY <1>0, <1>1, <1>5, <1>6, <1>7 DEF TypeOK
  <1>9. ASSUME NEW q \in Procs PROVE Control(q)'
    <2>1. CASE q = p
      BY <1>0, <1>1, <1>4, <1>5, <1>6, <2>1 DEF Control
    <2>2. CASE q # p
      BY <1>0, <1>1, <1>5, <1>6, <2>2 DEF Control
    <2> QED
      BY <2>1, <2>2
  <1>10. Alone(p)
    BY <1>1, <1>5, <1>6 DEF Alone
  <1>11. Starts(p)
    BY <1>1, <1>2, <1>3, <1>5, <1>6, <1>7, <1>10 DEF Starts, MayBegin
  <1> QED
    BY <1>8, <1>9, <1>11 DEF TypeInv

\* Return and Crash do what Ends says.
LEMMA EndEffect ==
  ASSUME TypeInv, NEW p \in Procs, Return(p) \/ Crash(p)
  PROVE  TypeInv' /\ Ends(p)
  <1>0. TypeOK /\ \A q \in Procs : Control(q)
    BY DEF TypeInv
  <1>1. ProcessGone(p) /\ UNCHANGED <<nat, made, eps, cont, doomed, early>> /\ pc[p] # "idle"
    BY DEF Return, Crash, hostVars, historyVars
  <1>2. /\ pc' \in [Procs -> Steps] /\ cmd' \in [Procs -> Commands \cup {NoCommand}]
        /\ net' \in [Procs -> 0..MaxNetworks] /\ ep' \in [Procs -> Eids \cup {NoEid}]
    BY <1>0, <1>1, NetworkAssumption DEF TypeOK, ProcessGone, Steps
  <1>3. /\ tries' \in [Procs -> 0..3] /\ rule' \in [Procs -> Nat]
        /\ nats' \in [Procs -> SUBSET (Ports \cup HostPorts)]
        /\ acls' \in [Procs -> SUBSET {"allowIn", "allowOut"}]
        /\ mtu' \in [Procs -> MTUs \cup {"none"}]
        /\ result' \in [Procs -> {"ok", "error", "unclean"}]
    BY <1>0, <1>1 DEF TypeOK, ProcessGone
  <1>4. /\ pc'[p] = "idle" /\ cmd'[p] = NoCommand /\ tries'[p] = 0 /\ rule'[p] = 0 /\ nats'[p] = {}
        /\ acls'[p] = {} /\ result'[p] = "ok"
    BY <1>0, <1>1 DEF TypeOK, ProcessGone
  <1>5. Alone(p)
    BY <1>0, <1>1 DEF TypeOK, ProcessGone, Alone
  <1>6. CASE Return(p)
    <2> DEFINE new == IF cmd[p].op = "up" THEN "live" ELSE "down"
    <2>1. /\ pc[p] = "exit" /\ UNCHANGED <<acquired, readable>>
          /\ phase' = IF result[p] # "ok" \/ cmd[p].handle \notin Handles THEN phase
                      ELSE [phase EXCEPT ![cmd[p].handle] = new]
      BY <1>6 DEF Return, poolVars, historyVars
    <2>2. new \in {"down", "begun", "live"}
      OBVIOUS
    <2>3. result[p] = "ok" =>
            /\ phase' \in [Handles -> {"down", "begun", "live"}]
            /\ \A h \in Handles : phase'[h] = IF h # cmd[p].handle THEN phase[h] ELSE new
      <3> HIDE DEF new
      <3> QED
        BY <1>0, <2>1, <2>2 DEF TypeOK
    <2>4. result[p] # "ok" => phase' = phase
      BY <2>1
    <2>5. phase' \in [Handles -> {"down", "begun", "live"}]
      BY <1>0, <2>3, <2>4 DEF TypeOK
    <2>6. TypeOK'
      BY <1>0, <1>1, <1>2, <1>3, <2>1, <2>5 DEF TypeOK
    <2>7. Ends(p)
      BY <1>1, <1>4, <1>5, <2>1, <2>3, <2>4 DEF Ends
    <2> QED
      BY <1>0, <1>1, <1>4, <1>5, <2>6, <2>7 DEF TypeInv, Control, Alone
  <1>7. CASE Crash(p)
    <2>1. phase' = phase /\ (UNCHANGED poolVars \/ Pool!Lose)
      BY <1>7 DEF Crash, historyVars
    <2>2. /\ acquired' \in [Handles -> SUBSET Ports] /\ readable' \in BOOLEAN
          /\ acquired' = acquired \/ Loses
      BY <1>0, <2>1, LoseEffect DEF poolVars, historyVars, TypeOK
    <2>3. TypeOK'
      BY <1>0, <1>1, <1>2, <1>3, <2>1, <2>2 DEF TypeOK
    <2>4. Ends(p)
      BY <1>1, <1>4, <1>5, <2>1, <2>2 DEF Ends
    <2> QED
      BY <1>0, <1>1, <1>4, <1>5, <2>3, <2>4 DEF TypeInv, Control, Alone
  <1> QED
    BY <1>6, <1>7

\* A container that starts or stops attaches and detaches endpoints at most.
LEMMA IdleEffect ==
  ASSUME TypeInv, ContainerStarts \/ ContainerStops \/ UNCHANGED vars
  PROVE  TypeInv' /\ Idles
  <1>0. TypeOK /\ \A q \in Procs : Control(q)
    BY DEF TypeInv
  <1>1. CASE UNCHANGED vars
    <2>1. UNCHANGED <<nat, made, eps, cont, acquired, readable, pc, cmd, net, ep, tries, rule, nats,
                      acls, mtu, result, phase, doomed, early>>
      BY <1>1 DEF vars
    <2>2. TypeOK'
      BY <1>0, <2>1 DEF TypeOK
    <2>3. \A q \in Procs : Control(q)'
      BY <1>0, <2>1 DEF Control
    <2> QED
      BY <2>1, <2>2, <2>3 DEF TypeInv, Idles, Reattaches, Used
  <1>2. CASE ContainerStarts \/ ContainerStops
    <2>1. /\ UNCHANGED <<nat, made, acquired, readable, pc, cmd, net, ep, tries, rule, nats, acls, mtu,
                         result, phase, doomed, early>>
          /\ \E h \in Handles :
               /\ \E b \in BOOLEAN : cont' = [cont EXCEPT ![h] = b]
               /\ \/ eps' = eps
                  \/ eps' = [e \in Eids |-> IF eps[e].name = h
                                              THEN [eps[e] EXCEPT !.attached = FALSE] ELSE eps[e]]
      BY <1>2 DEF ContainerStarts, ContainerStops, poolVars, historyVars, inputVars
    <2>2. cont' \in [Handles -> BOOLEAN]
      BY <1>0, <2>1 DEF TypeOK
    <2>3. eps' \in [Eids -> Endpoints] /\ Reattaches
      <3>1. ASSUME NEW h \in Handles,
                   eps' = [e \in Eids |-> IF eps[e].name = h
                                            THEN [eps[e] EXCEPT !.attached = FALSE] ELSE eps[e]]
            PROVE  eps' \in [Eids -> Endpoints] /\ Reattaches
        <4> DEFINE off(e) == [eps[e] EXCEPT !.attached = FALSE]
        <4>1. ASSUME NEW e \in Eids
              PROVE  /\ off(e) \in Endpoints /\ eps[e] \in Endpoints
                     /\ off(e).name = eps[e].name /\ off(e).net = eps[e].net
                     /\ off(e).mtu = eps[e].mtu /\ off(e).nats = eps[e].nats
                     /\ off(e).acls = eps[e].acls
          <5>1. eps[e] \in Endpoints
            BY <1>0 DEF TypeOK
          <5>2. off(e) \in Endpoints
            BY <5>1, EndpointTypes
          <5> QED
            BY <5>1, <5>2 DEF Endpoints
        <4>2. eps' = [e \in Eids |-> IF eps[e].name = h THEN off(e) ELSE eps[e]]
          BY <3>1
        <4>3. ASSUME NEW e \in Eids, ~Used(e) PROVE eps'[e] = NoEndpoint
          BY <4>2, <4>3, NetworkAssumption DEF Used, NoEndpoint
        <4> HIDE DEF off
        <4> QED
          BY <4>1, <4>2, <4>3 DEF Reattaches
      <3> QED
        BY <1>0, <2>1, <3>1 DEF TypeOK, Reattaches, Used
    <2>4. TypeOK'
      BY <1>0, <2>1, <2>2, <2>3 DEF TypeOK
    <2>5. \A q \in Procs : Control(q)'
      BY <1>0, <2>1 DEF Control
    <2> QED
      BY <2>1, <2>3, <2>4, <2>5 DEF TypeInv, Idles
  <1> QED
    BY <1>1, <1>2

\* A step of a command does what Works says.
LEMMA WorkEffect ==
  ASSUME TypeInv, NEW p \in Procs,
         UpCommand(p) \/ DownCommand(p) \/ CreateCommand(p) \/ DeleteCommand(p)
  PROVE  TypeInv' /\ Works(p)
  <1>0. \A q \in Procs : Control(q)
    BY DEF TypeInv
  <1>1. cmd[p].op \in {"up", "down", "create", "delete"}
    BY DEF UpCommand, DownCommand, CreateCommand, DeleteCommand
  <1>2. pc[p] # "idle" /\ cmd[p] \in Commands
    <2>1. NoCommand.op = "none"
      BY DEF NoCommand
    <2> QED
      BY <1>0, <1>1, <2>1 DEF Control
  <1>3. Works(p)
    <2>1. CASE UpCommand(p)
      <3>1. cmd[p].op = "up"
        BY <2>1 DEF UpCommand
      <3>2. \/ CreateEndpoint(p, To("in"), Err("undo"))
            \/ In(p, "ports", Err("undo"))
            \/ OpenPorts(p, To("out"), Err("undo"))
            \/ Out(p, To("apply"), Err("undo"))
            \/ ApplyPolicies(p, To("mtu"), Err("undo"))
            \/ SetContainer(p, To("print"), Err("undo"))
            \/ PrintOutputs(p, To("exit"), Unclean("exit"))
            \/ Cleanup(p, "undo", To("find"), Unclean("find"))
            \/ DeleteEndpoint(p, "exit")
        BY <2>1 DEF UpCommand
      <3>3. /\ Framed(p)
            /\ \/ Creating(p) \/ Allocating(p) \/ Opening(p) \/ Ruling(p) \/ Applying(p) \/ Sizing(p)
               \/ Cleaning(p, "undo", "find") \/ Removing(p, "exit")
        BY <1>2, <3>1, <3>2, CreatingEffect, AllocatingEffect, OpeningEffect, RulingEffect,
           ApplyingEffect, SizingEffect, CleaningEffect, RemovingEffect
      <3> QED
        BY <1>2, <3>1, <3>3 DEF Works
    <2>2. CASE DownCommand(p)
      <3>1. cmd[p].op = "down"
        BY <2>2 DEF DownCommand
      <3>2. DeleteEndpoint(p, "clean") \/ Cleanup(p, "clean", To("exit"), Unclean("exit"))
        BY <2>2 DEF DownCommand
      <3>3. Framed(p) /\ (Removing(p, "clean") \/ Cleaning(p, "clean", "exit"))
        BY <1>2, <3>1, <3>2, CleaningEffect, RemovingEffect
      <3> QED
        BY <1>2, <3>1, <3>3 DEF Works
    <2>3. CASE CreateCommand(p)
      <3>1. cmd[p].op = "create"
        BY <2>3 DEF CreateCommand
      <3>2. Framed(p) /\ Networking(p)
        BY <1>2, <2>3, NetworkingEffect
      <3> QED
        BY <1>2, <3>1, <3>2 DEF Works
    <2>4. CASE DeleteCommand(p)
      <3>1. cmd[p].op = "delete"
        BY <2>4 DEF DeleteCommand
      <3>2. Framed(p) /\ Clearing(p)
        BY <1>2, <2>4, ClearingEffect
      <3> QED
        BY <1>2, <3>1, <3>2 DEF Works
    <2> QED
      BY <2>1, <2>2, <2>3, <2>4
  <1>4. TypeOK' /\ Control(p)' /\ Alone(p)
    BY <1>3 DEF Works, Framed
  <1>5. \A q \in Procs \ {p} : Control(q)'
    BY <1>0, <1>4 DEF Control, Alone
  <1> QED
    BY <1>3, <1>4, <1>5 DEF TypeInv

\* Every step is one of a command, one between commands, or none.
LEMMA Moves ==
  ASSUME TypeInv, [Next]_vars
  PROVE  TypeInv' /\ (Idles \/ \E p \in Procs : Works(p) \/ Starts(p) \/ Ends(p))
  <1>1. CASE ContainerStarts \/ ContainerStops \/ UNCHANGED vars
    BY <1>1, IdleEffect
  <1>2. ASSUME NEW p \in Procs, Begin(p) \/ Step(p) \/ Crash(p)
        PROVE  TypeInv' /\ (Works(p) \/ Starts(p) \/ Ends(p))
    BY <1>2, StartEffect, EndEffect, WorkEffect DEF Step
  <1> QED
    BY <1>1, <1>2 DEF Next

\* The types hold at first.
LEMMA TypeInit == Init => TypeInv
  <1> SUFFICES ASSUME Init PROVE TypeInv
    OBVIOUS
  <1>1. NoNetwork \in Networks
    BY NetworkAssumption DEF NoNetwork, Networks
  <1>2. NoEndpoint \in Endpoints /\ 0 \in 0..MaxNetworks
    <2>1. NoEndpoint \in Endpoints
      BY EndpointTypes, Zenon
    <2> QED
      BY <2>1, NetworkAssumption
  <1>3. TypeOK
    <2>1. /\ nat \in Networks /\ made \in 0..MaxNetworks /\ eps \in [Eids -> Endpoints]
          /\ cont \in [Handles -> BOOLEAN] /\ acquired \in [Handles -> SUBSET Ports]
          /\ readable \in BOOLEAN /\ phase \in [Handles -> {"down", "begun", "live"}]
          /\ doomed \subseteq 1..MaxNetworks /\ early \subseteq Handles
      BY <1>1, <1>2 DEF Init, Pool!Init, Pool!Nothing
    <2>2. /\ pc \in [Procs -> Steps] /\ cmd \in [Procs -> Commands \cup {NoCommand}]
          /\ net \in [Procs -> 0..MaxNetworks] /\ ep \in [Procs -> Eids \cup {NoEid}]
      BY <1>2 DEF Init, Steps
    <2>3. /\ tries \in [Procs -> 0..3] /\ rule \in [Procs -> Nat]
          /\ nats \in [Procs -> SUBSET (Ports \cup HostPorts)]
          /\ acls \in [Procs -> SUBSET {"allowIn", "allowOut"}]
          /\ mtu \in [Procs -> MTUs \cup {"none"}]
          /\ result \in [Procs -> {"ok", "error", "unclean"}]
      BY DEF Init
    <2> QED
      BY <2>1, <2>2, <2>3 DEF TypeOK
  <1>4. \A p \in Procs : Control(p)
    BY DEF Init, Control
  <1> QED
    BY <1>3, <1>4 DEF TypeInv

\* Every step keeps the types.
LEMMA TypeStep == TypeInv /\ [Next]_vars => TypeInv'
  BY Moves

\* The variables of the network commands have the shapes of the Go and HNS types they model.
THEOREM NetworkTypes == Spec => []TypeOK
  <1>1. TypeInv => TypeOK
    BY DEF TypeInv
  <1> QED
    BY <1>1, TypeInit, TypeStep, PTL DEF Spec

-----------------------------------------------------------------------------
(* One command per container                                               *)

\* garden's rule, the history variable that belongs to it, and whose endpoints there are
Exclusive ==
  /\ \A p, q \in Procs : p # q /\ pc[p] # "idle" /\ pc[q] # "idle" /\ cmd[p].handle \in Handles =>
       cmd[p].handle # cmd[q].handle
  /\ \A p \in Procs : pc[p] # "idle" /\ cmd[p].handle \in Handles => phase[cmd[p].handle] = "begun"
  /\ \A e \in Eids : Used(e) => eps[e].name \in Handles

BaseInv == TypeInv /\ Exclusive

\* What p's commands leave of another container: its endpoints may vanish with
\* the network, and its ports if the allocator's file is lost.
Kept(h) ==
  /\ acquired'[h] = acquired[h] \/ (MayLose /\ acquired'[h] = {})
  /\ \A e \in Eids : eps'[e].name = h =>
       /\ eps[e].name = h /\ eps'[e].net = eps[e].net /\ eps'[e].mtu = eps[e].mtu
       /\ eps'[e].nats = eps[e].nats /\ eps'[e].acls = eps[e].acls
  /\ NetworkStays => \A e \in Eids : eps[e].name = h =>
                       eps'[e].name = h /\ eps'[e].acls = eps[e].acls

\* A command and its handle
LEMMA HandleOf ==
  ASSUME TypeInv, NEW p \in Procs, cmd[p].op \in {"up", "down"}
  PROVE  pc[p] # "idle" /\ cmd[p] \in Commands /\ cmd[p].handle \in Handles
  <1>1. NoCommand.op = "none"
    BY DEF NoCommand
  <1>2. pc[p] # "idle" /\ cmd[p] \in Commands
    BY <1>1 DEF TypeInv, Control
  <1> QED
    BY <1>2, CommandTypes

\* A command in progress changes no other process, and no container's history.
LEMMA WorkFrame ==
  ASSUME NEW p \in Procs, Works(p)
  PROVE  phase' = phase /\ cmd' = cmd /\ Alone(p) /\ pc[p] # "idle" /\ pc'[p] # "idle"
  BY DEF Works, Framed, Creating, Allocating, Opening, Ruling, Applying, Sizing, Cleaning, Removing,
         Networking, Clearing

\* A command in progress keeps to its own container.
LEMMA WorkKeeps ==
  ASSUME BaseInv, NEW p \in Procs, Works(p), NEW h \in Handles, h # cmd[p].handle
  PROVE  Kept(h)
  <1>0. NoHandle \notin Handles /\ NoEndpoint.name = NoHandle
    BY NetworkAssumption DEF NoEndpoint
  <1>1. CASE UNCHANGED <<acquired, eps>>
    BY <1>1 DEF Kept
  <1>2. CASE acquired' = acquired /\ Reattaches
    BY <1>2 DEF Kept, Reattaches
  <1>3. ASSUME acquired' = acquired, NEW e \in Eids, OnlyAt(e), eps[e].name # h, eps'[e].name # h
        PROVE  Kept(h)
    BY <1>3 DEF Kept, OnlyAt
  <1>4. CASE eps' = eps /\ Loses
    BY <1>4 DEF Kept, Loses
  <1>5. CASE eps' = eps /\ \A g \in Handles \ {cmd[p].handle} : acquired'[g] = acquired[g]
    BY <1>5 DEF Kept
  <1>6. CASE cmd[p].op = "up"
    <2>1. CASE Creating(p)
      <3>1. Creates(p) /\ acquired' = acquired => Kept(h)
        BY <1>0, <1>3 DEF Creates
      <3>2. Deletes(p) /\ acquired' = acquired => Kept(h)
        BY <1>0, <1>3 DEF Deletes
      <3> QED
        BY <1>1, <1>2, <2>1, <3>1, <3>2 DEF Creating
    <2>2. CASE Allocating(p)
      BY <1>1, <1>4, <1>5, <2>2 DEF Allocating
    <2>3. CASE Opening(p) \/ Ruling(p)
      BY <1>1, <2>3 DEF Opening, Ruling
    <2>4. CASE Applying(p)
      BY <1>1, <1>3, <2>4 DEF Applying
    <2>5. CASE Sizing(p)
      <3>1. ASSUME NEW v, Resizes(p, v), acquired' = acquired PROVE Kept(h)
        BY <1>3, <3>1 DEF Resizes
      <3> QED
        BY <1>1, <2>5, <3>1 DEF Sizing
    <2>6. CASE Cleaning(p, "undo", "find")
      BY <1>1, <1>4, <1>5, <2>6 DEF Cleaning
    <2>7. CASE Removing(p, "exit")
      <3>1. Deletes(p) /\ acquired' = acquired => Kept(h)
        BY <1>0, <1>3 DEF Deletes
      <3> QED
        BY <1>1, <1>2, <2>7, <3>1 DEF Removing
    <2> QED
      BY <1>6, <2>1, <2>2, <2>3, <2>4, <2>5, <2>6, <2>7 DEF Works
  <1>7. CASE cmd[p].op = "down"
    <2>1. CASE Removing(p, "clean")
      <3>1. Deletes(p) /\ acquired' = acquired => Kept(h)
        BY <1>0, <1>3 DEF Deletes
      <3> QED
        BY <1>1, <1>2, <2>1, <3>1 DEF Removing
    <2>2. CASE Cleaning(p, "clean", "exit")
      BY <1>1, <1>4, <1>5, <2>2 DEF Cleaning
    <2> QED
      BY <1>7, <2>1, <2>2 DEF Works
  <1>8. CASE cmd[p].op = "create"
    BY <1>1, <1>8 DEF Works, Networking
  <1>9. CASE cmd[p].op = "delete"
    <2>1. ~NetworkStays
      BY <1>9 DEF Works, NetworkStays
    <2> QED
      BY <1>0, <1>1, <1>9, <2>1 DEF Works, Clearing, Kept
  <1> QED
    BY <1>6, <1>7, <1>8, <1>9 DEF Works

\* Everything else keeps all containers.
LEMMA RestKeeps ==
  ASSUME NEW h \in Handles, Idles \/ \E p \in Procs : Starts(p) \/ Ends(p)
  PROVE  Kept(h)
  BY DEF Idles, Starts, Ends, Kept, Reattaches, Loses

\* No step makes an endpoint for anything but a container.
LEMMA OwnersStep ==
  ASSUME BaseInv, TypeInv', Idles \/ \E p \in Procs : Works(p) \/ Starts(p) \/ Ends(p)
  PROVE  \A e \in Eids : Used(e)' => eps'[e].name \in Handles
  <1>0. \A e \in Eids : Used(e) => eps[e].name \in Handles
    BY DEF BaseInv, Exclusive
  <1>1. CASE eps' = eps
    BY <1>0, <1>1 DEF Used
  <1>2. CASE Reattaches
    BY <1>0, <1>2 DEF Reattaches, Used
  <1>3. ASSUME NEW e \in Eids, OnlyAt(e), Used(e)' => eps'[e].name \in Handles
        PROVE  \A f \in Eids : Used(f)' => eps'[f].name \in Handles
    BY <1>0, <1>3 DEF OnlyAt, Used
  <1>4. ASSUME NEW p \in Procs, Works(p) PROVE \A e \in Eids : Used(e)' => eps'[e].name \in Handles
    <2>1. cmd[p].op = "up" => cmd[p].handle \in Handles
      BY HandleOf DEF BaseInv
    <2>2. Creates(p) /\ cmd[p].op = "up" => \A e \in Eids : Used(e)' => eps'[e].name \in Handles
      BY <1>3, <2>1 DEF Creates
    <2>3. Deletes(p) => \A e \in Eids : Used(e)' => eps'[e].name \in Handles
      BY <1>3 DEF Deletes, Used
    <2>4. CASE cmd[p].op = "up"
      <3>1. Creating(p) => \A e \in Eids : Used(e)' => eps'[e].name \in Handles
        BY <1>1, <1>2, <2>2, <2>3, <2>4 DEF Creating
      <3>2. Applying(p) => \A e \in Eids : Used(e)' => eps'[e].name \in Handles
        BY <1>1, <1>3, <2>1, <2>4 DEF Applying
      <3>3. Sizing(p) => \A e \in Eids : Used(e)' => eps'[e].name \in Handles
        BY <1>1, <1>3, <2>1, <2>4 DEF Sizing, Resizes
      <3>4. Removing(p, "exit") => \A e \in Eids : Used(e)' => eps'[e].name \in Handles
        BY <1>1, <1>2, <2>3 DEF Removing
      <3>5. Allocating(p) \/ Opening(p) \/ Ruling(p) \/ Cleaning(p, "undo", "find") => eps' = eps
        BY DEF Allocating, Opening, Ruling, Cleaning
      <3> QED
        BY <1>1, <1>4, <2>4, <3>1, <3>2, <3>3, <3>4, <3>5 DEF Works
    <2>5. CASE cmd[p].op = "down"
      <3>1. Removing(p, "clean") => \A e \in Eids : Used(e)' => eps'[e].name \in Handles
        BY <1>1, <1>2, <2>3 DEF Removing
      <3>2. Cleaning(p, "clean", "exit") => eps' = eps
        BY DEF Cleaning
      <3> QED
        BY <1>1, <1>4, <2>5, <3>1, <3>2 DEF Works
    <2>6. CASE cmd[p].op = "create"
      BY <1>1, <1>4, <2>6 DEF Works, Networking
    <2>7. CASE cmd[p].op = "delete"
      <3>1. Clearing(p)
        BY <1>4, <2>7 DEF Works
      <3> QED
        BY <1>0, <1>1, <3>1 DEF Clearing, Used
    <2> QED
      BY <1>4, <2>4, <2>5, <2>6, <2>7 DEF Works
  <1>5. ASSUME NEW p \in Procs, Starts(p) \/ Ends(p) PROVE eps' = eps
    BY <1>5 DEF Starts, Ends
  <1>6. Idles => Reattaches
    BY DEF Idles
  <1> QED
    BY <1>1, <1>2, <1>4, <1>5, <1>6

\* Every step keeps garden's rule.
LEMMA BaseStep ==
  ASSUME BaseInv, [Next]_vars
  PROVE  BaseInv'
  <1>0. TypeInv /\ Exclusive
    BY DEF BaseInv
  <1>1. TypeInv' /\ (Idles \/ \E p \in Procs : Works(p) \/ Starts(p) \/ Ends(p))
    BY <1>0, Moves
  <1>2. \A e \in Eids : Used(e)' => eps'[e].name \in Handles
    BY <1>1, OwnersStep
  <1>3. CASE Idles
    BY <1>0, <1>1, <1>2, <1>3 DEF Idles, BaseInv, Exclusive
  <1>4. ASSUME NEW p \in Procs, Works(p) PROVE BaseInv'
    <2>1. /\ phase' = phase /\ cmd' = cmd /\ \A q \in Procs : pc'[q] # "idle" => pc[q] # "idle"
      BY <1>4, WorkFrame DEF Alone
    <2> QED
      BY <1>0, <1>1, <1>2, <2>1 DEF BaseInv, Exclusive
  <1>5. ASSUME NEW p \in Procs, Starts(p) PROVE BaseInv'
    <2>1. \A q \in Procs \ {p} : pc'[q] = pc[q] /\ cmd'[q] = cmd[q]
      BY <1>5 DEF Starts, Alone
    <2>2. \A q \in Procs : pc[q] # "idle" /\ cmd'[p].handle \in Handles =>
            cmd[q].handle # cmd'[p].handle
      BY <1>5 DEF Starts
    <2>3. \A h \in Handles : phase'[h] = IF h = cmd'[p].handle THEN "begun" ELSE phase[h]
      BY <1>5 DEF Starts
    <2>4. \A q, r \in Procs :
            q # r /\ pc'[q] # "idle" /\ pc'[r] # "idle" /\ cmd'[q].handle \in Handles =>
              cmd'[q].handle # cmd'[r].handle
      BY <1>0, <2>1, <2>2 DEF Exclusive
    <2>5. \A q \in Procs : pc'[q] # "idle" /\ cmd'[q].handle \in Handles =>
            phase'[cmd'[q].handle] = "begun"
      BY <1>0, <2>1, <2>2, <2>3 DEF Exclusive
    <2> QED
      BY <1>1, <1>2, <2>4, <2>5 DEF BaseInv, Exclusive
  <1>6. ASSUME NEW p \in Procs, Ends(p) PROVE BaseInv'
    <2>1. pc'[p] = "idle" /\ \A q \in Procs \ {p} : pc'[q] = pc[q] /\ cmd'[q] = cmd[q]
      BY <1>6 DEF Ends, Alone
    <2>2. pc[p] # "idle" /\ \A h \in Handles : h # cmd[p].handle => phase'[h] = phase[h]
      BY <1>6 DEF Ends
    <2> QED
      BY <1>0, <1>1, <1>2, <2>1, <2>2 DEF BaseInv, Exclusive
  <1> QED
    BY <1>1, <1>3, <1>4, <1>5, <1>6

\* garden's rule holds at first.
LEMMA BaseInit == Init => BaseInv
  <1> SUFFICES ASSUME Init PROVE BaseInv
    OBVIOUS
  <1>1. Exclusive
    BY DEF Init, Exclusive, Used
  <1> QED
    BY <1>1, TypeInit DEF BaseInv

-----------------------------------------------------------------------------
(* Creating the NAT network                                                *)

\* create has found or made the network it was asked for, and only a delete that
\* has looked it up can have taken it.
NatOf(p) ==
  /\ cmd[p].op = "delete" /\ pc[p] = "nat.delete" => net[p] \in doomed
  /\ /\ cmd[p].op = "create"
     /\ pc[p] \in {"nat.ready", "nat.mtu"} \/ (pc[p] = "exit" /\ result[p] = "ok")
     => \/ net[p] \in doomed
        \/ nat.id = net[p] /\ net[p] # 0 /\ nat.subnet = cmd[p].subnet

NatInv == BaseInv /\ \A p \in Procs : NatOf(p)

\* Every step keeps NatInv.
LEMMA NatStep ==
  ASSUME NatInv, [Next]_vars
  PROVE  NatInv'
  <1>0. BaseInv /\ TypeInv /\ BaseInv' /\ \A p \in Procs : NatOf(p)
    BY BaseStep DEF NatInv, BaseInv
  <1>1. CASE Idles
    BY <1>0, <1>1 DEF Idles, NatInv, NatOf
  <1>2. ASSUME NEW p \in Procs, Works(p), NEW q \in Procs PROVE NatOf(q)'
    <2>0. /\ cmd' = cmd /\ pc[p] # "idle"
          /\ \A r \in Procs \ {p} : pc'[r] = pc[r] /\ result'[r] = result[r] /\ net'[r] = net[r]
      BY <1>2, WorkFrame DEF Alone
    <2>1. cmd[p].op \notin {"create", "delete"} => UNCHANGED <<nat, doomed>>
      BY <1>2 DEF Works, Creating, Allocating, Opening, Ruling, Applying, Sizing, Cleaning, Removing
    <2>2. cmd[p].op = "create" => Networking(p)
      BY <1>2 DEF Works
    <2>3. cmd[p].op = "delete" => Clearing(p)
      BY <1>2 DEF Works
    <2>4. CASE p = q
      <3>1. CASE cmd[p].op = "create"
        BY <1>0, <2>0, <2>2, <2>4, <3>1 DEF Networking, Advances, Fails, NatOf
      <3>2. CASE cmd[p].op = "delete"
        BY <1>0, <2>0, <2>3, <2>4, <3>2 DEF Clearing, Advances, Fails, NatOf
      <3> QED
        BY <2>0, <2>4, <3>1, <3>2 DEF NatOf
    <2>5. CASE p # q
      <3>1. \/ UNCHANGED <<nat, doomed>>
            \/ nat.id = 0 /\ doomed' = doomed
            \/ nat'.id = nat.id /\ nat'.subnet = nat.subnet /\ doomed \subseteq doomed'
            \/ nat.id \in doomed /\ doomed' = doomed
        <4>1. CASE cmd[p].op = "create"
          BY <2>2, <4>1 DEF Networking
        <4>2. CASE cmd[p].op = "delete"
          BY <1>0, <2>3, <4>2 DEF Clearing, NatOf
        <4> QED
          BY <2>1, <4>1, <4>2
      <3> QED
        BY <1>0, <2>0, <2>5, <3>1 DEF NatOf
    <2> QED
      BY <2>4, <2>5
  <1>3. ASSUME NEW p \in Procs, Starts(p) \/ Ends(p), NEW q \in Procs PROVE NatOf(q)'
    <2>1. UNCHANGED <<nat, doomed>> /\ Alone(p)
      BY <1>3 DEF Starts, Ends
    <2>2. /\ cmd'[p].op = "create" => pc'[p] \notin {"nat.ready", "nat.mtu", "exit"}
          /\ cmd'[p].op = "delete" => pc'[p] # "nat.delete"
      BY <1>3 DEF Starts, Ends, NoCommand
    <2> QED
      BY <1>0, <2>1, <2>2 DEF Alone, NatOf
  <1>4. Idles \/ \E p \in Procs : Works(p) \/ Starts(p) \/ Ends(p)
    BY <1>0, Moves
  <1>5. CASE \E p \in Procs : Works(p) \/ Starts(p) \/ Ends(p)
    BY <1>0, <1>2, <1>3, <1>5 DEF NatInv
  <1> QED
    BY <1>1, <1>4, <1>5

\* CreateHostNATNetwork that reports success has left the network that was asked
\* for: one that exists already is taken only if its subnet is the same, and
\* until the command is over only a DeleteHostNATNetwork that has looked up this
\* very network can take it, whatever other creates and deletes run meanwhile.
THEOREM CreatedIsConfigured == Spec => []CreatedAsConfigured
  <1>1. Init => NatInv
    <2>1. Init => \A p \in Procs : NatOf(p)
      BY DEF Init, NatOf
    <2> QED
      BY <2>1, BaseInit DEF NatInv
  <1>2. NatInv /\ [Next]_vars => NatInv'
    BY NatStep
  <1>3. NatInv => CreatedAsConfigured
    BY DEF NatInv, NatOf, CreatedAsConfigured
  <1> QED
    BY <1>1, <1>2, <1>3, PTL DEF Spec

-----------------------------------------------------------------------------
(* Cleaning up                                                             *)

\* A container has at most one endpoint, and one that is down has nothing.
OneOf(h) ==
  /\ \A e, f \in Eids : eps[e].name = h /\ eps[f].name = h => e = f
  /\ phase[h] = "down" => NoneOf(h) /\ acquired[h] = {}

\* Steps of up before anything has failed
Forward == {"ep.network", "ep.create", "ep.attach", "ep.ready", "ep.undo", "in", "ports", "out",
            "apply", "mtu", "mtu.set", "print"}

\* What up and down have cleaned up already, given where they are
CleanOf(p) ==
  LET h == cmd[p].handle
  IN
  /\ cmd[p].op \in {"up", "down"} =>
       /\ pc[p] \in {"ep.network", "ep.create"} => NoneOf(h)
       /\ pc[p] \in {"detach", "remove"} => \A e \in Eids : eps[e].name = h => e = ep[p]
  /\ cmd[p].op = "up" =>
       /\ pc[p] \in Forward => result[p] = "ok"
       /\ pc[p] \in {"undo", "find", "detach", "remove"} => result[p] # "ok"
       /\ pc[p] \in {"find", "detach", "remove", "exit"} /\ result[p] = "error" => acquired[h] = {}
       /\ pc[p] = "exit" /\ result[p] = "error" => NoneOf(h)
  /\ cmd[p].op = "down" =>
       /\ result[p] # "error"
       /\ pc[p] \in {"clean", "exit"} /\ result[p] = "ok" => NoneOf(h)
       /\ pc[p] = "exit" /\ result[p] = "ok" => acquired[h] = {}

CleanInv == BaseInv /\ (\A h \in Handles : OneOf(h)) /\ \A p \in Procs : CleanOf(p)

\* A container that is left alone stays as clean as it was.
LEMMA OneKept ==
  ASSUME NEW h \in Handles, OneOf(h), Kept(h), phase'[h] = phase[h]
  PROVE  OneOf(h)'
  BY DEF OneOf, Kept, NoneOf

\* A process that is left alone has cleaned up what it had.
LEMMA CleanKept ==
  ASSUME NEW p \in Procs, CleanOf(p), Kept(cmd[p].handle),
         UNCHANGED <<pc[p], cmd[p], ep[p], result[p]>>
  PROVE  CleanOf(p)'
  BY DEF CleanOf, Kept, NoneOf

\* The steps of a command itself
LEMMA CleanWork ==
  ASSUME CleanInv, NEW p \in Procs, Works(p)
  PROVE  CleanOf(p)' /\ (cmd[p].op \in {"up", "down"} => OneOf(cmd[p].handle)')
  <1>0. /\ BaseInv /\ TypeInv /\ Exclusive /\ CleanOf(p) /\ cmd' = cmd /\ phase' = phase
        /\ pc[p] # "idle"
    BY WorkFrame DEF CleanInv, BaseInv
  <1>1. CASE cmd[p].op \notin {"up", "down"}
    BY <1>0, <1>1 DEF CleanOf
  <1>2. CASE cmd[p].op \in {"up", "down"}
    <2>h. PICK h \in Handles : h = cmd[p].handle
      BY <1>0, <1>2, HandleOf
    <2>0. OneOf(h) /\ phase'[h] = "begun" /\ h # NoHandle /\ NoEndpoint.name = NoHandle
      BY <1>0, <2>h, NetworkAssumption DEF CleanInv, Exclusive, NoEndpoint
    <2>1. CASE \A e \in Eids : eps'[e].name = eps[e].name
      <3>1. OneOf(h)'
        BY <2>0, <2>1 DEF OneOf
      <3>2. NoneOf(h)' <=> NoneOf(h)
        BY <2>1 DEF NoneOf
      <3>3. CASE cmd[p].op = "up" /\ Creating(p)
        BY <1>0, <2>h, <2>1, <3>1, <3>2, <3>3 DEF CleanOf, Creating, Advances, Fails, Forward, Creates, Deletes
      <3>4. CASE cmd[p].op = "up" /\ (Allocating(p) \/ Opening(p) \/ Ruling(p))
        BY <1>0, <2>h, <2>1, <3>1, <3>2, <3>4 DEF CleanOf, Allocating, Opening, Ruling, Advances, Fails,
           Soils, Forward
      <3>5. CASE cmd[p].op = "up" /\ (Applying(p) \/ Sizing(p))
        BY <1>0, <2>h, <2>1, <3>1, <3>2, <3>5 DEF CleanOf, Applying, Sizing, Advances, Fails, Forward
      <3>6. CASE cmd[p].op = "up" /\ Cleaning(p, "undo", "find")
        BY <1>0, <2>h, <2>1, <3>1, <3>2, <3>6 DEF CleanOf, Cleaning, Advances, Soils, Forward
      <3>7. CASE cmd[p].op = "up" /\ Removing(p, "exit") /\ ~Deletes(p)
        BY <1>0, <2>h, <2>0, <2>1, <3>1, <3>2, <3>7 DEF CleanOf, Removing, Advances, Soils, Forward, OneOf
      <3>8. CASE cmd[p].op = "down" /\ Removing(p, "clean") /\ ~Deletes(p)
        BY <1>0, <2>h, <2>0, <2>1, <3>1, <3>2, <3>8 DEF CleanOf, Removing, Advances, Soils, OneOf
      <3>9. CASE cmd[p].op = "down" /\ Cleaning(p, "clean", "exit")
        BY <1>0, <2>h, <2>1, <3>1, <3>2, <3>9 DEF CleanOf, Cleaning, Advances, Soils
      <3>10. ~Deletes(p)
        BY <2>0, <2>h, <2>1 DEF Deletes
      <3> QED
        BY <1>2, <3>3, <3>4, <3>5, <3>6, <3>7, <3>8, <3>9, <3>10 DEF Works
    <2>2. CASE cmd[p].op = "up" /\ pc[p] = "ep.create" /\ Creates(p) /\ Advances(p, "ep.attach")
      <3>1. NoneOf(h)
        BY <1>0, <2>h, <1>2, <2>2 DEF CleanOf
      <3>2. OneOf(h)'
        BY <2>0, <2>2, <3>1 DEF OneOf, NoneOf, Creates, OnlyAt
      <3>3. CleanOf(p)'
        BY <1>0, <2>2 DEF CleanOf, Advances, Forward
      <3> QED
        BY <1>0, <2>h, <3>2, <3>3
    <2>3. CASE Deletes(p)
      <3>1. OneOf(h)' /\ NoneOf(h)'
        BY <2>0, <2>h, <2>3 DEF OneOf, Deletes, OnlyAt, NoneOf
      <3>2. CASE cmd[p].op = "up" /\ pc[p] = "ep.undo" /\ Fails(p, "undo")
        BY <1>0, <2>h, <3>1, <3>2 DEF CleanOf, Fails, Forward
      <3>3. CASE /\ cmd[p].op = "up" /\ pc[p] = "remove" /\ Advances(p, "exit")
                 /\ acquired' = acquired
        BY <1>0, <2>h, <3>1, <3>3 DEF CleanOf, Advances, Forward
      <3>4. CASE cmd[p].op = "down" /\ pc[p] = "remove" /\ Advances(p, "clean")
        BY <1>0, <2>h, <3>1, <3>4 DEF CleanOf, Advances
      <3>5. \/ cmd[p].op = "up" /\ pc[p] = "ep.undo" /\ Fails(p, "undo")
            \/ cmd[p].op = "up" /\ pc[p] = "remove" /\ Advances(p, "exit") /\ acquired' = acquired
            \/ cmd[p].op = "down" /\ pc[p] = "remove" /\ Advances(p, "clean")
            \/ \A e \in Eids : eps'[e].name = eps[e].name
        <4>1. /\ Deletes(p) => eps'[ep[p]].name # eps[ep[p]].name /\ ep[p] \in Eids
              /\ Creates(p) => \A e \in Eids : eps[e].name = h => eps'[e].name = h
          BY <2>h, <2>0 DEF Deletes, Creates, OnlyAt
        <4>2. ~Creates(p)
          BY <2>0, <2>h, <2>3, <4>1 DEF Deletes
        <4> QED
          BY <1>2, <2>3, <4>2 DEF Works, Creating, Allocating, Opening, Ruling, Applying, Sizing,
             Cleaning, Removing, Resizes, OnlyAt, Reattaches
      <3> QED
        BY <2>1, <3>2, <3>3, <3>4, <3>5
    <2>4. \/ \A e \in Eids : eps'[e].name = eps[e].name
          \/ cmd[p].op = "up" /\ pc[p] = "ep.create" /\ Creates(p) /\ Advances(p, "ep.attach")
          \/ Deletes(p)
      BY <1>2 DEF Works, Creating, Allocating, Opening, Ruling, Applying, Sizing, Cleaning, Removing,
         Resizes, OnlyAt, Reattaches
    <2> QED
      BY <1>0, <2>h, <2>1, <2>2, <2>3, <2>4
  <1> QED
    BY <1>1, <1>2

\* A step of one process leaves the others as clean as they were.
LEMMA OthersKept ==
  ASSUME BaseInv, NEW p \in Procs, Works(p), NEW q \in Procs \ {p}, cmd[q].op \in {"up", "down"}
  PROVE  /\ Kept(cmd[q].handle)
         /\ UNCHANGED <<pc[q], cmd[q], net[q], ep[q], rule[q], nats[q], acls[q], mtu[q], result[q]>>
  <1>1. cmd[q].handle \in Handles /\ pc[q] # "idle"
    BY HandleOf DEF BaseInv
  <1>2. Alone(p) /\ pc[p] # "idle"
    BY WorkFrame
  <1>3. cmd[q].handle # cmd[p].handle
    BY <1>1, <1>2 DEF BaseInv, Exclusive
  <1>4. Kept(cmd[q].handle)
    BY <1>1, <1>3, WorkKeeps
  <1> QED
    BY <1>2, <1>4 DEF Alone

\* So does a step between commands.
LEMMA OthersKeptBetween ==
  ASSUME BaseInv, NEW p \in Procs, Starts(p) \/ Ends(p), NEW q \in Procs \ {p},
         cmd[q].op \in {"up", "down"}
  PROVE  /\ Kept(cmd[q].handle)
         /\ UNCHANGED <<pc[q], cmd[q], net[q], ep[q], rule[q], nats[q], acls[q], mtu[q], result[q]>>
  <1>1. cmd[q].handle \in Handles
    BY HandleOf DEF BaseInv
  <1>2. Alone(p)
    BY DEF Starts, Ends
  <1> QED
    BY <1>1, <1>2, RestKeeps DEF Alone

\* Every step keeps CleanInv, if a container's up is not repeated before a down.
LEMMA CleanStep ==
  ASSUME UpOnce, CleanInv, [Next]_vars
  PROVE  CleanInv'
  <1>0. /\ BaseInv /\ TypeInv /\ Exclusive /\ BaseInv'
        /\ \A h \in Handles : OneOf(h)
        /\ \A p \in Procs : CleanOf(p)
    BY BaseStep DEF CleanInv, BaseInv
  <1>t. /\ phase \in [Handles -> {"down", "begun", "live"}]
        /\ result \in [Procs -> {"ok", "error", "unclean"}]
    BY <1>0 DEF TypeInv, TypeOK
  <1>1. CASE Idles
    <2>1. ASSUME NEW h \in Handles PROVE OneOf(h)'
      <3>1. phase'[h] = phase[h]
        BY <1>1 DEF Idles
      <3> QED
        BY <1>0, <1>1, <3>1, OneKept, RestKeeps
    <2>2. ASSUME NEW p \in Procs PROVE CleanOf(p)'
      <3>1. CASE cmd[p].op \in {"up", "down"}
        <4>1. cmd[p].handle \in Handles
          BY <1>0, <3>1, HandleOf
        <4>2. UNCHANGED <<pc[p], cmd[p], ep[p], result[p]>>
          BY <1>1 DEF Idles
        <4> QED
          BY <1>0, <1>1, <4>1, <4>2, CleanKept, RestKeeps
      <3>2. CASE cmd[p].op \notin {"up", "down"}
        BY <1>1, <3>2 DEF Idles, CleanOf
      <3> QED
        BY <3>1, <3>2
    <2> QED
      BY <1>0, <2>1, <2>2 DEF CleanInv
  <1>2. ASSUME NEW p \in Procs, Works(p) PROVE CleanInv'
    <2>0. phase' = phase /\ cmd' = cmd /\ Alone(p)
      BY <1>2, WorkFrame
    <2>1. ASSUME NEW h \in Handles PROVE OneOf(h)'
      <3>1. CASE h = cmd[p].handle
        <4>1. cmd[p].op \in {"up", "down"}
          <5>1. cmd[p] \in Commands
            BY <1>2 DEF Works
          <5> QED
            BY <3>1, <5>1, CommandTypes
        <4> QED
          BY <1>2, <2>0, <3>1, <4>1, CleanWork
      <3>2. CASE h # cmd[p].handle
        <4>1. Kept(h)
          BY <1>0, <1>2, <3>2, WorkKeeps
        <4>2. phase'[h] = phase[h]
          BY <2>0
        <4> QED
          BY <1>0, <4>1, <4>2, OneKept
      <3> QED
        BY <3>1, <3>2
    <2>2. ASSUME NEW q \in Procs \ {p} PROVE CleanOf(q)'
      <3>1. CASE cmd[q].op \in {"up", "down"}
        BY <1>0, <1>2, <3>1, OthersKept, CleanKept
      <3>2. CASE cmd[q].op \notin {"up", "down"}
        BY <2>0, <3>2 DEF CleanOf
      <3> QED
        BY <3>1, <3>2
    <2>3. CleanOf(p)'
      BY <1>2, CleanWork
    <2> QED
      BY <1>0, <2>1, <2>2, <2>3 DEF CleanInv
  <1>3. ASSUME NEW p \in Procs, Starts(p) PROVE CleanInv'
    <2>1. ASSUME NEW h \in Handles PROVE OneOf(h)'
      <3>1. Kept(h)
        BY <1>3, RestKeeps
      <3>2. phase'[h] = phase[h] \/ phase'[h] = "begun"
        BY <1>3 DEF Starts
      <3> QED
        BY <1>0, <3>1, <3>2, OneKept DEF OneOf, Kept
    <2>2. ASSUME NEW q \in Procs \ {p} PROVE CleanOf(q)'
      <3>1. CASE cmd[q].op \in {"up", "down"}
        BY <1>0, <1>3, <3>1, OthersKeptBetween, CleanKept
      <3>2. CASE cmd[q].op \notin {"up", "down"}
        BY <1>3, <3>2 DEF CleanOf, Starts, Alone
      <3> QED
        BY <3>1, <3>2
    <2>3. CleanOf(p)'
      <3>1. eps' = eps /\ result' = result /\ result[p] = "ok"
        BY <1>0, <1>3 DEF Starts, TypeInv, Control
      <3>2. CASE cmd'[p].op = "up"
        <4>1. pc'[p] = "ep.network" /\ phase[cmd'[p].handle] = "down" /\ cmd'[p] \in Commands
          BY <1>3, <3>2 DEF Starts
        <4>2. cmd'[p].handle \in Handles
          BY <3>2, <4>1, CommandTypes
        <4>3. NoneOf(cmd'[p].handle)
          BY <1>0, <4>1, <4>2 DEF OneOf
        <4> QED
          BY <3>1, <3>2, <4>1, <4>3 DEF CleanOf, NoneOf, Forward
      <3>3. CASE cmd'[p].op = "down"
        <4>1. pc'[p] = "find"
          BY <1>3, <3>3 DEF Starts
        <4> QED
          BY <3>1, <3>3, <4>1 DEF CleanOf
      <3>4. CASE cmd'[p].op \notin {"up", "down"}
        BY <3>4 DEF CleanOf
      <3> QED
        BY <3>2, <3>3, <3>4
    <2> QED
      BY <1>0, <2>1, <2>2, <2>3 DEF CleanInv
  <1>4. ASSUME NEW p \in Procs, Ends(p) PROVE CleanInv'
    <2>1. ASSUME NEW h \in Handles PROVE OneOf(h)'
      <3>1. Kept(h)
        BY <1>4, RestKeeps
      <3>2. CASE phase'[h] = phase[h]
        BY <1>0, <3>1, <3>2, OneKept
      <3>3. CASE phase'[h] = "live"
        BY <1>0, <3>1, <3>3 DEF OneOf, Kept
      <3>4. CASE /\ h = cmd[p].handle /\ cmd[p].op # "up" /\ pc[p] = "exit" /\ result[p] = "ok"
        <4>1. cmd[p] \in Commands
          BY <1>0, <3>4 DEF TypeInv, Control
        <4>2. cmd[p].op = "down"
          BY <3>4, <4>1, CommandTypes
        <4>3. NoneOf(h) /\ acquired[h] = {}
          BY <1>0, <3>4, <4>2 DEF CleanOf
        <4> QED
          BY <1>0, <3>1, <4>3 DEF OneOf, Kept, NoneOf
      <3>5. \/ phase'[h] = phase[h] \/ phase'[h] = "live"
            \/ h = cmd[p].handle /\ cmd[p].op # "up" /\ pc[p] = "exit" /\ result[p] = "ok"
        BY <1>4 DEF Ends
      <3> QED
        BY <3>2, <3>3, <3>4, <3>5
    <2>2. ASSUME NEW q \in Procs \ {p} PROVE CleanOf(q)'
      <3>1. CASE cmd[q].op \in {"up", "down"}
        BY <1>0, <1>4, <3>1, OthersKeptBetween, CleanKept
      <3>2. CASE cmd[q].op \notin {"up", "down"}
        BY <1>4, <3>2 DEF CleanOf, Ends, Alone
      <3> QED
        BY <3>1, <3>2
    <2>3. CleanOf(p)'
      BY <1>4 DEF Ends, CleanOf, NoCommand
    <2> QED
      BY <1>0, <2>1, <2>2, <2>3 DEF CleanInv
  <1>5. Idles \/ \E p \in Procs : Works(p) \/ Starts(p) \/ Ends(p)
    BY <1>0, Moves
  <1> QED
    BY <1>1, <1>2, <1>3, <1>4, <1>5

\* Nothing is there at first.
LEMMA CleanInit == Init => CleanInv
  <1> SUFFICES ASSUME Init PROVE CleanInv
    OBVIOUS
  <1>1. NoEndpoint.name = NoHandle /\ NoHandle \notin Handles /\ NoCommand.op = "none"
    BY NetworkAssumption DEF NoEndpoint, NoCommand
  <1>2. \A h \in Handles : OneOf(h)
    BY <1>1 DEF Init, OneOf, NoneOf, Pool!Init, Pool!Nothing
  <1>3. \A p \in Procs : CleanOf(p)
    BY <1>1 DEF Init, CleanOf
  <1> QED
    BY <1>2, <1>3, BaseInit DEF CleanInv

\* winc-network down that reports success has left neither an endpoint nor a
\* port, also when the up before it failed or was killed at any point, or the
\* allocator's file was lost, if a down comes between two ups.
THEOREM DownIsClean == UpOnce /\ Spec => []DownMeansClean
  <1>1. CleanInv => DownMeansClean
    BY DEF CleanInv, CleanOf, NoneOf, Named, DownMeansClean
  <1>2. UpOnce /\ CleanInv /\ [Next]_vars => CleanInv'
    BY CleanStep
  <1>3. ASSUME UpOnce PROVE Spec => []DownMeansClean
    <2>1. CleanInv /\ [Next]_vars => CleanInv'
      BY <1>2, <1>3
    <2> QED
      BY <1>1, <2>1, CleanInit, PTL DEF Spec
  <1> QED
    BY <1>3

\* winc-network up that fails, and all of whose cleanup succeeds, has left neither
\* an endpoint nor a port, whatever failed and whatever others did meanwhile.
THEOREM FailedUpCleansUp == UpOnce /\ Spec => []FailedUpLeavesNothing
  <1>1. CleanInv => FailedUpLeavesNothing
    BY DEF CleanInv, CleanOf, NoneOf, Named, FailedUpLeavesNothing
  <1>2. UpOnce /\ CleanInv /\ [Next]_vars => CleanInv'
    BY CleanStep
  <1>3. ASSUME UpOnce PROVE Spec => []FailedUpLeavesNothing
    <2>1. CleanInv /\ [Next]_vars => CleanInv'
      BY <1>2, <1>3
    <2> QED
      BY <1>1, <2>1, CleanInit, PTL DEF Spec
  <1> QED
    BY <1>3

-----------------------------------------------------------------------------
(* Access rules                                                            *)

\* up has put its policies on the endpoint, and nothing has failed since.
Applied(p) == pc[p] \in {"mtu", "mtu.set", "print"} \/ (pc[p] = "exit" /\ result[p] = "ok")

\* The rules that allow what the inputs name
Wanted(k) == {a \in {"allowIn", "allowOut"} : IF a = "allowIn" THEN k.in # <<>> ELSE HasNetOut(k)}

\* The rules that up has collected, and those on the endpoint; before that, nothing
AclOf(p) ==
  LET h == cmd[p].handle
      k == cmd[p]
  IN cmd[p].op = "up" =>
       /\ pc[p] \in {"ep.network", "ep.create", "ep.attach", "ep.ready"} =>
            rule[p] = 0 /\ acls[p] = {} /\ nats[p] = {}
       /\ pc[p] = "in" => /\ rule[p] =< Len(k.in)
                          /\ acls[p] = IF rule[p] = 0 THEN {} ELSE {"allowIn"}
       /\ pc[p] \in {"ports", "out"} => acls[p] = IF k.in = <<>> THEN {} ELSE {"allowIn"}
       /\ pc[p] = "apply" => acls[p] = Wanted(k)
       /\ pc[p] \in {"ep.attach", "ep.ready", "in", "ports", "out", "apply"} =>
            \A e \in Eids : eps[e].name = h => eps[e].acls = {} /\ eps[e].nats = {}
       /\ Applied(p) => \A e \in Eids : eps[e].name = h => eps[e].acls = ExpectedACLs(k)

AclInv == CleanInv /\ \A p \in Procs : AclOf(p)

\* A process that is left alone keeps its rules.
LEMMA AclKept ==
  ASSUME NEW p \in Procs, AclOf(p), Kept(cmd[p].handle),
         UNCHANGED <<pc[p], cmd[p], rule[p], nats[p], acls[p], result[p]>>
  PROVE  AclOf(p)'
  BY DEF AclOf, Kept, Applied

\* What is put on the endpoint is what is expected.
LEMMA WantedIsExpected ==
  ASSUME NEW k
  PROVE  (IF Wanted(k) = {} THEN {"blockOut", "blockIn"} ELSE Wanted(k)) = ExpectedACLs(k)
  <1>1. CASE k.in = <<>> /\ ~HasNetOut(k)
    <2>1. Wanted(k) = {}
      BY <1>1 DEF Wanted
    <2>2. ExpectedACLs(k) = {"blockIn", "blockOut"}
      BY <1>1 DEF ExpectedACLs
    <2> QED
      BY <2>1, <2>2
  <1>2. CASE ~(k.in = <<>> /\ ~HasNetOut(k))
    <2>1. Wanted(k) # {}
      <3>1. CASE k.in # <<>>
        BY <3>1 DEF Wanted
      <3>2. CASE HasNetOut(k)
        BY <3>2 DEF Wanted
      <3> QED
        BY <1>2, <3>1, <3>2
    <2>2. ExpectedACLs(k) = Wanted(k)
      BY <1>2 DEF ExpectedACLs, Wanted
    <2> QED
      BY <2>1, <2>2
  <1> QED
    BY <1>1, <1>2

\* The steps of up itself
LEMMA AclWork ==
  ASSUME AclInv, NEW p \in Procs, Works(p)
  PROVE  AclOf(p)'
  <1>0. /\ BaseInv /\ TypeInv /\ CleanOf(p) /\ AclOf(p) /\ cmd' = cmd
    BY WorkFrame DEF AclInv, CleanInv, BaseInv
  <1>1. CASE cmd[p].op # "up"
    BY <1>0, <1>1 DEF AclOf
  <1>2. CASE cmd[p].op = "up"
    <2>h. PICK h \in Handles : h = cmd[p].handle
      BY <1>0, <1>2, HandleOf
    <2>k. PICK k \in Commands : k = cmd[p] /\ k.in \in Seq(Nat)
      BY <1>0, <1>2, HandleOf, CommandTypes
    <2>0. OneOf(h) /\ h # NoHandle /\ rule[p] \in Nat /\ Len(k.in) \in Nat
      BY <1>0, <2>k, NetworkAssumption DEF AclInv, CleanInv, TypeInv, TypeOK
    <2>1. CASE Creating(p)
      <3>1. CASE pc[p] = "ep.create" /\ Creates(p) /\ Advances(p, "ep.attach")
                 /\ UNCHANGED <<rule, nats, acls>>
        <4>1. NoneOf(h)
          BY <1>0, <1>2, <2>h, <3>1 DEF CleanOf
        <4>2. \A e \in Eids : eps'[e].name = h => eps'[e].acls = {} /\ eps'[e].nats = {}
          BY <3>1, <4>1 DEF Creates, OnlyAt, NoneOf
        <4> QED
          BY <1>0, <1>2, <2>h, <3>1, <4>2 DEF AclOf, Advances, Applied
      <3>2. CASE /\ eps' = eps \/ Reattaches
                 /\ \/ /\ pc[p] \in {"ep.network", "ep.create"} /\ pc'[p] \in {"ep.create", "undo"}
                       /\ eps' = eps
                    \/ pc[p] = "ep.attach" /\ pc'[p] \in {"ep.ready", "ep.undo"}
                    \/ pc[p] = "ep.ready" /\ pc'[p] \in {"in", "ep.undo"}
                 /\ UNCHANGED <<rule, nats, acls>>
        <4>1. \A e \in Eids : /\ eps'[e].name = eps[e].name /\ eps'[e].acls = eps[e].acls
                               /\ eps'[e].nats = eps[e].nats
          BY <3>2 DEF Reattaches
        <4>2. 0 =< Len(k.in)
          BY <2>0
        <4> QED
          BY <1>0, <1>2, <2>h, <2>k, <3>2, <4>1, <4>2 DEF AclOf, Applied
      <3>3. CASE pc'[p] = "undo"
        BY <1>0, <3>3 DEF AclOf, Applied
      <3> QED
        BY <2>1, <3>1, <3>2, <3>3 DEF Creating, Advances, Fails
    <2>2. CASE Allocating(p)
      <3>1. eps' = eps /\ pc[p] = "in"
        BY <2>2 DEF Allocating
      <3>2. rule[p] =< Len(k.in) /\ acls[p] = IF rule[p] = 0 THEN {} ELSE {"allowIn"}
        BY <1>0, <1>2, <2>k, <3>1 DEF AclOf
      <3>3. \/ rule[p] = Len(k.in) /\ pc'[p] = "ports" /\ UNCHANGED <<rule, acls>>
            \/ /\ rule[p] < Len(k.in) /\ pc'[p] = "in" /\ rule'[p] = rule[p] + 1
               /\ acls'[p] = acls[p] \cup {"allowIn"}
            \/ pc'[p] = "undo"
        BY <2>2, <2>k DEF Allocating, Advances, Fails
      <3>4. Len(k.in) = 0 <=> k.in = <<>>
        BY <2>k
      <3>5. Len(k.in) \in Nat
        BY <2>k
      <3>6. CASE rule[p] = Len(k.in) /\ pc'[p] = "ports" /\ UNCHANGED <<rule, acls>>
        BY <1>0, <1>2, <2>h, <2>k, <3>1, <3>2, <3>4, <3>6 DEF AclOf, Applied
      <3>7. CASE /\ rule[p] < Len(k.in) /\ pc'[p] = "in" /\ rule'[p] = rule[p] + 1
                 /\ acls'[p] = acls[p] \cup {"allowIn"}
        <4>1. acls'[p] = {"allowIn"} /\ rule'[p] =< Len(k.in) /\ rule'[p] # 0
          BY <2>0, <3>2, <3>5, <3>7
        <4> QED
          BY <1>0, <1>2, <2>h, <2>k, <3>1, <3>7, <4>1 DEF AclOf, Applied
      <3>8. CASE pc'[p] = "undo"
        BY <1>0, <3>8 DEF AclOf, Applied
      <3> QED
        BY <3>3, <3>6, <3>7, <3>8
    <2>3. CASE Opening(p)
      BY <1>0, <1>2, <2>h, <2>k, <2>3 DEF AclOf, Opening, Advances, Fails, Soils, Applied
    <2>4. CASE Ruling(p)
      <3>1. CASE Fails(p, "undo")
        BY <1>0, <3>1 DEF AclOf, Fails, Applied
      <3>2. CASE /\ Advances(p, "apply")
                 /\ acls'[p] = acls[p] \cup (IF HasNetOut(cmd[p]) THEN {"allowOut"} ELSE {})
        <4>1. acls[p] = IF k.in = <<>> THEN {} ELSE {"allowIn"}
          BY <1>0, <1>2, <2>k, <2>4 DEF AclOf, Ruling
        <4>2. acls'[p] = acls[p] \cup (IF HasNetOut(k) THEN {"allowOut"} ELSE {})
          BY <2>k, <3>2
        <4>3. acls'[p] = Wanted(k)
          <5>1. \A a : a \in acls'[p] <=>
                         (a = "allowIn" /\ k.in # <<>>) \/ (a = "allowOut" /\ HasNetOut(k))
            BY <4>1, <4>2
          <5>2. \A a : a \in Wanted(k) <=>
                         (a = "allowIn" /\ k.in # <<>>) \/ (a = "allowOut" /\ HasNetOut(k))
            BY DEF Wanted
          <5> QED
            BY <5>1, <5>2
        <4>4. eps' = eps
          BY <2>4 DEF Ruling
        <4> QED
          BY <1>0, <1>2, <2>h, <2>k, <2>4, <3>2, <4>3, <4>4 DEF AclOf, Ruling, Advances, Applied
      <3> QED
        BY <2>4, <3>1, <3>2 DEF Ruling
    <2>5. CASE Applying(p)
      <3>1. CASE Fails(p, "undo")
        BY <1>0, <3>1 DEF AclOf, Fails, Applied
      <3>2. CASE Advances(p, "mtu")
        <4>1. /\ ep[p] \in Eids /\ eps[ep[p]].name = h /\ OnlyAt(ep[p])
              /\ eps'[ep[p]].acls = eps[ep[p]].acls \cup (IF acls[p] = {} THEN {"blockOut", "blockIn"}
                                                                         ELSE acls[p])
          BY <2>5, <2>h, <3>2 DEF Applying, Advances, Fails
        <4>2. acls[p] = Wanted(k) /\ eps[ep[p]].acls = {}
          BY <1>0, <1>2, <2>5, <2>h, <2>k, <4>1 DEF AclOf, Applying
        <4>3. eps'[ep[p]].acls = ExpectedACLs(k)
          BY <4>1, <4>2, WantedIsExpected
        <4>4. \A e \in Eids : eps'[e].name = h => e = ep[p]
          BY <2>0, <4>1 DEF OneOf, OnlyAt
        <4> QED
          BY <1>0, <1>2, <2>h, <2>k, <3>2, <4>3, <4>4 DEF AclOf, Advances, Applied
      <3> QED
        BY <2>5, <3>1, <3>2 DEF Applying
    <2>6. CASE Sizing(p)
      <3>1. /\ pc[p] \in {"mtu", "mtu.set"} /\ pc'[p] \in {"mtu.set", "print", "undo"}
            /\ \A e \in Eids : eps'[e].name = eps[e].name /\ eps'[e].acls = eps[e].acls
        BY <2>6 DEF Sizing, Resizes, OnlyAt, Advances, Fails
      <3> QED
        BY <1>0, <1>2, <2>h, <2>k, <3>1 DEF AclOf, Applied
    <2>7. CASE Cleaning(p, "undo", "find") \/ Removing(p, "exit")
      <3>1. /\ pc'[p] \in {"find", "detach", "remove", "exit"}
            /\ result'[p] = result[p] \/ result'[p] = "unclean"
            /\ pc[p] \in {"undo", "find", "detach", "remove"}
        BY <2>7 DEF Cleaning, Removing, Advances, Soils
      <3>2. result'[p] # "ok"
        BY <1>0, <1>2, <3>1 DEF CleanOf
      <3> QED
        BY <1>0, <3>1, <3>2 DEF AclOf, Applied
    <2> QED
      BY <1>2, <2>1, <2>2, <2>3, <2>4, <2>5, <2>6, <2>7 DEF Works
  <1> QED
    BY <1>1, <1>2

\* Every step keeps AclInv.
LEMMA AclStep ==
  ASSUME UpOnce, AclInv, [Next]_vars
  PROVE  AclInv'
  <1>0. /\ CleanInv /\ BaseInv /\ TypeInv /\ CleanInv' /\ \A p \in Procs : AclOf(p)
    BY CleanStep DEF AclInv, CleanInv, BaseInv
  <1>1. CASE Idles
    <2>1. ASSUME NEW p \in Procs PROVE AclOf(p)'
      <3>1. CASE cmd[p].op = "up"
        <4>1. cmd[p].handle \in Handles
          BY <1>0, <3>1, HandleOf
        <4>2. UNCHANGED <<pc[p], cmd[p], rule[p], nats[p], acls[p], result[p]>>
          BY <1>1 DEF Idles
        <4> QED
          BY <1>0, <1>1, <4>1, <4>2, AclKept, RestKeeps
      <3>2. CASE cmd[p].op # "up"
        BY <1>1, <3>2 DEF Idles, AclOf
      <3> QED
        BY <3>1, <3>2
    <2> QED
      BY <1>0, <2>1 DEF AclInv
  <1>2. ASSUME NEW p \in Procs, Works(p), NEW q \in Procs PROVE AclOf(q)'
    <2>1. CASE q = p
      BY <1>2, <2>1, AclWork
    <2>2. CASE q # p /\ cmd[q].op = "up"
      BY <1>0, <1>2, <2>2, OthersKept, AclKept
    <2>3. CASE q # p /\ cmd[q].op # "up"
      BY <1>2, <2>3, WorkFrame DEF AclOf, Alone
    <2> QED
      BY <2>1, <2>2, <2>3
  <1>3. ASSUME NEW p \in Procs, Starts(p) \/ Ends(p), NEW q \in Procs PROVE AclOf(q)'
    <2>1. CASE q = p
      <3>1. CASE Starts(p) /\ cmd'[p].op = "up"
        <4>1. pc'[p] = "ep.network" /\ rule'[p] = 0 /\ acls'[p] = {} /\ nats'[p] = {}
          BY <1>0, <3>1 DEF Starts, TypeInv, Control
        <4> QED
          BY <2>1, <4>1 DEF AclOf, Applied
      <3>2. CASE cmd'[p].op # "up"
        BY <2>1, <3>2 DEF AclOf
      <3>3. Ends(p) => cmd'[p].op # "up"
        BY DEF Ends, NoCommand
      <3> QED
        BY <1>3, <3>1, <3>2, <3>3
    <2>2. CASE q # p /\ cmd[q].op = "up"
      BY <1>0, <1>3, <2>2, OthersKeptBetween, AclKept
    <2>3. CASE q # p /\ cmd[q].op # "up"
      BY <1>3, <2>3 DEF AclOf, Starts, Ends, Alone
    <2> QED
      BY <2>1, <2>2, <2>3
  <1>4. Idles \/ \E p \in Procs : Works(p) \/ Starts(p) \/ Ends(p)
    BY <1>0, Moves
  <1>5. CASE \E p \in Procs : Works(p) \/ Starts(p) \/ Ends(p)
    BY <1>0, <1>2, <1>3, <1>5 DEF AclInv
  <1> QED
    BY <1>1, <1>4, <1>5

\* No rule is there at first.
LEMMA AclInit == Init => AclInv
  <1>1. Init => \A p \in Procs : AclOf(p)
    BY DEF Init, AclOf, NoCommand
  <1> QED
    BY <1>1, CleanInit DEF AclInv

-----------------------------------------------------------------------------
(* Ports                                                                   *)

\* Callers name no host port of the allocator's pool.
OutsidePool == HostPorts \cap Ports = {}

\* A port belongs to one container.
PortsApart == \A g, h \in Handles : g # h => acquired[g] \cap acquired[h] = {}

\* Steps of up at which it has an endpoint without policies
Filling == {"in", "ports", "out", "apply"}

\* The port mappings that up has collected, and those on the endpoint
PortsOf(p) ==
  LET h == cmd[p].handle
  IN cmd[p].op = "up" =>
       /\ pc[p] \in Filling => nats[p] \cap Ports \subseteq acquired[h]
       /\ Applied(p) => \A e \in Eids : eps[e].name = h => eps[e].nats \cap Ports \subseteq acquired[h]

\* The mappings of a container that is up
LivePorts(h) ==
  phase[h] = "live" => \A e \in Eids : eps[e].name = h => eps[e].nats \cap Ports \subseteq acquired[h]

PortsInv ==
  /\ AclInv /\ PortsApart
  /\ \A h \in Handles : LivePorts(h)
  /\ \A p \in Procs : PortsOf(p)

\* A process that is left alone keeps its ports.
LEMMA PortsKept ==
  ASSUME ~MayLose, NEW p \in Procs, PortsOf(p), Kept(cmd[p].handle),
         UNCHANGED <<pc[p], cmd[p], rule[p], nats[p], result[p]>>
  PROVE  PortsOf(p)'
  BY DEF PortsOf, Kept, Applied, Filling

\* A container that is left alone keeps its ports.
LEMMA LivePortsKept ==
  ASSUME ~MayLose, NEW h \in Handles, LivePorts(h), Kept(h), phase'[h] \in {phase[h], "begun"}
  PROVE  LivePorts(h)'
  BY DEF LivePorts, Kept

\* The steps of up itself
LEMMA PortsWork ==
  ASSUME ~MayLose, OutsidePool, PortsInv, NEW p \in Procs, Works(p)
  PROVE  PortsOf(p)'
  <1>0. /\ BaseInv /\ TypeInv /\ CleanOf(p) /\ AclOf(p) /\ PortsOf(p) /\ cmd' = cmd
    BY WorkFrame DEF PortsInv, AclInv, CleanInv, BaseInv
  <1>1. CASE cmd[p].op # "up"
    BY <1>0, <1>1 DEF PortsOf
  <1>2. CASE cmd[p].op = "up"
    <2>h. PICK h \in Handles : h = cmd[p].handle
      BY <1>0, <1>2, HandleOf
    <2>0. OneOf(h) /\ h # NoHandle
      BY <1>0, NetworkAssumption DEF PortsInv, AclInv, CleanInv
    <2>f. ASSUME pc'[p] = "undo" PROVE PortsOf(p)'
      BY <1>0, <2>f DEF PortsOf, Applied, Filling
    <2>1. CASE Creating(p)
      <3>1. CASE pc[p] = "ep.ready" /\ pc'[p] = "in" /\ nats' = nats
        <4>1. nats'[p] = {}
          BY <1>0, <1>2, <3>1 DEF AclOf
        <4> QED
          BY <1>0, <3>1, <4>1 DEF PortsOf, Applied, Filling
      <3>2. CASE pc'[p] \in {"ep.create", "ep.attach", "ep.ready", "ep.undo"}
        BY <1>0, <3>2 DEF PortsOf, Applied, Filling
      <3> QED
        BY <2>1, <2>f, <3>1, <3>2 DEF Creating, Advances, Fails
    <2>2. CASE Allocating(p)
      <3>1. pc[p] = "in"
        BY <2>2 DEF Allocating
      <3>2. nats[p] \cap Ports \subseteq acquired[h]
        BY <1>0, <1>2, <2>h, <3>1 DEF PortsOf, Filling
      <3>3. ASSUME pc'[p] \in {"in", "ports"}, nats'[p] \cap Ports \subseteq acquired'[h]
            PROVE  PortsOf(p)'
        BY <1>0, <1>2, <2>h, <3>1, <3>3 DEF PortsOf, Applied, Filling
      <3>4. CASE Advances(p, "ports") /\ UNCHANGED <<acquired, nats>>
        BY <3>2, <3>3, <3>4 DEF Advances
      <3>5. CASE /\ rule[p] < Len(cmd[p].in) /\ cmd[p].in[rule[p] + 1] # 0 /\ acquired' = acquired
                 /\ nats'[p] = nats[p] \cup {cmd[p].in[rule[p] + 1]} /\ Advances(p, "in")
        <4> DEFINE port == cmd[p].in[rule[p] + 1]
        <4>1. cmd[p] \in Commands /\ cmd[p].in \in Seq(Nat) /\ rule[p] \in Nat
          BY <1>0, <1>2, HandleOf, CommandTypes DEF TypeInv, TypeOK
        <4>2. rule[p] + 1 \in DOMAIN cmd[p].in
          BY <3>5, <4>1
        <4>3. port \in HostPorts
          BY <1>2, <3>5, <4>1, <4>2, HostPortTypes
        <4>4. nats'[p] = nats[p] \cup {port}
          BY <3>5
        <4> HIDE DEF port
        <4>5. nats'[p] \cap Ports \subseteq acquired'[h]
          BY <3>2, <3>5, <4>3, <4>4 DEF OutsidePool
        <4> QED
          BY <3>3, <3>5, <4>5 DEF Advances
      <3>6. ASSUME NEW n \in Ports, nats'[p] = nats[p] \cup {n},
                   acquired'[h] = acquired[h] \cup {n}, Advances(p, "in")
            PROVE  PortsOf(p)'
        BY <3>2, <3>3, <3>6 DEF Advances
      <3> QED
        BY <2>2, <2>f, <2>h, <3>4, <3>5, <3>6 DEF Allocating, Fails
    <2>3. CASE Opening(p)
      <3>1. /\ UNCHANGED <<acquired, eps, nats, rule>>
            /\ \/ pc[p] = "ports" /\ pc'[p] = "out"
               \/ pc[p] = "print" /\ pc'[p] = "exit"
               \/ pc'[p] = "undo"
        BY <2>3 DEF Opening, Advances, Fails, Soils
      <3> QED
        BY <1>0, <1>2, <2>f, <2>h, <3>1 DEF PortsOf, Applied, Filling
    <2>4. CASE Ruling(p)
      <3>1. /\ UNCHANGED <<acquired, eps, nats, rule>>
            /\ (pc[p] = "out" /\ pc'[p] = "apply") \/ pc'[p] = "undo"
        BY <2>4 DEF Ruling, Advances, Fails
      <3> QED
        BY <1>0, <1>2, <2>f, <2>h, <3>1 DEF PortsOf, Applied, Filling
    <2>5. CASE Applying(p)
      <3>1. CASE Advances(p, "mtu")
        <4>1. /\ ep[p] \in Eids /\ eps[ep[p]].name = h /\ OnlyAt(ep[p]) /\ acquired' = acquired
              /\ eps'[ep[p]].nats = eps[ep[p]].nats \cup nats[p]
          BY <2>5, <2>h, <3>1 DEF Applying, Advances, Fails
        <4>2. nats[p] \cap Ports \subseteq acquired[h] /\ eps[ep[p]].nats = {}
          BY <1>0, <1>2, <2>5, <2>h, <4>1 DEF PortsOf, AclOf, Applying, Filling
        <4>3. \A e \in Eids : eps'[e].name = h => e = ep[p]
          BY <2>0, <4>1 DEF OneOf, OnlyAt
        <4>4. \A e \in Eids : eps'[e].name = h => eps'[e].nats \cap Ports \subseteq acquired'[h]
          BY <4>1, <4>2, <4>3
        <4> QED
          BY <1>0, <1>2, <2>h, <3>1, <4>4 DEF PortsOf, Advances, Applied, Filling
      <3> QED
        BY <2>5, <2>f, <3>1 DEF Applying, Fails
    <2>6. CASE Sizing(p)
      <3>1. /\ pc[p] \in {"mtu", "mtu.set"} /\ pc'[p] \in {"mtu.set", "print", "undo"}
            /\ acquired' = acquired
            /\ \A e \in Eids : eps'[e].name = eps[e].name /\ eps'[e].nats = eps[e].nats
        BY <2>6 DEF Sizing, Resizes, OnlyAt, Advances, Fails
      <3> QED
        BY <1>0, <1>2, <2>h, <3>1 DEF PortsOf, Applied, Filling
    <2>7. CASE Cleaning(p, "undo", "find") \/ Removing(p, "exit")
      <3>1. /\ pc'[p] \in {"find", "detach", "remove", "exit"}
            /\ result'[p] = result[p] \/ result'[p] = "unclean"
            /\ pc[p] \in {"undo", "find", "detach", "remove"}
        BY <2>7 DEF Cleaning, Removing, Advances, Soils
      <3>2. result'[p] # "ok"
        BY <1>0, <1>2, <3>1 DEF CleanOf
      <3> QED
        BY <1>0, <3>1, <3>2 DEF PortsOf, Applied, Filling
    <2> QED
      BY <1>2, <2>1, <2>2, <2>3, <2>4, <2>5, <2>6, <2>7 DEF Works
  <1> QED
    BY <1>1, <1>2

\* No step gives a port to two containers.
LEMMA ApartStep ==
  ASSUME ~MayLose, BaseInv, PortsApart, Idles \/ \E p \in Procs : Works(p) \/ Starts(p) \/ Ends(p)
  PROVE  PortsApart'
  <1>1. CASE acquired' = acquired
    BY <1>1 DEF PortsApart
  <1>2. ASSUME NEW p \in Procs, Works(p) PROVE PortsApart'
    <2>1. CASE cmd[p].op \in {"up", "down"}
      <3>h. PICK h \in Handles : h = cmd[p].handle
        BY <2>1, HandleOf DEF BaseInv
      <3>1. \A g \in Handles \ {h} : acquired'[g] = acquired[g]
        BY <3>h, <1>2, WorkKeeps DEF Kept
      <3>2. \/ acquired'[h] \subseteq acquired[h]
            \/ \E n \in Ports : /\ \A g \in Handles : n \notin acquired[g]
                                /\ acquired'[h] = acquired[h] \cup {n}
        BY <1>2, <2>1, <3>h DEF Works, Creating, Allocating, Opening, Ruling, Applying, Sizing,
           Cleaning, Removing, Loses
      <3>3. \A g \in Handles \ {h} : acquired[g] \cap acquired[h] = {}
        BY DEF PortsApart
      <3>4. \A g \in Handles \ {h} : acquired'[g] \cap acquired'[h] = {}
        BY <3>1, <3>2, <3>3
      <3>5. \A f, g \in Handles \ {h} : f # g => acquired'[f] \cap acquired'[g] = {}
        BY <3>1 DEF PortsApart
      <3> QED
        BY <3>4, <3>5 DEF PortsApart
    <2>2. CASE cmd[p].op \notin {"up", "down"}
      BY <1>1, <1>2, <2>2 DEF Works, Networking, Clearing
    <2> QED
      BY <2>1, <2>2
  <1>3. Idles \/ (\E p \in Procs : Starts(p) \/ Ends(p)) => acquired' = acquired
    BY DEF Idles, Starts, Ends, Loses
  <1> QED
    BY <1>1, <1>2, <1>3

\* Every step keeps PortsInv.
LEMMA PortsStep ==
  ASSUME UpOnce, ~MayLose, OutsidePool, PortsInv, [Next]_vars
  PROVE  PortsInv'
  <1>0. /\ AclInv /\ BaseInv /\ TypeInv /\ Exclusive /\ AclInv' /\ PortsApart
        /\ \A h \in Handles : LivePorts(h)
        /\ \A p \in Procs : PortsOf(p)
    BY AclStep DEF PortsInv, AclInv, CleanInv, BaseInv
  <1>1. Idles \/ \E p \in Procs : Works(p) \/ Starts(p) \/ Ends(p)
    BY <1>0, Moves
  <1>2. PortsApart'
    BY <1>0, <1>1, ApartStep
  <1>3. CASE Idles
    <2>1. ASSUME NEW p \in Procs PROVE PortsOf(p)'
      <3>1. CASE cmd[p].op = "up"
        <4>1. cmd[p].handle \in Handles
          BY <1>0, <3>1, HandleOf
        <4>2. UNCHANGED <<pc[p], cmd[p], rule[p], nats[p], result[p]>>
          BY <1>3 DEF Idles
        <4> QED
          BY <1>0, <1>3, <4>1, <4>2, PortsKept, RestKeeps
      <3>2. CASE cmd[p].op # "up"
        BY <1>3, <3>2 DEF Idles, PortsOf
      <3> QED
        BY <3>1, <3>2
    <2>2. \A h \in Handles : LivePorts(h)'
      BY <1>0, <1>3, LivePortsKept, RestKeeps DEF Idles
    <2> QED
      BY <1>0, <1>2, <2>1, <2>2 DEF PortsInv
  <1>4. ASSUME NEW p \in Procs, Works(p) PROVE PortsInv'
    <2>0. phase' = phase /\ cmd' = cmd /\ Alone(p) /\ pc[p] # "idle"
      BY <1>4, WorkFrame
    <2>1. ASSUME NEW q \in Procs PROVE PortsOf(q)'
      <3>1. CASE q = p
        BY <1>4, <3>1, PortsWork
      <3>2. CASE q # p /\ cmd[q].op = "up"
        BY <1>0, <1>4, <3>2, OthersKept, PortsKept
      <3>3. CASE q # p /\ cmd[q].op # "up"
        BY <2>0, <3>3 DEF PortsOf
      <3> QED
        BY <3>1, <3>2, <3>3
    <2>2. ASSUME NEW h \in Handles PROVE LivePorts(h)'
      <3>1. CASE h = cmd[p].handle
        <4>1. phase'[h] = "begun"
          BY <1>0, <2>0, <3>1 DEF Exclusive
        <4> QED
          BY <4>1 DEF LivePorts
      <3>2. CASE h # cmd[p].handle
        <4>1. phase'[h] = phase[h]
          BY <2>0
        <4> QED
          BY <1>0, <1>4, <3>2, <4>1, WorkKeeps, LivePortsKept
      <3> QED
        BY <3>1, <3>2
    <2> QED
      BY <1>0, <1>2, <2>1, <2>2 DEF PortsInv
  <1>5. ASSUME NEW p \in Procs, Starts(p) \/ Ends(p) PROVE PortsInv'
    <2>1. ASSUME NEW q \in Procs PROVE PortsOf(q)'
      <3>1. CASE q = p
        <4>1. CASE Starts(p) /\ cmd'[p].op = "up"
          <5>1. pc'[p] = "ep.network"
            BY <4>1 DEF Starts
          <5> QED
            BY <3>1, <5>1 DEF PortsOf, Applied, Filling
        <4>2. CASE cmd'[p].op # "up"
          BY <3>1, <4>2 DEF PortsOf
        <4>3. Ends(p) => cmd'[p].op # "up"
          BY DEF Ends, NoCommand
        <4> QED
          BY <1>5, <4>1, <4>2, <4>3
      <3>2. CASE q # p /\ cmd[q].op = "up"
        BY <1>0, <1>5, <3>2, OthersKeptBetween, PortsKept
      <3>3. CASE q # p /\ cmd[q].op # "up"
        BY <1>5, <3>3 DEF PortsOf, Starts, Ends, Alone
      <3> QED
        BY <3>1, <3>2, <3>3
    <2>2. ASSUME NEW h \in Handles PROVE LivePorts(h)'
      <3>1. Kept(h)
        BY <1>5, RestKeeps
      <3>2. CASE phase'[h] \in {phase[h], "begun", "down"}
        BY <1>0, <3>1, <3>2, LivePortsKept DEF LivePorts
      <3>3. CASE /\ h = cmd[p].handle /\ cmd[p].op = "up" /\ pc[p] = "exit" /\ result[p] = "ok"
        <4>1. \A e \in Eids : eps[e].name = h => eps[e].nats \cap Ports \subseteq acquired[h]
          BY <1>0, <3>3 DEF PortsOf, Applied
        <4> QED
          BY <3>1, <4>1 DEF LivePorts, Kept
      <3>4. \/ phase'[h] \in {phase[h], "begun", "down"}
            \/ h = cmd[p].handle /\ cmd[p].op = "up" /\ pc[p] = "exit" /\ result[p] = "ok"
        BY <1>5 DEF Starts, Ends
      <3> QED
        BY <3>2, <3>3, <3>4
    <2> QED
      BY <1>0, <1>2, <2>1, <2>2 DEF PortsInv
  <1> QED
    BY <1>1, <1>3, <1>4, <1>5

\* No port is taken at first.
LEMMA PortsInit == Init => PortsInv
  <1> SUFFICES ASSUME Init PROVE PortsInv
    OBVIOUS
  <1>1. PortsApart
    BY DEF Init, PortsApart, Pool!Init, Pool!Nothing
  <1>2. (\A h \in Handles : LivePorts(h)) /\ \A p \in Procs : PortsOf(p)
    BY DEF Init, LivePorts, PortsOf, NoCommand
  <1> QED
    BY <1>1, <1>2, AclInit DEF PortsInv

\* Two containers that are up never map the same port of the pool, whatever
\* failed and was cleaned up between their ups, as long as the allocator's file
\* is not lost and callers name no port of the pool themselves.
THEOREM LivePortsStayApart ==
  UpOnce /\ ~MayLose /\ OutsidePool /\ Spec => []LivePortsApart
  <1>1. PortsInv => LivePortsApart
    <2> SUFFICES ASSUME PortsInv, NEW e \in Eids, NEW f \in Eids, e # f, Used(e), Used(f),
                        phase[eps[e].name] = "live", phase[eps[f].name] = "live"
                 PROVE  eps[e].nats \cap eps[f].nats \cap Ports = {}
      BY DEF LivePortsApart
    <2>1. eps[e].name \in Handles /\ eps[f].name \in Handles
      BY DEF PortsInv, AclInv, CleanInv, BaseInv, Exclusive
    <2>2. eps[e].name # eps[f].name
      BY <2>1 DEF PortsInv, AclInv, CleanInv, OneOf
    <2>3. /\ eps[e].nats \cap Ports \subseteq acquired[eps[e].name]
          /\ eps[f].nats \cap Ports \subseteq acquired[eps[f].name]
      BY <2>1 DEF PortsInv, LivePorts
    <2>4. acquired[eps[e].name] \cap acquired[eps[f].name] = {}
      BY <2>1, <2>2 DEF PortsInv, PortsApart
    <2> QED
      BY <2>3, <2>4
  <1>2. ASSUME UpOnce, ~MayLose, OutsidePool PROVE Spec => []LivePortsApart
    <2>1. PortsInv /\ [Next]_vars => PortsInv'
      BY <1>2, PortsStep
    <2> QED
      BY <1>1, <2>1, PortsInit, PTL DEF Spec
  <1> QED
    BY <1>2

-----------------------------------------------------------------------------
(* One mapping for each NetIn rule                                         *)

\* No two NetIn rules of a container name the same host port.
DistinctHostPorts ==
  \A k \in Commands : k.op = "up" =>
    \A i, j \in DOMAIN k.in : i # j /\ k.in[i] # 0 => k.in[i] # k.in[j]

\* How many mappings up has collected, and how many there are on the endpoint
CountOf(p) ==
  LET h == cmd[p].handle
      k == cmd[p]
  IN cmd[p].op = "up" =>
       /\ pc[p] \in Filling => /\ rule[p] =< Len(k.in)
                               /\ nats[p] \ Ports \subseteq {k.in[i] : i \in 1..rule[p]}
                               /\ IsFiniteSet(nats[p]) /\ Cardinality(nats[p]) = rule[p]
       /\ pc[p] \in {"ports", "out", "apply"} => rule[p] = Len(k.in)
       /\ Applied(p) => \A e \in Eids : eps[e].name = h => Cardinality(eps[e].nats) = Len(k.in)

\* If the allocator's file may be lost, a port may be allocated twice: then no
\* container asks for more than one.
FewIfLossy == MayLose => \A k \in Commands : Len(k.in) =< 1

FitInv == AclInv /\ (MayLose \/ PortsInv) /\ \A p \in Procs : CountOf(p)

\* A process that is left alone keeps its mappings.
LEMMA CountKept ==
  ASSUME NEW p \in Procs, CountOf(p), Kept(cmd[p].handle),
         UNCHANGED <<pc[p], cmd[p], rule[p], nats[p], result[p]>>
  PROVE  CountOf(p)'
  BY DEF CountOf, Kept, Applied, Filling

\* Applier.In adds a mapping that was not there.
LEMMA CountIn ==
  ASSUME DistinctHostPorts, OutsidePool, FewIfLossy, FitInv, NEW p \in Procs, Works(p),
         cmd[p].op = "up", Allocating(p)
  PROVE  CountOf(p)'
  <1>0. /\ BaseInv /\ TypeInv /\ (MayLose \/ PortsOf(p)) /\ CountOf(p) /\ cmd' = cmd /\ pc[p] = "in"
    BY WorkFrame DEF FitInv, PortsInv, AclInv, CleanInv, BaseInv, Allocating
  <1>k. PICK k \in Commands : k = cmd[p] /\ k.op = "up" /\ k.in \in Seq(Nat)
    BY <1>0, HandleOf, CommandTypes
  <1>h. PICK h \in Handles : h = cmd[p].handle
    BY <1>0, HandleOf
  <1>1. /\ rule[p] \in Nat /\ rule[p] =< Len(k.in) /\ IsFiniteSet(nats[p])
        /\ Cardinality(nats[p]) = rule[p] /\ nats[p] \ Ports \subseteq {k.in[i] : i \in 1..rule[p]}
        /\ MayLose \/ nats[p] \cap Ports \subseteq acquired[h]
        /\ Len(k.in) \in Nat
    BY <1>0, <1>k, <1>h DEF CountOf, PortsOf, Filling, TypeInv, TypeOK
  <1>2. CASE rule[p] = Len(k.in) /\ pc'[p] = "ports" /\ UNCHANGED <<rule, nats>>
    BY <1>0, <1>k, <1>h, <1>1, <1>2 DEF CountOf, Filling, Applied
  <1>3. CASE pc'[p] = "undo"
    BY <1>0, <1>3 DEF CountOf, Filling, Applied
  <1>4. ASSUME NEW n, n \notin nats[p], nats'[p] = nats[p] \cup {n}, rule'[p] = rule[p] + 1,
               pc'[p] = "in", rule[p] < Len(k.in), n \in Ports \/ n = k.in[rule[p] + 1]
        PROVE  CountOf(p)'
    <2>1. IsFiniteSet(nats'[p]) /\ Cardinality(nats'[p]) = rule'[p]
      <3>1. /\ rule[p] \in Nat /\ IsFiniteSet(nats[p]) /\ Cardinality(nats[p]) = rule[p]
            /\ n \notin nats[p]
        BY <1>1, <1>4
      <3>2. /\ IsFiniteSet(nats[p] \cup {n})
            /\ Cardinality(nats[p] \cup {n}) = Cardinality(nats[p]) + 1
        BY <3>1, FS_AddElement
      <3> QED
        BY <1>4, <3>1, <3>2
    <2>2. nats'[p] \ Ports \subseteq {k.in[i] : i \in 1..rule'[p]}
      <3>1. 1..rule'[p] = (1..rule[p]) \cup {rule[p] + 1}
        BY <1>1, <1>4
      <3> QED
        BY <1>1, <1>4, <3>1
    <2>3. rule'[p] =< Len(k.in)
      BY <1>1, <1>4
    <2> QED
      BY <1>0, <1>k, <1>4, <2>1, <2>2, <2>3 DEF CountOf, Filling, Applied
  <1>5. CASE /\ rule[p] < Len(k.in) /\ k.in[rule[p] + 1] # 0 /\ pc'[p] = "in"
             /\ nats'[p] = nats[p] \cup {k.in[rule[p] + 1]} /\ rule'[p] = rule[p] + 1
    <2>1. rule[p] + 1 \in DOMAIN k.in /\ \A i \in 1..rule[p] : i \in DOMAIN k.in
      BY <1>k, <1>1, <1>5
    <2>2. k.in[rule[p] + 1] \in HostPorts
      BY <1>k, <1>5, <2>1, HostPortTypes
    <2>3. k.in[rule[p] + 1] \notin {k.in[i] : i \in 1..rule[p]}
      <3>1. \A i \in 1..rule[p] : i # rule[p] + 1
        BY <1>1
      <3> QED
        BY <1>k, <1>5, <2>1, <3>1 DEF DistinctHostPorts
    <2>4. k.in[rule[p] + 1] \notin nats[p]
      BY <1>1, <2>2, <2>3 DEF OutsidePool
    <2> QED
      BY <1>4, <1>5, <2>4
  <1>6. ASSUME NEW n \in Ports, n \notin acquired[h], nats'[p] = nats[p] \cup {n},
               rule'[p] = rule[p] + 1, pc'[p] = "in", rule[p] < Len(k.in)
        PROVE  CountOf(p)'
    <2>1. CASE ~MayLose
      BY <1>1, <1>4, <1>6, <2>1
    <2>2. CASE MayLose
      <3>1. Len(k.in) =< 1
        BY <2>2 DEF FewIfLossy
      <3>2. Cardinality(nats[p]) = 0
        BY <1>1, <1>6, <3>1
      <3>3. nats[p] = {}
        BY <1>1, <3>2, FS_EmptySet
      <3> QED
        BY <1>4, <1>6, <3>3
    <2> QED
      BY <2>1, <2>2
  <1>7. \/ rule[p] = Len(k.in) /\ pc'[p] = "ports" /\ UNCHANGED <<rule, nats>>
        \/ pc'[p] = "undo"
        \/ /\ rule[p] < Len(k.in) /\ rule'[p] = rule[p] + 1 /\ pc'[p] = "in"
           /\ \/ k.in[rule[p] + 1] # 0 /\ nats'[p] = nats[p] \cup {k.in[rule[p] + 1]}
              \/ \E n \in Ports : n \notin acquired[h] /\ nats'[p] = nats[p] \cup {n}
    BY <1>k, <1>h DEF Allocating, Advances, Fails
  <1> QED
    BY <1>2, <1>3, <1>5, <1>6, <1>7

\* The steps of up itself
LEMMA CountWork ==
  ASSUME DistinctHostPorts, OutsidePool, FewIfLossy, FitInv, NEW p \in Procs, Works(p)
  PROVE  CountOf(p)'
  <1>0. /\ BaseInv /\ TypeInv /\ CleanOf(p) /\ AclOf(p) /\ CountOf(p) /\ cmd' = cmd
    BY WorkFrame DEF FitInv, AclInv, CleanInv, BaseInv
  <1>1. CASE cmd[p].op # "up"
    BY <1>0, <1>1 DEF CountOf
  <1>2. CASE cmd[p].op = "up"
    <2>h. PICK h \in Handles : h = cmd[p].handle
      BY <1>0, <1>2, HandleOf
    <2>k. PICK k \in Commands : k = cmd[p] /\ Len(k.in) \in Nat
      BY <1>0, <1>2, HandleOf, CommandTypes
    <2>f. ASSUME pc'[p] \in {"ep.network", "ep.create", "ep.attach", "ep.ready", "ep.undo", "undo"}
          PROVE  CountOf(p)'
      BY <1>0, <2>f DEF CountOf, Applied, Filling
    <2>1. CASE Creating(p)
      <3>1. CASE pc[p] = "ep.ready" /\ pc'[p] = "in" /\ UNCHANGED <<rule, nats>>
        <4>1. rule[p] = 0 /\ nats[p] = {}
          BY <1>0, <1>2, <3>1 DEF AclOf
        <4>2. IsFiniteSet(nats'[p]) /\ Cardinality(nats'[p]) = rule'[p] /\ rule'[p] =< Len(k.in)
          BY <2>k, <3>1, <4>1, FS_EmptySet
        <4> QED
          BY <1>0, <2>k, <3>1, <4>1, <4>2 DEF CountOf, Applied, Filling
      <3> QED
        BY <2>1, <2>f, <3>1 DEF Creating, Advances, Fails
    <2>2. CASE Allocating(p)
      BY <1>2, <2>2, CountIn
    <2>3. CASE Opening(p) \/ Ruling(p)
      <3>1. /\ UNCHANGED <<eps, nats, rule>>
            /\ \/ pc[p] = "ports" /\ pc'[p] = "out"
               \/ pc[p] = "out" /\ pc'[p] = "apply"
               \/ pc[p] = "print" /\ pc'[p] = "exit"
               \/ pc'[p] = "undo"
        BY <2>3 DEF Opening, Ruling, Advances, Fails, Soils
      <3> QED
        BY <1>0, <1>2, <2>f, <2>h, <2>k, <3>1 DEF CountOf, Applied, Filling
    <2>5. CASE Applying(p)
      <3>1. CASE Advances(p, "mtu")
        <4>1. /\ ep[p] \in Eids /\ eps[ep[p]].name = h /\ OnlyAt(ep[p])
              /\ eps'[ep[p]].nats = eps[ep[p]].nats \cup nats[p]
          BY <2>5, <2>h, <3>1 DEF Applying, Advances, Fails
        <4>2. Cardinality(nats[p]) = Len(k.in) /\ eps[ep[p]].nats = {}
          BY <1>0, <1>2, <2>5, <2>h, <2>k, <4>1 DEF CountOf, AclOf, Applying, Filling
        <4>3. \A e \in Eids : eps'[e].name = h => e = ep[p]
          <5>1. OneOf(h)
            BY DEF FitInv, AclInv, CleanInv
          <5> QED
            BY <4>1, <5>1 DEF OneOf, OnlyAt
        <4>4. eps'[ep[p]].nats = nats[p]
          BY <4>1, <4>2
        <4>5. \A e \in Eids : eps'[e].name = h => Cardinality(eps'[e].nats) = Len(k.in)
          BY <4>2, <4>3, <4>4
        <4> QED
          BY <1>0, <1>2, <2>h, <2>k, <3>1, <4>5 DEF CountOf, Advances, Applied, Filling
      <3> QED
        BY <2>5, <2>f, <3>1 DEF Applying, Fails
    <2>6. CASE Sizing(p)
      <3>1. /\ pc[p] \in {"mtu", "mtu.set"} /\ pc'[p] \in {"mtu.set", "print", "undo"}
            /\ \A e \in Eids : eps'[e].name = eps[e].name /\ eps'[e].nats = eps[e].nats
        BY <2>6 DEF Sizing, Resizes, OnlyAt, Advances, Fails
      <3> QED
        BY <1>0, <1>2, <2>h, <2>k, <3>1 DEF CountOf, Applied, Filling
    <2>7. CASE Cleaning(p, "undo", "find") \/ Removing(p, "exit")
      <3>1. /\ pc'[p] \in {"find", "detach", "remove", "exit"}
            /\ result'[p] = result[p] \/ result'[p] = "unclean"
            /\ pc[p] \in {"undo", "find", "detach", "remove"}
        BY <2>7 DEF Cleaning, Removing, Advances, Soils
      <3>2. result'[p] # "ok"
        BY <1>0, <1>2, <3>1 DEF CleanOf
      <3> QED
        BY <1>0, <3>1, <3>2 DEF CountOf, Applied, Filling
    <2> QED
      BY <1>2, <2>1, <2>2, <2>3, <2>5, <2>6, <2>7 DEF Works
  <1> QED
    BY <1>1, <1>2

\* Every step keeps FitInv.
LEMMA FitStep ==
  ASSUME UpOnce, OutsidePool, DistinctHostPorts, FewIfLossy, FitInv, [Next]_vars
  PROVE  FitInv'
  <1>0. /\ BaseInv /\ TypeInv /\ (MayLose \/ PortsInv') /\ AclInv' /\ \A p \in Procs : CountOf(p)
    BY PortsStep, AclStep DEF FitInv, AclInv, CleanInv, BaseInv
  <1>1. Idles \/ \E p \in Procs : Works(p) \/ Starts(p) \/ Ends(p)
    BY <1>0, Moves
  <1>2. CASE Idles
    <2>1. ASSUME NEW p \in Procs PROVE CountOf(p)'
      <3>1. CASE cmd[p].op = "up"
        <4>1. cmd[p].handle \in Handles
          BY <1>0, <3>1, HandleOf
        <4>2. UNCHANGED <<pc[p], cmd[p], rule[p], nats[p], result[p]>>
          BY <1>2 DEF Idles
        <4> QED
          BY <1>0, <1>2, <4>1, <4>2, CountKept, RestKeeps
      <3>2. CASE cmd[p].op # "up"
        BY <1>2, <3>2 DEF Idles, CountOf
      <3> QED
        BY <3>1, <3>2
    <2> QED
      BY <1>0, <2>1 DEF FitInv
  <1>3. ASSUME NEW p \in Procs, Works(p), NEW q \in Procs PROVE CountOf(q)'
    <2>1. CASE q = p
      BY <1>3, <2>1, CountWork
    <2>2. CASE q # p /\ cmd[q].op = "up"
      BY <1>0, <1>3, <2>2, OthersKept, CountKept
    <2>3. CASE q # p /\ cmd[q].op # "up"
      BY <1>3, <2>3, WorkFrame DEF CountOf, Alone
    <2> QED
      BY <2>1, <2>2, <2>3
  <1>4. ASSUME NEW p \in Procs, Starts(p) \/ Ends(p), NEW q \in Procs PROVE CountOf(q)'
    <2>1. CASE q = p
      <3>1. CASE Starts(p) /\ cmd'[p].op = "up"
        <4>1. pc'[p] = "ep.network"
          BY <3>1 DEF Starts
        <4> QED
          BY <2>1, <4>1 DEF CountOf, Applied, Filling
      <3>2. CASE cmd'[p].op # "up"
        BY <2>1, <3>2 DEF CountOf
      <3>3. Ends(p) => cmd'[p].op # "up"
        BY DEF Ends, NoCommand
      <3> QED
        BY <1>4, <3>1, <3>2, <3>3
    <2>2. CASE q # p /\ cmd[q].op = "up"
      BY <1>0, <1>4, <2>2, OthersKeptBetween, CountKept
    <2>3. CASE q # p /\ cmd[q].op # "up"
      BY <1>4, <2>3 DEF CountOf, Starts, Ends, Alone
    <2> QED
      BY <2>1, <2>2, <2>3
  <1>5. CASE \E p \in Procs : Works(p) \/ Starts(p) \/ Ends(p)
    BY <1>0, <1>3, <1>4, <1>5 DEF FitInv
  <1> QED
    BY <1>1, <1>2, <1>5

\* winc-network up that reports success has put one port mapping for each NetIn
\* rule on the endpoint and, unless there are NetIn rules only, exactly the access
\* rules of its inputs, if the inputs name no host port twice and none of the
\* allocator's pool, and the allocator's file cannot be lost between two ports of
\* one container.
THEOREM PoliciesFit ==
  UpOnce /\ OutsidePool /\ DistinctHostPorts /\ FewIfLossy /\ Spec => []PoliciesFitInputs
  <1>1. FitInv => PoliciesFitInputs
    BY DEF FitInv, AclInv, AclOf, CountOf, Applied, Named, PoliciesFitInputs
  <1>2. Init => FitInv
    <2>1. Init => \A p \in Procs : CountOf(p)
      BY DEF Init, CountOf, NoCommand
    <2> QED
      BY <2>1, PortsInit, AclInit DEF FitInv
  <1>3. ASSUME UpOnce, OutsidePool, DistinctHostPorts, FewIfLossy PROVE Spec => []PoliciesFitInputs
    <2>1. FitInv /\ [Next]_vars => FitInv'
      BY <1>3, FitStep
    <2> QED
      BY <1>1, <1>2, <2>1, PTL DEF Spec
  <1> QED
    BY <1>3

-----------------------------------------------------------------------------
(* A network lasts                                                         *)

\* up that has applied its policies works on an endpoint, and a container that
\* is up has one with policies on it.
HasEndpoint(p) ==
  NetworkStays /\ cmd[p].op = "up" /\ Applied(p) => \E e \in Eids : eps[e].name = cmd[p].handle

HasPolicies(h) ==
  NetworkStays /\ phase[h] = "live" => \E e \in Eids : eps[e].name = h /\ eps[e].acls # {}

LiveInv ==
  /\ PortsInv
  /\ \A p \in Procs : HasEndpoint(p)
  /\ \A h \in Handles : HasPolicies(h)

\* A process that is left alone keeps its endpoint.
LEMMA EndpointKept ==
  ASSUME NEW p \in Procs, HasEndpoint(p), Kept(cmd[p].handle), UNCHANGED <<pc[p], cmd[p], result[p]>>
  PROVE  HasEndpoint(p)'
  BY DEF HasEndpoint, Kept, Applied, NetworkStays

\* A container that is left alone keeps its policies.
LEMMA PoliciesKept ==
  ASSUME NEW h \in Handles, HasPolicies(h), Kept(h), phase'[h] \in {phase[h], "begun", "down"}
  PROVE  HasPolicies(h)'
  BY DEF HasPolicies, Kept, NetworkStays

\* Something is always put on an endpoint: traffic is allowed, or blocked.
LEMMA SomePolicy == \A k : ExpectedACLs(k) # {}
  <1> SUFFICES ASSUME NEW k PROVE ExpectedACLs(k) # {}
    OBVIOUS
  <1>1. CASE k.in = <<>> /\ ~HasNetOut(k)
    BY <1>1 DEF ExpectedACLs
  <1>2. CASE k.in # <<>>
    <2>1. "allowIn" \in ExpectedACLs(k)
      BY <1>2 DEF ExpectedACLs
    <2> QED
      BY <2>1
  <1>3. CASE HasNetOut(k)
    <2>1. "allowOut" \in ExpectedACLs(k)
      BY <1>3 DEF ExpectedACLs
    <2> QED
      BY <2>1
  <1> QED
    BY <1>1, <1>2, <1>3

\* The steps of up itself
LEMMA EndpointWork ==
  ASSUME LiveInv, NEW p \in Procs, Works(p)
  PROVE  HasEndpoint(p)'
  <1>0. /\ BaseInv /\ TypeInv /\ CleanOf(p) /\ HasEndpoint(p) /\ cmd' = cmd
    BY WorkFrame DEF LiveInv, PortsInv, AclInv, CleanInv, BaseInv
  <1>1. CASE cmd[p].op # "up"
    BY <1>0, <1>1 DEF HasEndpoint
  <1>2. CASE cmd[p].op = "up"
    <2>1. CASE Creating(p) \/ Allocating(p) \/ Ruling(p)
      <3>1. pc'[p] \in {"ep.create", "ep.attach", "ep.ready", "ep.undo", "undo", "in", "ports", "apply"}
        BY <2>1 DEF Creating, Allocating, Ruling, Advances, Fails
      <3> QED
        BY <3>1 DEF HasEndpoint, Applied
    <2>2. CASE Opening(p)
      <3>1. eps' = eps /\ (pc'[p] \in {"out", "undo"} \/ result'[p] = "unclean"
                           \/ (pc[p] = "print" /\ pc'[p] = "exit"))
        BY <2>2 DEF Opening, Advances, Fails, Soils
      <3>2. pc'[p] = "exit" /\ result'[p] = "unclean" => ~Applied(p)'
        BY DEF Applied
      <3>3. pc'[p] \in {"out", "undo", "exit"}
        BY <2>2 DEF Opening, Advances, Fails, Soils
      <3> QED
        BY <1>0, <1>2, <3>1, <3>2, <3>3 DEF HasEndpoint, Applied
    <2>3. CASE Applying(p)
      <3>1. CASE Advances(p, "mtu")
        <4>1. ep[p] \in Eids /\ eps'[ep[p]].name = cmd'[p].handle
          BY <1>0, <2>3, <3>1 DEF Applying, Advances, Fails
        <4> QED
          BY <4>1 DEF HasEndpoint
      <3>2. CASE Fails(p, "undo")
        BY <3>2 DEF HasEndpoint, Applied, Fails
      <3> QED
        BY <2>3, <3>1, <3>2 DEF Applying
    <2>4. CASE Sizing(p)
      <3>1. /\ pc[p] \in {"mtu", "mtu.set"} /\ \A e \in Eids : eps'[e].name = eps[e].name
        BY <2>4 DEF Sizing, Resizes, OnlyAt
      <3> QED
        BY <1>0, <1>2, <3>1 DEF HasEndpoint, Applied, NetworkStays
    <2>5. CASE Cleaning(p, "undo", "find") \/ Removing(p, "exit")
      <3>1. /\ pc'[p] \in {"find", "detach", "remove", "exit"}
            /\ result'[p] = result[p] \/ result'[p] = "unclean"
            /\ pc[p] \in {"undo", "find", "detach", "remove"}
        BY <2>5 DEF Cleaning, Removing, Advances, Soils
      <3>2. result'[p] # "ok"
        BY <1>0, <1>2, <3>1 DEF CleanOf
      <3> QED
        BY <3>1, <3>2 DEF HasEndpoint, Applied
    <2> QED
      BY <1>2, <2>1, <2>2, <2>3, <2>4, <2>5 DEF Works
  <1> QED
    BY <1>1, <1>2

\* Every step keeps LiveInv.
LEMMA LiveStep ==
  ASSUME UpOnce, ~MayLose, OutsidePool, LiveInv, [Next]_vars
  PROVE  LiveInv'
  <1>0. /\ PortsInv' /\ AclInv /\ BaseInv /\ TypeInv /\ Exclusive
        /\ \A h \in Handles : HasPolicies(h)
        /\ \A p \in Procs : HasEndpoint(p) /\ AclOf(p)
    BY PortsStep DEF LiveInv, PortsInv, AclInv, CleanInv, BaseInv
  <1>1. Idles \/ \E p \in Procs : Works(p) \/ Starts(p) \/ Ends(p)
    BY <1>0, Moves
  <1>2. CASE Idles
    <2>1. ASSUME NEW p \in Procs PROVE HasEndpoint(p)'
      <3>1. CASE cmd[p].op = "up"
        BY <1>0, <1>2, <3>1, HandleOf, EndpointKept, RestKeeps DEF Idles
      <3>2. CASE cmd[p].op # "up"
        BY <1>2, <3>2 DEF Idles, HasEndpoint
      <3> QED
        BY <3>1, <3>2
    <2>2. \A h \in Handles : HasPolicies(h)'
      BY <1>0, <1>2, PoliciesKept, RestKeeps DEF Idles
    <2> QED
      BY <1>0, <2>1, <2>2 DEF LiveInv
  <1>3. ASSUME NEW p \in Procs, Works(p) PROVE LiveInv'
    <2>0. phase' = phase /\ cmd' = cmd /\ Alone(p) /\ pc[p] # "idle"
      BY <1>3, WorkFrame
    <2>1. ASSUME NEW q \in Procs PROVE HasEndpoint(q)'
      <3>1. CASE q = p
        BY <1>3, <3>1, EndpointWork
      <3>2. CASE q # p /\ cmd[q].op = "up"
        BY <1>0, <1>3, <3>2, OthersKept, EndpointKept
      <3>3. CASE q # p /\ cmd[q].op # "up"
        BY <2>0, <3>3 DEF HasEndpoint
      <3> QED
        BY <3>1, <3>2, <3>3
    <2>2. ASSUME NEW h \in Handles PROVE HasPolicies(h)'
      <3>1. CASE h = cmd[p].handle
        <4>1. phase'[h] = "begun"
          BY <1>0, <2>0, <3>1 DEF Exclusive
        <4> QED
          BY <4>1 DEF HasPolicies
      <3>2. CASE h # cmd[p].handle
        <4>1. phase'[h] = phase[h]
          BY <2>0
        <4> QED
          BY <1>0, <1>3, <3>2, <4>1, WorkKeeps, PoliciesKept
      <3> QED
        BY <3>1, <3>2
    <2> QED
      BY <1>0, <2>1, <2>2 DEF LiveInv
  <1>4. ASSUME NEW p \in Procs, Starts(p) \/ Ends(p) PROVE LiveInv'
    <2>1. ASSUME NEW q \in Procs PROVE HasEndpoint(q)'
      <3>1. CASE q = p
        <4>1. CASE Starts(p) /\ cmd'[p].op = "up"
          <5>1. pc'[p] = "ep.network"
            BY <4>1 DEF Starts
          <5> QED
            BY <3>1, <5>1 DEF HasEndpoint, Applied
        <4>2. CASE cmd'[p].op # "up"
          BY <3>1, <4>2 DEF HasEndpoint
        <4>3. Ends(p) => cmd'[p].op # "up"
          BY DEF Ends, NoCommand
        <4> QED
          BY <1>4, <4>1, <4>2, <4>3
      <3>2. CASE q # p /\ cmd[q].op = "up"
        BY <1>0, <1>4, <3>2, OthersKeptBetween, EndpointKept
      <3>3. CASE q # p /\ cmd[q].op # "up"
        BY <1>4, <3>3 DEF HasEndpoint, Starts, Ends, Alone
      <3> QED
        BY <3>1, <3>2, <3>3
    <2>2. ASSUME NEW h \in Handles PROVE HasPolicies(h)'
      <3>1. Kept(h)
        BY <1>4, RestKeeps
      <3>2. CASE phase'[h] \in {phase[h], "begun", "down"}
        BY <1>0, <3>1, <3>2, PoliciesKept
      <3>3. CASE h = cmd[p].handle /\ cmd[p].op = "up" /\ pc[p] = "exit" /\ result[p] = "ok"
        <4>1. NetworkStays => \E e \in Eids : eps[e].name = h
          BY <1>0, <3>3 DEF HasEndpoint, Applied
        <4>2. \A e \in Eids : eps[e].name = h => eps[e].acls = ExpectedACLs(cmd[p])
          BY <1>0, <3>3 DEF AclOf, Applied
        <4>3. NetworkStays => \E e \in Eids : eps[e].name = h /\ eps[e].acls # {}
          BY <4>1, <4>2, SomePolicy
        <4> QED
          BY <3>1, <4>3 DEF HasPolicies, Kept, NetworkStays
      <3>4. \/ phase'[h] \in {phase[h], "begun", "down"}
            \/ h = cmd[p].handle /\ cmd[p].op = "up" /\ pc[p] = "exit" /\ result[p] = "ok"
        BY <1>4 DEF Starts, Ends
      <3> QED
        BY <3>2, <3>3, <3>4
    <2> QED
      BY <1>0, <2>1, <2>2 DEF LiveInv
  <1> QED
    BY <1>1, <1>2, <1>3, <1>4

\* As long as the NAT network is not deleted, a container whose up succeeded
\* keeps its one endpoint, the policies on it and the pool ports it maps until
\* its own down, whatever the commands for other containers do or fail to do.
THEOREM LiveNetworksStay ==
  UpOnce /\ ~MayLose /\ OutsidePool /\ Spec => []LiveNetworksLast
  <1>1. LiveInv => LiveNetworksLast
    <2> SUFFICES ASSUME LiveInv, NetworkStays, NEW h \in Handles, phase[h] = "live"
                 PROVE  \E e \in Eids : /\ Named(h) = {e} /\ eps[e].acls # {}
                                        /\ eps[e].nats \cap Ports \subseteq acquired[h]
      BY DEF LiveNetworksLast
    <2>1. PICK e \in Eids : eps[e].name = h /\ eps[e].acls # {}
      BY DEF LiveInv, HasPolicies
    <2>2. \A f \in Eids : eps[f].name = h => f = e
      BY <2>1 DEF LiveInv, PortsInv, AclInv, CleanInv, OneOf
    <2>3. Used(e)
      BY <2>1, NetworkAssumption DEF Used, NoEndpoint
    <2>4. Named(h) = {e}
      BY <2>1, <2>2, <2>3 DEF Named
    <2>5. eps[e].nats \cap Ports \subseteq acquired[h]
      BY <2>1 DEF LiveInv, PortsInv, LivePorts
    <2> QED
      BY <2>1, <2>4, <2>5
  <1>2. Init => LiveInv
    <2>1. Init => (\A p \in Procs : HasEndpoint(p)) /\ \A h \in Handles : HasPolicies(h)
      BY DEF Init, HasEndpoint, HasPolicies, NoCommand
    <2> QED
      BY <2>1, PortsInit DEF LiveInv
  <1>3. ASSUME UpOnce, ~MayLose, OutsidePool PROVE Spec => []LiveNetworksLast
    <2>1. LiveInv /\ [Next]_vars => LiveInv'
      BY <1>3, LiveStep
    <2> QED
      BY <1>1, <1>2, <2>1, PTL DEF Spec
  <1> QED
    BY <1>3

-----------------------------------------------------------------------------
(* MTUs                                                                    *)

\* What create sets on the network's interface
NatMTU == IF ConfigMTU = "zero" THEN HostMTU ELSE ConfigMTU

\* The network's MTU, before and after create has set it
NatFits == nat.id # 0 => nat.mtu \in {"default", NatMTU}

\* The MTU an endpoint of h is due, and the network's MTU by then
Due(h) == IF ConfigMTU # "zero" THEN ConfigMTU ELSE IF h \in early THEN "default" ELSE nat.mtu

Settled(h) == ConfigMTU = "zero" /\ h \notin early => nat.mtu = NatMTU

\* The endpoints of a container belong to the network that is there; if the
\* container is up, they have the MTU they are due.
MtuFits(h) ==
  \A e \in Eids : eps[e].name = h =>
    /\ nat.id # 0 /\ eps[e].net = nat.id
    /\ phase[h] = "live" => eps[e].mtu = Due(h) /\ Settled(h)

\* What up knows of the network and of its MTU, as long as its endpoint is there
MtuOf(p) ==
  LET h == cmd[p].handle
  IN cmd[p].op = "up" =>
       /\ pc[p] = "ep.create" => net[p] # 0
       /\ \A e \in Eids : eps[e].name = h =>
            /\ pc[p] = "mtu.set" => ConfigMTU = "zero" /\ mtu[p] = Due(h) /\ Settled(h)
            /\ pc[p] = "print" \/ (pc[p] = "exit" /\ result[p] = "ok") =>
                 eps[e].mtu = Due(h) /\ Settled(h)

MtuInv ==
  /\ CleanInv /\ NatFits
  /\ \A h \in Handles : MtuFits(h)
  /\ \A p \in Procs : MtuOf(p)

\* A container that is left alone keeps its MTU.
LEMMA MtuFitsKept ==
  ASSUME NEW h \in Handles, MtuFits(h), Kept(h), nat' = nat, h \in early' <=> h \in early,
         phase'[h] \in {phase[h], "begun", "down"}
  PROVE  MtuFits(h)'
  BY DEF MtuFits, Kept, Due, Settled

\* A process that is left alone knows what it knew.
LEMMA MtuKept ==
  ASSUME NEW p \in Procs, MtuOf(p), Kept(cmd[p].handle), nat' = nat,
         cmd[p].handle \in early' <=> cmd[p].handle \in early,
         UNCHANGED <<pc[p], cmd[p], net[p], mtu[p], result[p]>>
  PROVE  MtuOf(p)'
  BY DEF MtuOf, Kept, Due, Settled

\* A command remembers no reading of another container's up.
LEMMA EarlyKept ==
  ASSUME NEW p \in Procs, Works(p), NEW h, h # cmd[p].handle
  PROVE  h \in early' <=> h \in early
  BY DEF Works, Creating, Allocating, Opening, Ruling, Applying, Sizing, Reads, Cleaning, Removing,
         Networking, Clearing

\* up and down leave the network alone; up and what it does with MTUs.
LEMMA MtuWork ==
  ASSUME MtuInv, NEW p \in Procs, Works(p), cmd[p].op = "up"
  PROVE  nat' = nat /\ MtuOf(p)' /\ \A h \in Handles : h = cmd[p].handle => MtuFits(h)'
  <1>0. /\ BaseInv /\ TypeInv /\ CleanOf(p) /\ MtuOf(p) /\ cmd' = cmd /\ phase' = phase
    BY WorkFrame DEF MtuInv, CleanInv, BaseInv
  <1>h. PICK h \in Handles : h = cmd[p].handle
    BY <1>0, HandleOf
  <1> SUFFICES nat' = nat /\ MtuOf(p)' /\ MtuFits(h)'
    BY <1>h
  <1>1. OneOf(h) /\ MtuFits(h) /\ h # NoHandle /\ NoEndpoint.name = NoHandle
    BY NetworkAssumption DEF MtuInv, CleanInv, NoEndpoint
  <1>2. phase'[h] = "begun"
    BY <1>0, <1>h, WorkFrame DEF BaseInv, Exclusive
  <1>3. ASSUME nat' = nat,
               \A e \in Eids : eps'[e].name = h =>
                 eps[e].name = h /\ eps'[e].net = eps[e].net /\ eps'[e].mtu = eps[e].mtu
        PROVE  MtuFits(h)'
    BY <1>1, <1>2, <1>3 DEF MtuFits
  <1>4. ASSUME pc'[p] \notin {"ep.create", "mtu.set", "print"}, pc'[p] = "exit" => result'[p] # "ok"
        PROVE  MtuOf(p)'
    BY <1>4 DEF MtuOf
  <1>5. ASSUME Deletes(p), nat' = nat PROVE MtuFits(h)'
    BY <1>1, <1>3, <1>5 DEF Deletes, OnlyAt
  <1>6. ASSUME Reattaches, nat' = nat PROVE MtuFits(h)'
    BY <1>3, <1>6 DEF Reattaches
  <1>7. ASSUME NEW v, nat' = nat, Resizes(p, v)
        PROVE  /\ MtuFits(h)'
               /\ \A e \in Eids : eps'[e].name = h => eps'[e].mtu = v
    <2>1. PICK e \in Eids : /\ eps[e].name = h /\ OnlyAt(e) /\ eps'[e].name = h
                            /\ eps'[e].net = eps[e].net /\ eps'[e].mtu = v
      BY <1>7, <1>h DEF Resizes
    <2>2. \A f \in Eids : eps'[f].name = h => f = e
      BY <1>1, <2>1 DEF OneOf, OnlyAt
    <2> QED
      BY <1>1, <1>2, <1>7, <2>1, <2>2 DEF MtuFits
  <1>8. CASE Creating(p)
    <2>1. nat' = nat
      BY <1>8 DEF Creating
    <2>2. CASE pc[p] = "ep.create" /\ Advances(p, "ep.attach") /\ nat.id = net[p] /\ Creates(p)
      <3>1. net[p] # 0 /\ NoneOf(h)
        BY <1>0, <1>h, <2>2 DEF MtuOf, CleanOf
      <3>2. \A e \in Eids : eps'[e].name = h => eps'[e].net = net[p] /\ eps'[e].mtu = "default"
        BY <2>2, <3>1 DEF Creates, OnlyAt, NoneOf
      <3>3. MtuFits(h)'
        BY <1>2, <2>1, <2>2, <3>1, <3>2 DEF MtuFits
      <3> QED
        BY <1>4, <1>h, <2>1, <2>2, <3>3 DEF Advances
    <2>3. CASE eps' = eps \/ Reattaches \/ Deletes(p)
      <3>1. MtuFits(h)'
        BY <1>3, <1>5, <1>6, <2>1, <2>3
      <3>2. CASE pc'[p] = "ep.create" /\ net'[p] # 0
        BY <2>1, <3>1, <3>2 DEF MtuOf
      <3>3. CASE pc'[p] \in {"ep.ready", "ep.undo", "in", "undo"}
        BY <1>4, <2>1, <3>1, <3>3
      <3>4. CASE pc[p] = "ep.create" /\ Advances(p, "ep.create") /\ net' = net
        BY <1>0, <3>2, <3>4 DEF MtuOf, Advances
      <3>5. CASE pc[p] = "ep.create" /\ Advances(p, "ep.attach")
        BY <1>4, <2>1, <3>1, <3>5 DEF Advances
      <3> QED
        BY <1>8, <1>h, <2>1, <3>1, <3>2, <3>3, <3>4, <3>5 DEF Creating, Advances, Fails
    <2> QED
      BY <1>8, <2>2, <2>3 DEF Creating
  <1>9. CASE Allocating(p) \/ Ruling(p)
    <2>1. nat' = nat /\ eps' = eps /\ pc'[p] \in {"in", "ports", "undo", "apply"}
      BY <1>9 DEF Allocating, Ruling, Advances, Fails
    <2> QED
      BY <1>3, <1>4, <1>h, <2>1
  <1>10. CASE Opening(p)
    <2>1. /\ nat' = nat /\ eps' = eps
          /\ \/ pc'[p] \in {"out", "undo"}
             \/ pc'[p] = "exit" /\ (result'[p] = "unclean" \/ pc[p] = "print")
      BY <1>10 DEF Opening, Advances, Fails, Soils
    <2>2. MtuFits(h)'
      BY <1>3, <2>1
    <2>3. CASE pc'[p] = "exit" /\ pc[p] = "print"
      <3>1. early' = early /\ (result'[p] = "ok" => pc'[p] = "exit" /\ pc[p] = "print")
        BY <1>10, <2>3 DEF Opening
      <3> QED
        BY <1>0, <2>1, <2>2, <2>3, <3>1 DEF MtuOf, Due, Settled
    <2> QED
      BY <1>4, <1>h, <2>1, <2>2, <2>3
  <1>11. CASE Applying(p)
    <2>1. nat' = nat /\ pc'[p] \in {"mtu", "undo"}
      BY <1>11 DEF Applying, Advances, Fails
    <2>2. \A e \in Eids : eps'[e].name = h =>
            eps[e].name = h /\ eps'[e].net = eps[e].net /\ eps'[e].mtu = eps[e].mtu
      BY <1>11 DEF Applying, OnlyAt
    <2> QED
      BY <1>3, <1>4, <1>h, <2>1, <2>2
  <1>12. CASE Sizing(p)
    <2>0. nat' = nat
      BY <1>12 DEF Sizing
    <2>1. CASE /\ ConfigMTU = "zero" /\ Advances(p, "mtu.set") /\ eps' = eps /\ mtu'[p] = nat.mtu
               /\ nat.id # 0 /\ Reads(h)
      <3>1. MtuFits(h)'
        BY <1>3, <2>0, <2>1
      <3>2. nat.mtu \in {"default", NatMTU} /\ (h \in early' <=> nat.mtu = "default")
        BY <2>1 DEF MtuInv, NatFits, Reads
      <3>3. mtu'[p] = Due(h)' /\ Settled(h)'
        BY <2>0, <2>1, <3>2 DEF Due, Settled
      <3>4. pc'[p] = "mtu.set"
        BY <2>1 DEF Advances
      <3> QED
        BY <1>0, <1>h, <2>0, <2>1, <3>1, <3>3, <3>4 DEF MtuOf
    <2>2. CASE ConfigMTU # "zero" /\ Advances(p, "print") /\ Resizes(p, ConfigMTU)
      <3>1. MtuFits(h)' /\ \A e \in Eids : eps'[e].name = h => eps'[e].mtu = ConfigMTU
        BY <1>7, <2>0, <2>2
      <3>2. pc'[p] = "print"
        BY <2>2 DEF Advances
      <3> QED
        BY <1>0, <1>h, <2>0, <2>2, <3>1, <3>2 DEF MtuOf, Due, Settled
    <2>3. CASE pc[p] = "mtu.set" /\ Advances(p, "print") /\ Resizes(p, mtu[p]) /\ early' = early
      <3>1. ConfigMTU = "zero" /\ mtu[p] = Due(h) /\ Settled(h)
        BY <1>0, <1>h, <2>3 DEF MtuOf, Resizes
      <3>2. MtuFits(h)' /\ \A e \in Eids : eps'[e].name = h => eps'[e].mtu = mtu[p]
        BY <1>7, <2>0, <2>3
      <3>3. pc'[p] = "print"
        BY <2>3 DEF Advances
      <3>4. Due(h)' = Due(h) /\ Settled(h)'
        BY <2>0, <2>3, <3>1 DEF Due, Settled
      <3> QED
        BY <1>0, <1>h, <2>0, <3>1, <3>2, <3>3, <3>4 DEF MtuOf
    <2>4. CASE Fails(p, "undo") /\ eps' = eps
      BY <1>3, <1>4, <1>h, <2>0, <2>4 DEF Fails
    <2> QED
      BY <1>12, <1>h, <2>1, <2>2, <2>3, <2>4 DEF Sizing
  <1>13. CASE Cleaning(p, "undo", "find") \/ Removing(p, "exit")
    <2>1. /\ nat' = nat /\ (eps' = eps \/ Reattaches \/ Deletes(p))
          /\ pc'[p] \in {"find", "detach", "remove", "exit"}
          /\ result'[p] = result[p] \/ result'[p] = "unclean"
          /\ pc[p] \in {"undo", "find", "detach", "remove"}
      BY <1>13 DEF Cleaning, Removing, Advances, Soils
    <2>2. result'[p] # "ok"
      BY <1>0, <2>1 DEF CleanOf
    <2> QED
      BY <1>3, <1>4, <1>5, <1>6, <1>h, <2>1, <2>2
  <1> QED
    BY <1>8, <1>9, <1>10, <1>11, <1>12, <1>13 DEF Works

\* create and delete, for any container: create makes or completes the network
\* while there are no endpoints or only such that have its MTU or the default;
\* with a network its endpoints go.
LEMMA NatChange ==
  ASSUME MtuInv, NEW p \in Procs, Works(p), cmd[p].op \in {"create", "delete"}
  PROVE  /\ NatFits'
         /\ \A h \in Handles : MtuFits(h)'
         /\ \A q \in Procs : MtuOf(q)'
  <1>0. /\ BaseInv /\ TypeInv /\ NatFits /\ cmd' = cmd /\ phase' = phase /\ Alone(p)
        /\ \A h \in Handles : MtuFits(h)
        /\ \A q \in Procs : MtuOf(q)
        /\ early' = early
    BY WorkFrame DEF MtuInv, CleanInv, BaseInv, Works, Networking, Clearing
  <1>1. \A q \in Procs : cmd[q].op = "up" => /\ q # p /\ cmd[q].handle \in Handles
                                             /\ UNCHANGED <<pc[q], net[q], mtu[q], result[q]>>
    BY <1>0, HandleOf DEF Alone
  <1>2. CASE nat' = nat /\ eps' = eps
    <2>1. ASSUME NEW q \in Procs PROVE MtuOf(q)'
      BY <1>0, <1>1, <1>2 DEF MtuOf, Due, Settled
    <2> QED
      BY <1>0, <1>2, <2>1 DEF NatFits, MtuFits, Due, Settled
  <1>3. CASE \A h \in Handles : NoneOf(h)'
    <2>1. ASSUME NEW q \in Procs PROVE MtuOf(q)'
      BY <1>0, <1>1, <1>3 DEF MtuOf, NoneOf
    <2>2. NatFits'
      BY <1>0 DEF Works, Networking, Clearing, NatFits, NoNetwork, NatMTU
    <2> QED
      BY <1>3, <2>1, <2>2 DEF MtuFits, NoneOf
  <1>4. CASE cmd[p].op = "create"
    <2>1. CASE nat.id = 0 /\ eps' = eps
      BY <1>0, <1>3, <2>1 DEF MtuFits, NoneOf
    <2>2. CASE nat.id # 0 /\ nat'.id = nat.id /\ nat'.mtu = NatMTU /\ eps' = eps
      <3>1. nat.mtu \in {"default", NatMTU}
        BY <1>0, <2>2 DEF NatFits
      <3>h. \A h : Settled(h) => Due(h)' = Due(h) /\ Settled(h)'
        BY <1>0, <2>2 DEF Due, Settled
      <3>2. ASSUME NEW q \in Procs PROVE MtuOf(q)'
        <4>1. CASE cmd[q].op = "up"
          BY <1>0, <1>1, <2>2, <3>h, <4>1 DEF MtuOf
        <4>2. CASE cmd[q].op # "up"
          BY <1>0, <4>2 DEF MtuOf
        <4> QED
          BY <4>1, <4>2
      <3>3. \A h \in Handles : MtuFits(h)'
        BY <1>0, <2>2, <3>h DEF MtuFits
      <3> QED
        BY <2>2, <3>2, <3>3 DEF NatFits
    <2> QED
      BY <1>2, <1>4, <2>1, <2>2 DEF Works, Networking, NatMTU
  <1>5. CASE cmd[p].op = "delete"
    <2>1. CASE \A e \in Eids : eps'[e] = IF eps[e].net = nat.id THEN NoEndpoint ELSE eps[e]
      <3>1. \A h \in Handles : NoneOf(h)'
        BY <1>0, <2>1, NetworkAssumption DEF MtuFits, NoneOf, NoEndpoint
      <3> QED
        BY <1>3, <3>1
    <2> QED
      BY <1>2, <1>5, <2>1 DEF Works, Clearing
  <1> QED
    BY <1>4, <1>5

\* Every step keeps MtuInv.
LEMMA MtuStep ==
  ASSUME UpOnce, MtuInv, [Next]_vars
  PROVE  MtuInv'
  <1>0. /\ CleanInv' /\ BaseInv /\ TypeInv /\ Exclusive /\ NatFits
        /\ \A h \in Handles : MtuFits(h)
        /\ \A p \in Procs : MtuOf(p)
    BY CleanStep DEF MtuInv, CleanInv, BaseInv
  <1>1. Idles \/ \E p \in Procs : Works(p) \/ Starts(p) \/ Ends(p)
    BY <1>0, Moves
  <1>2. CASE Idles
    <2>1. ASSUME NEW p \in Procs PROVE MtuOf(p)'
      <3>1. CASE cmd[p].op = "up"
        BY <1>0, <1>2, <3>1, HandleOf, MtuKept, RestKeeps DEF Idles
      <3>2. CASE cmd[p].op # "up"
        BY <1>2, <3>2 DEF Idles, MtuOf
      <3> QED
        BY <3>1, <3>2
    <2>2. \A h \in Handles : MtuFits(h)'
      BY <1>0, <1>2, MtuFitsKept, RestKeeps DEF Idles
    <2>3. NatFits'
      BY <1>0, <1>2 DEF Idles, NatFits
    <2> QED
      BY <1>0, <2>1, <2>2, <2>3 DEF MtuInv
  <1>3. ASSUME NEW p \in Procs, Works(p) PROVE MtuInv'
    <2>0. phase' = phase /\ cmd' = cmd /\ Alone(p) /\ pc[p] # "idle"
      BY <1>3, WorkFrame
    <2>1. CASE cmd[p].op \in {"create", "delete"}
      BY <1>0, <1>3, <2>1, NatChange DEF MtuInv
    <2>2. CASE cmd[p].op \in {"up", "down"}
      <3>1. nat' = nat
        BY <1>3, <2>2, MtuWork DEF Works, Removing, Cleaning
      <3>2. ASSUME NEW q \in Procs PROVE MtuOf(q)'
        <4>1. CASE q = p /\ cmd[q].op = "up"
          BY <1>3, <4>1, MtuWork
        <4>2. CASE q # p /\ cmd[q].op = "up"
          <5>1. cmd[q].handle # cmd[p].handle
            BY <1>0, <2>0, <4>2, HandleOf DEF Exclusive
          <5> QED
            BY <1>0, <1>3, <3>1, <4>2, <5>1, OthersKept, MtuKept, EarlyKept
        <4>3. CASE cmd[q].op # "up"
          BY <2>0, <4>3 DEF MtuOf
        <4> QED
          BY <4>1, <4>2, <4>3
      <3>3. ASSUME NEW h \in Handles PROVE MtuFits(h)'
        <4>0. phase'[h] = phase[h]
          BY <2>0
        <4>1. CASE h = cmd[p].handle /\ cmd[p].op = "up"
          BY <1>3, <4>1, MtuWork
        <4>2. CASE h = cmd[p].handle /\ cmd[p].op = "down"
          <5>1. \A e \in Eids : eps'[e].name = h =>
                  eps[e].name = h /\ eps'[e].net = eps[e].net /\ eps'[e].mtu = eps[e].mtu
            BY <1>3, <4>2, NetworkAssumption DEF Works, Removing, Cleaning, Reattaches, Deletes, OnlyAt,
               NoEndpoint
          <5>2. early' = early
            BY <1>3, <4>2 DEF Works, Removing, Cleaning
          <5> QED
            BY <1>0, <1>3, <2>0, <3>1, <4>0, <4>2, <5>1, <5>2 DEF MtuFits, Due, Settled
        <4>3. CASE h # cmd[p].handle
          BY <1>0, <1>3, <3>1, <4>0, <4>3, WorkKeeps, MtuFitsKept, EarlyKept
        <4> QED
          BY <2>2, <4>1, <4>2, <4>3
      <3>4. NatFits'
        BY <1>0, <3>1 DEF NatFits
      <3> QED
        BY <1>0, <3>2, <3>3, <3>4 DEF MtuInv
    <2>3. cmd[p].op \in {"create", "delete", "up", "down"}
      BY <1>3 DEF Works
    <2> QED
      BY <2>1, <2>2, <2>3
  <1>4. ASSUME NEW p \in Procs, Starts(p) \/ Ends(p) PROVE MtuInv'
    <2>0. UNCHANGED <<nat, early>>
      BY <1>4 DEF Starts, Ends
    <2>1. ASSUME NEW q \in Procs PROVE MtuOf(q)'
      <3>1. CASE q = p
        <4>1. CASE Starts(p) /\ cmd'[p].op = "up"
          <5>1. pc'[p] = "ep.network"
            BY <4>1 DEF Starts
          <5> QED
            BY <3>1, <5>1 DEF MtuOf
        <4>2. CASE cmd'[p].op # "up"
          BY <3>1, <4>2 DEF MtuOf
        <4>3. Ends(p) => cmd'[p].op # "up"
          BY DEF Ends, NoCommand
        <4> QED
          BY <1>4, <4>1, <4>2, <4>3
      <3>2. CASE q # p /\ cmd[q].op = "up"
        BY <1>0, <1>4, <2>0, <3>2, OthersKeptBetween, MtuKept
      <3>3. CASE q # p /\ cmd[q].op # "up"
        BY <1>4, <3>3 DEF MtuOf, Starts, Ends, Alone
      <3> QED
        BY <3>1, <3>2, <3>3
    <2>2. ASSUME NEW h \in Handles PROVE MtuFits(h)'
      <3>1. Kept(h)
        BY <1>4, RestKeeps
      <3>2. CASE phase'[h] \in {phase[h], "begun", "down"}
        BY <1>0, <2>0, <3>1, <3>2, MtuFitsKept
      <3>3. CASE h = cmd[p].handle /\ cmd[p].op = "up" /\ pc[p] = "exit" /\ result[p] = "ok"
        <4>1. \A e \in Eids : eps[e].name = h => eps[e].mtu = Due(h) /\ Settled(h)
          BY <1>0, <3>3 DEF MtuOf
        <4>2. Due(h)' = Due(h) /\ (Settled(h) => Settled(h)')
          BY <2>0 DEF Due, Settled
        <4> QED
          BY <1>0, <2>0, <3>1, <4>1, <4>2 DEF MtuFits, Kept
      <3>4. \/ phase'[h] \in {phase[h], "begun", "down"}
            \/ h = cmd[p].handle /\ cmd[p].op = "up" /\ pc[p] = "exit" /\ result[p] = "ok"
        BY <1>4 DEF Starts, Ends
      <3> QED
        BY <3>2, <3>3, <3>4
    <2>3. NatFits'
      BY <1>0, <2>0 DEF NatFits
    <2> QED
      BY <1>0, <2>1, <2>2, <2>3 DEF MtuInv
  <1> QED
    BY <1>1, <1>2, <1>3, <1>4

\* A container that is up has the MTU of the configuration or, if there is none,
\* the MTU of the NAT network that is there now, whatever creates and deletes of
\* the network ran between its up's reading and setting; HNS's default it has
\* exactly if its up has read the MTU before a create has set it.
THEOREM MtuFollows == UpOnce /\ Spec => []MtuFollowsNetwork
  <1>1. MtuInv => MtuFollowsNetwork
    <2> SUFFICES ASSUME MtuInv, NEW e \in Eids, Used(e), phase[eps[e].name] = "live"
                 PROVE  eps[e].mtu = Due(eps[e].name)
      BY DEF MtuFollowsNetwork, Due
    <2>1. eps[e].name \in Handles
      BY DEF MtuInv, CleanInv, BaseInv, Exclusive
    <2> QED
      BY <2>1 DEF MtuInv, MtuFits
  <1>2. Init => MtuInv
    <2>1. Init => NatFits /\ \A p \in Procs : MtuOf(p)
      BY DEF Init, NatFits, MtuOf, NoCommand, NoNetwork
    <2>2. Init => \A h \in Handles : MtuFits(h)
      BY NetworkAssumption DEF Init, MtuFits, NoEndpoint
    <2> QED
      BY <2>1, <2>2, CleanInit DEF MtuInv
  <1>3. ASSUME UpOnce PROVE Spec => []MtuFollowsNetwork
    <2>1. MtuInv /\ [Next]_vars => MtuInv'
      BY <1>3, MtuStep
    <2> QED
      BY <1>1, <1>2, <2>1, PTL DEF Spec
  <1> QED
    BY <1>3
=============================================================================

-------------------------- MODULE FirewallApplier --------------------------
(***************************************************************************)
(* network/netrules/firewallapplier and, below it, network/firewall with   *)
(* its DLL: net rules of a container as rules of the Windows firewall.     *)
(*                                                                         *)
(* All rules of a container carry its handle as their name.  The firewall  *)
(* finds and removes rules by name, one at a time.  The applier's caller   *)
(* is as in network.Up and network.Down: up applies the rules one after    *)
(* the other and cleans up after an error, down only cleans up.            *)
(***************************************************************************)
EXTENDS Integers, FiniteSets, Sequences

CONSTANTS
  Procs,     \* slots for concurrent processes
  Handles,   \* container handles
  NoHandle,  \* no handle
  Ports,     \* the host ports of the port allocator's pool
  Commands,  \* what the processes do, see Command
  MaxFails,  \* bound on the number of calls that fail
  Faults     \* what may go wrong, a subset of FaultKinds

FaultKinds == {"crash",   \* a process is killed
               "com",     \* a call of the firewall's COM interface fails
               "netsh",   \* netsh in the container fails
               "pool"}    \* a call of the port allocator fails

Command == [op : {"up", "down"}, handle : Handles,
            in : Seq(Nat),                   \* HostPort of each NetIn rule
            out : Seq({"valid", "invalid"})] \* the protocol of each NetOut rule

ASSUME FirewallAssumption ==
  /\ NoHandle \notin Handles
  /\ Ports \subseteq Nat \ {0}
  /\ Commands \subseteq Command
  /\ MaxFails \in Nat
  /\ Faults \subseteq FaultKinds

VARIABLES
  fw,      \* the firewall: how many rules there are of a name and direction
  acquired, readable,  \* the port allocator's pool, see PortPool
  pc,      \* where a process is
  cmd,     \* its command
  applied, \* the number of rules it has applied
  ret,     \* DeleteRule: ret
  errs,    \* the errors it has met
  fails,   \* the number of calls that have failed so far
  live     \* history: the command of a container's up, once it has succeeded

poolVars == <<acquired, readable>>
vars == <<fw, acquired, readable, pc, cmd, applied, ret, errs, fails, live>>

Pool == INSTANCE PortPool WITH MayLose <- FALSE

Directions == {"in", "out"}

NoCommand == [op |-> "none", handle |-> NoHandle, in |-> <<>>, out |-> <<>>]

Init ==
  /\ fw = [h \in Handles |-> [d \in Directions |-> 0]]
  /\ Pool!Init
  /\ pc = [p \in Procs |-> "idle"]
  /\ cmd = [p \in Procs |-> NoCommand]
  /\ applied = [p \in Procs |-> 0]
  /\ ret = [p \in Procs |-> "ok"]
  /\ errs = [p \in Procs |-> {}]
  /\ fails = 0
  /\ live = [h \in Handles |-> NoCommand]

Goes(p, l) == pc' = [pc EXCEPT ![p] = l]

Clean(p, l) == Goes(p, l) /\ UNCHANGED <<errs, fails>>

\* A call fails, as long as the bound allows.
Fails(kind) == kind \in Faults /\ fails < MaxFails /\ fails' = fails + 1

Error(p, what) == errs' = [errs EXCEPT ![p] = @ \cup {what}]

NoRules(h) == \A d \in Directions : fw[h][d] = 0

-----------------------------------------------------------------------------
(* The firewall and its DLL                                                *)

\* initializeFirewallPolicy or get_Rules fails: nothing has been done yet.
PolicyFails(p, bad, what) == Fails("com") /\ Goes(p, bad) /\ Error(p, what)

\* CreateRule of the DLL: one more rule of the name, whatever there is already
AddRule(h, d) == fw' = [fw EXCEPT ![h][d] = @ + 1]

\* CreateRule: a result of the DLL other than 0 is an error.  That
\* initializeFirewallRule or Add fails is to the same effect as PolicyFails.
CreateRule(p, h, d, ok, bad) ==
  \/ /\ AddRule(h, d)
     /\ Clean(p, ok)
  \/ /\ PolicyFails(p, bad, "apply")
     /\ UNCHANGED fw

\* Faulty variant: a missing rule is an error like any other.
CheckRuleAlways(h) == IF NoRules(h) THEN -1 ELSE 1

\* checkRule: 1 or 0; for -1 see DeleteRule
CheckRule(h) == IF NoRules(h) THEN 0 ELSE 1

\* Rules->Remove removes one of the rules of that name, if there is one.
Remove(h) ==
  \/ \E d \in Directions : fw[h][d] > 0 /\ fw' = [fw EXCEPT ![h][d] = @ - 1]
  \/ NoRules(h) /\ UNCHANGED fw

\* Faulty variant: Remove is called with any name.
RemoveRuleAny(p, next) ==
  /\ pc[p] = "del.remove"
  /\ \E h \in Handles : Remove(h)
  /\ Goes(p, "del.check")
  /\ UNCHANGED <<poolVars, cmd, applied, ret, errs, fails, live>>

\* The body of DeleteRule's loop; a Remove that fails is not the end of it.
RemoveRule(p, next) ==
  /\ pc[p] = "del.remove"
  /\ \/ Remove(cmd[p].handle) /\ UNCHANGED <<ret, fails>>
     \/ Fails("com") /\ ret' = [ret EXCEPT ![p] = "error"] /\ UNCHANGED fw
  /\ Goes(p, "del.check")
  /\ UNCHANGED <<poolVars, cmd, applied, errs, live>>

\* Faulty variant: one rule is removed, if there is one.
DeleteRuleOnce(p, next) ==
  /\ pc[p] = "del.policy"
  /\ Remove(cmd[p].handle)
  /\ Clean(p, next)
  /\ UNCHANGED <<poolVars, cmd, applied, ret, live>>

\* DeleteRule: as long as checkRule answers 1 or -1, remove a rule.  It returns
\* the error of the last Remove that failed.
DeleteRule(p, next) ==
  LET h == cmd[p].handle
  IN
  \/ /\ pc[p] = "del.policy"
     /\ \/ Clean(p, "del.check")
        \/ PolicyFails(p, next, "policy")
     /\ UNCHANGED <<fw, poolVars, cmd, applied, ret, live>>
  \/ /\ pc[p] = "del.check"
     /\ \/ CheckRule(h) # 0 /\ Clean(p, "del.remove")
        \/ Fails("com") /\ Goes(p, "del.remove") /\ UNCHANGED errs
        \/ CheckRule(h) = 0 /\ ret[p] = "ok" /\ Clean(p, next)
        \/ /\ CheckRule(h) = 0 /\ ret[p] = "error"
           /\ Goes(p, next) /\ Error(p, "remove")
           /\ UNCHANGED fails
     /\ UNCHANGED <<fw, poolVars, cmd, applied, ret, live>>
  \/ RemoveRule(p, next)

-----------------------------------------------------------------------------
(* The applier                                                             *)

\* In: allocate a port unless the caller names one, create the rule, open the
\* port in the container.
In(p, ok, bad) ==
  LET h == cmd[p].handle
      host == cmd[p].in[applied[p] + 1]
      full == \A n \in Ports : \E g \in Handles : n \in acquired[g]
  IN
  \/ /\ pc[p] = "in"
     /\ \/ host # 0 /\ Clean(p, "in.rule") /\ UNCHANGED poolVars
        \/ host = 0 /\ Pool!Acquire(h) /\ Clean(p, "in.rule")
        \/ /\ host = 0
           /\ Fails("pool") \/ (full /\ UNCHANGED fails)
           /\ Goes(p, bad) /\ Error(p, "apply")
           /\ UNCHANGED poolVars
     /\ UNCHANGED <<fw, cmd, applied, ret, live>>
  \/ /\ pc[p] = "in.rule"
     /\ CreateRule(p, h, "in", "in.open", bad)
     /\ UNCHANGED <<poolVars, cmd, applied, ret, live>>
  \/ /\ pc[p] = "in.open"
     /\ \/ Clean(p, ok) /\ applied' = [applied EXCEPT ![p] = @ + 1]
        \/ Fails("netsh") /\ Goes(p, bad) /\ Error(p, "apply") /\ UNCHANGED applied
     /\ UNCHANGED <<fw, poolVars, cmd, ret, live>>

\* Out: a protocol the switch does not know is refused.
Out(p, ok, bad) ==
  LET protocol == cmd[p].out[applied[p] + 1 - Len(cmd[p].in)]
  IN
  /\ pc[p] = "out"
  /\ \/ /\ protocol = "valid"
        /\ CreateRule(p, cmd[p].handle, "out", ok, bad)
        /\ applied' = [applied EXCEPT ![p] = @ + 1]
     \/ /\ protocol = "invalid"
        /\ Goes(p, bad) /\ Error(p, "apply")
        /\ UNCHANGED <<fw, applied, fails>>
  /\ UNCHANGED <<poolVars, cmd, ret, live>>

\* Cleanup releases the ports and deletes the rules, whatever fails.
Cleanup(p, next) ==
  \/ /\ pc[p] = "clean"
     /\ \/ Pool!Release(cmd[p].handle) /\ UNCHANGED <<errs, fails>>
        \/ Fails("pool") /\ Error(p, "release") /\ UNCHANGED poolVars
     /\ Goes(p, "del.policy")
     /\ UNCHANGED <<fw, cmd, applied, ret, live>>
  \/ DeleteRule(p, next)

-----------------------------------------------------------------------------
(* The caller                                                              *)

\* Where an up goes on: NetIn rules first, then NetOut rules
NextRule(k, n) == IF n < Len(k.in) THEN "in"
                  ELSE IF n < Len(k.in) + Len(k.out) THEN "out" ELSE "exit"

\* One command per container at a time; an up only for a container of which
\* nothing is left, as after a down that succeeded
Begin(p) ==
  \E k \in Commands :
    /\ pc[p] = "idle"
    /\ \A q \in Procs : cmd[q].handle # k.handle
    /\ k.op = "up" => live[k.handle] = NoCommand /\ NoRules(k.handle)
                       /\ acquired[k.handle] = {}
    /\ Goes(p, IF k.op = "up" THEN NextRule(k, 0) ELSE "clean")
    /\ cmd' = [cmd EXCEPT ![p] = k]
    /\ live' = [live EXCEPT ![k.handle] = NoCommand]
    /\ UNCHANGED <<fw, poolVars, applied, ret, errs, fails>>

Step(p) ==
  \/ In(p, NextRule(cmd[p], applied[p] + 1), "clean")
  \/ Out(p, NextRule(cmd[p], applied[p] + 1), "clean")
  \/ Cleanup(p, "exit")

Gone(p) ==
  /\ Goes(p, "idle")
  /\ cmd' = [cmd EXCEPT ![p] = NoCommand]
  /\ applied' = [applied EXCEPT ![p] = 0]
  /\ ret' = [ret EXCEPT ![p] = "ok"]
  /\ errs' = [errs EXCEPT ![p] = {}]
  /\ UNCHANGED <<fw, poolVars, fails>>

Return(p) ==
  /\ pc[p] = "exit"
  /\ Gone(p)
  /\ live' = IF cmd[p].op = "up" /\ errs[p] = {}
               THEN [live EXCEPT ![cmd[p].handle] = cmd[p]] ELSE live

Crash(p) ==
  /\ "crash" \in Faults
  /\ pc[p] \notin {"idle", "exit"}
  /\ Gone(p)
  /\ UNCHANGED live

Next == \E p \in Procs : Begin(p) \/ Step(p) \/ Return(p) \/ Crash(p)

\* A process that can go on is scheduled, and its calls return.
Spec == Init /\ [][Next]_vars /\ \A p \in Procs : WF_vars(Step(p))

-----------------------------------------------------------------------------
(* Properties                                                              *)

CleansUp(p) == cmd[p].op = "down" \/ errs[p] # {}

\* A cleanup that releases the ports and gets at the firewall's rules leaves
\* neither a port nor a rule, also after an up that was killed, and
\* although there may be many rules of one name.  If a Remove fails
\* on the way, an error is returned and the rules are gone all the same.
CleanupMeansClean ==
  \A p \in Procs : pc[p] = "exit" /\ CleansUp(p) =>
    /\ "policy" \notin errs[p] => NoRules(cmd[p].handle)
    /\ "release" \notin errs[p] => acquired[cmd[p].handle] = {}

\* A container whose up succeeded has exactly the rules asked for, and a port
\* for each rule that names none, whatever other containers do.
LiveRulesLast ==
  \A h \in Handles : live[h] # NoCommand =>
    /\ fw[h]["in"] = Len(live[h].in)
    /\ fw[h]["out"] = Len(live[h].out)
    /\ Cardinality(acquired[h]) =
         Cardinality({i \in DOMAIN live[h].in : live[h].in[i] = 0})

\* A cleanup comes to an end, however its calls fail, as long as they do not fail
\* for ever.
CleanupEnds ==
  \A p \in Procs : pc[p] = "clean" ~> pc[p] \in {"exit", "idle"}
=============================================================================

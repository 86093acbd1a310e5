--------------------------- MODULE FirewallProofs ---------------------------
(***************************************************************************)
(* What is proved about FirewallApplier, for every number of processes,    *)
(* containers and rules.                                                   *)
(***************************************************************************)
EXTENDS FirewallApplier, FiniteSetTheorems, TLAPS

-----------------------------------------------------------------------------
(* The inductive invariant                                                 *)

\* Steps of up that apply rules, and of a cleanup
Applying == {"in", "in.rule", "in.open", "out"}
Cleaning == {"clean", "del.policy", "del.check", "del.remove"}
Places == {"idle", "exit"} \cup Applying \cup Cleaning

Types ==
  /\ fw \in [Handles -> [Directions -> Nat]]
  /\ acquired \in [Handles -> SUBSET Ports]
  /\ pc \in [Procs -> Places]
  /\ cmd \in [Procs -> Commands \cup {NoCommand}]
  /\ applied \in [Procs -> Nat]
  /\ errs \in [Procs -> SUBSET {"apply", "release", "policy", "remove"}]
  /\ live \in [Handles -> Commands \cup {NoCommand}]

\* A process that applies rules has met no error, and one that cleans up has a
\* reason to; its container is not up.
Control(p) ==
  /\ pc[p] = "idle" => cmd[p] = NoCommand /\ applied[p] = 0 /\ errs[p] = {}
  /\ pc[p] # "idle" => cmd[p] \in Commands /\ live[cmd[p].handle] = NoCommand
  /\ pc[p] \in Applying => cmd[p].op = "up" /\ errs[p] = {}
  /\ pc[p] \in Cleaning => CleansUp(p)

\* A container has one process at a time.
Exclusive ==
  \A p, q \in Procs : p # q /\ pc[p] # "idle" /\ pc[q] # "idle" => cmd[p].handle # cmd[q].handle

BaseInv == Types /\ Exclusive /\ \A p \in Procs : Control(p)

\* What a cleanup has achieved, given where it is
CleanOf(p) ==
  LET h == cmd[p].handle
  IN
  /\ /\ pc[p] \in {"del.policy", "del.check", "del.remove", "exit"}
     /\ CleansUp(p) /\ "release" \notin errs[p]
     => acquired[h] = {}
  /\ pc[p] = "exit" /\ CleansUp(p) /\ "policy" \notin errs[p] => NoRules(h)

\* The NetIn rules among the first n that name no host port
Zeros(k, n) == {i \in DOMAIN k.in : i =< n /\ k.in[i] = 0}

\* The NetIn and the NetOut rules among the first n
InMade(k, n) == IF n < Len(k.in) THEN n ELSE Len(k.in)
OutMade(k, n) == IF n < Len(k.in) THEN 0 ELSE n - Len(k.in)

\* Where up is, given how many rules it has applied
PlaceOf(p) ==
  LET k == cmd[p]
      n == applied[p]
  IN
  /\ pc[p] \in {"in", "in.rule", "in.open"} => n < Len(k.in)
  /\ pc[p] = "out" => Len(k.in) =< n /\ n < Len(k.in) + Len(k.out)
  /\ pc[p] = "exit" => n = Len(k.in) + Len(k.out)

\* The rules and ports that up has made, given where it is
MadeOf(p) ==
  LET h == cmd[p].handle
      k == cmd[p]
      n == applied[p]
  IN
  /\ fw[h]["in"] = InMade(k, n) + (IF pc[p] = "in.open" THEN 1 ELSE 0)
  /\ fw[h]["out"] = OutMade(k, n)
  /\ IsFiniteSet(acquired[h])
  /\ Cardinality(acquired[h]) =
       Cardinality(Zeros(k, IF pc[p] \in {"in.rule", "in.open"} THEN n + 1 ELSE n))

\* An up that has met no error has made what it was asked for so far.
CountOf(p) ==
  pc[p] # "idle" /\ cmd[p].op = "up" /\ errs[p] = {} => PlaceOf(p) /\ MadeOf(p)

\* The rules and ports of a container that is up
LiveOf(h) ==
  live[h] # NoCommand =>
    /\ fw[h]["in"] = Len(live[h].in)
    /\ fw[h]["out"] = Len(live[h].out)
    /\ Cardinality(acquired[h]) =
         Cardinality({i \in DOMAIN live[h].in : live[h].in[i] = 0})

-----------------------------------------------------------------------------
(* Operators                                                               *)

\* A command
LEMMA CommandTypes ==
  ASSUME NEW k \in Commands
  PROVE  /\ k.op \in {"up", "down"} /\ k.handle \in Handles
         /\ k.in \in Seq(Nat) /\ Len(k.in) \in Nat /\ Len(k.out) \in Nat
         /\ k # NoCommand
  <1>1. k \in Command
    BY FirewallAssumption
  <1>2. /\ k.op \in {"up", "down"} /\ k.handle \in Handles
        /\ k.in \in Seq(Nat) /\ k.out \in Seq({"valid", "invalid"})
    BY <1>1 DEF Command
  <1>3. NoCommand.op = "none"
    BY DEF NoCommand
  <1> QED
    BY <1>2, <1>3

\* The number of rules of a command
LEMMA Lengths ==
  ASSUME NEW k \in Commands
  PROVE  Len(k.in) =< Len(k.in) + Len(k.out) /\ 0 =< Len(k.in) + Len(k.out)
  <1>1. PICK a \in Nat, b \in Nat : a = Len(k.in) /\ b = Len(k.out)
    BY CommandTypes
  <1>2. a =< a + b /\ 0 =< a + b
    OBVIOUS
  <1> QED
    BY <1>1, <1>2

\* Where up goes on, and how many rules it has applied then
LEMMA NextRuleIs ==
  ASSUME NEW k \in Commands, NEW n \in Nat, n =< Len(k.in) + Len(k.out)
  PROVE  /\ NextRule(k, n) \in {"in", "out", "exit"}
         /\ NextRule(k, n) = "in" => n < Len(k.in)
         /\ NextRule(k, n) = "out" => Len(k.in) =< n /\ n < Len(k.in) + Len(k.out)
         /\ NextRule(k, n) = "exit" => n = Len(k.in) + Len(k.out)
  <1>1. PICK a \in Nat, b \in Nat : a = Len(k.in) /\ b = Len(k.out)
    BY CommandTypes
  <1>2. NextRule(k, n) = IF n < a THEN "in" ELSE IF n < a + b THEN "out" ELSE "exit"
    BY <1>1 DEF NextRule
  <1>3. /\ n < a \/ a =< n
        /\ n < a + b \/ n = a + b
    <2>1. n =< a + b
      BY <1>1
    <2> QED
      BY <2>1
  <1>4. CASE n < a
    <2>1. NextRule(k, n) = "in"
      BY <1>2, <1>4
    <2> QED
      BY <1>1, <1>4, <2>1
  <1>5. CASE ~(n < a) /\ n < a + b
    <2>1. NextRule(k, n) = "out" /\ a =< n
      BY <1>2, <1>3, <1>5
    <2> QED
      BY <1>1, <1>5, <2>1
  <1>6. CASE ~(n < a) /\ ~(n < a + b)
    <2>1. NextRule(k, n) = "exit" /\ n = a + b
      BY <1>2, <1>3, <1>6
    <2> QED
      BY <1>1, <2>1
  <1> QED
    BY <1>4, <1>5, <1>6

\* What has been made of a command, as up goes on
LEMMA MadeAre ==
  ASSUME NEW k \in Commands, NEW n \in Nat
  PROVE  /\ InMade(k, n) \in Nat /\ OutMade(k, n) \in Int
         /\ InMade(k, 0) = 0 /\ OutMade(k, 0) = 0
         /\ n < Len(k.in) =>
              InMade(k, n + 1) = InMade(k, n) + 1 /\ OutMade(k, n + 1) = OutMade(k, n)
         /\ Len(k.in) =< n =>
              InMade(k, n + 1) = InMade(k, n) /\ OutMade(k, n + 1) = OutMade(k, n) + 1
         /\ n = Len(k.in) + Len(k.out) =>
              InMade(k, n) = Len(k.in) /\ OutMade(k, n) = Len(k.out)
  <1>1. PICK a \in Nat, b \in Nat : a = Len(k.in) /\ b = Len(k.out)
    BY CommandTypes
  <1>2. \A m \in Nat : /\ m < a => InMade(k, m) = m /\ OutMade(k, m) = 0
                       /\ a =< m => InMade(k, m) = a /\ OutMade(k, m) = m - a
    <2>1. \A m : InMade(k, m) = IF m < a THEN m ELSE a
      BY <1>1 DEF InMade
    <2>2. \A m : OutMade(k, m) = IF m < a THEN 0 ELSE m - a
      BY <1>1 DEF OutMade
    <2> QED
      BY <2>1, <2>2
  <1>3. InMade(k, n) \in Nat /\ OutMade(k, n) \in Int
    BY <1>2
  <1>4. InMade(k, 0) = 0 /\ OutMade(k, 0) = 0
    BY <1>2
  <1>5. n < a => InMade(k, n + 1) = InMade(k, n) + 1 /\ OutMade(k, n + 1) = OutMade(k, n)
    BY <1>2
  <1>6. a =< n => InMade(k, n + 1) = InMade(k, n) /\ OutMade(k, n + 1) = OutMade(k, n) + 1
    BY <1>2
  <1>7. n = a + b => InMade(k, n) = a /\ OutMade(k, n) = b
    BY <1>2
  <1> QED
    BY <1>1, <1>3, <1>4, <1>5, <1>6, <1>7

\* The rules without a host port, as up goes on
LEMMA ZerosAre ==
  ASSUME NEW k \in Commands, NEW n \in Nat
  PROVE  /\ IsFiniteSet(Zeros(k, n))
         /\ Zeros(k, 0) = {}
         /\ Len(k.in) =< n => Zeros(k, n) = {i \in DOMAIN k.in : k.in[i] = 0}
         /\ n < Len(k.in) =>
              /\ k.in[n + 1] # 0 => Zeros(k, n + 1) = Zeros(k, n)
              /\ k.in[n + 1] = 0 => Zeros(k, n + 1) = Zeros(k, n) \cup {n + 1}
         /\ Len(k.in) =< n => Zeros(k, n + 1) = Zeros(k, n)
         /\ n + 1 \notin Zeros(k, n)
  <1>1. k.in \in Seq(Nat) /\ Len(k.in) \in Nat /\ DOMAIN k.in = 1..Len(k.in)
    BY CommandTypes
  <1>2. IsFiniteSet(Zeros(k, n))
    <2>1. IsFiniteSet(1..Len(k.in))
      BY <1>1, FS_Interval
    <2>2. Zeros(k, n) \in SUBSET (1..Len(k.in))
      BY <1>1 DEF Zeros
    <2> QED
      BY <2>1, <2>2, FS_Subset
  <1>3. /\ Zeros(k, 0) = {}
        /\ Len(k.in) =< n => Zeros(k, n) = {i \in DOMAIN k.in : k.in[i] = 0}
        /\ Len(k.in) =< n => Zeros(k, n + 1) = Zeros(k, n)
        /\ n + 1 \notin Zeros(k, n)
    BY <1>1 DEF Zeros
  <1>4. ASSUME n < Len(k.in), k.in[n + 1] # 0 PROVE Zeros(k, n + 1) = Zeros(k, n)
    BY <1>1, <1>4 DEF Zeros
  <1>5. ASSUME n < Len(k.in), k.in[n + 1] = 0 PROVE Zeros(k, n + 1) = Zeros(k, n) \cup {n + 1}
    BY <1>1, <1>5 DEF Zeros
  <1> QED
    BY <1>2, <1>3, <1>4, <1>5

-----------------------------------------------------------------------------
(* What the steps do, field by field                                       *)

\* The other processes and containers stay as they are.
Alone(p) ==
  \A q \in Procs \ {p} : /\ pc'[q] = pc[q] /\ cmd'[q] = cmd[q] /\ applied'[q] = applied[q]
                         /\ errs'[q] = errs[q]

Apart(h) ==
  \A g \in Handles \ {h} : fw'[g] = fw[g] /\ acquired'[g] = acquired[g] /\ live'[g] = live[g]

\* p goes on, with or without an error.
Advances(p, l) == pc'[p] = l /\ errs'[p] = errs[p]
Errs(p, l, what) == pc'[p] = l /\ errs'[p] = errs[p] \cup {what}

\* up applies a rule.
Applies(p) ==
  LET h == cmd[p].handle
      k == cmd[p]
      n == applied[p]
  IN
  \/ /\ pc[p] = "in" /\ Advances(p, "in.rule") /\ fw' = fw /\ applied' = applied
     /\ \/ k.in[n + 1] # 0 /\ acquired' = acquired
        \/ /\ k.in[n + 1] = 0
           /\ \E x \in Ports : x \notin acquired[h] /\ acquired'[h] = acquired[h] \cup {x}
  \/ /\ pc[p] = "in.rule" /\ Advances(p, "in.open") /\ acquired' = acquired /\ applied' = applied
     /\ fw'[h]["in"] = fw[h]["in"] + 1 /\ fw'[h]["out"] = fw[h]["out"]
  \/ /\ pc[p] = "in.open" /\ Advances(p, NextRule(k, n + 1)) /\ UNCHANGED <<fw, acquired>>
     /\ applied'[p] = n + 1
  \/ /\ pc[p] = "out" /\ Advances(p, NextRule(k, n + 1)) /\ acquired' = acquired
     /\ fw'[h]["in"] = fw[h]["in"] /\ fw'[h]["out"] = fw[h]["out"] + 1
     /\ applied'[p] = n + 1
  \/ pc[p] \in Applying /\ Errs(p, "clean", "apply")

\* up or down cleans up.
Cleans(p) ==
  LET h == cmd[p].handle
  IN
  \/ pc[p] = "clean" /\ Advances(p, "del.policy") /\ acquired'[h] = {}
  \/ pc[p] = "clean" /\ Errs(p, "del.policy", "release")
  \/ /\ acquired' = acquired
     /\ \/ pc[p] = "del.policy" /\ Advances(p, "del.check")
        \/ pc[p] = "del.policy" /\ Errs(p, "exit", "policy")
        \/ pc[p] = "del.check" /\ Advances(p, "del.remove")
        \/ /\ pc[p] = "del.check" /\ (Advances(p, "exit") \/ Errs(p, "exit", "remove"))
           /\ NoRules(h) /\ fw' = fw
        \/ pc[p] = "del.remove" /\ Advances(p, "del.check")

Works(p) ==
  /\ pc[p] # "idle" /\ cmd' = cmd /\ live' = live
  /\ Types' /\ Alone(p) /\ Apart(cmd[p].handle)
  /\ Applies(p) \/ (Cleans(p) /\ applied' = applied)

\* A command goes on at a step.
LEMMA NextRulePlace == \A k, n : NextRule(k, n) \in Places
  BY DEF NextRule, Places, Applying

\* Moving on and noting errors keeps types, and other processes alone.
LEMMA GoesOn ==
  ASSUME Types, NEW p \in Procs, NEW l \in Places, Goes(p, l),
         \/ errs' = errs
         \/ \E what \in {"apply", "release", "policy", "remove"} : Error(p, what)
  PROVE  /\ pc' \in [Procs -> Places] /\ pc'[p] = l
         /\ errs' \in [Procs -> SUBSET {"apply", "release", "policy", "remove"}]
         /\ \A q \in Procs \ {p} : pc'[q] = pc[q] /\ errs'[q] = errs[q]
         /\ errs' = errs => Advances(p, l)
         /\ \A what : Error(p, what) => Errs(p, l, what)
  BY DEF Types, Goes, Error, Advances, Errs

\* A step that leaves the rules and ports of other containers alone
LEMMA WorkTypes ==
  ASSUME Types, NEW p \in Procs, NEW h \in Handles, cmd' = cmd, live' = live,
         pc' \in [Procs -> Places],
         errs' \in [Procs -> SUBSET {"apply", "release", "policy", "remove"}],
         \A q \in Procs \ {p} : pc'[q] = pc[q] /\ errs'[q] = errs[q],
         applied' = applied \/ applied' = [applied EXCEPT ![p] = @ + 1],
         \/ fw' = fw
         \/ \E d \in Directions : fw' = [fw EXCEPT ![h][d] = @ + 1]
         \/ \E d \in Directions : fw[h][d] > 0 /\ fw' = [fw EXCEPT ![h][d] = @ - 1],
         \/ acquired' = acquired
         \/ acquired' = [acquired EXCEPT ![h] = {}]
         \/ \E x \in Ports : acquired' = [acquired EXCEPT ![h] = @ \cup {x}]
  PROVE  Types' /\ Alone(p) /\ Apart(h)
  <1>1. applied' \in [Procs -> Nat] /\ \A q \in Procs \ {p} : applied'[q] = applied[q]
    BY DEF Types
  <1>2. fw' \in [Handles -> [Directions -> Nat]] /\ \A g \in Handles \ {h} : fw'[g] = fw[g]
    <2>1. fw \in [Handles -> [Directions -> Nat]]
      BY DEF Types
    <2>2. ASSUME NEW d \in Directions, NEW n \in Nat, fw' = [fw EXCEPT ![h][d] = n]
          PROVE  fw' \in [Handles -> [Directions -> Nat]] /\ \A g \in Handles \ {h} : fw'[g] = fw[g]
      BY <2>1, <2>2
    <2>3. ASSUME NEW d \in Directions PROVE fw[h][d] \in Nat
      BY <2>1
    <2>4. CASE fw' = fw
      BY <2>1, <2>4
    <2>5. ASSUME NEW d \in Directions, fw' = [fw EXCEPT ![h][d] = @ + 1]
          PROVE  fw' \in [Handles -> [Directions -> Nat]] /\ \A g \in Handles \ {h} : fw'[g] = fw[g]
      BY <2>1, <2>3, <2>5
    <2>6. ASSUME NEW d \in Directions, fw[h][d] > 0, fw' = [fw EXCEPT ![h][d] = @ - 1]
          PROVE  fw' \in [Handles -> [Directions -> Nat]] /\ \A g \in Handles \ {h} : fw'[g] = fw[g]
      BY <2>1, <2>3, <2>6
    <2> QED
      BY <2>4, <2>5, <2>6
  <1>3. /\ acquired' \in [Handles -> SUBSET Ports]
        /\ \A g \in Handles \ {h} : acquired'[g] = acquired[g]
    BY DEF Types
  <1>4. Types'
    BY <1>1, <1>2, <1>3 DEF Types
  <1> QED
    BY <1>1, <1>2, <1>3, <1>4 DEF Alone, Apart

\* In, Out and Cleanup do what Works says.
LEMMA WorkEffect ==
  ASSUME BaseInv, NEW p \in Procs, Step(p)
  PROVE  Works(p)
  <1>0. Types /\ Control(p)
    BY DEF BaseInv
  <1>1. pc[p] \in Applying \cup Cleaning /\ pc[p] # "idle"
    BY DEF Step, In, Out, Cleanup, DeleteRule, RemoveRule, Applying, Cleaning
  <1>k. PICK k \in Commands : k = cmd[p]
    BY <1>0, <1>1 DEF Control
  <1>h. PICK h \in Handles : h = cmd[p].handle
    BY <1>k, CommandTypes
  <1>n. PICK n \in Nat : n = applied[p]
    BY <1>0 DEF Types
  <1>2. cmd' = cmd /\ live' = live
    BY DEF Step, In, Out, Cleanup, DeleteRule, RemoveRule
  <1>l. /\ NextRule(k, n + 1) \in Places
        /\ {"in.rule", "in.open", "clean", "del.policy", "del.check", "del.remove", "exit"} \subseteq Places
        /\ "in" \in Directions /\ "out" \in Directions
    BY NextRulePlace DEF Places, Applying, Cleaning, Directions
  <1>3. ASSUME NEW l \in Places, Goes(p, l),
               errs' = errs \/ \E what \in {"apply", "release", "policy", "remove"} : Error(p, what),
               applied' = applied \/ applied' = [applied EXCEPT ![p] = @ + 1],
               \/ fw' = fw
               \/ \E d \in Directions : fw' = [fw EXCEPT ![h][d] = @ + 1]
               \/ \E d \in Directions : fw[h][d] > 0 /\ fw' = [fw EXCEPT ![h][d] = @ - 1],
               \/ acquired' = acquired
               \/ acquired' = [acquired EXCEPT ![h] = {}]
               \/ \E x \in Ports : acquired' = [acquired EXCEPT ![h] = @ \cup {x}],
               Applies(p) \/ (Cleans(p) /\ applied' = applied)
        PROVE  Works(p)
    <2>1. /\ pc' \in [Procs -> Places]
          /\ errs' \in [Procs -> SUBSET {"apply", "release", "policy", "remove"}]
          /\ \A q \in Procs \ {p} : pc'[q] = pc[q] /\ errs'[q] = errs[q]
      BY <1>0, <1>3, GoesOn
    <2>2. Types' /\ Alone(p) /\ Apart(h)
      BY <1>0, <1>2, <1>3, <2>1, WorkTypes
    <2>3. Apart(cmd[p].handle)
      BY <1>h, <2>2
    <2> QED
      BY <1>1, <1>2, <1>3, <2>2, <2>3 DEF Works
  <1>4. /\ \A l \in Places : Goes(p, l) /\ errs' = errs => Advances(p, l)
        /\ \A l \in Places, what \in {"apply", "release", "policy", "remove"} :
             Goes(p, l) /\ Error(p, what) => Errs(p, l, what)
    BY <1>0, GoesOn
  <1>5. /\ fw \in [Handles -> [Directions -> Nat]] /\ acquired \in [Handles -> SUBSET Ports]
        /\ applied \in [Procs -> Nat]
    BY <1>0 DEF Types
  <1>6. CASE In(p, NextRule(cmd[p], applied[p] + 1), "clean")
    <2>1. CASE pc[p] = "in"
      <3>0. fw' = fw /\ applied' = applied
        BY <1>6, <2>1 DEF In
      <3>1. CASE k.in[n + 1] # 0 /\ Goes(p, "in.rule") /\ UNCHANGED <<errs, acquired>>
        <4>1. Applies(p)
          BY <1>4, <1>k, <1>n, <1>l, <2>1, <3>0, <3>1 DEF Applies
        <4> QED
          BY <1>3, <1>l, <3>0, <3>1, <4>1
      <3>2. ASSUME NEW x \in Ports, k.in[n + 1] = 0, Goes(p, "in.rule"), errs' = errs,
                   \A g \in Handles : x \notin acquired[g],
                   acquired' = [acquired EXCEPT ![h] = @ \cup {x}]
            PROVE  Works(p)
        <4>1. acquired'[h] = acquired[h] \cup {x}
          BY <1>5, <3>2
        <4>2. Applies(p)
          BY <1>4, <1>h, <1>k, <1>n, <1>l, <2>1, <3>0, <3>2, <4>1 DEF Applies
        <4> QED
          BY <1>3, <1>l, <3>0, <3>2, <4>2
      <3>3. CASE Goes(p, "clean") /\ Error(p, "apply") /\ acquired' = acquired
        <4>1. Applies(p)
          BY <1>4, <1>l, <2>1, <3>3 DEF Applies, Applying
        <4> QED
          BY <1>3, <1>l, <3>0, <3>3, <4>1
      <3> QED
        BY <1>6, <1>h, <1>k, <1>n, <2>1, <3>1, <3>2, <3>3 DEF In, Clean, Pool!Acquire, poolVars
    <2>2. CASE pc[p] = "in.rule"
      <3>0. UNCHANGED <<acquired, applied>>
        BY <1>6, <2>2 DEF In, poolVars
      <3>1. CASE fw' = [fw EXCEPT ![h]["in"] = @ + 1] /\ Goes(p, "in.open") /\ errs' = errs
        <4>1. fw'[h]["in"] = fw[h]["in"] + 1 /\ fw'[h]["out"] = fw[h]["out"]
          BY <1>5, <1>l, <3>1
        <4>2. Applies(p)
          BY <1>4, <1>h, <1>l, <2>2, <3>0, <3>1, <4>1 DEF Applies
        <4> QED
          BY <1>3, <1>l, <3>0, <3>1, <4>2
      <3>2. CASE Goes(p, "clean") /\ Error(p, "apply") /\ fw' = fw
        <4>1. Applies(p)
          BY <1>4, <1>l, <2>2, <3>2 DEF Applies, Applying
        <4> QED
          BY <1>3, <1>l, <3>0, <3>2, <4>1
      <3> QED
        BY <1>6, <1>h, <2>2, <3>1, <3>2 DEF In, CreateRule, AddRule, PolicyFails, Clean
    <2>3. CASE pc[p] = "in.open"
      <3>0. UNCHANGED <<acquired, fw>>
        BY <1>6, <2>3 DEF In, poolVars
      <3>1. CASE /\ Goes(p, NextRule(k, n + 1)) /\ errs' = errs
                 /\ applied' = [applied EXCEPT ![p] = @ + 1]
        <4>1. applied'[p] = n + 1
          BY <1>5, <1>n, <3>1
        <4>2. Applies(p)
          BY <1>4, <1>k, <1>n, <1>l, <2>3, <3>0, <3>1, <4>1 DEF Applies
        <4> QED
          BY <1>3, <1>l, <3>0, <3>1, <4>2
      <3>2. CASE Goes(p, "clean") /\ Error(p, "apply") /\ applied' = applied
        <4>1. Applies(p)
          BY <1>4, <1>l, <2>3, <3>2 DEF Applies, Applying
        <4> QED
          BY <1>3, <1>l, <3>0, <3>2, <4>1
      <3> QED
        BY <1>6, <1>k, <1>n, <2>3, <3>1, <3>2 DEF In, Clean
    <2> QED
      BY <1>6, <2>1, <2>2, <2>3 DEF In
  <1>7. CASE Out(p, NextRule(cmd[p], applied[p] + 1), "clean")
    <2>0. pc[p] = "out" /\ acquired' = acquired
      BY <1>7 DEF Out, poolVars
    <2>1. CASE /\ fw' = [fw EXCEPT ![h]["out"] = @ + 1] /\ Goes(p, NextRule(k, n + 1)) /\ errs' = errs
               /\ applied' = [applied EXCEPT ![p] = @ + 1]
      <3>1. fw'[h]["in"] = fw[h]["in"] /\ fw'[h]["out"] = fw[h]["out"] + 1 /\ applied'[p] = n + 1
        BY <1>5, <1>l, <1>n, <2>1
      <3>2. Applies(p)
        BY <1>4, <1>h, <1>k, <1>n, <1>l, <2>0, <2>1, <3>1 DEF Applies
      <3> QED
        BY <1>3, <1>l, <2>0, <2>1, <3>2
    <2>2. CASE /\ Goes(p, "clean") /\ Error(p, "apply") /\ fw' = fw
               /\ applied' = applied \/ applied' = [applied EXCEPT ![p] = @ + 1]
      <3>1. Applies(p)
        BY <1>4, <1>l, <2>0, <2>2 DEF Applies, Applying
      <3> QED
        BY <1>3, <1>l, <2>0, <2>2, <3>1
    <2> QED
      BY <1>7, <1>h, <1>k, <1>n, <2>1, <2>2 DEF Out, CreateRule, AddRule, PolicyFails, Clean
  <1>8. CASE Cleanup(p, "exit")
    <2>0. applied' = applied
      BY <1>8 DEF Cleanup, DeleteRule, RemoveRule
    <2>1. CASE pc[p] = "clean"
      <3>0. fw' = fw /\ Goes(p, "del.policy")
        BY <1>8, <2>1 DEF Cleanup, DeleteRule, RemoveRule
      <3>1. CASE acquired' = [acquired EXCEPT ![h] = {}] /\ errs' = errs
        <4>1. acquired'[h] = {}
          BY <1>5, <3>1
        <4>2. Cleans(p)
          BY <1>4, <1>h, <1>l, <2>1, <3>0, <3>1, <4>1 DEF Cleans
        <4> QED
          BY <1>3, <1>l, <2>0, <3>0, <3>1, <4>2
      <3>2. CASE acquired' = acquired /\ Error(p, "release")
        <4>1. Cleans(p)
          BY <1>4, <1>l, <2>1, <3>0, <3>2 DEF Cleans
        <4> QED
          BY <1>3, <1>l, <2>0, <3>0, <3>2, <4>1
      <3> QED
        BY <1>8, <1>h, <2>1, <3>1, <3>2 DEF Cleanup, DeleteRule, RemoveRule, Pool!Release, poolVars
    <2>2. CASE pc[p] = "del.policy"
      <3>0. UNCHANGED <<fw, acquired>>
        BY <1>8, <2>2 DEF Cleanup, DeleteRule, RemoveRule, poolVars
      <3>1. \/ Goes(p, "del.check") /\ errs' = errs
            \/ Goes(p, "exit") /\ Error(p, "policy")
        BY <1>8, <2>2 DEF Cleanup, DeleteRule, RemoveRule, Clean, PolicyFails
      <3>2. Cleans(p)
        BY <1>4, <1>l, <2>2, <3>0, <3>1 DEF Cleans
      <3> QED
        BY <1>3, <1>l, <2>0, <3>0, <3>1, <3>2
    <2>3. CASE pc[p] = "del.check"
      <3>0. UNCHANGED <<fw, acquired>>
        BY <1>8, <2>3 DEF Cleanup, DeleteRule, RemoveRule, poolVars
      <3>1. \/ Goes(p, "del.remove") /\ errs' = errs
            \/ CheckRule(h) = 0 /\ Goes(p, "exit") /\ (errs' = errs \/ Error(p, "remove"))
        BY <1>8, <1>h, <2>3 DEF Cleanup, DeleteRule, RemoveRule, Clean
      <3>2. CheckRule(h) = 0 => NoRules(cmd[p].handle)
        BY <1>h DEF CheckRule
      <3>3. Cleans(p)
        BY <1>4, <1>l, <2>3, <3>0, <3>1, <3>2 DEF Cleans
      <3> QED
        BY <1>3, <1>l, <2>0, <3>0, <3>1, <3>3
    <2>4. CASE pc[p] = "del.remove"
      <3>0. acquired' = acquired /\ errs' = errs /\ Goes(p, "del.check")
        BY <1>8, <2>4 DEF Cleanup, DeleteRule, RemoveRule, poolVars
      <3>1. Cleans(p)
        BY <1>4, <1>l, <2>4, <3>0 DEF Cleans
      <3>2. \/ fw' = fw
            \/ \E d \in Directions : fw[h][d] > 0 /\ fw' = [fw EXCEPT ![h][d] = @ - 1]
        BY <1>8, <1>h, <2>4 DEF Cleanup, DeleteRule, RemoveRule, Remove
      <3> QED
        BY <1>3, <1>l, <2>0, <3>0, <3>1, <3>2
    <2> QED
      BY <1>8, <2>1, <2>2, <2>3, <2>4 DEF Cleanup, DeleteRule, RemoveRule
  <1> QED
    BY <1>6, <1>7, <1>8 DEF Step

\* A command begins.
Starts(p) ==
  LET k == cmd'[p]
  IN
  /\ pc[p] = "idle" /\ k \in Commands /\ Alone(p) /\ Types'
  /\ UNCHANGED <<fw, acquired, applied, errs>>
  /\ \A q \in Procs : cmd[q].handle # k.handle
  /\ pc'[p] = IF k.op = "up" THEN NextRule(k, 0) ELSE "clean"
  /\ k.op = "up" => NoRules(k.handle) /\ acquired[k.handle] = {}
  /\ \A h \in Handles : live'[h] = IF h = k.handle THEN NoCommand ELSE live[h]

\* A process returns, or is killed.
Ends(p) ==
  /\ pc[p] # "idle" /\ pc'[p] = "idle" /\ cmd'[p] = NoCommand /\ Alone(p) /\ Types'
  /\ applied'[p] = 0 /\ errs'[p] = {}
  /\ UNCHANGED <<fw, acquired>>
  /\ \/ live' = live
     \/ /\ pc[p] = "exit" /\ cmd[p].op = "up" /\ errs[p] = {}
        /\ \A h \in Handles : live'[h] = IF h = cmd[p].handle THEN cmd[p] ELSE live[h]

\* Begin does what Starts says.
LEMMA StartEffect ==
  ASSUME BaseInv, NEW p \in Procs, Begin(p)
  PROVE  Starts(p)
  <1>0. Types /\ pc[p] = "idle"
    BY DEF BaseInv, Begin
  <1>1. PICK k \in Commands :
          /\ \A q \in Procs : cmd[q].handle # k.handle
          /\ k.op = "up" => live[k.handle] = NoCommand /\ NoRules(k.handle) /\ acquired[k.handle] = {}
          /\ Goes(p, IF k.op = "up" THEN NextRule(k, 0) ELSE "clean")
          /\ cmd' = [cmd EXCEPT ![p] = k]
          /\ live' = [live EXCEPT ![k.handle] = NoCommand]
          /\ UNCHANGED <<fw, acquired, applied, errs>>
    BY DEF Begin, poolVars
  <1>2. (IF k.op = "up" THEN NextRule(k, 0) ELSE "clean") \in Places
    BY NextRulePlace DEF Places, Cleaning
  <1>3. /\ pc' \in [Procs -> Places] /\ pc'[p] = IF k.op = "up" THEN NextRule(k, 0) ELSE "clean"
        /\ \A q \in Procs \ {p} : pc'[q] = pc[q]
    BY <1>0, <1>1, <1>2, GoesOn
  <1>4. /\ cmd' \in [Procs -> Commands \cup {NoCommand}] /\ cmd'[p] = k
        /\ \A q \in Procs \ {p} : cmd'[q] = cmd[q]
        /\ live' \in [Handles -> Commands \cup {NoCommand}]
        /\ \A h \in Handles : live'[h] = IF h = k.handle THEN NoCommand ELSE live[h]
    BY <1>0, <1>1 DEF Types
  <1>5. Types'
    BY <1>0, <1>1, <1>3, <1>4 DEF Types
  <1>6. Alone(p)
    BY <1>1, <1>3, <1>4 DEF Alone
  <1> QED
    BY <1>0, <1>1, <1>3, <1>4, <1>5, <1>6 DEF Starts

\* Return and Crash do what Ends says.
LEMMA EndEffect ==
  ASSUME BaseInv, NEW p \in Procs, Return(p) \/ Crash(p)
  PROVE  Ends(p)
  <1>0. Types /\ Control(p)
    BY DEF BaseInv
  <1>1. Gone(p) /\ pc[p] # "idle"
    BY DEF Return, Crash
  <1>2. cmd[p] \in Commands
    BY <1>0, <1>1 DEF Control
  <1>3. /\ pc' \in [Procs -> Places] /\ pc'[p] = "idle"
        /\ cmd' \in [Procs -> Commands \cup {NoCommand}] /\ cmd'[p] = NoCommand
        /\ applied' \in [Procs -> Nat] /\ applied'[p] = 0
        /\ errs' \in [Procs -> SUBSET {"apply", "release", "policy", "remove"}] /\ errs'[p] = {}
        /\ \A q \in Procs \ {p} : /\ pc'[q] = pc[q] /\ cmd'[q] = cmd[q] /\ applied'[q] = applied[q]
                                  /\ errs'[q] = errs[q]
        /\ UNCHANGED <<fw, acquired>>
    <2>1. "idle" \in Places
      BY DEF Places
    <2> QED
      BY <1>0, <1>1, <2>1 DEF Types, Gone, Goes, poolVars
  <1>4. /\ live' \in [Handles -> Commands \cup {NoCommand}]
        /\ \/ live' = live
           \/ /\ pc[p] = "exit" /\ cmd[p].op = "up" /\ errs[p] = {}
              /\ \A h \in Handles : live'[h] = IF h = cmd[p].handle THEN cmd[p] ELSE live[h]
    BY <1>0, <1>2 DEF Types, Return, Crash
  <1>5. Types'
    BY <1>0, <1>3, <1>4 DEF Types
  <1> QED
    BY <1>1, <1>3, <1>4, <1>5 DEF Ends, Alone

\* What a step is
LEMMA Moves ==
  ASSUME BaseInv, Next
  PROVE  \E p \in Procs : Works(p) \/ Starts(p) \/ Ends(p)
  BY WorkEffect, StartEffect, EndEffect DEF Next

-----------------------------------------------------------------------------
(* Control                                                                 *)

\* Every step keeps BaseInv.
LEMMA BaseStep ==
  ASSUME BaseInv, NEW p \in Procs, Works(p) \/ Starts(p) \/ Ends(p)
  PROVE  BaseInv'
  <1>0. Types /\ Exclusive /\ \A q \in Procs : Control(q)
    BY DEF BaseInv
  <1>1. Types' /\ Alone(p)
    BY DEF Works, Starts, Ends
  <1>2. Exclusive'
    <2>1. \A q \in Procs \ {p} : pc'[q] = pc[q] /\ cmd'[q] = cmd[q]
      BY <1>1 DEF Alone
    <2>2. CASE Works(p)
      BY <1>0, <2>1, <2>2 DEF Exclusive, Works
    <2>3. CASE Starts(p)
      BY <1>0, <2>1, <2>3 DEF Exclusive, Starts
    <2>4. CASE Ends(p)
      BY <1>0, <2>1, <2>4 DEF Exclusive, Ends
    <2> QED
      BY <2>2, <2>3, <2>4
  <1>3. ASSUME NEW q \in Procs \ {p} PROVE Control(q)'
    <2>1. UNCHANGED <<pc[q], cmd[q], applied[q], errs[q]>>
      BY <1>1 DEF Alone
    <2>2. CASE pc[q] = "idle"
      BY <1>0, <2>1, <2>2 DEF Control, Applying, Cleaning
    <2>3. CASE pc[q] # "idle"
      <3>1. cmd[q] \in Commands /\ cmd[q].handle \in Handles /\ live[cmd[q].handle] = NoCommand
        BY <1>0, <2>3, CommandTypes DEF Control
      <3>2. live'[cmd[q].handle] = NoCommand
        <4>1. CASE Works(p)
          BY <3>1, <4>1 DEF Works
        <4>2. CASE Starts(p)
          BY <3>1, <4>2 DEF Starts
        <4>3. CASE Ends(p)
          <5>1. cmd[p].handle # cmd[q].handle
            BY <1>0, <2>3, <4>3 DEF Exclusive, Ends
          <5> QED
            BY <3>1, <4>3, <5>1 DEF Ends
        <4> QED
          BY <4>1, <4>2, <4>3
      <3> QED
        BY <1>0, <2>1, <2>3, <3>1, <3>2 DEF Control, CleansUp
    <2> QED
      BY <2>2, <2>3
  <1>4. Control(p)'
    <2>1. CASE Works(p)
      <3>1. /\ cmd[p] \in Commands /\ live'[cmd'[p].handle] = NoCommand /\ cmd'[p] = cmd[p]
            /\ pc[p] # "idle"
        BY <1>0, <2>1 DEF Works, Control
      <3>2. CASE Applies(p)
        <4>1. cmd[p].op = "up" /\ errs[p] = {}
          BY <1>0, <3>2 DEF Control, Applies, Applying
        <4>2. \/ pc'[p] \in {"in.rule", "in.open", "in", "out", "exit"} /\ errs'[p] = {}
              \/ pc'[p] = "clean" /\ errs'[p] # {}
          BY <3>2, <4>1 DEF Applies, Advances, Errs, NextRule
        <4> QED
          BY <3>1, <4>1, <4>2 DEF Control, Applying, Cleaning, CleansUp
      <3>3. CASE Cleans(p)
        <4>1. /\ CleansUp(p) /\ pc'[p] \in Cleaning \cup {"exit"}
              /\ errs[p] \subseteq errs'[p]
          BY <1>0, <3>3 DEF Control, Cleans, Cleaning, Advances, Errs
        <4> QED
          BY <3>1, <4>1 DEF Control, Applying, Cleaning, CleansUp
      <3> QED
        BY <2>1, <3>2, <3>3 DEF Works
    <2>2. CASE Starts(p)
      <3>1. cmd'[p] \in Commands /\ live'[cmd'[p].handle] = NoCommand
        BY <2>2, CommandTypes DEF Starts
      <3>2. errs'[p] = {} /\ applied'[p] = 0
        BY <1>0, <2>2 DEF Starts, Control
      <3>3. \/ cmd'[p].op = "up" /\ pc'[p] \in {"in", "out", "exit"}
            \/ cmd'[p].op = "down" /\ pc'[p] = "clean"
        BY <2>2, <3>1, CommandTypes DEF Starts, NextRule
      <3> QED
        BY <3>1, <3>2, <3>3 DEF Control, Applying, Cleaning, CleansUp
    <2>3. CASE Ends(p)
      BY <2>3 DEF Ends, Control, Applying, Cleaning
    <2> QED
      BY <2>1, <2>2, <2>3
  <1> QED
    BY <1>1, <1>2, <1>3, <1>4 DEF BaseInv

\* A step of p leaves the rules and ports of another process's container alone.
LEMMA OthersKept ==
  ASSUME BaseInv, NEW p \in Procs, Works(p) \/ Starts(p) \/ Ends(p), NEW q \in Procs \ {p},
         pc[q] # "idle"
  PROVE  /\ fw'[cmd[q].handle] = fw[cmd[q].handle] /\ acquired'[cmd[q].handle] = acquired[cmd[q].handle]
         /\ UNCHANGED <<pc[q], cmd[q], applied[q], errs[q]>>
  <1>1. cmd[q].handle \in Handles
    BY CommandTypes DEF BaseInv, Control
  <1>2. Alone(p)
    BY DEF Works, Starts, Ends
  <1>3. Works(p) => cmd[q].handle # cmd[p].handle
    BY DEF BaseInv, Exclusive, Works
  <1> QED
    BY <1>1, <1>2, <1>3 DEF Works, Starts, Ends, Apart, Alone

-----------------------------------------------------------------------------
(* Cleaning up                                                             *)

CleanInv == BaseInv /\ \A p \in Procs : CleanOf(p)

\* Every step keeps CleanInv.
LEMMA CleanStep ==
  ASSUME CleanInv, [Next]_vars
  PROVE  CleanInv'
  <1>0. BaseInv /\ \A p \in Procs : CleanOf(p)
    BY DEF CleanInv
  <1>1. CASE UNCHANGED vars
    BY <1>1 DEF vars, CleanInv, BaseInv, Types, Exclusive, Control, CleanOf, CleansUp, NoRules
  <1>2. ASSUME NEW p \in Procs, Works(p) \/ Starts(p) \/ Ends(p), NEW q \in Procs
        PROVE  CleanOf(q)'
    <2>0. Alone(p) /\ Control(p)
      BY <1>0, <1>2 DEF Works, Starts, Ends, BaseInv
    <2>1. CASE q # p /\ pc[q] # "idle"
      <3>h. PICK h : h = cmd[q].handle
        OBVIOUS
      <3>1. /\ fw'[h] = fw[h] /\ acquired'[h] = acquired[h] /\ cmd'[q].handle = h
            /\ UNCHANGED <<pc[q], cmd[q], errs[q]>>
        BY <1>0, <1>2, <2>1, <3>h, OthersKept
      <3> QED
        BY <1>0, <3>1, <3>h DEF CleanOf, CleansUp, NoRules
    <2>2. CASE q # p /\ pc[q] = "idle"
      BY <2>0, <2>2 DEF Alone, CleanOf
    <2>3. CASE q = p /\ Works(p)
      <3>h. PICK h : h = cmd[p].handle /\ cmd' = cmd
        BY <2>3 DEF Works
      <3>1. CASE Applies(p)
        <4>1. cmd[p].op = "up" /\ errs[p] = {}
          BY <2>0, <3>1 DEF Control, Applies, Applying
        <4>2. \/ pc'[p] \in {"in.rule", "in.open", "in", "out", "exit"} /\ errs'[p] = {}
              \/ pc'[p] = "clean"
          BY <3>1, <4>1 DEF Applies, Advances, Errs, NextRule
        <4> QED
          BY <2>3, <3>h, <4>1, <4>2 DEF CleanOf, CleansUp
      <3>2. CASE Cleans(p)
        <4>1. CleansUp(p)
          BY <2>0, <3>2 DEF Control, Cleans, Cleaning
        <4>2. CASE pc[p] = "clean"
          BY <2>3, <3>2, <3>h, <4>2 DEF Cleans, CleanOf, Advances, Errs
        <4>3. CASE pc[p] # "clean"
          <5>1. acquired' = acquired /\ pc[p] \in {"del.policy", "del.check", "del.remove"}
                /\ (errs'[p] = errs[p] \/ \E what \in {"policy", "remove"} : errs'[p] = errs[p] \cup {what})
            BY <3>2, <4>3 DEF Cleans, Advances, Errs
          <5>2. "release" \notin errs'[p] => acquired'[h] = {}
            BY <1>0, <3>h, <4>1, <5>1 DEF CleanOf
          <5>3. pc'[p] = "exit" => "policy" \in errs'[p] \/ (NoRules(h) /\ fw' = fw)
            BY <3>2, <3>h, <4>3 DEF Cleans, Advances, Errs
          <5> QED
            BY <2>3, <3>h, <5>2, <5>3 DEF CleanOf, NoRules
        <4> QED
          BY <4>2, <4>3
      <3> QED
        BY <2>3, <3>1, <3>2 DEF Works
    <2>4. CASE q = p /\ Starts(p)
      <3>1. errs'[p] = {} /\ (cmd'[p].op = "up" \/ pc'[p] = "clean")
        BY <2>0, <2>4 DEF Starts, Control
      <3> QED
        BY <2>4, <3>1 DEF CleanOf, CleansUp
    <2>5. CASE q = p /\ Ends(p)
      BY <2>5 DEF Ends, CleanOf
    <2> QED
      BY <1>2, <2>1, <2>2, <2>3, <2>4, <2>5
  <1>3. ASSUME NEW p \in Procs, Works(p) \/ Starts(p) \/ Ends(p) PROVE CleanInv'
    BY <1>0, <1>2, <1>3, BaseStep DEF CleanInv
  <1> QED
    BY <1>0, <1>1, <1>3, Moves

\* At first there is nothing.
LEMMA CleanInit == Init => CleanInv
  <1> SUFFICES ASSUME Init PROVE CleanInv
    OBVIOUS
  <1>1. "idle" \in Places
    BY DEF Places
  <1>2. Types
    BY <1>1 DEF Init, Types, Pool!Init, Pool!Nothing
  <1>3. Exclusive /\ \A p \in Procs : Control(p) /\ CleanOf(p)
    BY DEF Init, Exclusive, Control, CleanOf, Applying, Cleaning
  <1> QED
    BY <1>2, <1>3 DEF CleanInv, BaseInv

\* A cleanup that released the ports and got at the firewall's rules has left
\* neither a port nor a rule of its container, however many rules there were
\* and whatever else failed or ran meanwhile.
THEOREM CleanupIsClean == Spec => []CleanupMeansClean
  <1>1. CleanInv => CleanupMeansClean
    BY DEF CleanInv, CleanOf, CleanupMeansClean
  <1>2. CleanInv /\ [Next]_vars => CleanInv'
    BY CleanStep
  <1> QED
    BY <1>1, <1>2, CleanInit, PTL DEF Spec

-----------------------------------------------------------------------------
(* The rules of a container that is up                                     *)

CountInv == BaseInv /\ (\A p \in Procs : CountOf(p)) /\ \A h \in Handles : LiveOf(h)

\* In and Out apply one rule after the other, in their order.
LEMMA AppliesCounts ==
  ASSUME BaseInv, NEW p \in Procs, Works(p), Applies(p), CountOf(p)
  PROVE  CountOf(p)'
  <1>0. Control(p) /\ pc[p] \in Applying /\ cmd' = cmd
    BY DEF BaseInv, Applies, Applying, Works
  <1>k. PICK k \in Commands : k = cmd[p] /\ k = cmd'[p]
    BY <1>0 DEF Control, Applying
  <1>h. PICK h \in Handles : h = k.handle
    BY CommandTypes
  <1>n. PICK n \in Nat : n = applied[p]
    BY DEF BaseInv, Types
  <1>1. PlaceOf(p) /\ MadeOf(p)
    BY <1>0 DEF Control, Applying, CountOf
  <1>2. PICK a \in Nat, b \in Nat : a = Len(k.in) /\ b = Len(k.out)
    BY CommandTypes
  <1>3. /\ pc[p] \in {"in", "in.rule", "in.open"} => n < a
        /\ pc[p] = "out" => a =< n /\ n < a + b
    BY <1>1, <1>2, <1>k, <1>n DEF PlaceOf
  <1>4. /\ fw[h]["in"] = InMade(k, n) + (IF pc[p] = "in.open" THEN 1 ELSE 0)
        /\ fw[h]["out"] = OutMade(k, n)
        /\ IsFiniteSet(acquired[h])
        /\ Cardinality(acquired[h]) =
             Cardinality(Zeros(k, IF pc[p] \in {"in.rule", "in.open"} THEN n + 1 ELSE n))
    BY <1>1, <1>h, <1>k, <1>n DEF MadeOf
  <1>5. InMade(k, n) \in Nat /\ OutMade(k, n) \in Int
    BY MadeAre
  \* What is to be shown, given where the step leads
  <1>6. ASSUME NEW m \in Nat, applied'[p] = m,
               pc'[p] \in {"in", "in.rule", "in.open"} => m < a,
               pc'[p] = "out" => a =< m /\ m < a + b,
               pc'[p] = "exit" => m = a + b,
               fw'[h]["in"] = InMade(k, m) + (IF pc'[p] = "in.open" THEN 1 ELSE 0),
               fw'[h]["out"] = OutMade(k, m),
               IsFiniteSet(acquired'[h]),
               Cardinality(acquired'[h]) =
                 Cardinality(Zeros(k, IF pc'[p] \in {"in.rule", "in.open"} THEN m + 1 ELSE m))
        PROVE  CountOf(p)'
    <2>1. PlaceOf(p)'
      BY <1>2, <1>6, <1>k DEF PlaceOf
    <2>2. MadeOf(p)'
      <3>1. cmd'[p] = k /\ cmd'[p].handle = h
        BY <1>h, <1>k
      <3> QED
        BY <1>6, <3>1 DEF MadeOf
    <2> QED
      BY <2>1, <2>2 DEF CountOf
  <1>7. CASE pc[p] = "in" /\ pc'[p] = "in.rule"
    <2>1. fw' = fw /\ applied' = applied
      BY <1>7 DEF Applies, Advances, Errs
    <2>2. n < a
      BY <1>3, <1>7
    <2>3. Cardinality(acquired[h]) = Cardinality(Zeros(k, n)) /\ IsFiniteSet(Zeros(k, n))
      BY <1>4, <1>7, ZerosAre
    <2>4. IsFiniteSet(acquired'[h]) /\ Cardinality(acquired'[h]) = Cardinality(Zeros(k, n + 1))
      <3>1. CASE k.in[n + 1] # 0 /\ acquired' = acquired
        <4>1. Zeros(k, n + 1) = Zeros(k, n)
          BY <1>2, <2>2, <3>1, ZerosAre
        <4> QED
          BY <1>4, <2>3, <3>1, <4>1
      <3>2. ASSUME NEW x, k.in[n + 1] = 0, x \notin acquired[h], acquired'[h] = acquired[h] \cup {x}
            PROVE  IsFiniteSet(acquired'[h]) /\ Cardinality(acquired'[h]) = Cardinality(Zeros(k, n + 1))
        <4>1. Zeros(k, n + 1) = Zeros(k, n) \cup {n + 1} /\ n + 1 \notin Zeros(k, n)
          BY <1>2, <2>2, <3>2, ZerosAre
        <4>2. Cardinality(Zeros(k, n + 1)) = Cardinality(Zeros(k, n)) + 1
          BY <2>3, <4>1, FS_AddElement
        <4>3. IsFiniteSet(acquired'[h]) /\ Cardinality(acquired'[h]) = Cardinality(acquired[h]) + 1
          <5>1. IsFiniteSet(acquired[h])
            BY <1>4
          <5>2. /\ IsFiniteSet(acquired[h] \cup {x})
                /\ Cardinality(acquired[h] \cup {x}) = Cardinality(acquired[h]) + 1
            BY <3>2, <5>1, FS_AddElement
          <5> QED
            BY <3>2, <5>2
        <4> QED
          BY <2>3, <4>2, <4>3
      <3> QED
        BY <1>7, <1>h, <1>k, <1>n, <3>1, <3>2 DEF Applies, Advances, Errs
    <2>5. applied'[p] = n /\ fw'[h]["in"] = InMade(k, n) + 0 /\ fw'[h]["out"] = OutMade(k, n)
      BY <1>4, <1>7, <1>n, <2>1
    <2> QED
      BY <1>6, <1>7, <2>2, <2>4, <2>5
  <1>8. CASE pc[p] = "in.rule" /\ pc'[p] = "in.open"
    <2>1. /\ acquired' = acquired /\ applied' = applied
          /\ fw'[h]["in"] = fw[h]["in"] + 1 /\ fw'[h]["out"] = fw[h]["out"]
      BY <1>8, <1>h, <1>k DEF Applies, Advances, Errs
    <2>2. /\ applied'[p] = n /\ n < a
          /\ fw'[h]["in"] = InMade(k, n) + 1 /\ fw'[h]["out"] = OutMade(k, n)
      BY <1>3, <1>4, <1>5, <1>8, <1>n, <2>1
    <2>3. IsFiniteSet(acquired'[h]) /\ Cardinality(acquired'[h]) = Cardinality(Zeros(k, n + 1))
      BY <1>4, <1>8, <2>1
    <2> QED
      BY <1>6, <1>8, <2>2, <2>3
  <1>9. CASE pc[p] \in {"in.open", "out"} /\ pc'[p] = NextRule(k, n + 1) /\ pc'[p] # "clean"
    <2>0. n + 1 \in Nat /\ n + 1 =< Len(k.in) + Len(k.out)
      <3>1. n + 1 \in Nat /\ n + 1 =< a + b
        BY <1>3, <1>9
      <3> QED
        BY <1>2, <3>1
    <2>1. /\ pc'[p] \in {"in", "out", "exit"}
          /\ pc'[p] = "in" => n + 1 < a
          /\ pc'[p] = "out" => a =< n + 1 /\ n + 1 < a + b
          /\ pc'[p] = "exit" => n + 1 = a + b
      BY <1>2, <1>9, <2>0, NextRuleIs
    <2>2. acquired' = acquired /\ applied'[p] = n + 1
      BY <1>9, <1>n DEF Applies, Advances, Errs
    <2>3. fw'[h]["in"] = InMade(k, n + 1) /\ fw'[h]["out"] = OutMade(k, n + 1)
      <3>1. CASE pc[p] = "in.open"
        <4>1. fw' = fw
          BY <1>9, <3>1 DEF Applies, Advances, Errs
        <4>2. InMade(k, n + 1) = InMade(k, n) + 1 /\ OutMade(k, n + 1) = OutMade(k, n)
          BY <1>2, <1>3, <3>1, MadeAre
        <4> QED
          BY <1>4, <3>1, <4>1, <4>2
      <3>2. CASE pc[p] = "out"
        <4>1. fw'[h]["in"] = fw[h]["in"] /\ fw'[h]["out"] = fw[h]["out"] + 1
          BY <1>9, <1>h, <1>k, <3>2 DEF Applies, Advances, Errs
        <4>2. InMade(k, n + 1) = InMade(k, n) /\ OutMade(k, n + 1) = OutMade(k, n) + 1
          BY <1>2, <1>3, <3>2, MadeAre
        <4> QED
          BY <1>4, <1>5, <3>2, <4>1, <4>2
      <3> QED
        BY <1>9, <3>1, <3>2
    <2>4. IsFiniteSet(acquired'[h]) /\ Cardinality(acquired'[h]) = Cardinality(Zeros(k, n + 1))
      <3>1. CASE pc[p] = "in.open"
        BY <1>4, <2>2, <3>1
      <3>2. CASE pc[p] = "out"
        <4>1. Zeros(k, n + 1) = Zeros(k, n)
          BY <1>2, <1>3, <3>2, ZerosAre
        <4> QED
          BY <1>4, <2>2, <3>2, <4>1
      <3> QED
        BY <1>9, <3>1, <3>2
    <2>5. fw'[h]["in"] = InMade(k, n + 1) + 0
      <3>1. InMade(k, n + 1) \in Nat
        BY <2>0, MadeAre
      <3> QED
        BY <2>3, <3>1
    <2>6. pc'[p] \notin {"in.rule", "in.open"}
      BY <2>1
    <2> QED
      BY <1>6, <2>0, <2>1, <2>2, <2>3, <2>4, <2>5, <2>6
  <1>10. CASE pc'[p] = "clean" /\ errs'[p] # {}
    BY <1>10 DEF CountOf
  <1>11. \/ pc[p] = "in" /\ pc'[p] = "in.rule"
         \/ pc[p] = "in.rule" /\ pc'[p] = "in.open"
         \/ pc[p] \in {"in.open", "out"} /\ pc'[p] = NextRule(k, n + 1)
         \/ pc'[p] = "clean" /\ errs'[p] # {}
    BY <1>k, <1>n DEF Applies, Advances, Errs
  <1>12. NextRule(k, n + 1) # "clean"
    BY DEF NextRule
  <1> QED
    BY <1>7, <1>8, <1>9, <1>10, <1>11, <1>12

\* Every step keeps CountInv.
LEMMA CountStep ==
  ASSUME CountInv, [Next]_vars
  PROVE  CountInv'
  <1>0. BaseInv /\ (\A p \in Procs : CountOf(p)) /\ \A h \in Handles : LiveOf(h)
    BY DEF CountInv
  <1>1. CASE UNCHANGED vars
    <2>1. BaseInv'
      BY <1>0, <1>1 DEF vars, BaseInv, Types, Exclusive, Control, CleansUp
    <2>2. ASSUME NEW p \in Procs PROVE CountOf(p)'
      BY <1>0, <1>1 DEF vars, CountOf, PlaceOf, MadeOf
    <2>3. ASSUME NEW h \in Handles PROVE LiveOf(h)'
      BY <1>0, <1>1 DEF vars, LiveOf
    <2> QED
      BY <2>1, <2>2, <2>3 DEF CountInv
  <1>2. ASSUME NEW p \in Procs, Works(p) \/ Starts(p) \/ Ends(p), NEW q \in Procs
        PROVE  CountOf(q)'
    <2>0. Alone(p) /\ Control(p)
      BY <1>0, <1>2 DEF Works, Starts, Ends, BaseInv
    <2>1. CASE q # p /\ pc[q] # "idle"
      <3>h. PICK h : h = cmd[q].handle
        OBVIOUS
      <3>1. /\ fw'[h] = fw[h] /\ acquired'[h] = acquired[h] /\ cmd'[q].handle = h
            /\ UNCHANGED <<pc[q], cmd[q], applied[q], errs[q]>>
        BY <1>0, <1>2, <2>1, <3>h, OthersKept
      <3> QED
        BY <1>0, <3>1, <3>h DEF CountOf, PlaceOf, MadeOf
    <2>2. CASE q # p /\ pc[q] = "idle"
      BY <2>0, <2>2 DEF Alone, CountOf
    <2>3. CASE q = p /\ Works(p)
      <3>1. CASE Applies(p)
        BY <1>0, <2>3, <3>1, AppliesCounts
      <3>2. CASE Cleans(p)
        <4>1. CleansUp(p) /\ cmd' = cmd /\ errs[p] \subseteq errs'[p]
          BY <2>0, <2>3, <3>2 DEF Control, Cleans, Cleaning, Works, Advances, Errs
        <4> QED
          BY <2>3, <4>1 DEF CountOf, CleansUp
      <3> QED
        BY <2>3, <3>1, <3>2 DEF Works
    <2>4. CASE q = p /\ Starts(p)
      <3>k. PICK k \in Commands : k = cmd'[p]
        BY <2>4 DEF Starts
      <3>h. PICK h \in Handles : h = k.handle
        BY CommandTypes
      <3>1. CASE k.op = "up"
        <4>1. applied'[p] = 0 /\ pc'[p] = NextRule(k, 0)
          BY <2>0, <2>4, <3>1, <3>k DEF Starts, Control
        <4>2. fw'[h]["in"] = 0 /\ fw'[h]["out"] = 0 /\ acquired'[h] = {}
          BY <2>4, <3>1, <3>h, <3>k DEF Starts, NoRules, Directions
        <4>3. 0 \in Nat /\ 0 =< Len(k.in) + Len(k.out) /\ Len(k.in) \in Nat /\ Len(k.out) \in Nat
          BY CommandTypes, Lengths
        <4>4. /\ pc'[p] \in {"in", "out", "exit"}
              /\ pc'[p] = "in" => 0 < Len(k.in)
              /\ pc'[p] = "out" => Len(k.in) =< 0 /\ 0 < Len(k.in) + Len(k.out)
              /\ pc'[p] = "exit" => 0 = Len(k.in) + Len(k.out)
          BY <4>1, <4>3, NextRuleIs
        <4>5. PlaceOf(p)'
          BY <3>k, <4>1, <4>4 DEF PlaceOf
        <4>6. InMade(k, 0) = 0 /\ OutMade(k, 0) = 0 /\ Zeros(k, 0) = {}
          BY <4>3, MadeAre, ZerosAre
        <4>7. IsFiniteSet({})
          BY FS_EmptySet
        <4>8. cmd'[p] = k /\ cmd'[p].handle = h /\ pc'[p] \notin {"in.rule", "in.open"}
          BY <3>h, <3>k, <4>4
        <4>9. MadeOf(p)'
          BY <4>1, <4>2, <4>6, <4>7, <4>8 DEF MadeOf
        <4> QED
          BY <2>4, <4>5, <4>9 DEF CountOf
      <3>2. CASE k.op # "up"
        BY <2>4, <3>2, <3>k DEF CountOf
      <3> QED
        BY <3>1, <3>2
    <2>5. CASE q = p /\ Ends(p)
      BY <2>5 DEF Ends, CountOf
    <2> QED
      BY <1>2, <2>1, <2>2, <2>3, <2>4, <2>5
  <1>3. ASSUME NEW p \in Procs, Works(p) \/ Starts(p) \/ Ends(p), NEW h \in Handles
        PROVE  LiveOf(h)'
    <2>0. Control(p) /\ CountOf(p) /\ LiveOf(h)
      BY <1>0 DEF BaseInv
    <2>1. CASE Works(p)
      <3>1. live' = live /\ live[cmd[p].handle] = NoCommand /\ Apart(cmd[p].handle)
        BY <2>0, <2>1 DEF Works, Control
      <3>2. CASE h = cmd[p].handle
        BY <3>1, <3>2 DEF LiveOf
      <3>3. CASE h # cmd[p].handle
        BY <2>0, <3>1, <3>3 DEF LiveOf, Apart
      <3> QED
        BY <3>2, <3>3
    <2>2. CASE Starts(p)
      <3>1. fw' = fw /\ acquired' = acquired /\ (live'[h] = NoCommand \/ live'[h] = live[h])
        BY <2>2 DEF Starts
      <3> QED
        BY <2>0, <3>1 DEF LiveOf
    <2>3. CASE Ends(p)
      <3>1. fw' = fw /\ acquired' = acquired
        BY <2>3 DEF Ends
      <3>2. CASE live'[h] = live[h]
        BY <2>0, <3>1, <3>2 DEF LiveOf
      <3>3. CASE live'[h] # live[h]
        <4>1. /\ pc[p] = "exit" /\ cmd[p].op = "up" /\ errs[p] = {} /\ h = cmd[p].handle
              /\ live'[h] = cmd[p]
          BY <2>3, <3>3 DEF Ends
        <4>2. PICK k \in Commands : k = cmd[p]
          BY <2>0, <4>1 DEF Control
        <4>3. PICK n \in Nat : n = applied[p]
          BY <1>0 DEF BaseInv, Types
        <4>4. PlaceOf(p) /\ MadeOf(p)
          BY <2>0, <4>1 DEF CountOf
        <4>5. n = Len(k.in) + Len(k.out)
          BY <4>1, <4>2, <4>3, <4>4 DEF PlaceOf
        <4>6. /\ fw[h]["in"] = InMade(k, n) + 0 /\ fw[h]["out"] = OutMade(k, n)
              /\ Cardinality(acquired[h]) = Cardinality(Zeros(k, n))
          BY <4>1, <4>2, <4>3, <4>4 DEF MadeOf
        <4>7. InMade(k, n) = Len(k.in) /\ OutMade(k, n) = Len(k.out) /\ InMade(k, n) \in Nat
          BY <4>5, MadeAre
        <4>8. Zeros(k, n) = {i \in DOMAIN k.in : k.in[i] = 0}
          <5>1. Len(k.in) =< n
            BY <4>5, Lengths
          <5> QED
            BY <5>1, ZerosAre
        <4>9. /\ fw[h]["in"] = Len(k.in) /\ fw[h]["out"] = Len(k.out)
              /\ Cardinality(acquired[h]) = Cardinality({i \in DOMAIN k.in : k.in[i] = 0})
          BY <4>6, <4>7, <4>8
        <4> QED
          BY <3>1, <4>1, <4>2, <4>9 DEF LiveOf
      <3> QED
        BY <3>2, <3>3
    <2> QED
      BY <1>3, <2>1, <2>2, <2>3
  <1>4. ASSUME NEW p \in Procs, Works(p) \/ Starts(p) \/ Ends(p) PROVE CountInv'
    BY <1>0, <1>2, <1>3, <1>4, BaseStep DEF CountInv
  <1> QED
    BY <1>0, <1>1, <1>4, Moves

\* At first no container is up.
LEMMA CountInit == Init => CountInv
  <1> SUFFICES ASSUME Init PROVE CountInv
    OBVIOUS
  <1>1. BaseInv
    BY CleanInit DEF CleanInv
  <1>2. (\A p \in Procs : CountOf(p)) /\ \A h \in Handles : LiveOf(h)
    BY DEF Init, CountOf, LiveOf
  <1> QED
    BY <1>1, <1>2 DEF CountInv

\* A container whose up succeeded has exactly the rules asked for, one firewall
\* rule for each NetIn and NetOut and one port for each NetIn that names
\* none, until its down begins, whatever is done for other containers.
THEOREM LiveRulesStay == Spec => []LiveRulesLast
  <1>1. CountInv => LiveRulesLast
    BY DEF CountInv, LiveOf, LiveRulesLast
  <1>2. CountInv /\ [Next]_vars => CountInv'
    BY CountStep
  <1> QED
    BY <1>1, <1>2, CountInit, PTL DEF Spec
=============================================================================

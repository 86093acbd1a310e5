--------------------------- MODULE LifecycleProofs ---------------------------
(***************************************************************************)
(* What is proved about Runtime when two commands do not work on one       *)
(* container at a time.                                                    *)
(***************************************************************************)
EXTENDS RuntimeLifecycle, RuntimeProofs

\* A command that changes a container works on one of those it is responsible
\* for, and no two commands are responsible for the same one.
ExclusiveInv ==
  /\ BaseInv
  /\ \A p \in Procs : pc[p] # "idle" /\ cmd[p].op = "delete" =>
       cur[p] \in Touches(cmd[p]) /\ todo[p] \subseteq Touches(cmd[p])
  /\ \A p, q \in Procs : p # q /\ pc[p] # "idle" /\ pc[q] # "idle" =>
       Touches(cmd[p]) \cap Touches(cmd[q]) = {}

-----------------------------------------------------------------------------
(* What the steps of one process leave to the others                       *)

\* A command changes only the container it works on, and mounts only its volume.
LEMMA StepEffect ==
  ASSUME TypeInv, NEW p \in Procs, pc[p] # "idle", StepOf(p)
  PROVE  /\ \A c \in Ids : c # cur[p] \/ cmd[p].op \notin Writers => dir'[c] = dir[c] /\ cs'[c] = cs[c]
         /\ \A r \in Pids : \/ mnt'[r].vol \in {mnt[r].vol, NoId}
                            \/ mnt'[r].vol = cur[p] /\ cmd[p].op \in Writers
  <1> DEFINE Kept == /\ \A c \in Ids : c # cur[p] => dir'[c] = dir[c] /\ cs'[c] = cs[c]
                     /\ \A r \in Pids : mnt'[r].vol \in {mnt[r].vol, NoId, cur[p]}
  <1>0. /\ dir \in [Ids -> StateDirs] /\ mnt \in [Pids -> MountPoints]
        /\ cs \in [Ids -> {"none", "created", "running", "stopped"}] /\ cur[p] \in Ids
    BY DEF TypeInv, TypeOK, Control
  <1>1. ASSUME NEW ok, NEW bad, NEW missing, NEW pipes, NEW notCreated,
               \/ Skip(p, ok) \/ Stats(p, ok, bad) \/ State(p, ok, missing, bad)
               \/ Exec(p, pipes, ok, notCreated, bad) \/ QuerySidecars(p) \/ NextContainer(p)
        PROVE  dir' = dir /\ cs' = cs /\ mnt' = mnt
    BY <1>1 DEF Skip, Stats, State, Exec, QuerySidecars, NextContainer, hostVars
  <1>2. ASSUME NEW ok, NEW bad, Create(p, ok, bad) \/ Delete(p, ok, bad)
        PROVE  Kept
    <2>1. dir' = dir /\ mnt' = mnt
      BY <1>2 DEF Create, Delete, DestroyContainer, Skip, hostVars
    <2>2. cs' = cs \/ \E v : cs' = [cs EXCEPT ![cur[p]] = v]
      BY <1>2 DEF Create, Delete, DestroyContainer, Skip, hostVars, Gone
    <2> QED
      BY <1>0, <2>1, <2>2
  <1>3. ASSUME NEW ok, NEW bad, \/ Initialize(p, ok, bad) \/ SetFailure(p, bad)
                                \/ SetSuccess(p, ok, bad) \/ DeleteState(p, ok, bad)
        PROVE  Kept
    <2>1. cs' = cs /\ mnt' = mnt
      BY <1>3 DEF Initialize, SetFailure, SetSuccess, DeleteState, TruncateState, FillState, hostVars
    <2>2. dir' = dir \/ \E v : dir' = [dir EXCEPT ![cur[p]] = v]
      BY <1>3 DEF Initialize, SetFailure, SetSuccess, DeleteState, TruncateState, FillState, hostVars
    <2> QED
      BY <1>0, <2>1, <2>2
  <1>4. ASSUME NEW ok, NEW bad, Mount(p, ok, bad) \/ Unmount(p, ok, bad)
        PROVE  Kept
    <2>1. dir' = dir /\ cs' = cs
      BY <1>4 DEF Mount, Unmount, Skip
    <2>2. ASSUME NEW r \in Pids PROVE mnt'[r].vol \in {mnt[r].vol, NoId, cur[p]}
      <3>0. mnt[r] \in [dir : BOOLEAN, vol : Ids \cup {NoId}]
        BY <1>0 DEF MountPoints
      <3>1. CASE Mount(p, ok, bad)
        BY <1>0, <3>0, <3>1 DEF Mount, Skip
      <3>2. CASE Unmount(p, ok, bad)
        BY <1>0, <3>0, <3>2 DEF Unmount, NoMount
      <3> QED
        BY <1>4, <3>1, <3>2
    <2> QED
      BY <2>1, <2>2
  <1>5. CASE dir' = dir /\ cs' = cs /\ mnt' = mnt
    BY <1>5
  <1>6. CASE Kept /\ cmd[p].op \in Writers
    BY <1>6
  <1> HIDE DEF Kept
  <1> QED
    BY <1>1, <1>2, <1>3, <1>4, <1>5, <1>6 DEF StepOf, Writers

\* The containers a command is responsible for
LEMMA TouchesCases ==
  /\ \A k : k.op \in {"create", "run", "start"} => Touches(k) = {k.id}
  /\ \A k : k.op \in {"state", "events", "exec"} => Touches(k) = {}
  /\ \A k : k.op = "delete" => Touches(k) = {k.id} \cup {s \in Ids : Owner[s] = k.id}
  BY DEF Touches

\* A command that changes anything works on a container it is responsible for.
LEMMA WorksOnTouched ==
  ASSUME ExclusiveInv, NEW p \in Procs, pc[p] # "idle", cmd[p].op \in Writers
  PROVE  cur[p] \in Touches(cmd[p])
  BY TouchesCases DEF ExclusiveInv, BaseInv, OnNamed, Writers

\* Delete goes from one of its containers to the next.
LEMMA DeleteStays ==
  ASSUME ExclusiveInv, NEW p \in Procs, pc[p] # "idle", StepOf(p), cmd[p].op = "delete"
  PROVE  cur'[p] \in Touches(cmd[p]) /\ todo'[p] \subseteq Touches(cmd[p])
  <1>0. TypeOK /\ cur[p] \in Touches(cmd[p]) /\ todo[p] \subseteq Touches(cmd[p])
    BY DEF ExclusiveInv, BaseInv, TypeInv
  <1>1. CASE cur' = cur /\ todo' = todo
    BY <1>0, <1>1
  <1>2. CASE QuerySidecars(p)
    <2>1. CASE todo' = todo
      BY <1>1, <1>2, <2>1 DEF QuerySidecars
    <2>2. CASE todo'[p] = {cmd[p].id} \cup {s \in Ids : Owner[s] = cmd[p].id /\ cs[s] # "none"}
      BY <1>0, <1>2, <2>2, TouchesCases DEF QuerySidecars
    <2> QED
      BY <1>0, <1>2, <2>1, <2>2 DEF QuerySidecars, TypeOK
  <1>3. CASE NextContainer(p)
    <2>1. CASE cur' = cur /\ todo' = todo
      BY <1>1, <2>1
    <2>2. ASSUME NEW c \in todo[p], cur' = [cur EXCEPT ![p] = c],
                 todo' = [todo EXCEPT ![p] = @ \ {c}]
          PROVE  cur'[p] \in Touches(cmd[p]) /\ todo'[p] \subseteq Touches(cmd[p])
      BY <1>0, <2>2 DEF TypeOK
    <2> QED
      BY <1>3, <2>1, <2>2 DEF NextContainer, Skip
  <1>4. ASSUME NEW ok, NEW bad, NEW missing,
               \/ Unmount(p, ok, bad) \/ DeleteState(p, ok, bad)
               \/ Delete(p, ok, bad) \/ State(p, ok, missing, bad) \/ Stats(p, ok, bad)
               \/ Skip(p, ok)
        PROVE  cur' = cur /\ todo' = todo
    BY <1>4 DEF Unmount, DeleteState, Delete, DestroyContainer, State, Stats, Skip
  <1> QED
    BY <1>1, <1>2, <1>3, <1>4 DEF StepOf

\* The commands stay apart.
LEMMA ExclusiveInvStep ==
  ASSUME ~Overlap, ExclusiveInv, [Next]_vars
  PROVE  ExclusiveInv'
  <1>0. TypeInv /\ TypeOK /\ BaseInv'
    BY BaseInvStep DEF ExclusiveInv, BaseInv, TypeInv
  <1> DEFINE In(p) == pc[p] # "idle" /\ cmd[p].op = "delete" =>
                        cur[p] \in Touches(cmd[p]) /\ todo[p] \subseteq Touches(cmd[p])
             Apart(p, q) == p # q /\ pc[p] # "idle" /\ pc[q] # "idle" =>
                              Touches(cmd[p]) \cap Touches(cmd[q]) = {}
  <1>a. \A p, q \in Procs : In(p) /\ Apart(p, q)
    BY DEF ExclusiveInv
  <1>1. ASSUME NEW p \in Procs, Begin(p)
        PROVE  \A q, r \in Procs : In(q)' /\ Apart(q, r)'
    <2>1. PICK k \in Commands : /\ MayBegin(k)
                                /\ cmd' = [cmd EXCEPT ![p] = k]
                                /\ cur' = [cur EXCEPT ![p] = k.id]
      BY <1>1 DEF Begin
    <2>2. Alone(p) /\ cmd'[p] = k /\ cur'[p] = k.id /\ todo'[p] = {}
      <3>1. Alone(p) /\ cmd'[p] = k /\ cur'[p] = k.id
        BY <1>0, <1>1, <2>1, BeginTypes DEF TypeOK
      <3>2. todo[p] = {} /\ todo' = todo
        BY <1>0, <1>1 DEF TypeInv, Control, Begin
      <3> QED
        BY <3>1, <3>2
    <2>3. \A q \in Procs : pc[q] # "idle" => Touches(k) \cap Touches(cmd[q]) = {}
      BY <2>1 DEF MayBegin
    <2>4. In(p)'
      <3>1. k.op = "delete" => k.id \in Touches(k)
        BY TouchesCases
      <3>2. cmd'[p].op = "delete" => cur'[p] \in Touches(cmd'[p]) /\ todo'[p] \subseteq Touches(cmd'[p])
        BY <2>2, <3>1
      <3> QED
        BY <3>2
    <2>5. ASSUME NEW q \in Procs, q # p PROVE In(q)' /\ Apart(p, q)' /\ Apart(q, p)'
      BY <1>a, <2>2, <2>3, <2>5 DEF Alone
    <2>6. ASSUME NEW q \in Procs, NEW r \in Procs, q # p, r # p PROVE Apart(q, r)'
      BY <1>a, <2>2, <2>6 DEF Alone
    <2> QED
      BY <2>4, <2>5, <2>6
  <1>2. ASSUME NEW p \in Procs, pc[p] # "idle", StepOf(p)
        PROVE  \A q, r \in Procs : In(q)' /\ Apart(q, r)'
    <2>1. Alone(p) /\ cmd'[p] = cmd[p]
      BY <1>0, <1>2, StepFrame
    <2>2. In(p)'
      BY <1>2, <2>1, DeleteStays
    <2>3. ASSUME NEW q \in Procs, q # p PROVE In(q)' /\ Apart(p, q)' /\ Apart(q, p)'
      BY <1>2, <1>a, <2>1, <2>3 DEF Alone
    <2>4. ASSUME NEW q \in Procs, NEW r \in Procs, q # p, r # p PROVE Apart(q, r)'
      BY <1>a, <2>1, <2>4 DEF Alone
    <2> QED
      BY <2>2, <2>3, <2>4
  <1>3. ASSUME NEW p \in Procs, ProcessGone(p)
        PROVE  \A q, r \in Procs : In(q)' /\ Apart(q, r)'
    <2>1. Alone(p) /\ pc'[p] = "idle"
      BY <1>0, <1>3, GoneTypes DEF ProcessGone, TypeOK
    <2>2. ASSUME NEW q \in Procs, NEW r \in Procs, q # p, r # p PROVE In(q)' /\ Apart(q, r)'
      BY <1>a, <2>1, <2>2 DEF Alone
    <2> QED
      BY <2>1, <2>2
  <1>4. ASSUME UNCHANGED <<pc, cmd, cur, todo>>
        PROVE  \A q, r \in Procs : In(q)' /\ Apart(q, r)'
    <2>1. ASSUME NEW q \in Procs PROVE In(q)'
      BY <1>a, <1>4
    <2>2. ASSUME NEW q \in Procs, NEW r \in Procs PROVE Apart(q, r)'
      BY <1>a, <1>4
    <2> QED
      BY <2>1, <2>2
  <1>5. ASSUME Environment \/ UNCHANGED vars
        PROVE  \A q, r \in Procs : In(q)' /\ Apart(q, r)'
    BY <1>0, <1>4, <1>5, EnvironmentTypes DEF procVars, vars
  <1>6. \A q, r \in Procs : In(q)' /\ Apart(q, r)'
    BY <1>0, <1>1, <1>2, <1>3, <1>5, NextCases
  <1> QED
    BY <1>0, <1>6 DEF ExclusiveInv

\* Initially no command runs.
LEMMA ExclusiveInvInit == Init => ExclusiveInv
  BY BaseInvInit DEF Init, ExclusiveInv

\* What happens to a container that no command works on: it may stop, and it may
\* then be dropped.
Left(c) ==
  /\ dir'[c] = dir[c]
  /\ \A r \in Pids : mnt'[r].vol = c => mnt[r].vol = c
  /\ \/ cs'[c] = cs[c]
     \/ cs[c] = "running" /\ cs'[c] = "stopped"
     \/ "vanish" \in Faults /\ cs[c] = "stopped" /\ cs'[c] = "none"

\* A step that is not one of p leaves p, and the containers of p, alone.
OthersMove(p) ==
  /\ pc'[p] = pc[p] /\ cmd'[p] = cmd[p] /\ cur'[p] = cur[p] /\ todo'[p] = todo[p]
  /\ seen'[p] = seen[p] /\ loc'[p] = loc[p] /\ pid'[p] = pid[p]
  /\ status'[p] = status[p] /\ errs'[p] = errs[p]
  /\ \A c \in Touches(cmd[p]) : Left(c)

\* A step is one of p, or it is one of somebody else and leaves p alone.
LEMMA MoveCases ==
  ASSUME ExclusiveInv, [Next]_vars, NEW p \in Procs
  PROVE  \/ OthersMove(p)
         \/ Begin(p)
         \/ pc[p] # "idle" /\ Step(p) /\ StepOf(p)
         \/ ProcessGone(p)
  <1>0. TypeInv /\ TypeOK
    BY DEF ExclusiveInv, BaseInv, TypeInv
  <1>t. /\ Touches(cmd[p]) \subseteq Ids /\ (pc[p] = "idle" => Touches(cmd[p]) = {})
        /\ NoId \notin Touches(cmd[p])
    <2>1. pc[p] = "idle" => Touches(cmd[p]) = {}
      BY <1>0, TouchesCases DEF TypeInv, Control, NoCommand
    <2>2. ASSUME pc[p] # "idle" PROVE Touches(cmd[p]) \subseteq Ids
      <3>1. cmd[p] \in Command
        BY <1>0, <2>2, HostAssumption DEF TypeInv, Control
      <3>2. cmd[p].id \in Ids
        BY <3>1 DEF Command
      <3>3. cmd[p].op \in {"create", "run", "start", "exec", "state", "events", "delete"}
        BY <3>1 DEF Command
      <3> QED
        BY <3>2, <3>3, TouchesCases
    <2> QED
      BY <2>1, <2>2, HostAssumption
  <1>1. ASSUME NEW q \in Procs, q # p, Begin(q) PROVE OthersMove(p)
    BY <1>0, <1>1, BeginTypes DEF Begin, hostVars, Alone, OthersMove, Left
  <1>2. ASSUME NEW q \in Procs, q # p, pc[q] # "idle", StepOf(q) PROVE OthersMove(p)
    <2>1. Alone(q)
      BY <1>0, <1>2, StepFrame
    <2>2. ASSUME NEW c \in Touches(cmd[p]) PROVE Left(c)
      <3>1. cmd[q].op \in Writers => c # cur[q]
        BY <1>2, <1>t, <2>2, WorksOnTouched DEF ExclusiveInv
      <3> QED
        BY <1>0, <1>2, <1>t, <3>1, StepEffect DEF Left
    <2> QED
      BY <1>2, <2>1, <2>2 DEF Alone, OthersMove
  <1>3. ASSUME NEW q \in Procs, q # p, ProcessGone(q) PROVE OthersMove(p)
    BY <1>0, <1>3, GoneTypes DEF ProcessGone, Alone, OthersMove, Left
  <1>4. CASE Environment
    <2>1. UNCHANGED <<dir, mnt, procVars>>
      BY <1>0, <1>4, EnvironmentTypes
    <2>2. ASSUME NEW c \in Ids
          PROVE  \/ cs'[c] = cs[c]
                 \/ cs[c] = "running" /\ cs'[c] = "stopped"
                 \/ "vanish" \in Faults /\ cs[c] = "stopped" /\ cs'[c] = "none"
      BY <1>0, <1>4 DEF Environment, ProcessExit, ProcessReaped, HostProcess, ContainerExit,
                        ContainerVanishes, TypeOK
    <2> QED
      BY <1>t, <2>1, <2>2 DEF OthersMove, Left, procVars
  <1>5. CASE UNCHANGED vars
    BY <1>5 DEF vars, OthersMove, Left
  <1>6. ASSUME NEW q \in Procs, Step(q)
        PROVE  pc[q] # "idle" /\ (StepOf(q) \/ ProcessGone(q))
    BY <1>0, <1>6, StepCases, StepNotIdle
  <1>7. ASSUME NEW q \in Procs, Crash(q) PROVE ProcessGone(q)
    BY <1>7 DEF Crash
  <1>8. ASSUME NEW q \in Procs, Begin(q) \/ Step(q) \/ Crash(q)
        PROVE  \/ OthersMove(p)
               \/ Begin(p)
               \/ pc[p] # "idle" /\ Step(p) /\ StepOf(p)
               \/ ProcessGone(p)
    <2>1. CASE q = p
      BY <1>6, <1>7, <1>8, <2>1
    <2>2. CASE q # p
      BY <1>1, <1>2, <1>3, <1>6, <1>7, <1>8, <2>2
    <2> QED
      BY <2>1, <2>2
  <1> QED
    BY <1>4, <1>5, <1>8 DEF Next

\* Where a step goes on, and what it adds to the errors
LEMMA Goes ==
  ASSUME TypeOK, NEW p \in Procs
  PROVE  /\ \A l : Go(p, To(l)) => pc'[p] = l /\ errs'[p] = errs[p]
         /\ \A l : Go(p, Err(l)) => pc'[p] = l /\ errs'[p] = errs[p] \cup {Keeps(pc[p])}
  BY DEF TypeOK, Go, To, Err

-----------------------------------------------------------------------------
(* start                                                                   *)

\* From the moment it has read state.json until it has started the process, what
\* start knows of the container is what state.json says; and it goes on only with a
\* container that has no process.
StartInv(p) ==
  cmd[p].op = "start" =>
    /\ pc[p] \in {"state.probe", "start.check", "spec", "exec.open", "exec.create"} =>
         dir[cur[p]] = StateFile(loc[p])
    /\ \/ pc[p] \in {"spec", "exec.open", "exec.create"}
       \/ pc[p] = "start.check" /\ status[p] = "created"
       => loc[p].pid = NoPid /\ ~loc[p].failed

\* The steps of start itself keep it.
LEMMA StartInvCommand ==
  ASSUME TypeInv, NEW p \in Procs, pc[p] # "idle", StartInv(p), StartCommand(p)
  PROVE  StartInv(p)'
  <1>0. TypeOK /\ cmd'[p].op = "start" /\ cmd[p].op = "start"
    <2>1. CASE State(p, To("start.check"), Err("exit"), Err("exit"))
      BY <2>1 DEF State, StartCommand, TypeInv
    <2>2. CASE StartProcess(p, FALSE)
      BY <2>2 DEF StartProcess, Exec, SetSuccess, SetFailure, Mount, TruncateState, FillState, Skip,
                  StartCommand, TypeInv
    <2> QED
      BY <2>1, <2>2 DEF StartCommand, LoadSpec, WritePIDFile, Skip, TypeInv
  <1> DEFINE Checked == {"state.probe", "start.check", "spec", "exec.open", "exec.create"}
  <1>1. CASE pc'[p] \notin Checked
    BY <1>1 DEF StartInv
  <1>2. CASE State(p, To("start.check"), Err("exit"), Err("exit"))
    <2>1. CASE pc[p] = "state.props"
      BY <1>0, <1>1, <1>2, <2>1, Goes DEF State
    <2>2. CASE pc[p] = "state.load"
      <3>1. CASE LoadFails(p) /\ Go(p, Err("exit"))
        BY <1>0, <1>1, <3>1, Goes
      <3>2. CASE /\ Loads(p) /\ loc' = [loc EXCEPT ![p] = dir[cur[p]].state]
                 /\ \/ status' = [status EXCEPT ![p] = "stopped"] /\ Go(p, To("start.check"))
                    \/ Go(p, To("state.probe"))
        <4>0. dir' = dir /\ cur' = cur
          BY <1>2, <2>2 DEF State, hostVars
        <4>1. pc'[p] = "state.probe" \/ (pc'[p] = "start.check" /\ status'[p] = "stopped")
          <5>1. status' = [status EXCEPT ![p] = "stopped"] => status'[p] = "stopped"
            BY <1>0 DEF TypeOK
          <5> QED
            BY <1>0, <3>2, <5>1, Goes
        <4>2. cur[p] \in Ids /\ dir[cur[p]] \in [kind : {"none", "bare", "state"}, state : States]
          BY <1>0 DEF TypeInv, Control, TypeOK, StateDirs
        <4>3. loc'[p] = dir[cur[p]].state /\ dir[cur[p]].kind = "state"
          BY <1>0, <3>2 DEF Loads, TypeOK
        <4>4. dir[cur[p]] = [kind |-> "state", state |-> loc'[p]]
          BY <4>2, <4>3
        <4> QED
          BY <4>0, <4>1, <4>4 DEF StartInv, StateFile
      <3> QED
        BY <1>2, <2>2, <3>1, <3>2 DEF State
    <2>3. CASE pc[p] = "state.probe"
      <3>1. CASE Go(p, Err("exit"))
        BY <1>0, <1>1, <3>1, Goes
      <3>2. CASE status' = [status EXCEPT ![p] = UserProgramStatus(loc[p])] /\ Go(p, To("start.check"))
        <4>1. /\ pc'[p] = "start.check" /\ dir' = dir /\ cur' = cur /\ loc' = loc
              /\ status'[p] = UserProgramStatus(loc[p])
          BY <1>0, <1>2, <2>3, <3>2, Goes DEF State, TypeOK, hostVars
        <4>2. UserProgramStatus(loc[p]) = "created" => loc[p].pid = NoPid /\ ~loc[p].failed
          BY DEF UserProgramStatus
        <4> QED
          BY <1>0, <2>3, <4>1, <4>2 DEF StartInv
      <3> QED
        BY <1>2, <2>3, <3>1, <3>2 DEF State
    <2> QED
      BY <1>2, <2>1, <2>2, <2>3 DEF State
  <1>3. CASE /\ pc[p] = "start.check"
             /\ Skip(p, IF status[p] = "created" THEN To("spec") ELSE Err("exit"))
    <2>1. pc'[p] \in {"spec", "exit"} /\ (pc'[p] = "spec" => status[p] = "created")
      BY <1>0, <1>3, Goes DEF Skip
    <2>2. UNCHANGED <<dir, cur, loc, status>>
      BY <1>3 DEF Skip
    <2> QED
      BY <1>0, <1>1, <1>3, <2>1, <2>2 DEF StartInv
  <1>4. CASE LoadSpec(p, To("exec.open"), Err("exit"))
    <2>1. pc[p] = "spec" /\ pc'[p] \in {"exec.open", "exit"} /\ UNCHANGED <<dir, cur, loc, status>>
      BY <1>0, <1>4, Goes DEF LoadSpec, Skip
    <2> QED
      BY <1>0, <1>1, <2>1 DEF StartInv
  <1>5. CASE Exec(p, TRUE, To("succ.load"), Err("fail.load"), Err("exit"))
    <2>1. /\ UNCHANGED <<dir, cur, loc, status>>
          /\ \/ pc[p] = "exec.open" /\ pc'[p] \in {"exec.create", "exit"}
             \/ pc[p] = "exec.create" /\ pc'[p] \in {"succ.load", "fail.load"}
      BY <1>0, <1>5, Goes DEF Exec, Skip
    <2> QED
      BY <1>0, <1>1, <2>1 DEF StartInv
  <1>6. CASE SetFailure(p, Err("exit")) \/ SetSuccess(p, To("mount.stat"), Err("exit"))
    <2>1. pc'[p] \in {"fail.truncate", "fail.write", "succ.open", "succ.truncate", "succ.write",
                      "bad.truncate", "bad.write", "mount.stat", "exit"}
      BY <1>0, <1>6, Goes DEF SetFailure, SetSuccess, TruncateState, FillState
    <2> QED
      BY <1>1, <2>1
  <1>7. CASE Mount(p, To("pidfile"), Err("exit")) \/ WritePIDFile(p, To("exit"), Err("exit"))
    <2>1. pc'[p] \in {"mount.mkdir", "mount.set", "pidfile", "exit"}
      BY <1>0, <1>7, Goes DEF Mount, WritePIDFile, Skip
    <2> QED
      BY <1>1, <2>1
  <1>8. CASE StartProcess(p, FALSE)
    <2>1. CASE Exec(p, ~FALSE, To("succ.load"), Err("fail.load"), Err("exit"))
      <3>1. (~FALSE) = TRUE
        OBVIOUS
      <3> QED
        BY <1>5, <2>1, <3>1
    <2> QED
      BY <1>6, <1>7, <1>8, <2>1 DEF StartProcess
  <1> QED
    BY <1>2, <1>3, <1>4, <1>7, <1>8 DEF StartCommand

\* Others leave the containers alone that a command works on and that it names.
LEMMA OthersLeave ==
  ASSUME ExclusiveInv, NEW p \in Procs, OthersMove(p), cmd[p].op \in Writers
  PROVE  Left(cur[p]) /\ Left(cmd[p].id)
  <1>1. pc[p] # "idle"
    BY DEF ExclusiveInv, BaseInv, TypeInv, Control, NoCommand, Writers
  <1>2. cmd[p].id \in Touches(cmd[p])
    BY TouchesCases DEF Writers
  <1> QED
    BY <1>1, <1>2, WorksOnTouched DEF OthersMove

\* What a command starts with
LEMMA BeginEffect ==
  ASSUME TypeInv, NEW p \in Procs, Begin(p)
  PROVE  /\ pc'[p] = FirstStep[cmd'[p].op] /\ cmd'[p] \in Commands /\ cur'[p] = cmd'[p].id
         /\ UNCHANGED <<hostVars, todo, seen, loc, pid, status, errs>>
         /\ seen[p] = "unknown" /\ loc[p] = ZeroState /\ pid[p] = NoPid /\ errs[p] = {}
         /\ todo[p] = {} /\ pc[p] = "idle"
  <1>1. PICK k \in Commands : /\ pc' = [pc EXCEPT ![p] = FirstStep[k.op]]
                              /\ cmd' = [cmd EXCEPT ![p] = k]
                              /\ cur' = [cur EXCEPT ![p] = k.id]
    BY DEF Begin
  <1>2. pc'[p] = FirstStep[k.op] /\ cmd'[p] = k /\ cur'[p] = k.id
    BY <1>1 DEF TypeInv, TypeOK
  <1> QED
    BY <1>1, <1>2 DEF Begin, TypeInv, Control

\* What a process is left with that has gone
LEMMA GoneEffect ==
  ASSUME TypeOK, NEW p \in Procs, ProcessGone(p)
  PROVE  cmd'[p].op = "state" /\ pc'[p] = "idle"
  <1>1. cmd'[p] = NoCommand /\ pc'[p] = "idle"
    BY DEF ProcessGone, TypeOK
  <1> QED
    BY <1>1 DEF NoCommand

\* What start knows of its container stays true.
LEMMA StartInvStep ==
  ASSUME ExclusiveInv, [Next]_vars, NEW p \in Procs, StartInv(p)
  PROVE  StartInv(p)'
  <1>0. TypeInv /\ TypeOK
    BY DEF ExclusiveInv, BaseInv, TypeInv
  <1>1. CASE OthersMove(p)
    <2>1. CASE cmd[p].op = "start"
      <3>1. dir'[cur[p]] = dir[cur[p]]
        BY <1>1, <2>1, OthersLeave DEF Left, Writers
      <3> QED
        BY <1>1, <2>1, <3>1 DEF OthersMove, StartInv
    <2>2. CASE cmd[p].op # "start"
      BY <1>1, <2>2 DEF OthersMove, StartInv
    <2> QED
      BY <2>1, <2>2
  <1>2. CASE Begin(p)
    BY <1>0, <1>2, BeginEffect DEF FirstStep, StartInv
  <1>3. CASE pc[p] # "idle" /\ Step(p) /\ StepOf(p)
    <2>1. CASE cmd[p].op = "start"
      <3>1. CASE StartCommand(p)
        BY <1>0, <1>3, <3>1, StartInvCommand
      <3>2. CASE Return(p)
        BY <1>0, <3>2, GoneEffect DEF Return, StartInv
      <3> QED
        BY <1>3, <2>1, <3>1, <3>2 DEF Step, CreateCommand, RunCommand, ExecCommand, StateCommand,
                                      EventsCommand, DeleteCommand
    <2>2. CASE cmd[p].op # "start"
      BY <1>0, <1>3, <2>2, StepFrame DEF StartInv
    <2> QED
      BY <2>1, <2>2
  <1>4. CASE ProcessGone(p)
    BY <1>0, <1>4, GoneEffect DEF StartInv
  <1> QED
    BY <1>1, <1>2, <1>3, <1>4, MoveCases

\* Whatever was killed or failed before: unless commands on one container overlap,
\* start does not start a process in a container whose state.json records an init
\* process that still runs.
THEOREM StartsNothingTwice == Spec => RunningIsNotStarted
  <1> DEFINE Inv == ExclusiveInv /\ \A p \in Procs : StartInv(p)
             First(p, q) ==
               /\ ~Overlap
               /\ cmd[p].op = "start" /\ pid[p] = NoPid /\ pid'[p] # NoPid
               /\ Alive(q) /\ win[q].owner = cur[p]
               => dir[cur[p]].state.pid # q \/ dir[cur[p]].state.start # win[q].start
  <1>1. CASE ~Overlap
    <2>1. Inv /\ [Next]_vars => [\A p \in Procs, q \in Pids : First(p, q)]_vars
      <3> SUFFICES ASSUME Inv, [Next]_vars, NEW p \in Procs, NEW q \in Pids,
                          cmd[p].op = "start", pid[p] = NoPid, pid'[p] # NoPid
                   PROVE  dir[cur[p]].state.pid # q
        OBVIOUS
      <3>0. TypeInv /\ TypeOK
        BY DEF ExclusiveInv, BaseInv, TypeInv
      <3>1. pc[p] # "idle" /\ StepOf(p)
        <4>1. ~OthersMove(p) /\ ~Begin(p)
          BY DEF OthersMove, Begin
        <4>2. ~ProcessGone(p)
          BY <3>0 DEF ProcessGone, TypeOK
        <4> QED
          BY <4>1, <4>2, MoveCases
      <3>2. pc[p] = "exec.create"
        BY <3>0, <3>1, StepPid
      <3>3. dir[cur[p]] = StateFile(loc[p]) /\ loc[p].pid = NoPid
        BY <3>2 DEF StartInv
      <3>4. NoPid \notin Pids
        BY HostAssumption
      <3> QED
        BY <3>3, <3>4 DEF StateFile
    <2>2. Inv /\ [Next]_vars => Inv'
      BY <1>1, ExclusiveInvStep, StartInvStep
    <2>3. Init => Inv
      BY ExclusiveInvInit DEF Init, StartInv, NoCommand
    <2>4. Spec => [][\A p \in Procs, q \in Pids : First(p, q)]_vars
      BY <2>1, <2>2, <2>3, PTL DEF Spec
    <2> QED
      BY <2>4 DEF RunningIsNotStarted
  <1>2. CASE Overlap
    <2>1. [\A p \in Procs, q \in Pids : First(p, q)]_vars
      BY <1>2
    <2>2. [][\A p \in Procs, q \in Pids : First(p, q)]_vars
      BY <2>1, PTL
    <2> QED
      BY <2>2 DEF RunningIsNotStarted
  <1>3. Overlap \in BOOLEAN
    BY HostAssumption
  <1> QED
    BY <1>1, <1>2, <1>3

\* The errors by which a command may keep something from being released
LEMMA KeepsCases ==
  /\ Keeps("rmstate") = "dir"
  /\ \A l \in {"state.load", "state.probe", "unmount", "unmount.rm"} : Keeps(l) = "mount"
  /\ \A l \in {"delete.open", "destroy.props", "terminate"} : Keeps(l) = "container"
  BY DEF Keeps

-----------------------------------------------------------------------------
(* create                                                                  *)

\* The container does not run.
Down(c) == cs[c] \in {"none", "stopped"}

\* Until create has met an error, it has met none; what it has made is there; and it
\* ends with an error only when the container is down, if there was none before, or
\* could not be taken down.
CreateInv(p) ==
  cmd[p].op = "create" =>
    /\ pc[p] \in {"spec", "create.props"} => seen[p] = "unknown"
    /\ pc[p] \in {"spec", "create.props", "create.create", "create.start",
                  "init.mkdir", "init.truncate", "init.write"} => errs[p] = {}
    /\ pc[p] = "create.create" => cs[cur[p]] = "none"
    /\ pc[p] = "create.start" => cs[cur[p]] = "created"
    /\ pc[p] = "exit" /\ errs[p] # {} /\ seen[p] = "none" =>
         Down(cur[p]) \/ "container" \in errs[p]

\* Delete leaves the container down, or records that it could not.
LEMMA DeleteDown ==
  ASSUME TypeInv, NEW p \in Procs, cur[p] \in Ids, NEW l,
         Delete(p, To(l), Err(l))
  PROVE  /\ pc'[p] \in {"destroy.props", "shutdown", "terminate", l}
         /\ pc'[p] = l => \/ Down(cur[p])' \/ "container" \in errs'[p]
                          \/ l \in {"destroy.props", "shutdown", "terminate"}
  <1>0. TypeOK /\ cs \in [Ids -> {"none", "created", "running", "stopped"}] /\ cur' = cur
    BY DEF TypeInv, TypeOK, Delete, DestroyContainer, Skip
  <1>g. Gone(cur[p]) => cs'[cur[p]] \in {"none", "stopped"}
    BY <1>0 DEF Gone
  <1>1. CASE pc[p] = "delete.open"
    <2>1. \/ pc'[p] = "destroy.props"
          \/ pc'[p] = l /\ "container" \in errs'[p]
      BY <1>0, <1>1, Goes, KeepsCases DEF Delete, DestroyContainer, Skip
    <2> QED
      BY <1>0, <2>1 DEF Down
  <1>2. CASE pc[p] = "destroy.props"
    <2>1. \/ pc'[p] = "shutdown"
          \/ pc'[p] = l /\ Gone(cur[p])
          \/ pc'[p] = l /\ "container" \in errs'[p]
      BY <1>0, <1>2, Goes, KeepsCases DEF Delete, DestroyContainer
    <2> QED
      BY <1>0, <1>g, <2>1 DEF Down
  <1>3. CASE pc[p] \in {"shutdown", "terminate"}
    <2>1. \/ pc'[p] = "terminate"
          \/ pc'[p] = l /\ Gone(cur[p])
          \/ pc'[p] = l /\ "container" \in errs'[p]
      BY <1>0, <1>3, Goes, KeepsCases DEF Delete, DestroyContainer
    <2> QED
      BY <1>0, <1>g, <2>1 DEF Down
  <1> QED
    BY <1>1, <1>2, <1>3 DEF Delete, DestroyContainer

\* The steps of create itself keep it.
LEMMA CreateInvCommand ==
  ASSUME TypeInv, NEW p \in Procs, pc[p] # "idle", CreateInv(p),
         CreateCommand(p), cmd'[p] = cmd[p], cur'[p] = cur[p]
  PROVE  CreateInv(p)'
  <1>0. /\ TypeOK /\ cur[p] \in Ids /\ cmd[p].op = "create"
        /\ cs \in [Ids -> {"none", "created", "running", "stopped"}]
        /\ seen \in [Procs -> {"unknown", "none", "live", "stopped"}]
    BY DEF TypeInv, Control, CreateCommand, TypeOK
  <1>1. CASE LoadSpec(p, To("create.props"), Err("exit"))
    <2>1. /\ pc[p] = "spec" /\ seen' = seen
          /\ pc'[p] = "exit" \/ (pc'[p] = "create.props" /\ errs'[p] = errs[p])
      BY <1>0, <1>1, Goes DEF LoadSpec, Skip
    <2> QED
      BY <1>0, <2>1 DEF CreateInv
  <1>2. CASE Create(p, To("init.mkdir"), Err("exit"))
    <2>1. CASE pc[p] = "create.props"
      <3>1. \/ /\ cs[cur[p]] = "none" /\ cs' = cs
               /\ pc'[p] = "create.create" /\ errs'[p] = errs[p]
            \/ pc'[p] = "exit" /\ seen'[p] \in {"live", "unknown"}
        BY <1>0, <1>2, <2>1, Goes DEF Create, hostVars, CreateInv
      <3> QED
        BY <1>0, <2>1, <3>1 DEF CreateInv
    <2>2. CASE pc[p] = "create.create"
      <3>1. \/ /\ cs'[cur[p]] = "created"
               /\ pc'[p] = "create.start" /\ errs'[p] = errs[p]
            \/ pc'[p] = "exit" /\ cs' = cs
        BY <1>0, <1>2, <2>2, Goes DEF Create
      <3> QED
        BY <1>0, <2>2, <3>1 DEF CreateInv, Down
    <2>3. CASE pc[p] = "create.start"
      <3>1. pc'[p] = "destroy.props" \/ (pc'[p] = "init.mkdir" /\ errs'[p] = errs[p])
        BY <1>0, <1>2, <2>3, Goes DEF Create
      <3> QED
        BY <1>0, <2>3, <3>1 DEF CreateInv
    <2> QED
      BY <1>2, <2>1, <2>2, <2>3 DEF Create
  <1>3. CASE Initialize(p, To("exit"), Err("delete.open"))
    <2>1. /\ pc[p] \in {"init.mkdir", "init.truncate", "init.write"}
          /\ \/ pc'[p] = "delete.open"
             \/ pc'[p] \in {"init.truncate", "init.write", "exit"} /\ errs'[p] = errs[p]
      BY <1>0, <1>3, Goes DEF Initialize, TruncateState, FillState
    <2> QED
      BY <1>0, <2>1 DEF CreateInv
  <1>4. CASE Delete(p, To("exit"), Err("exit"))
    <2>1. /\ pc'[p] \in {"destroy.props", "shutdown", "terminate", "exit"}
          /\ pc'[p] = "exit" => Down(cur[p])' \/ "container" \in errs'[p]
      BY <1>0, <1>4, DeleteDown
    <2> QED
      BY <1>0, <2>1 DEF CreateInv
  <1> QED
    BY <1>1, <1>2, <1>3, <1>4 DEF CreateCommand, CreateContainer

\* Others leave the container alone that create makes.
LEMMA CreateInvStep ==
  ASSUME ExclusiveInv, [Next]_vars, NEW p \in Procs, CreateInv(p)
  PROVE  CreateInv(p)'
  <1>0. TypeInv /\ TypeOK
    BY DEF ExclusiveInv, BaseInv, TypeInv
  <1>1. CASE OthersMove(p)
    <2>1. CASE cmd[p].op = "create"
      <3>1. \/ cs'[cur[p]] = cs[cur[p]]
            \/ cs[cur[p]] = "running" /\ cs'[cur[p]] = "stopped"
            \/ cs[cur[p]] = "stopped" /\ cs'[cur[p]] = "none"
        BY <1>1, <2>1, OthersLeave DEF Left, Writers
      <3> QED
        BY <1>1, <2>1, <3>1 DEF OthersMove, CreateInv, Down
    <2>2. CASE cmd[p].op # "create"
      BY <1>1, <2>2 DEF OthersMove, CreateInv
    <2> QED
      BY <2>1, <2>2
  <1>2. CASE Begin(p)
    BY <1>0, <1>2, BeginEffect DEF FirstStep, CreateInv
  <1>3. CASE pc[p] # "idle" /\ Step(p) /\ StepOf(p)
    <2>0. cmd'[p] = cmd[p] /\ (cmd[p].op # "delete" => cur'[p] = cur[p])
      BY <1>0, <1>3, StepFrame
    <2>1. CASE cmd[p].op = "create"
      <3>1. CASE CreateCommand(p)
        BY <1>0, <1>3, <2>0, <2>1, <3>1, CreateInvCommand
      <3>2. CASE Return(p)
        BY <1>0, <3>2, GoneEffect DEF Return, CreateInv
      <3> QED
        BY <1>3, <2>1, <3>1, <3>2 DEF Step, StartCommand, RunCommand, ExecCommand, StateCommand,
                                      EventsCommand, DeleteCommand
    <2>2. CASE cmd[p].op # "create"
      BY <2>0, <2>2 DEF CreateInv
    <2> QED
      BY <2>1, <2>2
  <1>4. CASE ProcessGone(p)
    BY <1>0, <1>4, GoneEffect DEF CreateInv
  <1> QED
    BY <1>1, <1>2, <1>3, <1>4, MoveCases

\* Unless commands on one container overlap, a create that fails on a container that
\* did not exist leaves no container running, wherever it failed and whatever else
\* fails, or it has reported that it could not take the container down.
THEOREM FailedCreateCleansUp ==
  ASSUME ~Overlap
  PROVE  Spec => []FailedCreateLeavesNothing
  <1> DEFINE Inv == ExclusiveInv /\ \A p \in Procs : CreateInv(p)
  <1>1. Inv => FailedCreateLeavesNothing
    BY DEF ExclusiveInv, BaseInv, OnNamed, CreateInv, Down, FailedCreateLeavesNothing
  <1>2. Inv /\ [Next]_vars => Inv'
    BY ExclusiveInvStep, CreateInvStep
  <1>3. Init => Inv
    BY ExclusiveInvInit DEF Init, CreateInv, NoCommand
  <1> QED
    BY <1>1, <1>2, <1>3, PTL DEF Spec

-----------------------------------------------------------------------------
(* delete                                                                  *)

\* Where delete is, and what it has released by then: the state directory of the
\* container it works on, and the volume mounted for the process recorded there.  The
\* container it names comes last.
DeleteInvar(p) ==
  cmd[p].op = "delete" =>
    /\ pc[p] = "query" => seen[p] = "unknown"
    /\ pc[p] \in {"query", "exit"} => todo[p] = {}
    /\ pc[p] \notin {"query", "exit"} =>
         cmd[p].id \in todo[p] \/ (cur[p] = cmd[p].id /\ todo[p] = {})
    /\ pc[p] # "next" /\ cmd[p].id \in todo[p] => cur[p] # cmd[p].id
    /\ /\ pc[p] \in {"delete.open", "destroy.props", "shutdown", "terminate"}
       /\ "dir" \notin errs[p]
       => dir[cur[p]] = NoDir
    /\ /\ pc[p] \in {"next", "exit"} /\ todo[p] = {} /\ seen[p] \in {"live", "stopped"}
       /\ "dir" \notin errs[p]
       => dir[cmd[p].id] = NoDir
    /\ /\ pc[p] \notin {"state.probe", "unmount"} /\ loc[p].pid # NoPid
       /\ "mount" \notin errs[p]
       => mnt[loc[p].pid].vol # cmd[p].id

\* The step that looks for the sidecars, and the one that goes to the next container
LEMMA DeleteBetween ==
  ASSUME TypeInv, NEW p \in Procs, DeleteInvar(p), cmd[p].op = "delete", cmd'[p] = cmd[p],
         QuerySidecars(p) \/ NextContainer(p)
  PROVE  DeleteInvar(p)'
  <1>0. TypeOK /\ todo \in [Procs -> SUBSET Ids] /\ cur \in [Procs -> Ids \cup {NoId}]
    BY DEF TypeInv, TypeOK
  <1>h. UNCHANGED <<dir, mnt, loc, seen>>
    BY DEF QuerySidecars, NextContainer, Skip, hostVars
  <1>1. CASE QuerySidecars(p)
    <2>1. /\ pc[p] = "query" /\ cur' = cur
          /\ \/ pc'[p] = "next" /\ errs'[p] = errs[p] /\ cmd[p].id \in todo'[p]
             \/ pc'[p] = "exit" /\ todo' = todo /\ errs[p] \subseteq errs'[p]
      BY <1>0, <1>1, Goes DEF QuerySidecars
    <2> QED
      BY <1>h, <2>1 DEF DeleteInvar
  <1>2. CASE NextContainer(p) /\ todo[p] = {} /\ Skip(p, To("exit"))
    <2>1. /\ pc[p] = "next" /\ pc'[p] = "exit" /\ errs'[p] = errs[p]
          /\ cur' = cur /\ todo' = todo
      BY <1>0, <1>2, Goes DEF NextContainer, Skip
    <2> QED
      BY <1>2, <1>h, <2>1 DEF DeleteInvar
  <1>3. ASSUME pc[p] = "next", NEW c \in todo[p], c = cmd[p].id => todo[p] = {c},
               cur' = [cur EXCEPT ![p] = c], todo' = [todo EXCEPT ![p] = @ \ {c}],
               Go(p, To("state.props"))
        PROVE  DeleteInvar(p)'
    <2>1. /\ pc'[p] = "state.props" /\ errs'[p] = errs[p]
          /\ cur'[p] = c /\ todo'[p] = todo[p] \ {c}
      BY <1>0, <1>3, Goes
    <2>2. cmd[p].id \in todo[p]
      BY <1>3 DEF DeleteInvar
    <2>3. cmd[p].id \in todo'[p] \/ (cur'[p] = cmd[p].id /\ todo'[p] = {})
      BY <1>3, <2>1, <2>2
    <2>4. cmd[p].id \in todo'[p] => cur'[p] # cmd[p].id
      BY <2>1
    <2> QED
      BY <1>3, <1>h, <2>1, <2>3, <2>4 DEF DeleteInvar
  <1> QED
    BY <1>1, <1>2, <1>3 DEF NextContainer

\* State, as delete calls it
LEMMA DeleteLooks ==
  ASSUME TypeInv, NEW p \in Procs, DeleteInvar(p), cmd[p].op = "delete", cmd'[p] = cmd[p],
         NEW k \in {To("next"), Err("next")}, State(p, To("unmount"), k, Err("rmstate"))
  PROVE  DeleteInvar(p)'
  <1>0. TypeOK /\ seen \in [Procs -> {"unknown", "none", "live", "stopped"}]
    BY DEF TypeInv, TypeOK
  <1>h. UNCHANGED <<dir, mnt, cur, todo>>
    BY DEF State, hostVars
  <1>1. CASE pc[p] = "state.props"
    <2>1. /\ loc' = loc
          /\ \/ pc'[p] = "state.load" /\ errs'[p] = errs[p]
             \/ pc'[p] = "next" /\ seen'[p] = "none" /\ errs[p] \subseteq errs'[p]
             \/ pc'[p] = "rmstate" /\ errs[p] \subseteq errs'[p]
      BY <1>0, <1>1, Goes DEF State
    <2> QED
      BY <1>1, <1>h, <2>1 DEF DeleteInvar
  <1>2. CASE pc[p] = "state.load"
    <2>1. \/ pc'[p] \in {"unmount", "state.probe"} /\ errs'[p] = errs[p]
          \/ pc'[p] = "rmstate" /\ "mount" \in errs'[p] /\ errs[p] \subseteq errs'[p]
      BY <1>0, <1>2, Goes, KeepsCases DEF State
    <2> QED
      BY <1>2, <1>h, <2>1 DEF DeleteInvar
  <1>3. CASE pc[p] = "state.probe"
    <2>1. /\ loc' = loc
          /\ \/ pc'[p] = "unmount" /\ errs'[p] = errs[p]
             \/ pc'[p] = "rmstate" /\ "mount" \in errs'[p] /\ errs[p] \subseteq errs'[p]
      BY <1>0, <1>3, Goes, KeepsCases DEF State
    <2> QED
      BY <1>3, <1>h, <2>1 DEF DeleteInvar
  <1> QED
    BY <1>1, <1>2, <1>3 DEF State

\* Unmount, as delete calls it
LEMMA DeleteUnmount ==
  ASSUME TypeInv, NEW p \in Procs, DeleteInvar(p), cmd[p].op = "delete", cmd'[p] = cmd[p],
         cmd[p].id \in Ids,
         \/ pc[p] = "unmount" /\ loc[p].pid = NoPid /\ Skip(p, To("rmstate"))
         \/ Unmount(p, To("rmstate"), Err("rmstate"))
  PROVE  DeleteInvar(p)'
  <1>0. /\ TypeOK /\ mnt \in [Pids -> [dir : BOOLEAN, vol : Ids \cup {NoId}]]
        /\ NoId \notin Ids /\ loc[p].pid \in Pids \cup {NoPid}
        /\ pc[p] = "unmount.rm" => loc[p].pid # NoPid
    <2>1. loc[p] \in States
      BY DEF TypeInv, TypeOK
    <2>2. loc[p].pid \in Pids \cup {NoPid}
      BY <2>1 DEF States
    <2> QED
      BY <2>2, HostAssumption DEF TypeInv, TypeOK, Control, MountPoints
  <1>h. UNCHANGED <<dir, cur, todo, seen, loc>>
    BY DEF Unmount, Skip
  <1>1. CASE pc[p] = "unmount" /\ loc[p].pid = NoPid
    <2>1. pc'[p] = "rmstate" /\ errs'[p] = errs[p]
      BY <1>0, <1>1, Goes DEF Unmount, Skip
    <2> QED
      BY <1>1, <1>h, <2>1 DEF DeleteInvar
  <1>2. CASE pc[p] = "unmount" /\ loc[p].pid # NoPid
    <2>1. \/ pc'[p] = "unmount.rm" /\ errs'[p] = errs[p] /\ mnt'[loc[p].pid].vol = NoId
          \/ pc'[p] = "rmstate" /\ "mount" \in errs'[p] /\ errs[p] \subseteq errs'[p]
      <3>1. CASE Go(p, Err("rmstate"))
        BY <1>0, <1>2, <3>1, Goes, KeepsCases
      <3>2. CASE Go(p, To("unmount.rm")) /\ mnt' = [mnt EXCEPT ![loc[p].pid].vol = NoId]
        <4>1. mnt'[loc[p].pid].vol = NoId
          BY <1>0, <1>2, <3>2
        <4> QED
          BY <1>0, <3>2, <4>1, Goes
      <3> QED
        BY <1>2, <3>1, <3>2 DEF Unmount
    <2> QED
      BY <1>0, <1>2, <1>h, <2>1 DEF DeleteInvar
  <1>3. CASE pc[p] = "unmount.rm"
    <2>1. \/ pc'[p] = "rmstate" /\ errs'[p] = errs[p] /\ mnt'[loc[p].pid] = NoMount
          \/ pc'[p] = "rmstate" /\ "mount" \in errs'[p] /\ errs[p] \subseteq errs'[p]
      BY <1>0, <1>3, Goes, KeepsCases DEF Unmount
    <2>2. NoMount.vol = NoId
      BY DEF NoMount
    <2> QED
      BY <1>0, <1>3, <1>h, <2>1, <2>2 DEF DeleteInvar
  <1> QED
    BY <1>1, <1>2, <1>3 DEF Unmount

\* The steps of delete itself keep the invariant of delete.
LEMMA DeleteInvarCommand ==
  ASSUME TypeInv, NEW p \in Procs, pc[p] # "idle", DeleteInvar(p), DeleteCommand(p),
         cmd'[p] = cmd[p]
  PROVE  DeleteInvar(p)'
  <1>0. TypeOK /\ cur[p] \in Ids /\ cmd[p].op = "delete" /\ dir \in [Ids -> StateDirs]
        /\ cmd[p].id \in Ids
    <2>1. cmd[p] \in Command
      BY HostAssumption DEF TypeInv, Control
    <2>2. cmd[p].id \in Ids
      BY <2>1 DEF Command
    <2> QED
      BY <2>2 DEF TypeInv, Control, TypeOK, DeleteCommand
  <1>1. CASE QuerySidecars(p) \/ NextContainer(p)
    BY <1>0, <1>1, DeleteBetween
  <1>2. CASE State(p, To("unmount"), IF cmd[p].flag THEN To("next") ELSE Err("next"), Err("rmstate"))
    <2>1. CASE cmd[p].flag
      BY <1>0, <1>2, <2>1, DeleteLooks
    <2>2. CASE ~cmd[p].flag
      BY <1>0, <1>2, <2>2, DeleteLooks
    <2> QED
      BY <2>1, <2>2
  <1>3. CASE \/ pc[p] = "unmount" /\ loc[p].pid = NoPid /\ Skip(p, To("rmstate"))
             \/ Unmount(p, To("rmstate"), Err("rmstate"))
    BY <1>0, <1>3, DeleteUnmount
  <1>4. CASE DeleteState(p, To("delete.open"), Err("delete.open"))
    <2>1. /\ pc[p] = "rmstate" /\ pc'[p] = "delete.open" /\ errs[p] \subseteq errs'[p]
          /\ "dir" \notin errs'[p] => dir'[cur[p]] = NoDir
          /\ UNCHANGED <<mnt, cur, todo, seen, loc>>
      BY <1>0, <1>4, Goes, KeepsCases DEF DeleteState
    <2> QED
      BY <1>0, <2>1 DEF DeleteInvar
  <1>5. CASE Delete(p, To("next"), Err("next"))
    <2>1. /\ pc[p] \in {"delete.open", "destroy.props", "shutdown", "terminate"}
          /\ pc'[p] \in {"destroy.props", "shutdown", "terminate", "next"}
          /\ errs[p] \subseteq errs'[p]
      BY <1>0, <1>5, Goes DEF Delete, DestroyContainer, Skip
    <2>2. UNCHANGED <<dir, mnt, cur, todo, seen, loc>>
      BY <1>5 DEF Delete, DestroyContainer, Skip
    <2> QED
      BY <1>0, <2>1, <2>2 DEF DeleteInvar
  <1> QED
    BY <1>1, <1>2, <1>3, <1>4, <1>5 DEF DeleteCommand, DeleteContainer

\* Others leave the containers alone that delete deletes.
LEMMA DeleteInvarStep ==
  ASSUME ExclusiveInv, [Next]_vars, NEW p \in Procs, DeleteInvar(p)
  PROVE  DeleteInvar(p)'
  <1>0. TypeInv /\ TypeOK
    BY DEF ExclusiveInv, BaseInv, TypeInv
  <1>1. CASE OthersMove(p)
    <2>1. CASE cmd[p].op = "delete"
      <3>1. Left(cur[p]) /\ Left(cmd[p].id)
        BY <1>1, <2>1, OthersLeave DEF Writers
      <3>2. loc[p] \in States
        BY <1>0 DEF TypeOK
      <3>3. loc[p].pid # NoPid => loc[p].pid \in Pids
        BY <3>2 DEF States
      <3>4. /\ dir'[cur[p]] = dir[cur[p]] /\ dir'[cmd[p].id] = dir[cmd[p].id]
            /\ loc[p].pid # NoPid /\ mnt'[loc[p].pid].vol = cmd[p].id
                 => mnt[loc[p].pid].vol = cmd[p].id
        BY <3>1, <3>3 DEF Left
      <3> QED
        BY <1>1, <2>1, <3>4 DEF OthersMove, DeleteInvar
    <2>2. CASE cmd[p].op # "delete"
      BY <1>1, <2>2 DEF OthersMove, DeleteInvar
    <2> QED
      BY <2>1, <2>2
  <1>2. CASE Begin(p)
    BY <1>0, <1>2, BeginEffect DEF FirstStep, DeleteInvar, ZeroState
  <1>3. CASE pc[p] # "idle" /\ Step(p) /\ StepOf(p)
    <2>0. cmd'[p] = cmd[p]
      BY <1>0, <1>3, StepFrame
    <2>1. CASE cmd[p].op = "delete"
      <3>1. CASE DeleteCommand(p)
        BY <1>0, <1>3, <2>0, <3>1, DeleteInvarCommand
      <3>2. CASE Return(p)
        BY <1>0, <3>2, GoneEffect DEF Return, DeleteInvar
      <3> QED
        BY <1>3, <2>1, <3>1, <3>2 DEF Step, StartCommand, RunCommand, ExecCommand, StateCommand,
                                      EventsCommand, CreateCommand
    <2>2. CASE cmd[p].op # "delete"
      BY <2>0, <2>2 DEF DeleteInvar
    <2> QED
      BY <2>1, <2>2
  <1>4. CASE ProcessGone(p)
    BY <1>0, <1>4, GoneEffect DEF DeleteInvar
  <1> QED
    BY <1>1, <1>2, <1>3, <1>4, MoveCases

\* Unless commands on one container overlap, a delete of a container that HCS knew
\* gets rid of its state directory and of the volume mounted for its recorded process,
\* except for what it reports an error of, whatever else fails and wherever other winc
\* processes are killed.
THEOREM DeleteReleases ==
  ASSUME ~Overlap
  PROVE  Spec => []DeleteReleasesResources
  <1> DEFINE Inv == ExclusiveInv /\ \A p \in Procs : DeleteInvar(p)
  <1>1. Inv => DeleteReleasesResources
    BY DEF DeleteInvar, DeleteReleasesResources
  <1>2. Inv /\ [Next]_vars => Inv'
    BY ExclusiveInvStep, DeleteInvarStep
  <1>3. Init => Inv
    BY ExclusiveInvInit DEF Init, DeleteInvar, NoCommand
  <1> QED
    BY <1>1, <1>2, <1>3, PTL DEF Spec

\* The sidecars that delete is through with, or did not find, are down, as long as it
\* has met no error.
SidecarInv(p) ==
  cmd[p].op = "delete" /\ errs[p] = {} /\ pc[p] # "query" =>
    \A s \in Ids :
      /\ Owner[s] = cmd[p].id /\ s \notin todo[p]
      /\ s # cur[p] \/ pc[p] = "next"
      => Down(s)

\* deleteContainer goes on to the next container without an error only when this one
\* is down.
LEMMA ReleasedIsDown ==
  ASSUME TypeInv, NEW p \in Procs, cur[p] \in Ids,
         DeleteContainer(p, cmd[p].flag, To("next"), Err("next"))
  PROVE  /\ pc[p] \notin {"next", "query"} /\ UNCHANGED <<cur, todo>> /\ errs[p] \subseteq errs'[p]
         /\ errs'[p] # {} \/ pc'[p] # "next" \/ Down(cur[p])'
  <1>0. TypeOK /\ cs \in [Ids -> {"none", "created", "running", "stopped"}]
    BY DEF TypeInv, TypeOK
  <1>1. ASSUME NEW m \in {To("next"), Err("next")}, State(p, To("unmount"), m, Err("rmstate"))
        PROVE  /\ pc[p] \notin {"next", "query"} /\ UNCHANGED <<cur, todo>> /\ errs[p] \subseteq errs'[p]
               /\ errs'[p] # {} \/ pc'[p] # "next" \/ Down(cur[p])'
    <2>1. UNCHANGED <<cs, cur, todo>> /\ pc[p] \in {"state.props", "state.load", "state.probe"}
      BY <1>1 DEF State, hostVars
    <2>2. /\ errs[p] \subseteq errs'[p]
          /\ pc'[p] # "next" \/ cs[cur[p]] = "none"
      BY <1>0, <1>1, Goes DEF State
    <2> QED
      BY <2>1, <2>2 DEF Down
  <1>2. CASE State(p, To("unmount"), IF cmd[p].flag THEN To("next") ELSE Err("next"), Err("rmstate"))
    <2>1. CASE cmd[p].flag
      BY <1>1, <1>2, <2>1
    <2>2. CASE ~cmd[p].flag
      BY <1>1, <1>2, <2>2
    <2> QED
      BY <2>1, <2>2
  <1>3. CASE \/ pc[p] = "unmount" /\ loc[p].pid = NoPid /\ Skip(p, To("rmstate"))
             \/ Unmount(p, To("rmstate"), Err("rmstate"))
             \/ DeleteState(p, To("delete.open"), Err("delete.open"))
    <2>1. UNCHANGED <<cur, todo>> /\ pc[p] \in {"unmount", "unmount.rm", "rmstate"}
      BY <1>3 DEF Unmount, DeleteState, Skip
    <2>2. errs[p] \subseteq errs'[p] /\ pc'[p] # "next"
      BY <1>0, <1>3, Goes DEF Unmount, DeleteState, Skip
    <2> QED
      BY <2>1, <2>2
  <1>4. CASE Delete(p, To("next"), Err("next"))
    <2>1. /\ UNCHANGED <<cur, todo>>
          /\ pc[p] \in {"delete.open", "destroy.props", "shutdown", "terminate"}
      BY <1>4 DEF Delete, DestroyContainer, Skip
    <2>2. /\ errs[p] \subseteq errs'[p]
          /\ errs'[p] # {} \/ pc'[p] # "next" \/ Gone(cur[p])
      BY <1>0, <1>4, Goes DEF Delete, DestroyContainer, Skip
    <2>3. Gone(cur[p]) => cs'[cur[p]] \in {"none", "stopped"}
      BY <1>0 DEF Gone
    <2> QED
      BY <2>1, <2>2, <2>3 DEF Down
  <1> QED
    BY <1>2, <1>3, <1>4 DEF DeleteContainer

\* The steps of delete itself keep its sidecars down.
LEMMA SidecarInvCommand ==
  ASSUME TypeInv, NEW p \in Procs, pc[p] # "idle", StepOf(p), SidecarInv(p), DeleteCommand(p),
         cmd'[p] = cmd[p]
  PROVE  SidecarInv(p)'
  <1>0. TypeOK /\ cur[p] \in Ids /\ cmd[p].op = "delete"
        /\ todo \in [Procs -> SUBSET Ids] /\ cur \in [Procs -> Ids \cup {NoId}]
    BY DEF TypeInv, Control, TypeOK, DeleteCommand
  <1>1. CASE QuerySidecars(p)
    <2>1. \/ errs'[p] # {}
          \/ todo'[p] = {cmd[p].id} \cup {s \in Ids : Owner[s] = cmd[p].id /\ cs[s] # "none"}
      BY <1>0, <1>1, Goes DEF QuerySidecars
    <2>2. cs' = cs
      BY <1>1 DEF QuerySidecars, hostVars
    <2> QED
      BY <2>1, <2>2 DEF SidecarInv, Down
  <1>2. CASE NextContainer(p)
    <2>1. pc[p] = "next" /\ cs' = cs
      BY <1>2 DEF NextContainer, hostVars, Skip
    <2>2. errs'[p] = errs[p]
      BY <1>0, <1>2, Goes DEF NextContainer, Skip
    <2>3. todo' = todo \/ \E c \in todo[p] : cur'[p] = c /\ todo'[p] = todo[p] \ {c}
      BY <1>0, <1>2 DEF NextContainer, Skip
    <2>4. pc'[p] # "next"
      BY <1>0, <1>2, Goes DEF NextContainer, Skip
    <2> QED
      BY <1>0, <2>1, <2>2, <2>3, <2>4 DEF SidecarInv, Down
  <1>3. CASE DeleteContainer(p, cmd[p].flag, To("next"), Err("next"))
    <2>1. /\ pc[p] \notin {"next", "query"} /\ UNCHANGED <<cur, todo>> /\ errs[p] \subseteq errs'[p]
          /\ errs'[p] # {} \/ pc'[p] # "next" \/ Down(cur[p])'
      BY <1>0, <1>3, ReleasedIsDown
    <2>2. \A s \in Ids : s # cur[p] => cs'[s] = cs[s]
      BY StepEffect
    <2>3. ASSUME errs'[p] = {}, NEW s \in Ids, Owner[s] = cmd[p].id, s \notin todo[p],
                 s # cur[p] \/ pc'[p] = "next"
          PROVE  Down(s)'
      <3>1. CASE s = cur[p]
        BY <2>1, <2>3, <3>1 DEF Down
      <3>2. CASE s # cur[p]
        <4>1. errs[p] = {}
          BY <2>1, <2>3
        <4>2. Down(s)
          BY <1>0, <2>1, <2>3, <3>2, <4>1 DEF SidecarInv
        <4> QED
          BY <2>2, <2>3, <3>2, <4>2 DEF Down
      <3> QED
        BY <3>1, <3>2
    <2> QED
      BY <2>1, <2>3 DEF SidecarInv
  <1> QED
    BY <1>1, <1>2, <1>3 DEF DeleteCommand

\* Others leave the sidecars alone.
LEMMA SidecarInvStep ==
  ASSUME ExclusiveInv, [Next]_vars, NEW p \in Procs, SidecarInv(p)
  PROVE  SidecarInv(p)'
  <1>0. TypeInv /\ TypeOK
    BY DEF ExclusiveInv, BaseInv, TypeInv
  <1>1. CASE OthersMove(p)
    <2>1. CASE cmd[p].op = "delete"
      <3>1. ASSUME NEW s \in Ids, Owner[s] = cmd[p].id, Down(s) PROVE Down(s)'
        <4>1. s \in Touches(cmd[p])
          BY <2>1, <3>1, TouchesCases
        <4>2. Left(s)
          BY <1>1, <4>1 DEF OthersMove
        <4> QED
          BY <3>1, <4>2 DEF Left, Down
      <3> QED
        BY <1>1, <2>1, <3>1 DEF OthersMove, SidecarInv
    <2>2. CASE cmd[p].op # "delete"
      BY <1>1, <2>2 DEF OthersMove, SidecarInv
    <2> QED
      BY <2>1, <2>2
  <1>2. CASE Begin(p)
    BY <1>0, <1>2, BeginEffect DEF FirstStep, SidecarInv
  <1>3. CASE pc[p] # "idle" /\ Step(p) /\ StepOf(p)
    <2>0. cmd'[p] = cmd[p]
      BY <1>0, <1>3, StepFrame
    <2>1. CASE cmd[p].op = "delete"
      <3>1. CASE DeleteCommand(p)
        BY <1>0, <1>3, <2>0, <3>1, SidecarInvCommand
      <3>2. CASE Return(p)
        BY <1>0, <3>2, GoneEffect DEF Return, SidecarInv
      <3> QED
        BY <1>3, <2>1, <3>1, <3>2 DEF Step, StartCommand, RunCommand, ExecCommand, StateCommand,
                                      EventsCommand, CreateCommand
    <2>2. CASE cmd[p].op # "delete"
      BY <2>0, <2>2 DEF SidecarInv
    <2> QED
      BY <2>1, <2>2
  <1>4. CASE ProcessGone(p)
    BY <1>0, <1>4, GoneEffect DEF SidecarInv
  <1> QED
    BY <1>1, <1>2, <1>3, <1>4, MoveCases

\* Unless commands on one container overlap, and no container is a sidecar of itself:
\* before delete takes a container down without having met an error, the sidecars that
\* share its network are down.
THEOREM SidecarsAreDownFirst ==
  ASSUME ~Overlap, \A c \in Ids : Owner[c] # c
  PROVE  Spec => []SidecarsGoFirst
  <1> DEFINE Inv == ExclusiveInv /\ \A p \in Procs : DeleteInvar(p) /\ SidecarInv(p)
  <1>1. Inv => SidecarsGoFirst
    <2> SUFFICES ASSUME Inv, NEW p \in Procs, NEW s \in Ids,
                        cmd[p].op = "delete", errs[p] = {},
                        pc[p] \in {"destroy.props", "shutdown", "terminate"},
                        cur[p] = cmd[p].id, Owner[s] = cmd[p].id
                 PROVE  Down(s)
      BY DEF SidecarsGoFirst, Down
    <2>1. todo[p] = {}
      BY DEF DeleteInvar
    <2>2. s # cur[p]
      OBVIOUS
    <2> QED
      BY <2>1, <2>2 DEF SidecarInv
  <1>2. Inv /\ [Next]_vars => Inv'
    BY ExclusiveInvStep, DeleteInvarStep, SidecarInvStep
  <1>3. Init => Inv
    BY ExclusiveInvInit DEF Init, DeleteInvar, SidecarInv, NoCommand
  <1> QED
    BY <1>1, <1>2, <1>3, PTL DEF Spec

-----------------------------------------------------------------------------
(* Mounted volumes                                                         *)

\* Nothing fails but winc processes, which may be killed.
OnlyCrashes == Faults \subseteq {"crash", "code259"}

NotMounted(c) == \A q \in Pids : mnt[q].vol # c

\* A record that State accepts
Valid(s) == s.failed \/ StateValid(s)

\* Mounted volumes are recorded, and none belongs to a container that is gone.
Mounted ==
  /\ MountsAreRecorded
  /\ \A c \in Ids : /\ cs[c] = "none" => NotMounted(c)
                    /\ Valid(dir[c].state)

Mounting == {"mount.stat", "mount.mkdir", "mount.set"}

\* Steps at which the volume of the container is not mounted
Unmounted ==
  {"create.create", "create.start", "init.mkdir", "init.truncate", "init.write",
   "exec.open", "exec.create", "fail.load", "fail.truncate", "fail.write",
   "succ.load", "succ.open", "succ.truncate", "succ.write", "bad.truncate", "bad.write",
   "mount.stat", "mount.mkdir", "mount.set", "unmount.rm", "rmstate", "delete.open",
   "destroy.props", "shutdown", "terminate"}

\* What a command that changes the container knows of its volume and its record: it
\* is not mounted while state.json is written or removed; it is mounted only after
\* its process has been recorded; and it is unmounted where state.json says.
MountOf(p) ==
  cmd[p].op \in Writers =>
    /\ pc[p] \in WriteSteps => dir[cur[p]] = Unreadable
    /\ pc[p] \in Unmounted \/ (pc[p] = "spec" /\ cmd[p].op = "start") => NotMounted(cur[p])
    /\ pc[p] \in Records \cup Mounting => cs[cur[p]] # "none"
    /\ pc[p] \in Mounting => dir[cur[p]].kind = "state" /\ dir[cur[p]].state.pid = pid[p]
    /\ pc[p] \in Records \ {"succ.load"} => loc[p].pid = pid[p]
    /\ pc[p] \in UsesCopy \ {"succ.open", "state.probe"} => Valid(loc[p])
    /\ pc[p] \in {"state.probe", "unmount", "unmount.rm"} => dir[cur[p]] = StateFile(loc[p])

\* A container whose state.json names no process has nothing mounted.
LEMMA UnrecordedIsNotMounted ==
  ASSUME MountsAreRecorded, NEW c \in Ids, dir[c].kind # "state" \/ dir[c].state.pid \notin Pids
  PROVE  NotMounted(c)
  BY HostAssumption DEF MountsAreRecorded, NotMounted

\* Nothing happens to volumes, records and containers.
LEMMA MountedStays ==
  ASSUME Mounted, UNCHANGED <<cs, dir, mnt>>
  PROVE  Mounted'
  BY DEF Mounted, MountsAreRecorded, NotMounted, Valid, StateValid

\* A state directory changes while the volume is not mounted.
LEMMA MountedDir ==
  ASSUME TypeOK, Mounted, NEW c \in Ids, NotMounted(c), NEW v, Valid(v.state),
         dir' = [dir EXCEPT ![c] = v], UNCHANGED <<cs, mnt>>
  PROVE  Mounted'
  <1>1. \A d \in Ids : (d # c => dir'[d] = dir[d]) /\ dir'[c] = v
    BY DEF TypeOK
  <1>2. ASSUME NEW q \in Pids, mnt[q].vol # NoId
        PROVE  mnt[q].vol \in Ids /\ mnt[q].vol # c
    <2>1. mnt[q] \in MountPoints
      BY DEF TypeOK
    <2> QED
      BY <1>2, <2>1 DEF NotMounted, MountPoints
  <1>3. MountsAreRecorded'
    BY <1>1, <1>2 DEF Mounted, MountsAreRecorded
  <1>4. \A d \in Ids : Valid(dir[d].state)'
    BY <1>1 DEF Mounted, Valid, StateValid
  <1> QED
    BY <1>3, <1>4 DEF Mounted, NotMounted

\* A container changes.
LEMMA MountedCs ==
  ASSUME TypeOK, Mounted, NEW c \in Ids, NEW v, NotMounted(c) \/ v # "none",
         cs' = [cs EXCEPT ![c] = v], UNCHANGED <<dir, mnt>>
  PROVE  Mounted'
  <1>1. \A d \in Ids : (d # c => cs'[d] = cs[d]) /\ cs'[c] = v
    BY DEF TypeOK
  <1> QED
    BY <1>1 DEF Mounted, MountsAreRecorded, NotMounted, Valid, StateValid

\* Volumes are unmounted.
LEMMA MountedLess ==
  ASSUME Mounted, \A q \in Pids : mnt'[q].vol \in {mnt[q].vol, NoId}, UNCHANGED <<cs, dir>>
  PROVE  Mounted' /\ \A c \in Ids : NotMounted(c) => NotMounted(c)'
  <1>1. MountsAreRecorded'
    BY DEF Mounted, MountsAreRecorded
  <1>2. ASSUME NEW c \in Ids, NotMounted(c) PROVE NotMounted(c)'
    BY <1>2, HostAssumption DEF NotMounted
  <1> QED
    BY <1>1, <1>2 DEF Mounted, Valid, StateValid

\* A volume is mounted, for the recorded process.
LEMMA MountedMore ==
  ASSUME Mounted, NEW q \in Pids, NEW c \in Ids, mnt'[q].vol = c,
         \A r \in Pids : r # q => mnt'[r] = mnt[r],
         cs[c] # "none", dir[c].kind = "state", dir[c].state.pid = q, UNCHANGED <<cs, dir>>
  PROVE  Mounted'
  <1>1. MountsAreRecorded'
    BY DEF Mounted, MountsAreRecorded
  <1>2. ASSUME NEW d \in Ids, cs'[d] = "none" PROVE NotMounted(d)'
    BY <1>2 DEF Mounted, NotMounted
  <1> QED
    BY <1>1, <1>2 DEF Mounted, Valid, StateValid

\* Others leave the volume of the container and its record alone.
LEMMA MountOfOthers ==
  ASSUME ExclusiveInv, OnlyCrashes, NEW p \in Procs, OthersMove(p), MountOf(p)
  PROVE  MountOf(p)'
  <1>1. CASE cmd[p].op \notin Writers
    BY <1>1 DEF MountOf, OthersMove
  <1>2. CASE cmd[p].op \in Writers
    <2>1. Left(cur[p])
      BY <1>2, OthersLeave
    <2>2. dir'[cur[p]] = dir[cur[p]] /\ (cs'[cur[p]] = "none" => cs[cur[p]] = "none")
      BY <2>1 DEF Left, OnlyCrashes
    <2>3. NotMounted(cur[p]) => \A q \in Pids : mnt'[q].vol # cur[p]
      BY <2>1 DEF Left, NotMounted
    <2>4. /\ pc'[p] = pc[p] /\ cmd'[p] = cmd[p] /\ cur'[p] = cur[p] /\ loc'[p] = loc[p]
          /\ pid'[p] = pid[p]
      BY DEF OthersMove
    <2>5. NotMounted(cur[p]) => NotMounted(cur[p])'
      BY <2>3, <2>4 DEF NotMounted
    <2>6. Valid(loc[p]) => Valid(loc[p])'
      BY <2>4 DEF Valid, StateValid
    <2> QED
      BY <1>2, <2>2, <2>4, <2>5, <2>6 DEF MountOf
  <1> QED
    BY <1>1, <1>2

\* p is in the middle of a command that changes a container.
Acting(p) ==
  /\ BaseInv /\ Mounted /\ MountOf(p) /\ OnlyCrashes
  /\ pc[p] # "idle" /\ cmd[p].op \in Writers

\* Between its operations a command need not know anything of the volume.
LEMMA MountOfEnds ==
  ASSUME NEW p \in Procs,
         pc'[p] \in {"exit", "next", "state.props", "state.load", "create.props", "start.check",
                     "pidfile", "attach"}
  PROVE  MountOf(p)'
  BY DEF MountOf, WriteSteps, Unmounted, Records, Mounting, UsesCopy

\* What the labels of a command mean for its volume, when only the volume counts
LEMMA MountOfUnmounted ==
  ASSUME NEW p \in Procs,
         pc'[p] \in {"create.create", "create.start", "init.mkdir", "exec.open", "exec.create",
                     "fail.load", "rmstate", "delete.open", "destroy.props", "shutdown",
                     "terminate"},
         NotMounted(cur[p])'
  PROVE  MountOf(p)'
  BY DEF MountOf, WriteSteps, Unmounted, Records, Mounting, UsesCopy

\* Create works on a container without a volume.
LEMMA CreateMounts ==
  ASSUME NEW p \in Procs, Acting(p), Create(p, To("init.mkdir"), Err("exit"))
  PROVE  Mounted' /\ MountOf(p)'
  <1>0. /\ TypeOK /\ cur[p] \in Ids /\ Mounted /\ "hcs" \notin Faults
        /\ cs \in [Ids -> {"none", "created", "running", "stopped"}]
    BY DEF Acting, BaseInv, TypeInv, Control, TypeOK, OnlyCrashes
  <1>h. UNCHANGED <<dir, mnt, cur>>
    BY DEF Create, hostVars
  <1>n. NotMounted(cur[p]) => NotMounted(cur[p])'
    BY <1>h DEF NotMounted
  <1>1. CASE pc[p] = "create.props"
    <2>1. /\ cs' = cs
          /\ pc'[p] = "exit" \/ (pc'[p] = "create.create" /\ cs[cur[p]] = "none")
      BY <1>0, <1>1, Goes DEF Create, hostVars
    <2>2. pc'[p] = "create.create" => NotMounted(cur[p])'
      BY <1>0, <1>n, <2>1 DEF Mounted
    <2> QED
      BY <1>0, <1>h, <2>1, <2>2, MountOfEnds, MountOfUnmounted, MountedStays
  <1>2. CASE pc[p] \in {"create.create", "create.start"}
    <2>0. NotMounted(cur[p])
      BY <1>2 DEF Acting, MountOf, Unmounted
    <2>1. /\ cs' = cs \/ cs' = [cs EXCEPT ![cur[p]] = "created"] \/ cs' = [cs EXCEPT ![cur[p]] = "running"]
          /\ pc'[p] \in {"exit", "create.start", "init.mkdir", "destroy.props"}
      BY <1>0, <1>2, Goes DEF Create
    <2>2. Mounted'
      BY <1>0, <1>h, <2>0, <2>1, MountedStays, MountedCs
    <2> QED
      BY <1>n, <2>0, <2>1, <2>2, MountOfEnds, MountOfUnmounted
  <1> QED
    BY <1>1, <1>2 DEF Create

\* A state.json is truncated while the volume is not mounted.
LEMMA TruncateMounts ==
  ASSUME NEW p \in Procs, Acting(p), NEW here \in Unmounted, NEW next, NEW bad,
         TruncateState(p, here, next, bad)
  PROVE  /\ Mounted' /\ NotMounted(cur[p])'
         /\ UNCHANGED <<cs, cur, loc, pid>>
         /\ Go(p, bad) \/ (Go(p, To(next)) /\ dir'[cur[p]] = Unreadable)
  <1>0. TypeOK /\ cur[p] \in Ids /\ Mounted /\ dir \in [Ids -> StateDirs]
    BY DEF Acting, BaseInv, TypeInv, Control, TypeOK
  <1>h. UNCHANGED <<cs, mnt, cur, loc, pid>>
    BY DEF TruncateState
  <1>n. NotMounted(cur[p])
    BY DEF Acting, MountOf, TruncateState
  <1>v. Valid(Unreadable.state)
    BY DEF Valid, StateValid, Unreadable, ZeroState
  <1>1. CASE dir' = dir /\ Go(p, bad)
    BY <1>0, <1>1, <1>h, <1>n, MountedStays DEF NotMounted
  <1>2. CASE dir' = [dir EXCEPT ![cur[p]] = Unreadable] /\ Go(p, To(next))
    <2>1. Mounted'
      BY <1>0, <1>2, <1>h, <1>n, <1>v, MountedDir
    <2> QED
      BY <1>0, <1>2, <1>h, <1>n, <2>1 DEF NotMounted
  <1> QED
    BY <1>1, <1>2 DEF TruncateState

\* It is filled while the volume is not mounted.
LEMMA FillMounts ==
  ASSUME NEW p \in Procs, Acting(p),
         NEW here \in {"init.write", "fail.write", "succ.write", "bad.write"}, NEW ok, NEW bad,
         FillState(p, here, ok, bad)
  PROVE  /\ Mounted' /\ NotMounted(cur[p])'
         /\ UNCHANGED <<cs, cur, loc, pid>>
         /\ Go(p, ok) /\ dir'[cur[p]] = StateFile(loc[p])
  <1>0. TypeOK /\ cur[p] \in Ids /\ Mounted /\ dir \in [Ids -> StateDirs] /\ "fs" \notin Faults
    BY DEF Acting, BaseInv, TypeInv, Control, TypeOK, OnlyCrashes
  <1>h. UNCHANGED <<cs, mnt, cur, loc, pid>>
    BY DEF FillState
  <1>1. pc[p] = here
    BY DEF FillState
  <1>2. here \in Unmounted /\ here \in WriteSteps /\ here \in UsesCopy \ {"succ.open", "state.probe"}
    BY DEF Unmounted, WriteSteps, UsesCopy
  <1>3. NotMounted(cur[p]) /\ dir[cur[p]] = Unreadable /\ Valid(loc[p])
    BY <1>1, <1>2 DEF Acting, MountOf
  <1>4. ~Loads(p)
    BY <1>3 DEF Loads, Unreadable
  <1>5. Go(p, ok) /\ dir' = [dir EXCEPT ![cur[p]] = StateFile(loc[p])]
    BY <1>0, <1>4 DEF FillState
  <1>6. StateFile(loc[p]).state = loc[p]
    BY DEF StateFile
  <1>7. Mounted'
    BY <1>0, <1>3, <1>5, <1>6, <1>h, MountedDir
  <1> QED
    BY <1>0, <1>3, <1>5, <1>7, <1>h DEF NotMounted

\* Initialize records a container without a process.
LEMMA InitializeMounts ==
  ASSUME NEW p \in Procs, Acting(p), NEW l \in {"exit", "exec.open"},
         Initialize(p, To(l), Err("delete.open"))
  PROVE  Mounted' /\ MountOf(p)'
  <1>0. /\ TypeOK /\ cur[p] \in Ids /\ Mounted /\ dir \in [Ids -> StateDirs] /\ "fs" \notin Faults
        /\ loc \in [Procs -> States]
    BY DEF Acting, BaseInv, TypeInv, Control, TypeOK, OnlyCrashes
  <1>v. Valid(ZeroState) /\ Unreadable.state = ZeroState
    BY DEF Valid, StateValid, Unreadable, ZeroState
  <1>1. CASE pc[p] = "init.mkdir"
    <2>1. /\ dir' = [dir EXCEPT ![cur[p]] = IF @ = NoDir THEN Unreadable ELSE @]
          /\ Go(p, To("init.truncate")) /\ loc' = [loc EXCEPT ![p] = ZeroState]
          /\ UNCHANGED <<cs, mnt, cur>>
      BY <1>0, <1>1 DEF Initialize, TruncateState, FillState
    <2>2. NotMounted(cur[p])
      BY <1>1 DEF Acting, MountOf, Unmounted
    <2>3. pc'[p] = "init.truncate" /\ loc'[p] = ZeroState /\ NotMounted(cur[p])'
      BY <1>0, <2>1, <2>2, Goes DEF NotMounted
    <2>4. PICK v : dir' = [dir EXCEPT ![cur[p]] = v] /\ (v = Unreadable \/ v = dir[cur[p]])
      BY <2>1
    <2>5. Valid(v.state)
      BY <1>0, <1>v, <2>4 DEF Mounted
    <2>6. Mounted'
      BY <1>0, <2>1, <2>2, <2>4, <2>5, MountedDir
    <2>7. Valid(loc[p])'
      BY <1>v, <2>3 DEF Valid, StateValid
    <2> QED
      BY <2>3, <2>6, <2>7 DEF MountOf, WriteSteps, Records, Mounting
  <1>2. CASE TruncateState(p, "init.truncate", "init.write", Err("delete.open"))
    <2>0. pc[p] = "init.truncate" /\ "init.truncate" \in Unmounted
      BY <1>2 DEF TruncateState, Unmounted
    <2>1. /\ Mounted' /\ NotMounted(cur[p])' /\ UNCHANGED <<cs, cur, loc, pid>>
          /\ \/ Go(p, Err("delete.open"))
             \/ Go(p, To("init.write")) /\ dir'[cur[p]] = Unreadable
      BY <1>2, <2>0, TruncateMounts
    <2>2. CASE Go(p, Err("delete.open"))
      BY <1>0, <2>1, <2>2, Goes, MountOfUnmounted
    <2>3. CASE Go(p, To("init.write")) /\ dir'[cur[p]] = Unreadable
      <3>1. pc'[p] = "init.write"
        BY <1>0, <2>3, Goes
      <3>2. Valid(loc[p])
        BY <2>0 DEF Acting, MountOf, UsesCopy
      <3>3. Valid(loc[p])'
        BY <2>1, <3>2 DEF Valid, StateValid
      <3> QED
        BY <2>1, <2>3, <3>1, <3>3 DEF MountOf, WriteSteps, Records, Mounting
    <2> QED
      BY <2>1, <2>2, <2>3
  <1>3. CASE FillState(p, "init.write", To(l), Err("delete.open"))
    <2>1. Mounted' /\ NotMounted(cur[p])' /\ Go(p, To(l))
      BY <1>3, FillMounts
    <2> QED
      BY <1>0, <2>1, Goes, MountOfEnds, MountOfUnmounted
  <1> QED
    BY <1>1, <1>2, <1>3 DEF Initialize

\* A process is started in a running container, before its volume is mounted.
LEMMA ExecMounts ==
  ASSUME NEW p \in Procs, Acting(p), NEW pipes,
         Exec(p, pipes, To("succ.load"), Err("fail.load"), Err("exit"))
  PROVE  Mounted' /\ MountOf(p)'
  <1>0. TypeOK /\ Mounted
    BY DEF Acting, BaseInv, TypeInv
  <1>h. UNCHANGED <<cs, dir, mnt, cur>>
    BY DEF Exec, Skip
  <1>1. Mounted'
    BY <1>0, <1>h, MountedStays
  <1>2. NotMounted(cur[p])'
    <2>1. NotMounted(cur[p])
      BY DEF Acting, MountOf, Unmounted, Exec
    <2> QED
      BY <1>h, <2>1 DEF NotMounted
  <1>3. CASE Go(p, To("succ.load")) /\ cs[cur[p]] = "running"
    <2>1. pc'[p] = "succ.load" /\ cs'[cur'[p]] # "none"
      BY <1>0, <1>3, <1>h, Goes
    <2> QED
      BY <1>1, <1>2, <2>1 DEF MountOf, WriteSteps, Mounting, UsesCopy
  <1>4. CASE Go(p, To("exec.create")) \/ Go(p, Err("exit")) \/ Go(p, Err("fail.load"))
    BY <1>0, <1>1, <1>2, <1>4, Goes, MountOfEnds, MountOfUnmounted
  <1> QED
    BY <1>3, <1>4 DEF Exec, Skip

\* SetFailure writes the record while the volume is not mounted.
LEMMA SetFailureMounts ==
  ASSUME NEW p \in Procs, Acting(p), SetFailure(p, Err("exit"))
  PROVE  Mounted' /\ MountOf(p)'
  <1>0. TypeOK /\ Mounted /\ loc \in [Procs -> States]
    BY DEF Acting, BaseInv, TypeInv, TypeOK
  <1>1. CASE pc[p] = "fail.load"
    <2>1. /\ UNCHANGED <<cs, dir, mnt, cur>>
          /\ \/ Go(p, Err("exit"))
             \/ /\ Go(p, To("fail.truncate"))
                /\ loc' = [loc EXCEPT ![p] = [ZeroState EXCEPT !.failed = TRUE]]
      BY <1>1 DEF SetFailure, TruncateState, FillState, hostVars
    <2>2. Mounted'
      BY <1>0, <2>1, MountedStays
    <2>3. NotMounted(cur[p])'
      <3>1. NotMounted(cur[p])
        BY <1>1 DEF Acting, MountOf, Unmounted
      <3> QED
        BY <2>1, <3>1 DEF NotMounted
    <2>4. CASE /\ Go(p, To("fail.truncate"))
               /\ loc' = [loc EXCEPT ![p] = [ZeroState EXCEPT !.failed = TRUE]]
      <3>1. loc'[p].failed = TRUE
        BY <1>0, <2>4 DEF ZeroState
      <3>2. Valid(loc[p])' /\ pc'[p] = "fail.truncate"
        BY <1>0, <2>4, <3>1, Goes DEF Valid
      <3> QED
        BY <2>2, <2>3, <3>2 DEF MountOf, WriteSteps, Records, Mounting
    <2> QED
      BY <1>0, <2>1, <2>2, <2>4, Goes, MountOfEnds
  <1>2. CASE TruncateState(p, "fail.truncate", "fail.write", Err("exit"))
    <2>0. pc[p] = "fail.truncate" /\ "fail.truncate" \in Unmounted
      BY <1>2 DEF TruncateState, Unmounted
    <2>1. /\ Mounted' /\ NotMounted(cur[p])' /\ UNCHANGED <<cs, cur, loc, pid>>
          /\ \/ Go(p, Err("exit"))
             \/ Go(p, To("fail.write")) /\ dir'[cur[p]] = Unreadable
      BY <1>2, <2>0, TruncateMounts
    <2>2. CASE Go(p, To("fail.write")) /\ dir'[cur[p]] = Unreadable
      <3>1. pc'[p] = "fail.write"
        BY <1>0, <2>2, Goes
      <3>2. Valid(loc[p])
        BY <2>0 DEF Acting, MountOf, UsesCopy
      <3>3. Valid(loc[p])'
        BY <2>1, <3>2 DEF Valid, StateValid
      <3> QED
        BY <2>1, <2>2, <3>1, <3>3 DEF MountOf, WriteSteps, Records, Mounting
    <2> QED
      BY <1>0, <2>1, <2>2, Goes, MountOfEnds
  <1>3. CASE FillState(p, "fail.write", Err("exit"), Err("exit"))
    <2>1. Mounted' /\ Go(p, Err("exit"))
      BY <1>3, FillMounts
    <2> QED
      BY <1>0, <2>1, Goes, MountOfEnds
  <1> QED
    BY <1>1, <1>2, <1>3 DEF SetFailure

\* SetSuccess records the process before its volume is mounted.
LEMMA SetSuccessMounts ==
  ASSUME NEW p \in Procs, Acting(p), SetSuccess(p, To("mount.stat"), Err("exit"))
  PROVE  Mounted' /\ MountOf(p)'
  <1>0. /\ TypeOK /\ Mounted /\ loc \in [Procs -> States] /\ cur[p] \in Ids /\ NoPid \notin Pids
        /\ pc[p] \in Started => pid[p] \in Pids
    BY HostAssumption DEF Acting, BaseInv, TypeInv, TypeOK, Control
  <1>1. /\ pc[p] \in Records /\ pc[p] \in Unmounted /\ pid[p] \in Pids
    BY <1>0 DEF SetSuccess, TruncateState, FillState, Records, Unmounted, Started
  <1>2. NotMounted(cur[p]) /\ cs[cur[p]] # "none"
    BY <1>1 DEF Acting, MountOf
  <1>3. CASE pc[p] = "succ.load"
    <2>1. /\ UNCHANGED <<cs, dir, mnt, cur, pid>>
          /\ \/ Go(p, Err("exit"))
             \/ /\ Go(p, To("succ.open"))
                /\ loc' = [loc EXCEPT ![p] = [dir[cur[p]].state EXCEPT !.pid = pid[p]]]
      BY <1>3 DEF SetSuccess, TruncateState, FillState, hostVars
    <2>2. Mounted' /\ NotMounted(cur[p])' /\ cs'[cur'[p]] # "none"
      BY <1>0, <1>2, <2>1, MountedStays DEF NotMounted
    <2>3. CASE /\ Go(p, To("succ.open"))
               /\ loc' = [loc EXCEPT ![p] = [dir[cur[p]].state EXCEPT !.pid = pid[p]]]
      <3>0. dir[cur[p]].state \in States
        BY <1>0 DEF TypeOK, StateDirs
      <3>1. loc'[p].pid = pid'[p]
        BY <1>0, <2>1, <2>3, <3>0 DEF States
      <3>2. pc'[p] = "succ.open"
        BY <1>0, <2>3, Goes
      <3> QED
        BY <2>2, <3>1, <3>2 DEF MountOf, WriteSteps, Mounting
    <2> QED
      BY <1>0, <2>1, <2>2, <2>3, Goes, MountOfEnds
  <1>4. CASE pc[p] = "succ.open"
    <2>1. /\ UNCHANGED <<cs, dir, mnt, cur, pid>>
          /\ \/ /\ win[pid[p]].st # "free"
                /\ loc' = [loc EXCEPT ![p].start = win[pid[p]].start]
                /\ Go(p, To("succ.truncate"))
             \/ /\ loc' = [loc EXCEPT ![p].failed = TRUE]
                /\ Go(p, Err("bad.truncate"))
      BY <1>4 DEF SetSuccess, TruncateState, FillState, hostVars
    <2>2. Mounted' /\ NotMounted(cur[p])' /\ cs'[cur'[p]] # "none"
      BY <1>0, <1>2, <2>1, MountedStays DEF NotMounted
    <2>3. loc[p].pid = pid[p] /\ loc[p] \in States
      BY <1>0, <1>4 DEF Acting, MountOf, Records
    <2>4. CASE /\ win[pid[p]].st # "free"
               /\ loc' = [loc EXCEPT ![p].start = win[pid[p]].start]
               /\ Go(p, To("succ.truncate"))
      <3>1. loc'[p].pid = pid[p] /\ loc'[p].start = win[pid[p]].start
        BY <1>0, <2>3, <2>4 DEF States
      <3>2. 0 < win[pid[p]].start
        BY <1>1, <2>4 DEF Acting, BaseInv, StartsPast
      <3>3. win[pid[p]].start # 0
        BY <3>2
      <3>4. Valid(loc[p])'
        BY <1>0, <1>1, <3>1, <3>3 DEF Valid, StateValid
      <3>5. pc'[p] = "succ.truncate"
        BY <1>0, <2>4, Goes
      <3> QED
        BY <2>1, <2>2, <3>1, <3>4, <3>5 DEF MountOf, WriteSteps, Mounting
    <2>5. CASE loc' = [loc EXCEPT ![p].failed = TRUE] /\ Go(p, Err("bad.truncate"))
      <3>1. loc'[p].pid = pid[p] /\ loc'[p].failed = TRUE
        BY <1>0, <2>3, <2>5 DEF States
      <3>2. Valid(loc[p])'
        BY <3>1 DEF Valid
      <3>3. pc'[p] = "bad.truncate"
        BY <1>0, <2>5, Goes
      <3> QED
        BY <2>1, <2>2, <3>1, <3>2, <3>3 DEF MountOf, WriteSteps, Mounting
    <2> QED
      BY <2>1, <2>4, <2>5
  <1>5. ASSUME NEW here, NEW next,
               \/ here = "succ.truncate" /\ next = "succ.write"
               \/ here = "bad.truncate" /\ next = "bad.write",
               TruncateState(p, here, next, Err("exit"))
        PROVE  Mounted' /\ MountOf(p)'
    <2>0. /\ pc[p] = here /\ here \in Unmounted /\ here \in Records \ {"succ.load"}
          /\ here \in UsesCopy \ {"succ.open", "state.probe"}
      BY <1>5 DEF TruncateState, Unmounted, Records, UsesCopy
    <2>1. /\ Mounted' /\ NotMounted(cur[p])' /\ UNCHANGED <<cs, cur, loc, pid>>
          /\ \/ Go(p, Err("exit"))
             \/ Go(p, To(next)) /\ dir'[cur[p]] = Unreadable
      BY <1>5, <2>0, TruncateMounts
    <2>2. CASE Go(p, To(next)) /\ dir'[cur[p]] = Unreadable
      <3>1. pc'[p] = next
        BY <1>0, <2>2, Goes
      <3>2. Valid(loc[p]) /\ loc[p].pid = pid[p]
        BY <2>0 DEF Acting, MountOf
      <3>3. Valid(loc[p])'
        BY <2>1, <3>2 DEF Valid, StateValid
      <3> QED
        BY <1>2, <1>5, <2>1, <2>2, <3>1, <3>2, <3>3 DEF MountOf, WriteSteps, Mounting
    <2> QED
      BY <1>0, <2>1, <2>2, Goes, MountOfEnds
  <1>6. CASE FillState(p, "succ.write", To("mount.stat"), Err("exit"))
    <2>1. /\ Mounted' /\ NotMounted(cur[p])' /\ UNCHANGED <<cs, cur, loc, pid>>
          /\ Go(p, To("mount.stat")) /\ dir'[cur[p]] = StateFile(loc[p])
      BY <1>6, FillMounts
    <2>2. loc[p].pid = pid[p]
      BY <1>6 DEF Acting, MountOf, Records, FillState
    <2>3. pc'[p] = "mount.stat" /\ dir'[cur[p]].kind = "state" /\ dir'[cur[p]].state.pid = pid[p]
      BY <1>0, <2>1, <2>2, Goes DEF StateFile
    <2> QED
      BY <1>2, <2>1, <2>3 DEF MountOf, WriteSteps, Records, UsesCopy
  <1>7. CASE FillState(p, "bad.write", Err("exit"), Err("exit"))
    <2>1. Mounted' /\ Go(p, Err("exit"))
      BY <1>7, FillMounts
    <2> QED
      BY <1>0, <2>1, Goes, MountOfEnds
  <1> QED
    BY <1>3, <1>4, <1>5, <1>6, <1>7 DEF SetSuccess

\* Mount mounts the volume for the process that is recorded.
LEMMA MountMounts ==
  ASSUME NEW p \in Procs, Acting(p), Mount(p, To("pidfile"), Err("exit"))
  PROVE  Mounted' /\ MountOf(p)'
  <1>0. /\ TypeOK /\ Mounted /\ cur[p] \in Ids /\ mnt \in [Pids -> MountPoints]
        /\ pc[p] \in Started => pid[p] \in Pids
    BY DEF Acting, BaseInv, TypeInv, TypeOK, Control
  <1>1. pc[p] \in Mounting /\ pc[p] \in Unmounted /\ pid[p] \in Pids
    BY <1>0 DEF Mount, Mounting, Unmounted, Started
  <1>2. /\ NotMounted(cur[p]) /\ cs[cur[p]] # "none"
        /\ dir[cur[p]].kind = "state" /\ dir[cur[p]].state.pid = pid[p]
    BY <1>1 DEF Acting, MountOf
  <1>h. UNCHANGED <<cs, dir, cur, loc, pid>>
    BY DEF Mount, Skip
  <1>3. CASE pc[p] \in {"mount.stat", "mount.mkdir"}
    <2>1. pc'[p] \in {"mount.mkdir", "mount.set", "exit"}
      BY <1>0, <1>3, Goes DEF Mount, Skip
    <2>2. ASSUME NEW q \in Pids PROVE mnt'[q].vol = mnt[q].vol
      <3>1. mnt[q] \in [dir : BOOLEAN, vol : Ids \cup {NoId}]
        BY <1>0 DEF MountPoints
      <3> QED
        BY <1>0, <1>1, <1>3, <3>1 DEF Mount, Skip
    <2>3. Mounted' /\ NotMounted(cur[p])'
      BY <1>0, <1>2, <1>h, <2>2, MountedLess DEF NotMounted
    <2>4. CASE pc'[p] \in {"mount.mkdir", "mount.set"}
      BY <1>2, <1>h, <2>3, <2>4 DEF MountOf, WriteSteps, Records, UsesCopy
    <2> QED
      BY <2>1, <2>3, <2>4, MountOfEnds
  <1>4. CASE pc[p] = "mount.set"
    <2>1. pc'[p] \in {"pidfile", "exit"}
      BY <1>0, <1>4, Goes DEF Mount
    <2>2. CASE mnt' = mnt
      BY <1>0, <1>h, <2>1, <2>2, MountOfEnds, MountedStays
    <2>3. CASE mnt' = [mnt EXCEPT ![pid[p]].vol = cur[p]]
      <3>1. mnt[pid[p]] \in [dir : BOOLEAN, vol : Ids \cup {NoId}]
        BY <1>0, <1>1 DEF MountPoints
      <3>2. mnt'[pid[p]].vol = cur[p] /\ \A r \in Pids : r # pid[p] => mnt'[r] = mnt[r]
        BY <1>0, <1>1, <2>3, <3>1
      <3>3. Mounted'
        BY <1>0, <1>1, <1>2, <1>h, <3>2, MountedMore
      <3> QED
        BY <2>1, <3>3, MountOfEnds
    <2> QED
      BY <1>4, <2>2, <2>3 DEF Mount
  <1> QED
    BY <1>1, <1>3, <1>4 DEF Mounting

\* State, as delete and run call it: an error leaves the volume behind only where no
\* record names a process.
LEMMA LooksMounts ==
  ASSUME NEW p \in Procs, Acting(p), NEW l \in {"exit", "next"}, NEW k \in {To(l), Err(l)},
         State(p, To("unmount"), k, Err("rmstate"))
  PROVE  Mounted' /\ MountOf(p)'
  <1>0. /\ TypeOK /\ Mounted /\ MountsAreRecorded /\ cur[p] \in Ids /\ loc \in [Procs -> States]
        /\ Faults \cap {"hcs", "fs", "win"} = {}
        /\ dir[cur[p]] \in [kind : {"none", "bare", "state"}, state : States]
    BY DEF Acting, BaseInv, TypeInv, TypeOK, Control, OnlyCrashes, Mounted, StateDirs
  <1>h. UNCHANGED <<cs, dir, mnt, cur>>
    BY DEF State, hostVars
  <1>m. Mounted'
    BY <1>0, <1>h, MountedStays
  <1>1. CASE pc[p] = "state.props"
    <2>1. pc'[p] \in {"state.load", l}
      BY <1>0, <1>1, Goes DEF State
    <2> QED
      BY <1>m, <2>1, MountOfEnds
  <1>2. CASE pc[p] = "state.load" /\ ~Loads(p)
    <2>1. pc'[p] = "rmstate"
      BY <1>0, <1>2, Goes DEF State
    <2>2. NotMounted(cur[p])
      BY <1>0, <1>2, UnrecordedIsNotMounted DEF Loads
    <2>3. NotMounted(cur[p])'
      BY <1>h, <2>2 DEF NotMounted
    <2> QED
      BY <1>m, <2>1, <2>3, MountOfUnmounted
  <1>3. CASE pc[p] = "state.load" /\ Loads(p)
    <2>1. /\ loc' = [loc EXCEPT ![p] = dir[cur[p]].state]
          /\ Go(p, To("unmount")) \/ Go(p, To("state.probe"))
      BY <1>0, <1>3 DEF State, LoadFails
    <2>2. pc'[p] \in {"unmount", "state.probe"} /\ loc'[p] = dir[cur[p]].state
      BY <1>0, <2>1, Goes
    <2>3. dir[cur[p]] = [kind |-> "state", state |-> loc'[p]]
      BY <1>0, <1>3, <2>2 DEF Loads
    <2>4. dir'[cur'[p]] = StateFile(loc'[p])
      BY <1>h, <2>3 DEF StateFile
    <2> QED
      BY <1>m, <2>2, <2>4 DEF MountOf, WriteSteps, Unmounted, Records, Mounting, UsesCopy
  <1>4. CASE pc[p] = "state.probe"
    <2>1. dir[cur[p]] = StateFile(loc[p])
      BY <1>4 DEF Acting, MountOf
    <2>2. Valid(loc[p])
      BY <1>0, <2>1 DEF Mounted, StateFile
    <2>3. Go(p, To("unmount")) /\ loc' = loc
      BY <1>0, <1>4, <2>2 DEF State, Valid
    <2>4. pc'[p] = "unmount"
      BY <1>0, <2>3, Goes
    <2> QED
      BY <1>m, <1>h, <2>1, <2>3, <2>4 DEF MountOf, WriteSteps, Unmounted, Records, Mounting, UsesCopy
  <1> QED
    BY <1>1, <1>2, <1>3, <1>4 DEF State

\* State, as start calls it
LEMMA ChecksMounts ==
  ASSUME NEW p \in Procs, Acting(p), State(p, To("start.check"), Err("exit"), Err("exit"))
  PROVE  Mounted' /\ MountOf(p)'
  <1>0. /\ TypeOK /\ Mounted /\ cur[p] \in Ids /\ loc \in [Procs -> States]
        /\ dir[cur[p]] \in [kind : {"none", "bare", "state"}, state : States]
    BY DEF Acting, BaseInv, TypeInv, TypeOK, Control, StateDirs
  <1>h. UNCHANGED <<cs, dir, mnt, cur>>
    BY DEF State, hostVars
  <1>m. Mounted'
    BY <1>0, <1>h, MountedStays
  <1>1. CASE pc[p] \in {"state.props", "state.probe"}
    <2>1. pc'[p] \in {"state.load", "start.check", "exit"}
      BY <1>0, <1>1, Goes DEF State
    <2> QED
      BY <1>m, <2>1, MountOfEnds
  <1>2. CASE pc[p] = "state.load"
    <2>1. \/ Go(p, Err("exit")) \/ Go(p, To("start.check"))
          \/ Go(p, To("state.probe")) /\ Loads(p) /\ loc' = [loc EXCEPT ![p] = dir[cur[p]].state]
      BY <1>2 DEF State
    <2>2. CASE Go(p, To("state.probe")) /\ Loads(p) /\ loc' = [loc EXCEPT ![p] = dir[cur[p]].state]
      <3>1. pc'[p] = "state.probe" /\ loc'[p] = dir[cur[p]].state
        BY <1>0, <2>2, Goes
      <3>2. dir[cur[p]] = [kind |-> "state", state |-> loc'[p]]
        BY <1>0, <2>2, <3>1 DEF Loads
      <3>3. dir'[cur'[p]] = StateFile(loc'[p])
        BY <1>h, <3>2 DEF StateFile
      <3> QED
        BY <1>m, <3>1, <3>3 DEF MountOf, WriteSteps, Unmounted, Records, Mounting, UsesCopy
    <2> QED
      BY <1>0, <1>m, <2>1, <2>2, Goes, MountOfEnds
  <1> QED
    BY <1>1, <1>2 DEF State

\* Unmount unmounts the volume: it can be mounted only where state.json says.
LEMMA UnmountMounts ==
  ASSUME NEW p \in Procs, Acting(p),
         \/ pc[p] = "unmount" /\ loc[p].pid = NoPid /\ Skip(p, To("rmstate"))
         \/ Unmount(p, To("rmstate"), Err("rmstate"))
  PROVE  Mounted' /\ MountOf(p)'
  <1>0. /\ TypeOK /\ Mounted /\ MountsAreRecorded /\ cur[p] \in Ids
        /\ mnt \in [Pids -> [dir : BOOLEAN, vol : Ids \cup {NoId}]]
        /\ NoId \notin Ids /\ NoPid \notin Pids /\ loc[p].pid \in Pids \cup {NoPid}
        /\ pc[p] = "unmount.rm" => loc[p].pid # NoPid
        /\ Faults \cap {"mount", "fs"} = {}
    <2>1. loc[p] \in States
      BY DEF Acting, BaseInv, TypeInv, TypeOK
    <2>2. loc[p].pid \in Pids \cup {NoPid}
      BY <2>1 DEF States
    <2> QED
      BY <2>2, HostAssumption DEF Acting, BaseInv, TypeInv, TypeOK, Control, MountPoints, OnlyCrashes,
                                  Mounted
  <1>h. UNCHANGED <<cs, dir, cur, loc>>
    BY DEF Unmount, Skip
  <1>1. dir[cur[p]] = StateFile(loc[p])
    BY DEF Acting, MountOf, Unmount
  <1>2. \A q \in Pids : q # loc[p].pid => mnt[q].vol # cur[p]
    BY <1>0, <1>1 DEF MountsAreRecorded, StateFile
  <1>3. CASE pc[p] = "unmount" /\ loc[p].pid = NoPid
    <2>1. mnt' = mnt /\ Go(p, To("rmstate"))
      BY <1>0, <1>3 DEF Unmount, Skip
    <2>2. Mounted'
      BY <1>0, <1>h, <2>1, MountedStays
    <2>3. NotMounted(cur[p])'
      BY <1>0, <1>2, <1>3, <1>h, <2>1 DEF NotMounted
    <2> QED
      BY <1>0, <2>1, <2>2, <2>3, Goes, MountOfUnmounted
  <1>4. CASE loc[p].pid # NoPid
    <2>1. /\ \/ mnt' = [mnt EXCEPT ![loc[p].pid].vol = NoId]
             \/ mnt' = [mnt EXCEPT ![loc[p].pid] = NoMount]
          /\ Go(p, To("unmount.rm")) \/ Go(p, To("rmstate")) \/ Go(p, Err("rmstate"))
      BY <1>0, <1>4 DEF Unmount
    <2>2. loc[p].pid \in Pids /\ NoMount.vol = NoId
      BY <1>0, <1>4 DEF NoMount
    <2>3. mnt'[loc[p].pid].vol = NoId /\ \A q \in Pids : q # loc[p].pid => mnt'[q] = mnt[q]
      BY <1>0, <2>1, <2>2
    <2>4. Mounted'
      BY <1>0, <1>h, <2>3, MountedLess
    <2>5. NotMounted(cur[p])'
      BY <1>0, <1>2, <1>h, <2>3 DEF NotMounted
    <2>6. pc'[p] \in {"unmount.rm", "rmstate"}
      BY <1>0, <2>1, Goes
    <2>7. CASE pc'[p] = "unmount.rm"
      BY <1>1, <1>h, <2>4, <2>5, <2>7 DEF MountOf, WriteSteps, Records, Mounting, UsesCopy
    <2> QED
      BY <2>4, <2>5, <2>6, <2>7, MountOfUnmounted
  <1> QED
    BY <1>0, <1>3, <1>4 DEF Unmount

\* The state directory is removed while the volume is not mounted.
LEMMA DeleteStateMounts ==
  ASSUME NEW p \in Procs, Acting(p), DeleteState(p, To("delete.open"), Err("delete.open"))
  PROVE  Mounted' /\ MountOf(p)'
  <1>0. TypeOK /\ Mounted /\ cur[p] \in Ids
    BY DEF Acting, BaseInv, TypeInv, TypeOK, Control
  <1>1. NotMounted(cur[p])
    BY DEF Acting, MountOf, Unmounted, DeleteState
  <1>2. /\ UNCHANGED <<cs, mnt, cur>> /\ pc'[p] = "delete.open"
        /\ dir' = dir \/ dir' = [dir EXCEPT ![cur[p]] = NoDir]
    BY <1>0, Goes DEF DeleteState
  <1>3. Valid(NoDir.state)
    BY DEF Valid, StateValid, NoDir, ZeroState
  <1>4. Mounted'
    BY <1>0, <1>1, <1>2, <1>3, MountedDir, MountedStays
  <1>5. NotMounted(cur[p])'
    BY <1>1, <1>2 DEF NotMounted
  <1> QED
    BY <1>2, <1>4, <1>5, MountOfUnmounted

\* The container goes while the volume is not mounted.
LEMMA DeleteMounts ==
  ASSUME NEW p \in Procs, Acting(p), NEW l \in {"exit", "next"}, Delete(p, To(l), Err(l))
  PROVE  Mounted' /\ MountOf(p)' /\ NotMounted(cur[p])'
  <1>0. TypeOK /\ Mounted /\ cur[p] \in Ids
    BY DEF Acting, BaseInv, TypeInv, TypeOK, Control
  <1>1. NotMounted(cur[p])
    BY DEF Acting, MountOf, Unmounted, Delete, DestroyContainer
  <1>2. UNCHANGED <<dir, mnt, cur>>
    BY DEF Delete, DestroyContainer, Skip
  <1>3. \/ cs' = cs \/ cs' = [cs EXCEPT ![cur[p]] = "none"]
        \/ cs' = [cs EXCEPT ![cur[p]] = "stopped"]
    BY DEF Delete, DestroyContainer, Skip, Gone
  <1>4. pc'[p] \in {"destroy.props", "shutdown", "terminate", l}
    BY <1>0, Goes DEF Delete, DestroyContainer, Skip
  <1>5. Mounted'
    BY <1>0, <1>1, <1>2, <1>3, MountedCs, MountedStays
  <1>6. NotMounted(cur[p])'
    BY <1>1, <1>2 DEF NotMounted
  <1> QED
    BY <1>4, <1>5, <1>6, MountOfUnmounted, MountOfEnds

\* deleteContainer
LEMMA DeleteContainerMounts ==
  ASSUME NEW p \in Procs, Acting(p), NEW l \in {"exit", "next"}, NEW force,
         DeleteContainer(p, force, To(l), Err(l))
  PROVE  Mounted' /\ MountOf(p)'
  <1>1. CASE State(p, To("unmount"), IF force THEN To(l) ELSE Err(l), Err("rmstate"))
    <2>1. CASE force
      BY <1>1, <2>1, LooksMounts
    <2>2. CASE ~force
      BY <1>1, <2>2, LooksMounts
    <2> QED
      BY <2>1, <2>2
  <1>2. CASE \/ pc[p] = "unmount" /\ loc[p].pid = NoPid /\ Skip(p, To("rmstate"))
             \/ Unmount(p, To("rmstate"), Err("rmstate"))
    BY <1>2, UnmountMounts
  <1>3. CASE DeleteState(p, To("delete.open"), Err("delete.open"))
    BY <1>3, DeleteStateMounts
  <1>4. CASE Delete(p, To(l), Err(l))
    BY <1>4, DeleteMounts
  <1> QED
    BY <1>1, <1>2, <1>3, <1>4 DEF DeleteContainer

\* createContainer
LEMMA CreateContainerMounts ==
  ASSUME NEW p \in Procs, Acting(p), NEW l \in {"exit", "exec.open"}, CreateContainer(p, To(l))
  PROVE  Mounted' /\ MountOf(p)'
  <1>0. TypeOK /\ Mounted
    BY DEF Acting, BaseInv, TypeInv
  <1>1. CASE LoadSpec(p, To("create.props"), Err("exit"))
    <2>1. UNCHANGED <<cs, dir, mnt>> /\ pc'[p] \in {"create.props", "exit"}
      BY <1>0, <1>1, Goes DEF LoadSpec, Skip
    <2> QED
      BY <1>0, <2>1, MountedStays, MountOfEnds
  <1>2. CASE Create(p, To("init.mkdir"), Err("exit"))
    BY <1>2, CreateMounts
  <1>3. CASE Initialize(p, To(l), Err("delete.open"))
    BY <1>3, InitializeMounts
  <1> QED
    BY <1>1, <1>2, <1>3 DEF CreateContainer

\* startProcess
LEMMA StartProcessMounts ==
  ASSUME NEW p \in Procs, Acting(p), NEW detach, StartProcess(p, detach)
  PROVE  Mounted' /\ MountOf(p)'
  <1>1. CASE Exec(p, ~detach, To("succ.load"), Err("fail.load"), Err("exit"))
    <2> DEFINE pipes == ~detach
    <2>1. Exec(p, pipes, To("succ.load"), Err("fail.load"), Err("exit"))
      BY <1>1
    <2> HIDE DEF pipes
    <2> QED
      BY <2>1, ExecMounts
  <1>2. CASE SetFailure(p, Err("exit"))
    BY <1>2, SetFailureMounts
  <1>3. CASE SetSuccess(p, To("mount.stat"), Err("exit"))
    BY <1>3, SetSuccessMounts
  <1>4. CASE Mount(p, To("pidfile"), Err("exit"))
    BY <1>4, MountMounts
  <1> QED
    BY <1>1, <1>2, <1>3, <1>4 DEF StartProcess

\* start mounts nothing in a container that has something mounted.
LEMMA StartCommandMounts ==
  ASSUME NEW p \in Procs, Acting(p), StartInv(p), StartCommand(p)
  PROVE  Mounted' /\ MountOf(p)'
  <1>0. /\ TypeOK /\ Mounted /\ MountsAreRecorded /\ cmd[p].op = "start" /\ cur[p] \in Ids
        /\ NoPid \notin Pids
    BY HostAssumption DEF Acting, BaseInv, TypeInv, Control, StartCommand, Mounted
  <1>1. CASE State(p, To("start.check"), Err("exit"), Err("exit"))
    BY <1>1, ChecksMounts
  <1>2. CASE /\ pc[p] = "start.check"
             /\ Skip(p, IF status[p] = "created" THEN To("spec") ELSE Err("exit"))
    <2>1. /\ UNCHANGED <<cs, dir, mnt, cur>>
          /\ pc'[p] = "exit" \/ (pc'[p] = "spec" /\ status[p] = "created")
      BY <1>0, <1>2, Goes DEF Skip
    <2>2. Mounted'
      BY <1>0, <2>1, MountedStays
    <2>3. CASE pc'[p] = "spec" /\ status[p] = "created"
      <3>1. dir[cur[p]] = StateFile(loc[p]) /\ loc[p].pid = NoPid
        BY <1>0, <1>2, <2>3 DEF StartInv
      <3>2. NotMounted(cur[p])
        BY <1>0, <3>1, UnrecordedIsNotMounted DEF StateFile
      <3>3. NotMounted(cur[p])'
        BY <2>1, <3>2 DEF NotMounted
      <3> QED
        BY <2>2, <2>3, <3>3 DEF MountOf, WriteSteps, Records, Mounting, UsesCopy
    <2> QED
      BY <2>1, <2>2, <2>3, MountOfEnds
  <1>3. CASE LoadSpec(p, To("exec.open"), Err("exit"))
    <2>1. UNCHANGED <<cs, dir, mnt, cur>> /\ pc[p] = "spec" /\ pc'[p] \in {"exec.open", "exit"}
      BY <1>0, <1>3, Goes DEF LoadSpec, Skip
    <2>2. NotMounted(cur[p])
      BY <1>0, <2>1 DEF Acting, MountOf
    <2>3. NotMounted(cur[p])'
      BY <2>1, <2>2 DEF NotMounted
    <2> QED
      BY <1>0, <2>1, <2>3, MountedStays, MountOfEnds, MountOfUnmounted
  <1>4. CASE StartProcess(p, FALSE)
    BY <1>4, StartProcessMounts
  <1>5. CASE WritePIDFile(p, To("exit"), Err("exit"))
    <2>1. UNCHANGED <<cs, dir, mnt>> /\ pc'[p] = "exit"
      BY <1>0, <1>5, Goes DEF WritePIDFile, Skip
    <2> QED
      BY <1>0, <2>1, MountedStays, MountOfEnds
  <1> QED
    BY <1>1, <1>2, <1>3, <1>4, <1>5 DEF StartCommand

\* Every step of a command keeps mounted volumes recorded.
LEMMA MountStep ==
  ASSUME NEW p \in Procs, BaseInv, Mounted, MountOf(p), StartInv(p), OnlyCrashes,
         pc[p] # "idle", Step(p), StepOf(p), cmd'[p] = cmd[p]
  PROVE  Mounted' /\ MountOf(p)'
  <1>0. TypeInv /\ TypeOK
    BY DEF BaseInv, TypeInv
  <1>1. CASE cmd[p].op \notin Writers
    <2>1. /\ \A c \in Ids : dir'[c] = dir[c] /\ cs'[c] = cs[c]
          /\ \A q \in Pids : mnt'[q].vol \in {mnt[q].vol, NoId}
      BY <1>0, <1>1, StepEffect
    <2>2. dir' = dir /\ cs' = cs
      <3>1. TypeOK'
        BY <1>0, StepFrame
      <3> QED
        BY <1>0, <2>1, <3>1 DEF TypeOK
    <2>3. Mounted'
      BY <2>1, <2>2, MountedLess
    <2> QED
      BY <1>1, <2>3 DEF MountOf
  <1>2. CASE Acting(p)
    <2>1. CASE CreateCommand(p)
      BY <1>2, <2>1, CreateContainerMounts, DeleteMounts DEF CreateCommand
    <2>2. CASE RunCommand(p)
      <3>1. CASE WritePIDFile(p, To(IF cmd[p].flag THEN "exit" ELSE "attach"), Err("exit"))
        <4>1. UNCHANGED <<cs, dir, mnt>> /\ pc'[p] \in {"exit", "attach"}
          BY <1>0, <3>1, Goes DEF WritePIDFile, Skip
        <4> QED
          BY <4>1, MountedStays, MountOfEnds
      <3>2. CASE AttachIO(p, To("state.props"), Err("state.props"))
        <4>1. UNCHANGED <<cs, dir, mnt>> /\ pc'[p] = "state.props"
          BY <1>0, <3>2, Goes DEF AttachIO, Skip
        <4> QED
          BY <4>1, MountedStays, MountOfEnds
      <3>3. CASE \/ CreateContainer(p, To("exec.open")) \/ StartProcess(p, cmd[p].flag)
                 \/ DeleteContainer(p, FALSE, To("exit"), Err("exit"))
        BY <1>2, <3>3, CreateContainerMounts, StartProcessMounts, DeleteContainerMounts
      <3> QED
        BY <2>2, <3>1, <3>2, <3>3 DEF RunCommand
    <2>3. CASE StartCommand(p)
      BY <1>2, <2>3, StartCommandMounts
    <2>4. CASE DeleteCommand(p)
      <3>1. CASE QuerySidecars(p) \/ NextContainer(p)
        <4>1. UNCHANGED <<cs, dir, mnt>> /\ pc'[p] \in {"next", "exit", "state.props"}
          BY <1>0, <3>1, Goes DEF QuerySidecars, NextContainer, Skip, hostVars
        <4> QED
          BY <4>1, MountedStays, MountOfEnds
      <3>2. CASE DeleteContainer(p, cmd[p].flag, To("next"), Err("next"))
        BY <1>2, <3>2, DeleteContainerMounts
      <3> QED
        BY <2>4, <3>1, <3>2 DEF DeleteCommand
    <2>5. CASE Return(p)
      BY <1>0, <2>5, StepFrame DEF Return, ProcessGone, TypeOK
    <2> QED
      BY <1>2, <2>1, <2>2, <2>3, <2>4, <2>5 DEF Step, ExecCommand, StateCommand, EventsCommand, Acting,
                                               Writers
  <1> QED
    BY <1>1, <1>2 DEF Acting

\* Every step keeps mounted volumes recorded.
LEMMA MountInvStep ==
  ASSUME ExclusiveInv, OnlyCrashes, Mounted, \A p \in Procs : MountOf(p) /\ StartInv(p),
         [Next]_vars
  PROVE  Mounted' /\ \A p \in Procs : MountOf(p)'
  <1>0. TypeInv /\ TypeOK /\ BaseInv
    BY DEF ExclusiveInv, BaseInv, TypeInv
  <1>s. ASSUME NEW p \in Procs, pc[p] # "idle", Step(p), StepOf(p) PROVE Mounted' /\ MountOf(p)'
    BY <1>0, <1>s, StepFrame, MountStep
  <1>1. Mounted'
    <2>1. CASE UNCHANGED <<cs, dir, mnt>>
      BY <2>1, MountedStays
    <2>2. ASSUME NEW p \in Procs, Step(p) PROVE Mounted'
      <3>1. pc[p] # "idle" /\ (StepOf(p) \/ ProcessGone(p))
        BY <1>0, <2>2, StepCases, StepNotIdle
      <3> QED
        BY <1>s, <2>1, <2>2, <3>1 DEF ProcessGone
    <2>3. CASE Environment
      <3>1. dir' = dir /\ mnt' = mnt
        BY <1>0, <2>3, EnvironmentTypes
      <3>2. ASSUME NEW c \in Ids, cs'[c] = "none" PROVE cs[c] = "none"
        BY <1>0, <2>3, <3>2 DEF Environment, ProcessExit, ProcessReaped, HostProcess, ContainerExit,
                                ContainerVanishes, TypeOK, OnlyCrashes
      <3> QED
        BY <3>1, <3>2 DEF Mounted, MountsAreRecorded, NotMounted, Valid, StateValid
    <2>4. ASSUME NEW p \in Procs, Begin(p) \/ Crash(p) PROVE Mounted'
      BY <2>1, <2>4 DEF Begin, Crash, ProcessGone, hostVars
    <2> QED
      BY <2>1, <2>2, <2>3, <2>4 DEF Next, vars
  <1>2. ASSUME NEW p \in Procs PROVE MountOf(p)'
    <2>1. CASE Begin(p)
      <3>1. pc'[p] = FirstStep[cmd'[p].op] /\ cmd'[p] \in Command
        BY <1>0, <2>1, BeginEffect, HostAssumption
      <3>2. cmd'[p].op \in {"create", "run", "start", "exec", "state", "events", "delete"}
        BY <3>1 DEF Command
      <3>3. cmd'[p].op \in Writers =>
               (pc'[p] \in {"query", "state.props"} \/ (pc'[p] = "spec" /\ cmd'[p].op # "start"))
        BY <3>1, <3>2 DEF FirstStep, Writers
      <3> QED
        BY <3>3 DEF MountOf, WriteSteps, Unmounted, Records, Mounting, UsesCopy
    <2>2. CASE ProcessGone(p)
      BY <1>0, <2>2, GoneEffect DEF MountOf, Writers
    <2>3. CASE OthersMove(p)
      BY <2>3, MountOfOthers
    <2> QED
      BY <1>s, <2>1, <2>2, <2>3, MoveCases
  <1> QED
    BY <1>1, <1>2

\* Initially nothing is mounted.
LEMMA MountInvInit == Init => Mounted /\ \A p \in Procs : MountOf(p)
  <1> SUFFICES ASSUME Init PROVE Mounted /\ \A p \in Procs : MountOf(p)
    OBVIOUS
  <1>1. \A q \in Pids : mnt[q].vol = NoId
    BY DEF Init, NoMount
  <1>2. \A c \in Ids : Valid(dir[c].state) /\ NotMounted(c)
    BY <1>1, HostAssumption DEF Init, NoDir, ZeroState, Valid, StateValid, NotMounted
  <1>3. \A p \in Procs : cmd[p].op = "state"
    BY DEF Init, NoCommand
  <1> QED
    BY <1>1, <1>2, <1>3 DEF Mounted, MountsAreRecorded, MountOf, Writers

\* As long as commands on one container do not overlap, winc processes that are killed
\* anywhere do not lose a mounted volume: the state.json of its container names the
\* process id it is mounted for.
THEOREM MountsStayRecorded ==
  ASSUME ~Overlap, OnlyCrashes
  PROVE  Spec => []MountsAreRecorded
  <1> DEFINE Inv == /\ ExclusiveInv /\ Mounted
                    /\ \A p \in Procs : MountOf(p) /\ StartInv(p)
  <1>1. Inv => MountsAreRecorded
    BY DEF Mounted
  <1>2. Inv /\ [Next]_vars => Inv'
    <2> SUFFICES ASSUME Inv, [Next]_vars PROVE Inv'
      OBVIOUS
    <2>1. Mounted' /\ \A p \in Procs : MountOf(p)'
      BY MountInvStep
    <2> QED
      BY <2>1, ExclusiveInvStep, StartInvStep
  <1>3. Init => Inv
    BY ExclusiveInvInit, MountInvInit DEF Init, StartInv, NoCommand
  <1> QED
    BY <1>1, <1>2, <1>3, PTL DEF Spec

\* Once delete is through with the container it names, and has met no error, that
\* container is down and its volume is not mounted.
DeletedInv(p) ==
  /\ cmd[p].op = "delete" /\ pc[p] \in {"next", "exit"} /\ todo[p] = {} /\ errs[p] = {}
  /\ seen[p] \in {"live", "stopped"}
  => Down(cmd[p].id) /\ NotMounted(cmd[p].id)

\* The steps of delete itself keep it.
LEMMA DeletedInvCommand ==
  ASSUME NEW p \in Procs, Acting(p), DeleteInvar(p), DeletedInv(p), DeleteCommand(p),
         cmd'[p] = cmd[p]
  PROVE  DeletedInv(p)'
  <1>0. /\ TypeInv /\ TypeOK /\ cur[p] \in Ids /\ cmd[p].op = "delete"
        /\ todo \in [Procs -> SUBSET Ids]
    BY DEF Acting, BaseInv, TypeInv, TypeOK, Control, DeleteCommand
  <1>1. CASE QuerySidecars(p)
    <2>1. (pc'[p] = "next" /\ todo'[p] # {}) \/ errs'[p] # {}
      BY <1>0, <1>1, Goes DEF QuerySidecars
    <2> QED
      BY <2>1 DEF DeletedInv
  <1>2. CASE NextContainer(p)
    <2>1. /\ pc[p] = "next" /\ UNCHANGED <<cs, mnt, seen>>
          /\ pc'[p] = "state.props" \/ todo' = todo
          /\ errs'[p] = errs[p]
      BY <1>0, <1>2, Goes DEF NextContainer, Skip, hostVars
    <2>2. pc'[p] = "state.props" \/ pc'[p] = "exit"
      BY <1>0, <1>2, Goes DEF NextContainer, Skip
    <2> QED
      BY <2>1, <2>2 DEF DeletedInv, Down, NotMounted
  <1>3. CASE DeleteContainer(p, cmd[p].flag, To("next"), Err("next"))
    <2>1. /\ pc[p] \notin {"next", "query"} /\ UNCHANGED <<cur, todo>>
          /\ errs'[p] # {} \/ pc'[p] # "next" \/ Down(cur[p])'
      BY <1>0, <1>3, ReleasedIsDown
    <2>2. CASE Delete(p, To("next"), Err("next"))
      <3>1. NotMounted(cur[p])'
        BY <2>2, DeleteMounts
      <3>2. /\ pc[p] \in {"delete.open", "destroy.props", "shutdown", "terminate"}
            /\ pc'[p] # "exit"
        BY <1>0, <2>2, Goes DEF Delete, DestroyContainer, Skip
      <3>3. todo'[p] = {} => cur'[p] = cmd'[p].id
        BY <1>0, <2>1, <3>2 DEF DeleteInvar
      <3> QED
        BY <2>1, <3>1, <3>2, <3>3 DEF DeletedInv, Down, NotMounted
    <2>3. CASE \/ pc[p] = "unmount" /\ loc[p].pid = NoPid /\ Skip(p, To("rmstate"))
               \/ Unmount(p, To("rmstate"), Err("rmstate"))
               \/ DeleteState(p, To("delete.open"), Err("delete.open"))
      <3>1. pc'[p] \in {"unmount.rm", "rmstate", "delete.open"}
        BY <1>0, <2>3, Goes DEF Unmount, DeleteState, Skip
      <3> QED
        BY <3>1 DEF DeletedInv
    <2>4. ASSUME NEW k \in {To("next"), Err("next")}, State(p, To("unmount"), k, Err("rmstate"))
          PROVE  DeletedInv(p)'
      <3>1. \/ pc'[p] \in {"state.load", "state.probe", "unmount", "rmstate"}
            \/ seen'[p] = "none"
        BY <1>0, <2>4, Goes DEF State, TypeOK
      <3> QED
        BY <3>1 DEF DeletedInv
    <2>5. CASE State(p, To("unmount"), IF cmd[p].flag THEN To("next") ELSE Err("next"),
                     Err("rmstate"))
      <3>1. CASE cmd[p].flag
        BY <2>4, <2>5, <3>1
      <3>2. CASE ~cmd[p].flag
        BY <2>4, <2>5, <3>2
      <3> QED
        BY <3>1, <3>2
    <2> QED
      BY <1>3, <2>2, <2>3, <2>5 DEF DeleteContainer
  <1> QED
    BY <1>0, <1>1, <1>2, <1>3 DEF DeleteCommand

\* Others leave the container alone that delete has deleted.
LEMMA DeletedInvStep ==
  ASSUME ExclusiveInv, OnlyCrashes, Mounted, [Next]_vars, NEW p \in Procs,
         MountOf(p), DeleteInvar(p), DeletedInv(p)
  PROVE  DeletedInv(p)'
  <1>0. TypeInv /\ TypeOK /\ BaseInv
    BY DEF ExclusiveInv, BaseInv, TypeInv
  <1>1. CASE OthersMove(p)
    <2>1. CASE cmd[p].op = "delete"
      <3>1. Left(cmd[p].id)
        BY <1>1, <2>1, OthersLeave DEF Writers
      <3>2. Down(cmd[p].id) => cs'[cmd[p].id] \in {"none", "stopped"}
        BY <3>1 DEF Left, Down
      <3>3. NotMounted(cmd[p].id) => \A q \in Pids : mnt'[q].vol # cmd[p].id
        BY <3>1 DEF Left, NotMounted
      <3> QED
        BY <1>1, <2>1, <3>2, <3>3 DEF OthersMove, DeletedInv, Down, NotMounted
    <2>2. CASE cmd[p].op # "delete"
      BY <1>1, <2>2 DEF OthersMove, DeletedInv
    <2> QED
      BY <2>1, <2>2
  <1>2. CASE Begin(p)
    BY <1>0, <1>2, BeginEffect DEF DeletedInv
  <1>3. CASE pc[p] # "idle" /\ Step(p) /\ StepOf(p)
    <2>0. cmd'[p] = cmd[p]
      BY <1>0, <1>3, StepFrame
    <2>1. CASE cmd[p].op = "delete"
      <3>0. Acting(p)
        BY <1>0, <1>3, <2>1 DEF Acting, Writers
      <3>1. CASE DeleteCommand(p)
        BY <2>0, <3>0, <3>1, DeletedInvCommand
      <3>2. CASE Return(p)
        BY <1>0, <3>2, GoneEffect DEF Return, DeletedInv
      <3> QED
        BY <1>3, <2>1, <3>1, <3>2 DEF Step, StartCommand, RunCommand, ExecCommand, StateCommand,
                                      EventsCommand, CreateCommand
    <2>2. CASE cmd[p].op # "delete"
      BY <2>0, <2>2 DEF DeletedInv
    <2> QED
      BY <2>1, <2>2
  <1>4. CASE ProcessGone(p)
    BY <1>0, <1>4, GoneEffect DEF DeletedInv
  <1> QED
    BY <1>1, <1>2, <1>3, <1>4, MoveCases

\* As long as commands on one container do not overlap, and whatever winc processes are
\* killed: a delete that reports success on a container that HCS knew has taken it down,
\* removed its state directory and unmounted its volume.
THEOREM DeletedIsGone ==
  ASSUME ~Overlap, OnlyCrashes
  PROVE  Spec => []DeletedMeansGone
  <1> DEFINE Inv == /\ ExclusiveInv /\ Mounted
                    /\ \A p \in Procs : /\ MountOf(p) /\ StartInv(p)
                                        /\ DeleteInvar(p) /\ DeletedInv(p)
  <1>1. Inv => DeletedMeansGone
    <2> SUFFICES ASSUME Inv, NEW p \in Procs, pc[p] = "exit", cmd[p].op = "delete", errs[p] = {},
                        seen[p] \in {"live", "stopped"}
                 PROVE  /\ cs[cmd[p].id] \in {"none", "stopped"}
                        /\ dir[cmd[p].id] = NoDir
                        /\ \A q \in Pids : mnt[q].vol # cmd[p].id
      BY DEF DeletedMeansGone
    <2>1. todo[p] = {} /\ dir[cmd[p].id] = NoDir
      BY DEF DeleteInvar
    <2> QED
      BY <2>1 DEF DeletedInv, Down, NotMounted
  <1>2. Inv /\ [Next]_vars => Inv'
    <2> SUFFICES ASSUME Inv, [Next]_vars PROVE Inv'
      OBVIOUS
    <2>1. Mounted' /\ \A p \in Procs : MountOf(p)'
      BY MountInvStep
    <2>2. ExclusiveInv' /\ \A p \in Procs : StartInv(p)' /\ DeleteInvar(p)'
      BY ExclusiveInvStep, StartInvStep, DeleteInvarStep
    <2>3. \A p \in Procs : DeletedInv(p)'
      BY DeletedInvStep
    <2> QED
      BY <2>1, <2>2, <2>3
  <1>3. Init => Inv
    BY ExclusiveInvInit, MountInvInit DEF Init, StartInv, DeleteInvar, DeletedInv, NoCommand
  <1> QED
    BY <1>1, <1>2, <1>3, PTL DEF Spec

-----------------------------------------------------------------------------
(* What start has done when it reports success                             *)

\* What SetSuccess writes to state.json
Recording(p) == [pid |-> pid[p], start |-> win[pid[p]].start, failed |-> FALSE]

\* winc has a single container to look after.
OneContainer == \A c, d \in Ids : c = d

\* start is past its record, and has met no error.
Recorded(p) ==
  \/ pc[p] \in {"mount.stat", "mount.mkdir", "mount.set", "pidfile"}
  \/ pc[p] = "exit" /\ errs[p] = {}

\* start takes the state.json of a container without a process, adds its own process,
\* writes it back, and mounts the volume.
StartedInv(p) ==
  cmd[p].op = "start" =>
    /\ pc[p] = "succ.load" => ~dir[cur[p]].state.failed
    /\ pc[p] = "succ.open" => loc[p].pid = pid[p] /\ ~loc[p].failed
    /\ pc[p] \in {"succ.truncate", "succ.write"} => loc[p] = Recording(p)
    /\ pc[p] = "succ.write" => dir[cur[p]] = Unreadable
    /\ Recorded(p) => pid[p] \in Pids /\ dir[cur[p]] = StateFile(Recording(p))
    /\ OneContainer /\ Recorded(p) /\ pc[p] \in {"pidfile", "exit"} => mnt[pid[p]].vol = cur[p]

\* start that reports success has recorded its own process in state.json.
StartIsRecorded ==
  \A p \in Procs :
    pc[p] = "exit" /\ cmd[p].op = "start" /\ errs[p] = {} =>
      /\ dir[cmd[p].id] = StateFile(Recording(p))
      /\ win[pid[p]].owner = cmd[p].id

\* The process that start has started keeps its start time while start runs.
LEMMA StaysHeld ==
  ASSUME BaseInv, [Next]_vars, NEW p \in Procs, cmd[p].op = "start", pid[p] \in Pids,
         cmd'[p] = cmd[p], pid'[p] = pid[p]
  PROVE  Recording(p)' = Recording(p)
  <1>0. TypeInv /\ TypeOK
    BY DEF BaseInv, TypeInv
  <1>1. p \in win[pid[p]].held /\ win[pid[p]].st # "free"
    BY HostAssumption DEF BaseInv, HoldsInit
  <1>2. ASSUME NEW S, TableMoves(S), p \notin S PROVE win'[pid[p]].start = win[pid[p]].start
    BY <1>1, <1>2 DEF TableMoves
  <1>3. ASSUME NEW q \in Procs, ProcessGone(q) PROVE TableMoves({q}) /\ q # p
    BY <1>0, <1>3, GoneTable, GoneEffect
  <1>4. ASSUME NEW q \in Procs, Begin(q) PROVE win' = win
    BY <1>4 DEF Begin, hostVars
  <1>5. ASSUME UNCHANGED vars PROVE win' = win
    BY <1>5 DEF vars
  <1>6. win'[pid[p]].start = win[pid[p]].start
    BY <1>0, <1>2, <1>3, <1>4, <1>5, NextCases, StepTable, EnvironmentTable
  <1> QED
    BY <1>6 DEF Recording

\* Nobody unmounts the volume under a start that has mounted it, if winc has a single
\* container.
LEMMA StaysMounted ==
  ASSUME ExclusiveInv, OneContainer, [Next]_vars, NEW p \in Procs, cmd[p].op = "start",
         pc[p] \in {"pidfile", "exit"}
  PROVE  mnt' = mnt
  <1>0. TypeInv /\ TypeOK
    BY DEF ExclusiveInv, BaseInv, TypeInv
  <1>1. ASSUME NEW q \in Procs, pc[q] # "idle", StepOf(q) PROVE mnt' = mnt
    <2>1. CASE cmd[q].op \notin Writers
      BY <1>1, <2>1 DEF StepOf, Writers, Skip, Exec, State, Stats, hostVars
    <2>2. CASE q # p /\ cmd[q].op \in Writers
      <3>1. cur[q] \in Touches(cmd[q]) /\ cur[p] \in Touches(cmd[p])
        BY <1>1, <2>2, WorksOnTouched DEF Writers
      <3>2. cur[q] \in Ids /\ cur[p] \in Ids
        BY <1>0, <1>1 DEF TypeInv, Control
      <3>3. cur[q] = cur[p]
        BY <3>2 DEF OneContainer
      <3> QED
        BY <1>1, <2>2, <3>1, <3>3 DEF ExclusiveInv
    <2>3. CASE q = p
      BY <1>1, <2>3 DEF StepOf, Skip, SetFailure, SetSuccess, TruncateState, FillState, Mount, Exec,
                        State, Stats, hostVars
    <2> QED
      BY <2>1, <2>2, <2>3
  <1>2. ASSUME NEW q \in Procs, Begin(q) \/ ProcessGone(q) PROVE mnt' = mnt
    BY <1>2 DEF Begin, ProcessGone, hostVars
  <1>3. CASE UNCHANGED vars
    BY <1>3 DEF vars
  <1>4. CASE Environment
    BY <1>0, <1>4, EnvironmentTypes
  <1> QED
    BY <1>0, <1>1, <1>2, <1>3, <1>4, NextCases

\* The part of start that writes the record
LEMMA StartedRecords ==
  ASSUME BaseInv, NEW p \in Procs, pc[p] # "idle", StartedInv(p), cmd[p].op = "start",
         cmd'[p] = cmd[p], pid[p] \in Pids => Recording(p)' = Recording(p),
         SetSuccess(p, To("mount.stat"), Err("exit"))
  PROVE  StartedInv(p)'
  <1>0. /\ TypeOK /\ cur[p] \in Ids /\ loc \in [Procs -> States] /\ dir \in [Ids -> StateDirs]
        /\ pc[p] \in Started => pid[p] \in Pids
    BY DEF BaseInv, TypeInv, TypeOK, Control
  <1>1. pid[p] \in Pids /\ Recording(p)' = Recording(p) /\ cur' = cur /\ pid' = pid
    BY <1>0 DEF SetSuccess, TruncateState, FillState, Started
  <1>2. CASE pc[p] = "succ.load"
    <2>1. \/ pc'[p] = "exit" /\ errs'[p] # {}
          \/ /\ pc'[p] = "succ.open"
             /\ loc' = [loc EXCEPT ![p] = [dir[cur[p]].state EXCEPT !.pid = pid[p]]]
      BY <1>0, <1>2, Goes DEF SetSuccess, TruncateState, FillState
    <2>2. dir[cur[p]].state \in States /\ ~dir[cur[p]].state.failed
      BY <1>0, <1>2 DEF StateDirs, StartedInv
    <2>3. CASE loc' = [loc EXCEPT ![p] = [dir[cur[p]].state EXCEPT !.pid = pid[p]]]
      <3>1. loc'[p].pid = pid[p] /\ ~loc'[p].failed
        BY <1>0, <2>2, <2>3 DEF States
      <3> QED
        BY <1>1, <2>1, <3>1 DEF StartedInv, Recorded
    <2> QED
      BY <2>1, <2>3 DEF StartedInv, Recorded
  <1>3. CASE pc[p] = "succ.open"
    <2>1. \/ pc'[p] = "bad.truncate"
          \/ /\ pc'[p] = "succ.truncate"
             /\ loc' = [loc EXCEPT ![p].start = win[pid[p]].start]
      BY <1>0, <1>3, Goes DEF SetSuccess, TruncateState, FillState
    <2>2. CASE loc' = [loc EXCEPT ![p].start = win[pid[p]].start]
      <3>1. loc[p] \in States /\ loc[p].pid = pid[p] /\ loc[p].failed = FALSE
        BY <1>0, <1>3 DEF StartedInv, States
      <3>2. loc'[p] = [loc[p] EXCEPT !.start = win[pid[p]].start]
        BY <1>0, <2>2
      <3>3. loc'[p] = Recording(p)
        BY <3>1, <3>2 DEF States, Recording
      <3> QED
        BY <1>1, <2>1, <3>3 DEF StartedInv, Recorded
    <2> QED
      BY <2>1, <2>2 DEF StartedInv, Recorded
  <1>4. CASE pc[p] = "succ.truncate"
    <2>1. /\ loc' = loc
          /\ \/ pc'[p] = "exit" /\ errs'[p] # {}
             \/ pc'[p] = "succ.write" /\ dir' = [dir EXCEPT ![cur[p]] = Unreadable]
      BY <1>0, <1>4, Goes DEF SetSuccess, TruncateState, FillState
    <2>2. loc[p] = Recording(p)
      BY <1>4 DEF StartedInv
    <2>3. pc'[p] = "succ.write" => dir'[cur[p]] = Unreadable
      BY <1>0, <2>1
    <2> QED
      BY <1>1, <2>1, <2>2, <2>3 DEF StartedInv, Recorded
  <1>5. CASE pc[p] = "succ.write"
    <2>1. loc[p] = Recording(p) /\ ~Loads(p)
      BY <1>5 DEF StartedInv, Loads, Unreadable
    <2>2. \/ pc'[p] = "exit" /\ errs'[p] # {}
          \/ pc'[p] = "mount.stat" /\ dir' = [dir EXCEPT ![cur[p]] = StateFile(loc[p])]
      BY <1>0, <1>5, <2>1, Goes DEF SetSuccess, TruncateState, FillState
    <2>3. pc'[p] = "mount.stat" => dir'[cur[p]] = StateFile(Recording(p))
      BY <1>0, <2>1, <2>2
    <2> QED
      BY <1>1, <2>2, <2>3 DEF StartedInv, Recorded, StateFile
  <1>6. CASE pc[p] \in {"bad.truncate", "bad.write"}
    <2>1. pc'[p] = "bad.write" \/ (pc'[p] = "exit" /\ errs'[p] # {})
      BY <1>0, <1>6, Goes DEF SetSuccess, TruncateState, FillState
    <2> QED
      BY <2>1 DEF StartedInv, Recorded
  <1> QED
    BY <1>2, <1>3, <1>4, <1>5, <1>6 DEF SetSuccess, TruncateState, FillState

\* The part of start that mounts the volume
LEMMA StartedMounts ==
  ASSUME BaseInv, NEW p \in Procs, pc[p] # "idle", StartedInv(p), cmd[p].op = "start",
         cmd'[p] = cmd[p], pid[p] \in Pids => Recording(p)' = Recording(p),
         Mount(p, To("pidfile"), Err("exit"))
  PROVE  StartedInv(p)'
  <1>0. /\ TypeOK /\ cur[p] \in Ids /\ mnt \in [Pids -> MountPoints]
        /\ pc[p] \in Started => pid[p] \in Pids
    BY DEF BaseInv, TypeInv, TypeOK, Control
  <1>1. pid[p] \in Pids /\ Recording(p)' = Recording(p) /\ cur' = cur /\ pid' = pid /\ dir' = dir
    BY <1>0 DEF Mount, Skip, Started
  <1>2. dir[cur[p]] = StateFile(Recording(p))
    BY DEF Mount, StartedInv, Recorded
  <1>3. \/ pc'[p] \in {"mount.mkdir", "mount.set"}
        \/ pc'[p] = "exit" /\ errs'[p] # {}
        \/ pc'[p] = "pidfile" /\ mnt' = [mnt EXCEPT ![pid[p]].vol = cur[p]]
    BY <1>0, Goes DEF Mount, Skip
  <1>4. pc'[p] = "pidfile" => mnt'[pid[p]].vol = cur[p]
    <2>1. mnt[pid[p]] \in [dir : BOOLEAN, vol : Ids \cup {NoId}]
      BY <1>0, <1>1 DEF MountPoints
    <2> QED
      BY <1>0, <1>1, <1>3, <2>1
  <1>5. StateFile(Recording(p))' = StateFile(Recording(p))
    BY <1>1 DEF StateFile
  <1> QED
    BY <1>1, <1>2, <1>3, <1>4, <1>5 DEF StartedInv, Recorded

\* The steps of start itself keep it.
LEMMA StartedInvCommand ==
  ASSUME BaseInv, NEW p \in Procs, pc[p] # "idle", StartInv(p), StartedInv(p), StartCommand(p),
         cmd'[p] = cmd[p], pid'[p] = pid[p] /\ pid[p] \in Pids => Recording(p)' = Recording(p)
  PROVE  StartedInv(p)'
  <1>0. TypeOK /\ cmd[p].op = "start" /\ (pc[p] \in Started => pid[p] \in Pids)
    BY DEF BaseInv, TypeInv, StartCommand, Control
  <1>1. ASSUME \/ pc'[p] \in {"state.load", "state.probe", "start.check", "spec", "exec.open",
                              "exec.create", "fail.load", "fail.truncate", "fail.write"}
               \/ pc'[p] = "exit" /\ errs'[p] # {}
        PROVE  StartedInv(p)'
    BY <1>1 DEF StartedInv, Recorded
  <1>2. CASE State(p, To("start.check"), Err("exit"), Err("exit"))
    <2>1. \/ pc'[p] \in {"state.load", "state.probe", "start.check"}
          \/ pc'[p] = "exit" /\ errs'[p] # {}
      BY <1>0, <1>2, Goes DEF State
    <2> QED
      BY <1>1, <2>1
  <1>3. CASE \/ /\ pc[p] = "start.check"
                /\ Skip(p, IF status[p] = "created" THEN To("spec") ELSE Err("exit"))
             \/ LoadSpec(p, To("exec.open"), Err("exit"))
             \/ SetFailure(p, Err("exit"))
    <2>1. \/ pc'[p] \in {"spec", "exec.open", "fail.truncate", "fail.write"}
          \/ pc'[p] = "exit" /\ errs'[p] # {}
      BY <1>0, <1>3, Goes DEF Skip, LoadSpec, SetFailure, TruncateState, FillState
    <2> QED
      BY <1>1, <2>1
  <1>4. CASE Exec(p, TRUE, To("succ.load"), Err("fail.load"), Err("exit"))
    <2>1. \/ pc'[p] \in {"exec.create", "fail.load"}
          \/ pc'[p] = "exit" /\ errs'[p] # {}
          \/ pc[p] = "exec.create" /\ pc'[p] = "succ.load" /\ dir' = dir /\ cur' = cur
      BY <1>0, <1>4, Goes DEF Exec, Skip
    <2>2. CASE pc[p] = "exec.create" /\ pc'[p] = "succ.load" /\ dir' = dir /\ cur' = cur
      <3>1. ~dir[cur[p]].state.failed
        BY <1>0, <2>2 DEF StartInv, StateFile
      <3> QED
        BY <2>2, <3>1 DEF StartedInv, Recorded
    <2> QED
      BY <1>1, <2>1, <2>2
  <1>5. CASE SetSuccess(p, To("mount.stat"), Err("exit")) \/ Mount(p, To("pidfile"), Err("exit"))
    <2>1. pid' = pid
      BY <1>5 DEF SetSuccess, TruncateState, FillState, Mount, Skip
    <2> QED
      BY <1>0, <1>5, <2>1, StartedRecords, StartedMounts
  <1>6. CASE WritePIDFile(p, To("exit"), Err("exit"))
    <2>1. /\ pc[p] = "pidfile" /\ pc'[p] = "exit" /\ UNCHANGED <<dir, mnt, cur, pid>>
      BY <1>0, <1>6, Goes DEF WritePIDFile, Skip
    <2>2. pid[p] \in Pids /\ Recording(p)' = Recording(p)
      BY <1>0, <2>1 DEF Started
    <2>3. StateFile(Recording(p))' = StateFile(Recording(p))
      BY <2>2 DEF StateFile
    <2> QED
      BY <1>0, <2>1, <2>2, <2>3 DEF StartedInv, Recorded
  <1>7. CASE StartProcess(p, FALSE)
    <2>1. CASE Exec(p, ~FALSE, To("succ.load"), Err("fail.load"), Err("exit"))
      <3>1. (~FALSE) = TRUE
        OBVIOUS
      <3> QED
        BY <1>4, <2>1, <3>1
    <2> QED
      BY <1>3, <1>5, <1>7, <2>1 DEF StartProcess
  <1> QED
    BY <1>2, <1>3, <1>6, <1>7 DEF StartCommand

\* Others leave the record of start alone.
LEMMA StartedInvStep ==
  ASSUME ExclusiveInv, [Next]_vars, NEW p \in Procs, StartInv(p), StartedInv(p)
  PROVE  StartedInv(p)'
  <1>0. TypeInv /\ TypeOK /\ BaseInv
    BY DEF ExclusiveInv, BaseInv, TypeInv
  <1>1. CASE OthersMove(p)
    <2>1. CASE cmd[p].op = "start"
      <3>0. /\ pc'[p] = pc[p] /\ cmd'[p] = cmd[p] /\ cur'[p] = cur[p] /\ loc'[p] = loc[p]
            /\ pid'[p] = pid[p] /\ errs'[p] = errs[p]
        BY <1>1 DEF OthersMove
      <3>1. dir'[cur[p]] = dir[cur[p]]
        BY <1>1, <2>1, OthersLeave DEF Left, Writers
      <3>2. pid[p] \in Pids => Recording(p)' = Recording(p)
        BY <1>0, <2>1, <3>0, StaysHeld
      <3>3. pid[p] \in Pids => StateFile(Recording(p))' = StateFile(Recording(p))
        BY <3>2 DEF StateFile
      <3>4. pc[p] \in {"succ.truncate", "succ.write"} => pid[p] \in Pids
        BY <1>0 DEF TypeInv, Control, Started
      <3>5. OneContainer /\ pc[p] \in {"pidfile", "exit"} => mnt' = mnt
        BY <2>1, StaysMounted
      <3>6. Recorded(p)' <=> Recorded(p)
        BY <3>0 DEF Recorded
      <3>7. (OneContainer)' <=> OneContainer
        BY DEF OneContainer
      <3> QED
        BY <2>1, <3>0, <3>1, <3>2, <3>3, <3>4, <3>5, <3>6, <3>7 DEF StartedInv, Unreadable
    <2>2. CASE cmd[p].op # "start"
      BY <1>1, <2>2 DEF OthersMove, StartedInv
    <2> QED
      BY <2>1, <2>2
  <1>2. CASE Begin(p)
    <2>1. cmd'[p].op = "start" => pc'[p] = "state.props"
      BY <1>0, <1>2, BeginEffect DEF FirstStep
    <2> QED
      BY <2>1 DEF StartedInv, Recorded
  <1>3. CASE pc[p] # "idle" /\ Step(p) /\ StepOf(p)
    <2>0. cmd'[p] = cmd[p]
      BY <1>0, <1>3, StepFrame
    <2>1. CASE cmd[p].op = "start"
      <3>1. CASE StartCommand(p)
        BY <1>0, <1>3, <2>0, <2>1, <3>1, StaysHeld, StartedInvCommand
      <3>2. CASE Return(p)
        BY <1>0, <3>2, GoneEffect DEF Return, StartedInv
      <3> QED
        BY <1>3, <2>1, <3>1, <3>2 DEF Step, CreateCommand, RunCommand, ExecCommand, StateCommand,
                                      EventsCommand, DeleteCommand
    <2>2. CASE cmd[p].op # "start"
      BY <2>0, <2>2 DEF StartedInv
    <2> QED
      BY <2>1, <2>2
  <1>4. CASE ProcessGone(p)
    BY <1>0, <1>4, GoneEffect DEF StartedInv
  <1> QED
    BY <1>1, <1>2, <1>3, <1>4, MoveCases

\* Whatever fails, and wherever winc processes are killed, as long as commands on one
\* container do not overlap: a start that reports success has left in state.json the
\* process it started in the container, with its start time.
THEOREM StartRecords ==
  ASSUME ~Overlap
  PROVE  Spec => []StartIsRecorded
  <1> DEFINE Inv == ExclusiveInv /\ \A p \in Procs : StartInv(p) /\ StartedInv(p)
  <1>1. Inv => StartIsRecorded
    BY HostAssumption DEF ExclusiveInv, BaseInv, OnNamed, HoldsInit, StartedInv, Recorded,
                          StartIsRecorded
  <1>2. Inv /\ [Next]_vars => Inv'
    BY ExclusiveInvStep, StartInvStep, StartedInvStep
  <1>3. Init => Inv
    BY ExclusiveInvInit DEF Init, StartInv, StartedInv, NoCommand
  <1> QED
    BY <1>1, <1>2, <1>3, PTL DEF Spec

\* The same with the mounted volume, for a host with one container.  With two, a delete
\* of the other one may unmount the volume: its state.json may still name the process
\* id that start has got.
THEOREM StartRecordsAndMounts ==
  ASSUME ~Overlap, OneContainer
  PROVE  Spec => []StartedMeansRecorded
  <1> DEFINE Inv == ExclusiveInv /\ \A p \in Procs : StartInv(p) /\ StartedInv(p)
  <1>1. Inv => StartedMeansRecorded
    BY HostAssumption DEF ExclusiveInv, BaseInv, OnNamed, HoldsInit, StartedInv, Recorded, Recording,
                          StartedMeansRecorded
  <1>2. Inv /\ [Next]_vars => Inv'
    BY ExclusiveInvStep, StartInvStep, StartedInvStep
  <1>3. Init => Inv
    BY ExclusiveInvInit DEF Init, StartInv, StartedInv, NoCommand
  <1> QED
    BY <1>1, <1>2, <1>3, PTL DEF Spec

-----------------------------------------------------------------------------
(* The life of a container                                                 *)

\* The record of a container that has been created and not started
Blank == StateFile(ZeroState)

\* A record that State accepts, of a process that was started before now
Dated(c) == dir[c].state.start < clock /\ Valid(dir[c].state)

\* Steps at which the copy of state.json is about to be written
Copies == UsesCopy \ {"state.probe"}

\* What a command that writes state.json knows of it: from the moment that start
\* has found the container created, or that run has created it, until it is
\* rewritten, it says that there is no process yet.
Knows(p) ==
  cmd[p].op \in Writers =>
    /\ pc[p] \in WriteSteps => dir[cur[p]] = Unreadable
    /\ pc[p] \in Starting \ WriteSteps \/ (pc[p] = "spec" /\ cmd[p].op = "start") =>
         dir[cur[p]] = Blank
    /\ pc[p] \in Copies => loc[p].start < clock
    /\ pc[p] \in {"init.truncate", "init.write"} => loc[p] = ZeroState
    /\ pc[p] \in {"fail.truncate", "fail.write", "bad.truncate", "bad.write"} => loc[p].failed
    /\ pc[p] \in {"succ.open", "succ.truncate", "succ.write"} =>
         loc[p].pid \in Pids /\ ~loc[p].failed
    /\ pc[p] \in {"succ.truncate", "succ.write"} => 0 < loc[p].start

LifeInv ==
  /\ ~Overlap /\ ExclusiveInv
  /\ \A c \in Ids : Dated(c)
  /\ \A p \in Procs : StartInv(p) /\ Knows(p)

\* A step of the life of c
Lives(c) == [Life(c)!Next]_(Life(c)!vars)

\* The actions of a life, and stuttering
LEMMA LifeSteps ==
  ASSUME NEW c,
         \/ Life(c)!Create \/ Life(c)!BeginStart \/ Life(c)!Rewrite \/ Life(c)!Record
         \/ Life(c)!GiveUp \/ Life(c)!Stop \/ Life(c)!Vanish \/ Life(c)!BeginDelete
         \/ Life(c)!Forget \/ Life(c)!Destroy
         \/ Status(c)' = Status(c) /\ Work(c)' = Work(c)
  PROVE  Lives(c)
  BY DEF Lives, Life!Next, Life!vars

\* What is done to a container by the command at step l, while HCS says s of it
Stage(l, s) ==
  IF l \in Creating THEN "creating"
  ELSE IF l \in Starting THEN IF s \in {"created", "running"} THEN "starting" ELSE "failing"
  ELSE IF l \in Deleting THEN "deleting" ELSE "none"

\* No two commands that change a container work on the same one.
SingleWriter ==
  \A p, q \in Procs :
    /\ pc[p] # "idle" /\ cmd[p].op \in Writers
    /\ pc[q] # "idle" /\ cmd[q].op \in Writers /\ cur[q] = cur[p]
    => q = p

LEMMA OneWriter == ExclusiveInv => SingleWriter
  <1> SUFFICES ASSUME ExclusiveInv, NEW p \in Procs, NEW q \in Procs,
                      pc[p] # "idle", cmd[p].op \in Writers, q # p,
                      pc[q] # "idle", cmd[q].op \in Writers, cur[q] = cur[p]
               PROVE  FALSE
    BY DEF SingleWriter
  <1>1. cur[p] \in Touches(cmd[p]) /\ cur[q] \in Touches(cmd[q])
    BY WorksOnTouched
  <1> QED
    BY <1>1 DEF ExclusiveInv

\* The work on a container is that of the command that changes it.
LEMMA WorkIsStage ==
  ASSUME ExclusiveInv, NEW c, NEW p \in Procs, pc[p] # "idle", cmd[p].op \in Writers, cur[p] = c
  PROVE  Work(c) = Stage(pc[p], cs[c])
  <1>1. ASSUME NEW S, "idle" \notin S PROVE At(c, S) <=> pc[p] \in S
    BY <1>1, OneWriter DEF At, SingleWriter
  <1>2. "idle" \notin Creating /\ "idle" \notin Starting /\ "idle" \notin Deleting
    BY DEF Creating, Starting, Deleting
  <1> QED
    BY <1>1, <1>2 DEF Work, Stage

\* The same after a step
LEMMA WorkIsStageNext ==
  ASSUME ExclusiveInv', NEW c, NEW p \in Procs, pc'[p] # "idle", cmd'[p].op \in Writers, cur'[p] = c
  PROVE  Work(c)' = Stage(pc'[p], cs'[c])
  <1>0. SingleWriter'
    BY OneWriter, PTL
  <1>1. ASSUME NEW S, "idle" \notin S PROVE At(c, S)' <=> pc'[p] \in S
    BY <1>0, <1>1 DEF At, SingleWriter
  <1>2. "idle" \notin Creating /\ "idle" \notin Starting /\ "idle" \notin Deleting
    BY DEF Creating, Starting, Deleting
  <1> QED
    BY <1>1, <1>2 DEF Work, Stage

\* When a container is not touched, at most its program stops running.
LEMMA StatusMoves ==
  ASSUME TypeOK, TypeOK', NEW S, TableMoves(S), NEW c \in Ids, Dated(c),
         dir'[c] = dir[c], cs'[c] = cs[c]
  PROVE  Status(c)' = Status(c) \/ (Status(c) = "running" /\ Status(c)' = "stopped")
  <1> DEFINE s == dir[c].state
  <1>1. s \in States /\ clock \in Nat /\ s.start < clock
    BY DEF TypeOK, StateDirs, Dated
  <1>2. ASSUME ~s.failed, s.pid # NoPid, UserProgramStatus(s)' = "running"
        PROVE  UserProgramStatus(s) = "running"
    <2>1. s.pid \in Pids
      BY <1>1, <1>2 DEF States
    <2>2. /\ win'[s.pid].st # "free" /\ StillActive(s.pid)'
          /\ win'[s.pid].start = s.start
      BY <1>2 DEF UserProgramStatus
    <2>3. win[s.pid].st # "free" /\ win[s.pid].start = s.start /\ StillActive(s.pid)
      BY <1>1, <2>1, <2>2 DEF TableMoves
    <2> QED
      BY <1>2, <2>3 DEF UserProgramStatus
  <1> QED
    BY <1>2 DEF Status, UserProgramStatus, StateValid

\* What State answers of a container, given what HCS says, its state directory and
\* the process table
Answer(s, d, w) ==
  IF s = "none" THEN "none"
  ELSE IF d.kind # "state" THEN "unknown"
  ELSE IF s = "stopped" \/ d.state.failed THEN "stopped"
  ELSE IF ~StateValid(d.state) THEN "unknown"
  ELSE IF d.state.pid = NoPid THEN "created"
  ELSE IF /\ w[d.state.pid].st \in {"alive", "exited259"}
          /\ w[d.state.pid].start = d.state.start
    THEN "running" ELSE "stopped"

\* Status is what State answers, now and after a step.
LEMMA StatusIsAnswer ==
  ASSUME NEW c
  PROVE  /\ Status(c) = Answer(cs[c], dir[c], win)
         /\ Status(c)' = Answer(cs'[c], dir'[c], win')
  <1>1. Status(c) = Answer(cs[c], dir[c], win)
    BY DEF Status, UserProgramStatus, Answer, StateValid, StillActive
  <1>2. Status(c)' = Answer(cs'[c], dir'[c], win')
    BY DEF Status, UserProgramStatus, Answer, StateValid, StillActive
  <1> QED
    BY <1>1, <1>2

\* What State answers, if the record is one that it accepts
LEMMA Answers ==
  ASSUME NEW s \in {"none", "created", "running", "stopped"}, NEW d, NEW w, Valid(d.state)
  PROVE  /\ s = "none" <=> Answer(s, d, w) = "none"
         /\ d.kind # "state" /\ s # "none" <=> Answer(s, d, w) = "unknown"
         /\ s = "stopped" /\ d.kind = "state" => Answer(s, d, w) = "stopped"
         /\ s \in {"created", "running"} /\ d.kind = "state" =>
              /\ Answer(s, d, w) \in {"created", "running", "stopped"}
              /\ d.state.failed => Answer(s, d, w) = "stopped"
              /\ ~d.state.failed /\ d.state.pid # NoPid => Answer(s, d, w) \in {"running", "stopped"}
              /\ ~d.state.failed /\ d.state.pid = NoPid => Answer(s, d, w) = "created"
  BY DEF Answer, Valid

\* The records a command leaves in its container
LEMMA RecordValues ==
  /\ Valid(Blank.state) /\ Blank.kind = "state" /\ Blank.state.pid = NoPid
  /\ Blank.state.start = 0 /\ Blank.state = ZeroState /\ ~Blank.state.failed
  /\ Valid(Unreadable.state) /\ Unreadable.kind = "bare" /\ Unreadable.state.start = 0
  /\ Valid(NoDir.state) /\ NoDir.kind = "none" /\ NoDir.state.start = 0
  /\ Blank # Unreadable
  /\ ZeroState.start = 0 /\ ~ZeroState.failed /\ ZeroState.pid = NoPid
  /\ \A s : StateFile(s).kind = "state" /\ StateFile(s).state = s
  BY DEF Valid, StateValid, Blank, Unreadable, NoDir, StateFile, ZeroState

\* The step sets of the commands are apart.
LEMMA StageValues ==
  /\ \A l \in Creating : \A s : Stage(l, s) = "creating"
  /\ \A l \in Starting : \A s : Stage(l, s) = IF s \in {"created", "running"} THEN "starting" ELSE "failing"
  /\ \A l \in Deleting : \A s : Stage(l, s) = "deleting"
  /\ \A l : \A s : l \notin Creating \cup Starting \cup Deleting => Stage(l, s) = "none"
  BY DEF Stage, Creating, Starting, Deleting

\* Steps at which a command need know nothing of the record
Indifferent == Steps \ (WriteSteps \cup Starting \cup Copies \cup {"spec"})

LEMMA KnowsEnds ==
  ASSUME NEW p \in Procs, pc'[p] \in Indifferent
  PROVE  Knows(p)'
  BY DEF Indifferent, Knows, Copies, UsesCopy, WriteSteps, Starting

\* p takes a step of a command that changes the container c.
Working(p, c) ==
  /\ LifeInv /\ ExclusiveInv' /\ TypeOK'
  /\ pc[p] # "idle" /\ pc'[p] # "idle" /\ cmd[p].op \in Writers /\ cmd'[p] = cmd[p]
  /\ cur[p] = c /\ cur'[p] = c

\* What the life of the container is then
LEMMA WorkingLife ==
  ASSUME NEW p \in Procs, NEW c \in Ids, Working(p, c)
  PROVE  /\ Status(c) = Answer(cs[c], dir[c], win)
         /\ Status(c)' = Answer(cs'[c], dir'[c], win')
         /\ Work(c) = Stage(pc[p], cs[c])
         /\ Work(c)' = Stage(pc'[p], cs'[c])
         /\ cs[c] \in {"none", "created", "running", "stopped"}
         /\ cs'[c] \in {"none", "created", "running", "stopped"}
         /\ Valid(dir[c].state)
  <1>0. ExclusiveInv /\ ExclusiveInv' /\ TypeOK /\ TypeOK' /\ Dated(c)
    BY DEF Working, LifeInv, ExclusiveInv, BaseInv, TypeInv
  <1>1. pc[p] # "idle" /\ cmd[p].op \in Writers /\ pc'[p] # "idle" /\ cmd'[p].op \in Writers
        /\ cur[p] = c /\ cur'[p] = c
    BY DEF Working
  <1>2. Status(c) = Answer(cs[c], dir[c], win) /\ Status(c)' = Answer(cs'[c], dir'[c], win')
    BY StatusIsAnswer
  <1>3. Work(c) = Stage(pc[p], cs[c])
    BY <1>0, <1>1, WorkIsStage
  <1>4. Work(c)' = Stage(pc'[p], cs'[c])
    BY <1>0, <1>1, WorkIsStageNext
  <1>5. Valid(dir[c].state)
    BY <1>0 DEF Dated
  <1>6. /\ cs[c] \in {"none", "created", "running", "stopped"}
        /\ cs'[c] \in {"none", "created", "running", "stopped"}
    BY <1>0 DEF TypeOK
  <1> QED
    BY <1>2, <1>3, <1>4, <1>5, <1>6

\* A step of the command that changes neither the container nor its record nor the
\* process table
LEMMA QuietLife ==
  ASSUME NEW p \in Procs, NEW c \in Ids, Working(p, c),
         UNCHANGED <<cs, dir, win>>,
         \/ pc'[p] \notin Creating \cup Starting \cup Deleting
         \/ pc'[p] \in Deleting /\ pc[p] \notin Starting
         \/ pc[p] \in Creating /\ pc'[p] \in Creating
         \/ pc[p] \in Starting /\ pc'[p] \in Starting
  PROVE  Lives(c)
  <1> DEFINE s == cs[c]
             l == pc[p]
             m == pc'[p]
  <1>1. Status(c)' = Status(c) /\ Work(c) = Stage(l, s) /\ Work(c)' = Stage(m, s)
    BY WorkingLife
  <1>2. CASE Work(c)' = Work(c)
    BY <1>1, <1>2, LifeSteps
  <1>3. CASE m \notin Creating \cup Starting \cup Deleting
    <2>1. Work(c)' = "none"
      BY <1>1, <1>3, StageValues
    <2>2. CASE Work(c) # "none"
      BY <1>1, <2>1, <2>2, LifeSteps DEF Life!GiveUp
    <2> QED
      BY <1>2, <2>1, <2>2
  <1>4. CASE m \in Deleting /\ l \notin Starting
    <2>1. Work(c)' = "deleting" /\ Work(c) \in {"none", "creating", "deleting"}
      BY <1>1, <1>4, StageValues
    <2>2. CASE Work(c) \in {"none", "creating"}
      BY <1>1, <2>1, <2>2, LifeSteps DEF Life!BeginDelete
    <2> QED
      BY <1>2, <2>1, <2>2
  <1>5. CASE l \in Creating /\ m \in Creating
    BY <1>1, <1>2, <1>5, StageValues
  <1>6. CASE l \in Starting /\ m \in Starting
    BY <1>1, <1>2, <1>6, StageValues
  <1> QED
    BY <1>3, <1>4, <1>5, <1>6
\* What a command may rely on about its container
LEMMA WorkingFacts ==
  ASSUME NEW p \in Procs, NEW c \in Ids, Working(p, c)
  PROVE  /\ TypeOK /\ TypeOK' /\ TypeInv /\ BaseInv /\ Dated(c) /\ Knows(p) /\ StartInv(p)
         /\ cmd[p].op \in Writers /\ cmd'[p].op \in Writers /\ cmd'[p] = cmd[p]
         /\ cur[p] = c /\ cur'[p] = c
         /\ dir \in [Ids -> StateDirs] /\ cs \in [Ids -> {"none", "created", "running", "stopped"}]
         /\ loc \in [Procs -> States] /\ loc[p] \in States
         /\ clock \in Nat /\ 0 < clock
         /\ dir[c].state \in States
  BY DEF Working, LifeInv, ExclusiveInv, BaseInv, TypeInv, TypeOK, StateDirs

\* A record stays dated.
LEMMA DatedStays ==
  ASSUME TypeOK, NEW c \in Ids, Dated(c), dir'[c] = dir[c], clock' \in {clock, clock + 1}
  PROVE  Dated(c)'
  <1>1. clock \in Nat /\ dir[c].state.start \in Nat
    BY HostAssumption DEF TypeOK, StateDirs, States
  <1>2. dir[c].state.start < clock /\ Valid(dir[c].state)
    BY DEF Dated
  <1>3. dir'[c].state.start < clock'
    BY <1>1, <1>2
  <1>4. Valid(dir[c].state)'
    BY <1>2 DEF Valid, StateValid
  <1> QED
    BY <1>3, <1>4 DEF Dated

\* A new record is dated, if it is about a process of the past.
LEMMA DatedNew ==
  ASSUME NEW c \in Ids, NEW d, dir'[c] = d, d.state.start < clock', Valid(d.state)
  PROVE  Dated(c)'
  <1>1. Valid(dir[c].state)'
    BY DEF Valid, StateValid
  <1> QED
    BY <1>1 DEF Dated

\* A command truncates state.json.
LEMMA TruncateLife ==
  ASSUME NEW p \in Procs, NEW c \in Ids, Working(p, c), NEW here, NEW next, NEW end,
         \/ here \in Creating /\ next \in Creating /\ end = "delete.open"
         \/ here \in Starting \ WriteSteps /\ next \in Starting /\ end = "exit",
         TruncateState(p, here, next, Err(end))
  PROVE  /\ Dated(c)' /\ Lives(c)
         /\ UNCHANGED <<loc, clock>>
         /\ pc'[p] = end \/ (pc'[p] = next /\ dir'[c] = Unreadable)
  <1>0. /\ TypeOK /\ Dated(c) /\ dir \in [Ids -> StateDirs] /\ cur[p] = c /\ Knows(p)
        /\ cmd[p].op \in Writers /\ clock \in Nat /\ 0 < clock
    BY WorkingFacts
  <1>1. /\ UNCHANGED <<cs, win, clock, loc>> /\ pc[p] = here
        /\ \/ dir' = dir /\ Go(p, Err(end))
           \/ dir' = [dir EXCEPT ![c] = Unreadable] /\ Go(p, To(next))
    BY <1>0 DEF TruncateState
  <1>e. end \in {"exit", "delete.open"} /\ "exit" \notin Creating \cup Starting \cup Deleting
        /\ "delete.open" \in Deleting
    BY DEF Creating, Starting, Deleting
  <1>2. CASE dir' = dir /\ Go(p, Err(end))
    <2>1. pc'[p] = end
      BY <1>0, <1>2, Goes
    <2>2. "delete.open" \notin Starting /\ Creating \cap Starting = {}
      BY DEF Creating, Starting
    <2>3. Lives(c)
      BY <1>1, <1>2, <1>e, <2>1, <2>2, QuietLife
    <2> QED
      BY <1>0, <1>1, <1>2, <2>1, <2>3, DatedStays
  <1>3. CASE dir' = [dir EXCEPT ![c] = Unreadable] /\ Go(p, To(next))
    <2>1. pc'[p] = next /\ dir'[c] = Unreadable /\ cs'[c] = cs[c]
      BY <1>0, <1>1, <1>3, Goes
    <2>2. Dated(c)'
      BY <1>0, <1>1, <2>1, RecordValues, DatedNew
    <2>3. /\ Work(c)' = Work(c) /\ Work(c) = Stage(here, cs[c])
      BY <1>1, <2>1, WorkingLife, StageValues
    <2>4. /\ cs[c] = "none" => Status(c) = "none" /\ Status(c)' = "none"
          /\ cs[c] # "none" => Status(c) # "none" /\ Status(c)' = "unknown"
      BY <2>1, WorkingLife, Answers, RecordValues
    <2>5. Lives(c)
      <3>1. CASE cs[c] = "none"
        BY <2>3, <2>4, <3>1, LifeSteps
      <3>2. CASE cs[c] # "none" /\ here \in Creating
        <4>1. Work(c) = "creating"
          BY <2>3, <3>2, StageValues
        <4> QED
          BY <2>3, <2>4, <3>2, <4>1, LifeSteps DEF Life!Rewrite
      <3>3. CASE cs[c] # "none" /\ here \in Starting \ WriteSteps
        <4>1. dir[c] = Blank
          BY <1>0, <1>1, <3>3 DEF Knows
        <4>2. /\ cs[c] \in {"created", "running"} => Status(c) = "created"
              /\ cs[c] = "stopped" => Status(c) = "stopped"
              /\ cs[c] \in {"created", "running", "stopped"}
          BY <3>3, <4>1, WorkingLife, Answers, RecordValues
        <4>3. /\ cs[c] \in {"created", "running"} => Work(c) = "starting"
              /\ cs[c] = "stopped" => Work(c) = "failing"
          BY <2>3, <3>3, StageValues
        <4> QED
          BY <2>3, <2>4, <3>3, <4>2, <4>3, LifeSteps DEF Life!Rewrite
      <3> QED
        BY <1>1, <3>1, <3>2, <3>3
    <2> QED
      BY <1>1, <2>1, <2>2, <2>5
  <1> QED
    BY <1>1, <1>2, <1>3

\* A command writes state.json, which it has truncated: it is readable again, unless
\* writing fails.
LEMMA FillEffect ==
  ASSUME NEW p \in Procs, NEW c \in Ids, Working(p, c), NEW here \in WriteSteps, NEW ok, NEW bad,
         FillState(p, here, ok, bad), here \in Copies
  PROVE  /\ UNCHANGED <<cs, win, clock, loc>> /\ pc[p] = here /\ dir[c] = Unreadable
         /\ \/ dir' = dir /\ Go(p, bad)
            \/ dir'[c] = StateFile(loc[p]) /\ Go(p, ok) /\ (Valid(loc[p]) => Dated(c)')
  <1>0. /\ TypeOK /\ Dated(c) /\ dir \in [Ids -> StateDirs] /\ cur[p] = c /\ Knows(p)
        /\ cmd[p].op \in Writers
    BY WorkingFacts
  <1>1. /\ UNCHANGED <<cs, win, clock, loc>> /\ pc[p] = here
        /\ \/ dir' = dir /\ Go(p, bad)
           \/ dir' = [dir EXCEPT ![c] = StateFile(loc[p])] /\ Go(p, ok)
           \/ Loads(p)
    BY <1>0 DEF FillState
  <1>2. dir[c] = Unreadable /\ loc[p].start < clock
    BY <1>0, <1>1 DEF Knows
  <1>3. ~Loads(p)
    BY <1>0, <1>2, RecordValues DEF Loads
  <1>4. CASE dir' = [dir EXCEPT ![c] = StateFile(loc[p])] /\ Go(p, ok)
    <2>1. dir'[c] = StateFile(loc[p]) /\ StateFile(loc[p]).state = loc[p]
      BY <1>0, <1>4, RecordValues
    <2>2. ASSUME Valid(loc[p]) PROVE Dated(c)'
      BY <1>1, <1>2, <2>1, <2>2, DatedNew
    <2> QED
      BY <1>1, <1>2, <1>4, <2>1, <2>2
  <1> QED
    BY <1>1, <1>2, <1>3, <1>4
\* start and run write state.json, of a process that they have started or have not been
\* able to start.
LEMMA FillLife ==
  ASSUME NEW p \in Procs, NEW c \in Ids, Working(p, c),
         NEW here \in {"fail.write", "succ.write", "bad.write"}, NEW ok, NEW bad,
         FillState(p, here, ok, bad), pc'[p] \notin Creating \cup Starting \cup Deleting
  PROVE  Dated(c)' /\ Lives(c)
  <1>0. /\ TypeOK /\ Dated(c) /\ Knows(p) /\ cmd[p].op \in Writers /\ NoPid \notin Pids
        /\ loc[p] \in States
    BY WorkingFacts, HostAssumption
  <1>1. here \in WriteSteps /\ here \in Copies /\ here \in Starting
    BY DEF WriteSteps, Copies, UsesCopy, Starting
  <1>2. /\ UNCHANGED <<cs, win, clock, loc>> /\ pc[p] = here /\ dir[c] = Unreadable
        /\ \/ dir' = dir
           \/ dir'[c] = StateFile(loc[p]) /\ (Valid(loc[p]) => Dated(c)')
    BY <1>1, FillEffect
  <1>3. loc[p].failed \/ (~loc[p].failed /\ loc[p].pid \in Pids /\ 0 < loc[p].start)
    BY <1>0, <1>2 DEF Knows
  <1>4. Valid(loc[p])
    BY <1>0, <1>3 DEF Valid, StateValid
  <1>5. CASE dir' = dir
    <2>1. Lives(c)
      BY <1>2, <1>5, QuietLife
    <2> QED
      BY <1>0, <1>2, <1>5, <2>1, DatedStays
  <1>6. CASE dir'[c] = StateFile(loc[p]) /\ (Valid(loc[p]) => Dated(c)')
    <2>1. Work(c)' = "none" /\ Work(c) = Stage(here, cs[c])
      BY <1>2, WorkingLife, StageValues
    <2>2. cs'[c] = cs[c] /\ cs[c] \in {"none", "created", "running", "stopped"}
      BY <1>2, WorkingLife
    <2>3. CASE cs[c] = "none"
      <3>1. Status(c)' = Status(c)
        BY <2>2, <2>3, WorkingLife DEF Answer
      <3>2. Work(c) = "failing"
        BY <1>1, <2>1, <2>3, StageValues
      <3>3. Lives(c)
        BY <2>1, <3>1, <3>2, LifeSteps DEF Life!GiveUp
      <3> QED
        BY <1>4, <1>6, <3>3
    <2>4. CASE cs[c] \in {"created", "running", "stopped"}
      <3>1. Status(c) = "unknown"
        BY <1>2, <2>4, WorkingLife, Answers, RecordValues
      <3>2. /\ Status(c)' \in {"running", "stopped"}
            /\ cs[c] = "stopped" => Status(c)' = "stopped"
        BY <1>0, <1>3, <1>4, <1>6, <2>2, <2>4, WorkingLife, Answers, RecordValues
      <3>3. /\ cs[c] \in {"created", "running"} => Work(c) = "starting"
            /\ cs[c] = "stopped" => Work(c) = "failing"
        BY <1>1, <2>1, StageValues
      <3>4. Lives(c)
        BY <2>1, <2>4, <3>1, <3>2, <3>3, LifeSteps DEF Life!Record
      <3> QED
        BY <1>4, <1>6, <3>4
    <2> QED
      BY <2>2, <2>3, <2>4
  <1> QED
    BY <1>2, <1>5, <1>6

\* Create makes the container.
LEMMA CreateLife ==
  ASSUME NEW p \in Procs, NEW c \in Ids, Working(p, c), Create(p, To("init.mkdir"), Err("exit"))
  PROVE  Knows(p)' /\ Dated(c)' /\ Lives(c)
  <1>0. TypeOK /\ Dated(c) /\ cur[p] = c /\ cs \in [Ids -> {"none", "created", "running", "stopped"}]
    BY WorkingFacts
  <1>1. UNCHANGED <<win, clock, dir>>
    BY DEF Create, hostVars
  <1>2. Dated(c)'
    BY <1>0, <1>1, DatedStays
  <1>l. /\ {"create.props", "create.create", "exit"} \cap (Creating \cup Starting \cup Deleting) = {}
        /\ "create.start" \in Creating \ Starting /\ "init.mkdir" \in Creating
        /\ "destroy.props" \in Deleting
        /\ {"exit", "create.create", "create.start", "init.mkdir", "destroy.props"} \subseteq Indifferent
    BY DEF Creating, Starting, Deleting, Indifferent, Steps, WriteSteps, Copies, UsesCopy
  <1>3. CASE pc[p] = "create.props"
    <2>1. cs' = cs /\ pc'[p] \in {"create.create", "exit"}
      BY <1>0, <1>3, Goes DEF Create, hostVars
    <2> QED
      BY <1>1, <1>2, <1>3, <1>l, <2>1, QuietLife, KnowsEnds
  <1>4. CASE pc[p] = "create.create"
    <2>1. CASE cs' = cs /\ Go(p, Err("exit"))
      <3>1. pc'[p] = "exit"
        BY <1>0, <2>1, Goes
      <3> QED
        BY <1>1, <1>2, <1>4, <1>l, <2>1, <3>1, QuietLife, KnowsEnds
    <2>2. CASE /\ cs[c] = "none" /\ cs' = [cs EXCEPT ![c] = "created"]
               /\ Go(p, To("create.start"))
      <3>1. pc'[p] = "create.start" /\ cs'[c] = "created"
        BY <1>0, <2>2, Goes
      <3>2. Status(c) = "none" /\ Work(c) = "none" /\ Work(c)' = "creating"
        BY <1>4, <1>l, <2>2, <3>1, WorkingLife, StageValues, Answers
      <3>3. Status(c)' \in {"unknown", "created", "running", "stopped"}
        BY <1>0, <3>1, WorkingLife DEF Answer
      <3>4. Lives(c)
        BY <3>2, <3>3, LifeSteps DEF Life!Create, Life!Lives
      <3> QED
        BY <1>2, <1>l, <3>1, <3>4, KnowsEnds
    <2> QED
      BY <1>0, <1>4, <2>1, <2>2 DEF Create
  <1>5. CASE pc[p] = "create.start"
    <2>1. CASE cs' = cs /\ Go(p, Err("destroy.props"))
      <3>1. pc'[p] = "destroy.props"
        BY <1>0, <2>1, Goes
      <3> QED
        BY <1>1, <1>2, <1>5, <1>l, <2>1, <3>1, QuietLife, KnowsEnds
    <2>2. CASE /\ cs[c] = "created" /\ cs' = [cs EXCEPT ![c] = "running"]
               /\ Go(p, To("init.mkdir"))
      <3>1. pc'[p] = "init.mkdir" /\ cs'[c] = "running"
        BY <1>0, <2>2, Goes
      <3>2. Work(c)' = Work(c)
        BY <1>5, <1>l, <3>1, WorkingLife, StageValues
      <3>3. Status(c)' = Status(c)
        BY <1>1, <2>2, <3>1, WorkingLife DEF Answer
      <3>4. Lives(c)
        BY <3>2, <3>3, LifeSteps
      <3> QED
        BY <1>2, <1>l, <3>1, <3>4, KnowsEnds
    <2> QED
      BY <1>0, <1>5, <2>1, <2>2 DEF Create
  <1> QED
    BY <1>3, <1>4, <1>5 DEF Create

\* Exec starts a process in a container whose record says that there is none yet.
LEMMA ExecLife ==
  ASSUME NEW p \in Procs, NEW c \in Ids, Working(p, c), NEW pipes,
         Exec(p, pipes, To("succ.load"), Err("fail.load"), Err("exit"))
  PROVE  Knows(p)' /\ Dated(c)' /\ Lives(c)
  <1>0. TypeOK /\ Dated(c) /\ cur[p] = c /\ cur'[p] = c /\ Knows(p) /\ cmd[p].op \in Writers
    BY WorkingFacts
  <1>1. UNCHANGED <<cs, dir>> /\ clock' \in {clock, clock + 1}
    BY DEF Exec, Skip
  <1>2. Dated(c)'
    BY <1>0, <1>1, DatedStays
  <1>3. /\ pc[p] \in {"exec.open", "exec.create"}
        /\ pc'[p] \in {"exec.create", "succ.load", "fail.load", "exit"}
    BY <1>0, Goes DEF Exec, Skip
  <1>l. /\ {"exec.open", "exec.create", "succ.load", "fail.load"} \subseteq Starting \ WriteSteps
        /\ "exit" \in Indifferent /\ "exit" \notin Creating \cup Starting \cup Deleting
        /\ {"exec.open", "exec.create", "succ.load", "fail.load"} \cap Copies = {}
    BY DEF Creating, Starting, Deleting, Indifferent, Steps, WriteSteps, Copies, UsesCopy
  <1>4. dir[c] = Blank
    BY <1>0, <1>3, <1>l DEF Knows
  <1>5. CASE pc'[p] = "exit"
    <2>1. Status(c)' = Status(c)
      BY <1>1, <1>4, RecordValues, WorkingLife DEF Answer
    <2>2. Work(c)' = "none"
      BY <1>5, <1>l, WorkingLife, StageValues
    <2>3. Work(c) # "none"
      BY <1>3, <1>l, WorkingLife, StageValues
    <2>4. Lives(c)
      BY <2>1, <2>2, <2>3, LifeSteps DEF Life!GiveUp
    <2> QED
      BY <1>2, <1>5, <1>l, <2>4, KnowsEnds
  <1>6. CASE pc'[p] \in {"exec.create", "succ.load", "fail.load"}
    <2>1. Status(c)' = Status(c)
      BY <1>1, <1>4, RecordValues, WorkingLife DEF Answer
    <2>2. Work(c)' = Work(c)
      BY <1>1, <1>3, <1>6, <1>l, WorkingLife, StageValues
    <2>3. Lives(c)
      BY <2>1, <2>2, LifeSteps
    <2>4. Knows(p)'
      BY <1>0, <1>1, <1>4, <1>6, <1>l DEF Knows
    <2> QED
      BY <1>2, <2>3, <2>4
  <1> QED
    BY <1>3, <1>5, <1>6
\* Initialize records that the container has been created.
LEMMA InitializeLife ==
  ASSUME NEW p \in Procs, NEW c \in Ids, Working(p, c), NEW l \in {"exit", "exec.open"},
         Initialize(p, To(l), Err("delete.open"))
  PROVE  Knows(p)' /\ Dated(c)' /\ Lives(c)
  <1>0. /\ TypeOK /\ Dated(c) /\ cur[p] = c /\ cur'[p] = c /\ Knows(p) /\ cmd[p].op \in Writers
        /\ dir \in [Ids -> StateDirs] /\ loc \in [Procs -> States] /\ clock \in Nat /\ 0 < clock
    BY WorkingFacts
  <1>l. /\ {"init.mkdir", "init.truncate", "init.write"} \subseteq Creating
        /\ Creating \cap Starting = {} /\ Creating \cap Deleting = {}
        /\ "delete.open" \in Deleting \cap Indifferent
        /\ "exit" \in Indifferent \ (Creating \cup Starting \cup Deleting)
        /\ "exec.open" \in Starting \ (Copies \cup WriteSteps)
        /\ "init.write" \in WriteSteps \cap Copies /\ "init.truncate" \in Copies \ WriteSteps
    BY DEF Creating, Starting, Deleting, Indifferent, Steps, WriteSteps, Copies, UsesCopy
  <1>1. CASE pc[p] = "init.mkdir"
    <2>1. /\ UNCHANGED <<cs, win, clock>> /\ loc' = [loc EXCEPT ![p] = ZeroState]
          /\ \/ /\ dir' = [dir EXCEPT ![c] = IF @ = NoDir THEN Unreadable ELSE @]
                /\ Go(p, To("init.truncate"))
             \/ dir' = dir /\ Go(p, Err("delete.open"))
      BY <1>0, <1>1 DEF Initialize, TruncateState, FillState
    <2>2. CASE dir' = dir /\ Go(p, Err("delete.open"))
      <3>1. pc'[p] = "delete.open"
        BY <1>0, <2>2, Goes
      <3>2. Lives(c)
        BY <1>1, <1>l, <2>1, <2>2, <3>1, QuietLife
      <3> QED
        BY <1>0, <1>l, <2>1, <2>2, <3>1, <3>2, KnowsEnds, DatedStays
    <2>3. CASE /\ dir' = [dir EXCEPT ![c] = IF @ = NoDir THEN Unreadable ELSE @]
               /\ Go(p, To("init.truncate"))
      <3>1. /\ pc'[p] = "init.truncate" /\ loc'[p] = ZeroState
            /\ dir'[c] = dir[c] \/ (dir[c] = NoDir /\ dir'[c] = Unreadable)
        BY <1>0, <2>1, <2>3, Goes
      <3>2. Dated(c)'
        BY <1>0, <2>1, <3>1, DatedStays, DatedNew, RecordValues
      <3>3. Work(c)' = Work(c)
        BY <1>1, <1>l, <3>1, WorkingLife, StageValues
      <3>4. Status(c)' = Status(c)
        BY <2>1, <3>1, WorkingLife, RecordValues DEF Answer
      <3>5. Lives(c)
        BY <3>3, <3>4, LifeSteps
      <3>6. Knows(p)'
        BY <1>0, <1>l, <2>1, <3>1, RecordValues DEF Knows
      <3> QED
        BY <3>2, <3>5, <3>6
    <2> QED
      BY <2>1, <2>2, <2>3
  <1>2. CASE TruncateState(p, "init.truncate", "init.write", Err("delete.open"))
    <2>0. pc[p] = "init.truncate"
      BY <1>2 DEF TruncateState
    <2>1. /\ Dated(c)' /\ Lives(c) /\ UNCHANGED <<loc, clock>>
          /\ pc'[p] = "delete.open" \/ (pc'[p] = "init.write" /\ dir'[c] = Unreadable)
      BY <1>2, <1>l, TruncateLife
    <2>2. CASE pc'[p] = "delete.open"
      BY <1>l, <2>1, <2>2, KnowsEnds
    <2>3. CASE pc'[p] = "init.write" /\ dir'[c] = Unreadable
      <3>1. loc'[p] = ZeroState
        BY <1>0, <2>0, <2>1 DEF Knows
      <3>2. Knows(p)'
        BY <1>0, <1>l, <2>1, <2>3, <3>1, RecordValues DEF Knows
      <3> QED
        BY <2>1, <3>2
    <2> QED
      BY <2>1, <2>2, <2>3
  <1>3. CASE FillState(p, "init.write", To(l), Err("delete.open"))
    <2>1. /\ UNCHANGED <<cs, win, clock, loc>> /\ pc[p] = "init.write" /\ dir[c] = Unreadable
          /\ \/ dir' = dir /\ Go(p, Err("delete.open"))
             \/ dir'[c] = StateFile(loc[p]) /\ Go(p, To(l)) /\ (Valid(loc[p]) => Dated(c)')
      BY <1>3, <1>l, FillEffect
    <2>2. StateFile(loc[p]) = Blank /\ Valid(loc[p])
      BY <1>0, <2>1, RecordValues DEF Knows, Blank
    <2>3. CASE dir' = dir /\ Go(p, Err("delete.open"))
      <3>1. pc'[p] = "delete.open"
        BY <1>0, <2>3, Goes
      <3>2. Lives(c)
        BY <1>l, <2>1, <2>3, <3>1, QuietLife
      <3> QED
        BY <1>0, <1>l, <2>1, <2>3, <3>1, <3>2, KnowsEnds, DatedStays
    <2>4. CASE dir'[c] = Blank /\ Go(p, To(l)) /\ Dated(c)'
      <3>1. pc'[p] = l
        BY <1>0, <2>4, Goes
      <3>2. Work(c) = "creating"
        BY <1>l, <2>1, WorkingLife, StageValues
      <3>3. /\ l = "exit" => Work(c)' = "none"
            /\ l = "exec.open" => Work(c)' = IF cs[c] \in {"created", "running"} THEN "starting" ELSE "failing"
        BY <1>l, <2>1, <3>1, WorkingLife, StageValues
      <3>4. cs[c] = "none" => Status(c) = "none" /\ Status(c)' = "none"
        BY <2>1, WorkingLife DEF Answer
      <3>5. cs[c] # "none" =>
              /\ Status(c) = "unknown"
              /\ Status(c)' = IF cs[c] = "stopped" THEN "stopped" ELSE "created"
        BY <2>1, <2>4, WorkingLife, Answers, RecordValues
      <3>6. Lives(c)
        <4>1. CASE cs[c] = "none"
          BY <3>2, <3>3, <3>4, <4>1, LifeSteps DEF Life!Record, Life!GiveUp
        <4>2. CASE cs[c] # "none"
          <5>1. cs[c] \in {"created", "running", "stopped"}
            BY <4>2, WorkingLife
          <5> QED
            BY <3>2, <3>3, <3>5, <5>1, LifeSteps DEF Life!Record
        <4> QED
          BY <4>1, <4>2
      <3>7. Knows(p)'
        <4>1. CASE l = "exit"
          BY <1>l, <3>1, <4>1, KnowsEnds
        <4>2. CASE l = "exec.open"
          BY <1>0, <1>l, <2>4, <3>1, <4>2 DEF Knows
        <4> QED
          BY <4>1, <4>2
      <3> QED
        BY <2>4, <3>6, <3>7
    <2> QED
      BY <2>1, <2>2, <2>3, <2>4
  <1> QED
    BY <1>1, <1>2, <1>3 DEF Initialize

\* SetFailure records that there will be no process.
LEMMA SetFailureLife ==
  ASSUME NEW p \in Procs, NEW c \in Ids, Working(p, c), SetFailure(p, Err("exit"))
  PROVE  Knows(p)' /\ Dated(c)' /\ Lives(c)
  <1>0. /\ TypeOK /\ Dated(c) /\ cur[p] = c /\ cur'[p] = c /\ Knows(p) /\ cmd[p].op \in Writers
        /\ loc \in [Procs -> States] /\ clock \in Nat /\ 0 < clock
    BY WorkingFacts
  <1>l. /\ {"fail.load", "fail.truncate"} \subseteq Starting \ WriteSteps
        /\ "fail.write" \in Starting \cap WriteSteps \cap Copies
        /\ "fail.truncate" \in Copies /\ "fail.load" \notin Copies
        /\ "exit" \in Indifferent \ (Creating \cup Starting \cup Deleting)
    BY DEF Creating, Starting, Deleting, Indifferent, Steps, WriteSteps, Copies, UsesCopy
  <1>1. CASE pc[p] = "fail.load"
    <2>1. /\ UNCHANGED <<cs, win, clock, dir>>
          /\ \/ Go(p, Err("exit"))
             \/ /\ Go(p, To("fail.truncate"))
                /\ loc' = [loc EXCEPT ![p] = [ZeroState EXCEPT !.failed = TRUE]]
      BY <1>1 DEF SetFailure, TruncateState, FillState, hostVars
    <2>2. Dated(c)'
      BY <1>0, <2>1, DatedStays
    <2>3. pc'[p] \in {"exit", "fail.truncate"}
      BY <1>0, <2>1, Goes
    <2>4. Lives(c)
      BY <1>1, <1>l, <2>1, <2>3, QuietLife
    <2>5. CASE pc'[p] = "exit"
      BY <1>l, <2>2, <2>4, <2>5, KnowsEnds
    <2>6. CASE pc'[p] = "fail.truncate"
      <3>1. loc'[p].failed /\ loc'[p].start = 0
        BY <1>0, <2>1, <2>6, Goes DEF ZeroState
      <3>2. dir[c] = Blank
        BY <1>0, <1>1, <1>l DEF Knows
      <3>3. Knows(p)'
        BY <1>0, <1>l, <2>1, <2>6, <3>1, <3>2 DEF Knows
      <3> QED
        BY <2>2, <2>4, <3>3
    <2> QED
      BY <2>3, <2>5, <2>6
  <1>2. CASE TruncateState(p, "fail.truncate", "fail.write", Err("exit"))
    <2>0. pc[p] = "fail.truncate"
      BY <1>2 DEF TruncateState
    <2>1. /\ Dated(c)' /\ Lives(c) /\ UNCHANGED <<loc, clock>>
          /\ pc'[p] = "exit" \/ (pc'[p] = "fail.write" /\ dir'[c] = Unreadable)
      BY <1>2, <1>l, TruncateLife
    <2>2. CASE pc'[p] = "exit"
      BY <1>l, <2>1, <2>2, KnowsEnds
    <2>3. CASE pc'[p] = "fail.write" /\ dir'[c] = Unreadable
      <3>1. loc'[p].failed /\ loc'[p].start < clock'
        BY <1>0, <1>l, <2>0, <2>1 DEF Knows
      <3>2. Knows(p)'
        BY <1>0, <1>l, <2>3, <3>1 DEF Knows
      <3> QED
        BY <2>1, <3>2
    <2> QED
      BY <2>1, <2>2, <2>3
  <1>3. CASE FillState(p, "fail.write", Err("exit"), Err("exit"))
    <2>1. pc'[p] = "exit"
      BY <1>0, <1>3, Goes DEF FillState
    <2>2. Dated(c)' /\ Lives(c)
      BY <1>3, <1>l, <2>1, FillLife
    <2> QED
      BY <1>l, <2>1, <2>2, KnowsEnds
  <1> QED
    BY <1>1, <1>2, <1>3 DEF SetFailure
\* SetSuccess records the process that has been started.
LEMMA SetSuccessLife ==
  ASSUME NEW p \in Procs, NEW c \in Ids, Working(p, c), SetSuccess(p, To("mount.stat"), Err("exit"))
  PROVE  Knows(p)' /\ Dated(c)' /\ Lives(c)
  <1>0. /\ TypeOK /\ Dated(c) /\ cur[p] = c /\ cur'[p] = c /\ Knows(p) /\ cmd[p].op \in Writers
        /\ loc \in [Procs -> States] /\ loc[p] \in States /\ clock \in Nat /\ 0 < clock
        /\ dir[c].state \in States /\ BaseInv
    BY WorkingFacts
  <1>l. /\ {"succ.load", "succ.open", "succ.truncate", "bad.truncate"} \subseteq Starting \ WriteSteps
        /\ {"succ.write", "bad.write"} \subseteq Starting \cap WriteSteps \cap Copies
        /\ {"succ.open", "succ.truncate", "bad.truncate"} \subseteq Copies
        /\ {"exit", "mount.stat"} \subseteq Indifferent \ (Creating \cup Starting \cup Deleting)
    BY DEF Creating, Starting, Deleting, Indifferent, Steps, WriteSteps, Copies, UsesCopy
  <1>e. ASSUME pc'[p] \in {"exit", "mount.stat"} PROVE Knows(p)'
    BY <1>e, <1>l, KnowsEnds
  <1>1. CASE pc[p] \in {"succ.load", "succ.open"}
    <2>1. UNCHANGED <<cs, win, clock, dir>>
      BY <1>1 DEF SetSuccess, TruncateState, FillState, hostVars
    <2>2. pc'[p] \in {"exit", "succ.open", "succ.truncate", "bad.truncate"}
      BY <1>0, <1>1, Goes DEF SetSuccess, TruncateState, FillState
    <2>3. Dated(c)'
      BY <1>0, <2>1, DatedStays
    <2>4. Lives(c)
      BY <1>1, <1>l, <2>1, <2>2, QuietLife
    <2>5. dir[c] = Blank /\ dir'[c] = Blank
      BY <1>0, <1>1, <1>l, <2>1 DEF Knows
    <2>6. CASE pc[p] = "succ.load" /\ pc'[p] # "exit"
      <3>1. /\ Go(p, To("succ.open"))
            /\ loc' = [loc EXCEPT ![p] = [dir[c].state EXCEPT !.pid = pid[p]]]
        BY <1>0, <2>6, Goes DEF SetSuccess, TruncateState, FillState
      <3>2. pc'[p] = "succ.open"
        BY <1>0, <3>1, Goes
      <3>3. pid[p] \in Pids
        BY <1>0, <2>6 DEF BaseInv, TypeInv, Control, Started
      <3>4. dir[c].state = ZeroState
        BY <2>5, RecordValues
      <3>5. loc'[p].pid \in Pids /\ ~loc'[p].failed /\ loc'[p].start = 0
        BY <1>0, <3>1, <3>3, <3>4 DEF ZeroState
      <3> QED
        BY <1>0, <1>l, <2>1, <2>3, <2>4, <2>5, <3>2, <3>5 DEF Knows
    <2>7. CASE pc[p] = "succ.open" /\ pc'[p] # "exit"
      <3>0. pid[p] \in Pids /\ loc[p].pid \in Pids /\ ~loc[p].failed /\ loc[p].start < clock
        BY <1>0, <1>l, <2>7 DEF BaseInv, TypeInv, Control, Started, Knows
      <3>1. CASE /\ win[pid[p]].st # "free" /\ Go(p, To("succ.truncate"))
                 /\ loc' = [loc EXCEPT ![p].start = win[pid[p]].start]
        <4>1. pc'[p] = "succ.truncate"
          BY <1>0, <3>1, Goes
        <4>2. /\ loc'[p].pid = loc[p].pid /\ loc'[p].failed = loc[p].failed
              /\ loc'[p].start = win[pid[p]].start
          BY <1>0, <3>1 DEF States
        <4>3. 0 < win[pid[p]].start /\ win[pid[p]].start < clock
          BY <1>0, <3>0, <3>1 DEF BaseInv, StartsPast
        <4> QED
          BY <1>0, <1>l, <2>1, <2>3, <2>4, <2>5, <3>0, <4>1, <4>2, <4>3 DEF Knows
      <3>2. CASE loc' = [loc EXCEPT ![p].failed = TRUE] /\ Go(p, Err("bad.truncate"))
        <4>1. pc'[p] = "bad.truncate"
          BY <1>0, <3>2, Goes
        <4>2. loc'[p].start = loc[p].start /\ loc'[p].failed
          BY <1>0, <3>2 DEF States
        <4> QED
          BY <1>0, <1>l, <2>1, <2>3, <2>4, <2>5, <3>0, <4>1, <4>2 DEF Knows
      <3> QED
        BY <2>7, <3>1, <3>2 DEF SetSuccess, TruncateState, FillState
    <2> QED
      BY <1>1, <1>e, <2>3, <2>4, <2>6, <2>7
  <1>2. ASSUME NEW here, NEW next,
               \/ here = "succ.truncate" /\ next = "succ.write"
               \/ here = "bad.truncate" /\ next = "bad.write",
               TruncateState(p, here, next, Err("exit"))
        PROVE  Knows(p)' /\ Dated(c)' /\ Lives(c)
    <2>0. pc[p] = here
      BY <1>2 DEF TruncateState
    <2>1. /\ Dated(c)' /\ Lives(c) /\ UNCHANGED <<loc, clock>>
          /\ pc'[p] = "exit" \/ (pc'[p] = next /\ dir'[c] = Unreadable)
      BY <1>2, <1>l, TruncateLife
    <2>2. CASE pc'[p] = next /\ dir'[c] = Unreadable
      BY <1>0, <1>2, <1>l, <2>0, <2>1, <2>2 DEF Knows
    <2> QED
      BY <1>e, <2>1, <2>2
  <1>3. CASE FillState(p, "succ.write", To("mount.stat"), Err("exit"))
    <2>1. pc'[p] \in {"mount.stat", "exit"}
      BY <1>0, <1>3, Goes DEF FillState
    <2>2. Dated(c)' /\ Lives(c)
      BY <1>3, <1>l, <2>1, FillLife
    <2> QED
      BY <1>e, <2>1, <2>2
  <1>4. CASE FillState(p, "bad.write", Err("exit"), Err("exit"))
    <2>1. pc'[p] = "exit"
      BY <1>0, <1>4, Goes DEF FillState
    <2>2. Dated(c)' /\ Lives(c)
      BY <1>4, <1>l, <2>1, FillLife
    <2> QED
      BY <1>e, <2>1, <2>2
  <1> QED
    BY <1>1, <1>2, <1>3, <1>4 DEF SetSuccess

\* Commands look, mount, unmount and decide without changing a life, until one begins to
\* delete.
LEMMA LooksLife ==
  ASSUME NEW p \in Procs, NEW c \in Ids, Working(p, c), UNCHANGED <<cs, dir, win, clock>>,
         pc'[p] \in {"exit", "next", "state.load", "state.probe", "start.check", "unmount",
                     "unmount.rm", "rmstate", "mount.mkdir", "mount.set", "pidfile", "attach",
                     "create.props", "state.props"},
         pc[p] \notin Starting \cup Creating
  PROVE  Knows(p)' /\ Dated(c)' /\ Lives(c)
  <1>1. pc'[p] \in Indifferent /\ pc'[p] \notin Creating \cup Starting \cup (Deleting \ {"rmstate"})
    BY DEF Creating, Starting, Deleting, Indifferent, Steps, WriteSteps, Copies, UsesCopy
  <1>2. Lives(c)
    BY <1>1, QuietLife
  <1> QED
    BY <1>1, <1>2, KnowsEnds, WorkingFacts, DatedStays

\* The state directory is removed.
LEMMA DeleteStateLife ==
  ASSUME NEW p \in Procs, NEW c \in Ids, Working(p, c),
         DeleteState(p, To("delete.open"), Err("delete.open"))
  PROVE  Knows(p)' /\ Dated(c)' /\ Lives(c)
  <1>0. /\ TypeOK /\ Dated(c) /\ cur[p] = c /\ dir \in [Ids -> StateDirs] /\ clock \in Nat /\ 0 < clock
    BY WorkingFacts
  <1>1. /\ UNCHANGED <<cs, win, clock>> /\ pc[p] = "rmstate" /\ pc'[p] = "delete.open"
        /\ dir' = dir \/ dir' = [dir EXCEPT ![c] = NoDir]
    BY <1>0, Goes DEF DeleteState
  <1>2. /\ "rmstate" \in Deleting /\ "delete.open" \in Deleting \cap Indifferent
        /\ Deleting \cap Starting = {}
    BY DEF Deleting, Starting, Indifferent, Steps, WriteSteps, Copies, UsesCopy
  <1>3. Knows(p)'
    BY <1>1, <1>2, KnowsEnds
  <1>4. CASE dir' = dir
    <2>1. Lives(c)
      BY <1>1, <1>2, <1>4, QuietLife
    <2> QED
      BY <1>0, <1>1, <1>3, <1>4, <2>1, DatedStays
  <1>5. CASE dir' = [dir EXCEPT ![c] = NoDir]
    <2>1. dir'[c] = NoDir
      BY <1>0, <1>5
    <2>2. Dated(c)'
      BY <1>0, <1>1, <2>1, DatedNew, RecordValues
    <2>3. Work(c) = "deleting" /\ Work(c)' = "deleting"
      BY <1>1, <1>2, WorkingLife, StageValues
    <2>4. /\ cs[c] = "none" => Status(c) = "none" /\ Status(c)' = "none"
          /\ cs[c] # "none" => Status(c) # "none" /\ Status(c)' = "unknown"
      BY <1>1, <2>1, WorkingLife, Answers, RecordValues
    <2>5. Lives(c)
      BY <2>3, <2>4, LifeSteps DEF Life!Forget
    <2> QED
      BY <1>3, <2>2, <2>5
  <1> QED
    BY <1>1, <1>4, <1>5

\* The container is taken down.
LEMMA DeleteLife ==
  ASSUME NEW p \in Procs, NEW c \in Ids, Working(p, c), NEW l \in {"exit", "next"},
         Delete(p, To(l), Err(l))
  PROVE  Knows(p)' /\ Dated(c)' /\ Lives(c)
  <1>0. /\ TypeOK /\ Dated(c) /\ cur[p] = c /\ cs \in [Ids -> {"none", "created", "running", "stopped"}]
    BY WorkingFacts
  <1>1. UNCHANGED <<dir, clock>>
    BY DEF Delete, DestroyContainer, Skip
  <1>2. /\ pc[p] \in {"delete.open", "destroy.props", "shutdown", "terminate"}
        /\ pc'[p] \in {"destroy.props", "shutdown", "terminate", l}
    BY <1>0, Goes DEF Delete, DestroyContainer, Skip
  <1>3. /\ {"delete.open", "destroy.props", "shutdown", "terminate"} \subseteq Deleting
        /\ l \notin Creating \cup Starting \cup Deleting /\ Deleting \cap Starting = {}
        /\ {"destroy.props", "shutdown", "terminate", l} \subseteq Indifferent
    BY DEF Deleting, Creating, Starting, Indifferent, Steps, WriteSteps, Copies, UsesCopy
  <1>4. Knows(p)' /\ Dated(c)'
    BY <1>0, <1>1, <1>2, <1>3, KnowsEnds, DatedStays
  <1>5. CASE UNCHANGED <<cs, win>>
    <2>1. Lives(c)
      BY <1>1, <1>2, <1>3, <1>5, QuietLife
    <2> QED
      BY <1>4, <2>1
  <1>6. CASE Gone(c) /\ cs[c] # "none" /\ Go(p, To(l))
    <2>1. cs'[c] \in {"none", "stopped"} /\ pc'[p] = l
      BY <1>0, <1>6, Goes DEF Gone
    <2>2. Work(c) = "deleting" /\ Work(c)' = "none"
      BY <1>2, <1>3, <2>1, WorkingLife, StageValues
    <2>3. CASE cs'[c] = "none"
      <3>1. Status(c)' = "none"
        BY <2>3, WorkingLife DEF Answer
      <3>2. Lives(c)
        BY <2>2, <3>1, LifeSteps DEF Life!Destroy
      <3> QED
        BY <1>4, <3>2
    <2>4. CASE cs'[c] = "stopped"
      <3>1. dir[c].kind # "state" => Status(c) = "unknown" /\ Status(c)' = "unknown"
        BY <1>1, <1>6, <2>4, WorkingLife, Answers
      <3>2. dir[c].kind = "state" =>
              Status(c) \in {"created", "running", "stopped"} /\ Status(c)' = "stopped"
        BY <1>1, <1>6, <2>4, WorkingLife, Answers
      <3>3. Lives(c)
        BY <2>2, <3>1, <3>2, LifeSteps DEF Life!Destroy
      <3> QED
        BY <1>4, <3>3
    <2> QED
      BY <2>1, <2>3, <2>4
  <1> QED
    BY <1>0, <1>5, <1>6 DEF Delete, DestroyContainer, Skip
\* How a command goes on after State
AfterState ==
  {To("unmount"), To("start.check"), To("next"), Err("next"), To("exit"), Err("exit")}

\* The steps of State, Mount, Unmount and of Runtime's own functions
LEMMA LooksAlone ==
  ASSUME NEW p \in Procs, NEW c \in Ids, Working(p, c),
         \/ \E k, m \in AfterState : State(p, k, m, Err("rmstate")) \/ State(p, k, m, Err("exit"))
         \/ Mount(p, To("pidfile"), Err("exit"))
         \/ Unmount(p, To("rmstate"), Err("rmstate"))
         \/ pc[p] = "unmount" /\ Skip(p, To("rmstate"))
         \/ WritePIDFile(p, To("exit"), Err("exit")) \/ WritePIDFile(p, To("attach"), Err("exit"))
         \/ AttachIO(p, To("state.props"), Err("state.props"))
  PROVE  Knows(p)' /\ Dated(c)' /\ Lives(c)
  <1>0. TypeOK
    BY WorkingFacts
  <1> DEFINE Ends == {"exit", "next", "state.load", "state.probe", "start.check", "unmount",
                      "unmount.rm", "rmstate", "mount.mkdir", "mount.set", "pidfile", "attach",
                      "create.props", "state.props"}
  <1>l. /\ {"state.props", "state.load", "state.probe", "mount.stat", "mount.mkdir", "mount.set",
            "unmount", "unmount.rm", "pidfile", "attach"} \cap (Starting \cup Creating) = {}
    BY DEF Starting, Creating
  <1>1. ASSUME NEW k \in AfterState, NEW m \in AfterState, NEW b \in {Err("rmstate"), Err("exit")},
               State(p, k, m, b)
        PROVE  /\ UNCHANGED <<cs, dir, win, clock>> /\ pc[p] \notin Starting \cup Creating
               /\ pc'[p] \in Ends
    <2>1. UNCHANGED <<cs, dir, win, clock>> /\ pc[p] \in {"state.props", "state.load", "state.probe"}
      BY <1>1 DEF State, hostVars
    <2>2. Go(p, k) \/ Go(p, m) \/ Go(p, b) \/ Go(p, To("state.load")) \/ Go(p, To("state.probe"))
      BY <1>1 DEF State
    <2>3. pc'[p] \in Ends
      BY <1>0, <2>2, Goes DEF AfterState
    <2> QED
      BY <1>l, <2>1, <2>3
  <1>2. CASE Mount(p, To("pidfile"), Err("exit"))
    <2>1. /\ UNCHANGED <<cs, dir, win, clock>> /\ pc[p] \in {"mount.stat", "mount.mkdir", "mount.set"}
          /\ pc'[p] \in Ends
      BY <1>0, <1>2, Goes DEF Mount, Skip
    <2> QED
      BY <1>l, <2>1, LooksLife
  <1>3. CASE \/ Unmount(p, To("rmstate"), Err("rmstate"))
             \/ pc[p] = "unmount" /\ Skip(p, To("rmstate"))
    <2>1. /\ UNCHANGED <<cs, dir, win, clock>> /\ pc[p] \in {"unmount", "unmount.rm"}
          /\ pc'[p] \in Ends
      BY <1>0, <1>3, Goes DEF Unmount, Skip
    <2> QED
      BY <1>l, <2>1, LooksLife
  <1>4. CASE \/ WritePIDFile(p, To("exit"), Err("exit")) \/ WritePIDFile(p, To("attach"), Err("exit"))
             \/ AttachIO(p, To("state.props"), Err("state.props"))
    <2>1. /\ UNCHANGED <<cs, dir, win, clock>> /\ pc[p] \in {"pidfile", "attach"}
          /\ pc'[p] \in Ends
      BY <1>0, <1>4, Goes DEF WritePIDFile, AttachIO, Skip
    <2> QED
      BY <1>l, <2>1, LooksLife
  <1> QED
    BY <1>1, <1>2, <1>3, <1>4, LooksLife

\* createContainer
LEMMA CreateContainerLife ==
  ASSUME NEW p \in Procs, NEW c \in Ids, Working(p, c), NEW l \in {"exit", "exec.open"},
         CreateContainer(p, To(l))
  PROVE  Knows(p)' /\ Dated(c)' /\ Lives(c)
  <1>0. TypeOK
    BY WorkingFacts
  <1>1. CASE LoadSpec(p, To("create.props"), Err("exit"))
    <2>1. /\ UNCHANGED <<cs, dir, win, clock>> /\ pc[p] = "spec"
          /\ pc'[p] \in {"create.props", "exit"}
      BY <1>0, <1>1, Goes DEF LoadSpec, Skip
    <2>2. "spec" \notin Starting \cup Creating
      BY DEF Starting, Creating
    <2> QED
      BY <2>1, <2>2, LooksLife
  <1>2. CASE Create(p, To("init.mkdir"), Err("exit"))
    BY <1>2, CreateLife
  <1>3. CASE Initialize(p, To(l), Err("delete.open"))
    BY <1>3, InitializeLife
  <1> QED
    BY <1>1, <1>2, <1>3 DEF CreateContainer

\* startProcess
LEMMA StartProcessLife ==
  ASSUME NEW p \in Procs, NEW c \in Ids, Working(p, c), NEW detach, StartProcess(p, detach)
  PROVE  Knows(p)' /\ Dated(c)' /\ Lives(c)
  <1>1. CASE Exec(p, ~detach, To("succ.load"), Err("fail.load"), Err("exit"))
    <2> DEFINE pipes == ~detach
    <2>1. Exec(p, pipes, To("succ.load"), Err("fail.load"), Err("exit"))
      BY <1>1
    <2> HIDE DEF pipes
    <2> QED
      BY <2>1, ExecLife
  <1> QED
    BY <1>1, SetFailureLife, SetSuccessLife, LooksAlone DEF StartProcess

\* deleteContainer
LEMMA DeleteContainerLife ==
  ASSUME NEW p \in Procs, NEW c \in Ids, Working(p, c), NEW l \in {"exit", "next"}, NEW force,
         DeleteContainer(p, force, To(l), Err(l))
  PROVE  Knows(p)' /\ Dated(c)' /\ Lives(c)
  <1>1. CASE State(p, To("unmount"), IF force THEN To(l) ELSE Err(l), Err("rmstate"))
    <2>1. CASE force
      BY <1>1, <2>1, LooksAlone DEF AfterState
    <2>2. CASE ~force
      BY <1>1, <2>2, LooksAlone DEF AfterState
    <2> QED
      BY <2>1, <2>2
  <1>2. CASE \/ pc[p] = "unmount" /\ loc[p].pid = NoPid /\ Skip(p, To("rmstate"))
             \/ Unmount(p, To("rmstate"), Err("rmstate"))
    BY <1>2, LooksAlone
  <1> QED
    BY <1>1, <1>2, DeleteStateLife, DeleteLife DEF DeleteContainer

\* start begins to start a process in a container only when State has found it created.
LEMMA StartCommandLife ==
  ASSUME NEW p \in Procs, NEW c \in Ids, Working(p, c), StartCommand(p)
  PROVE  Knows(p)' /\ Dated(c)' /\ Lives(c)
  <1>0. /\ TypeOK /\ Dated(c) /\ cur[p] = c /\ cur'[p] = c /\ Knows(p) /\ StartInv(p)
        /\ cmd[p].op \in Writers /\ cmd'[p] = cmd[p] /\ cmd[p].op = "start"
        /\ loc[p] \in States /\ clock \in Nat /\ 0 < clock
    BY WorkingFacts DEF StartCommand
  <1>1. CASE State(p, To("start.check"), Err("exit"), Err("exit"))
    BY <1>1, LooksAlone DEF AfterState
  <1>2. CASE /\ pc[p] = "start.check"
             /\ Skip(p, IF status[p] = "created" THEN To("spec") ELSE Err("exit"))
    <2>1. /\ UNCHANGED <<cs, dir, win, clock>>
          /\ pc'[p] = "exit" \/ (pc'[p] = "spec" /\ status[p] = "created")
      BY <1>0, <1>2, Goes DEF Skip
    <2>l. /\ {"exit", "spec"} \cap (Creating \cup Starting \cup Deleting) = {}
          /\ "start.check" \notin Starting \cup Creating
          /\ "spec" \notin WriteSteps \cup Copies
      BY DEF Creating, Starting, Deleting, WriteSteps, Copies, UsesCopy
    <2>2. CASE pc'[p] = "exit"
      BY <1>2, <2>1, <2>2, <2>l, LooksLife
    <2>3. CASE pc'[p] = "spec" /\ status[p] = "created"
      <3>1. dir[c] = StateFile(loc[p]) /\ loc[p].pid = NoPid /\ ~loc[p].failed
        BY <1>0, <1>2, <2>3 DEF StartInv
      <3>2. Valid(loc[p])
        BY <1>0, <3>1, RecordValues DEF Dated
      <3>3. loc[p].start = 0
        BY <3>1, <3>2 DEF Valid, StateValid
      <3>4. loc[p] = ZeroState
        BY <1>0, <3>1, <3>3 DEF States, ZeroState
      <3>5. dir'[c] = Blank
        BY <2>1, <3>1, <3>4 DEF Blank
      <3>6. Knows(p)'
        BY <1>0, <2>3, <2>l, <3>5 DEF Knows
      <3>7. Lives(c)
        BY <2>1, <2>3, <2>l, QuietLife
      <3> QED
        BY <1>0, <2>1, <3>6, <3>7, DatedStays
    <2> QED
      BY <2>1, <2>2, <2>3
  <1>3. CASE LoadSpec(p, To("exec.open"), Err("exit"))
    <2>1. UNCHANGED <<cs, dir, win, clock>> /\ pc[p] = "spec" /\ pc'[p] \in {"exec.open", "exit"}
      BY <1>0, <1>3, Goes DEF LoadSpec, Skip
    <2>l. /\ "spec" \notin Creating \cup Starting \cup Deleting
          /\ "exec.open" \in Starting \ (WriteSteps \cup Copies)
      BY DEF Creating, Starting, Deleting, WriteSteps, Copies, UsesCopy
    <2>2. CASE pc'[p] = "exit"
      BY <2>1, <2>2, <2>l, LooksLife
    <2>3. CASE pc'[p] = "exec.open"
      <3>1. dir[c] = Blank
        BY <1>0, <2>1 DEF Knows
      <3>2. Knows(p)'
        BY <1>0, <2>1, <2>3, <2>l, <3>1 DEF Knows
      <3>3. Status(c)' = Status(c) /\ Work(c) = "none"
        BY <2>1, <2>l, WorkingLife, StageValues
      <3>4. Work(c)' = IF cs[c] \in {"created", "running"} THEN "starting" ELSE "failing"
        BY <2>1, <2>3, <2>l, WorkingLife, StageValues
      <3>5. /\ cs[c] \in {"created", "running"} => Status(c) = "created"
            /\ cs[c] = "stopped" => Status(c) = "stopped"
            /\ cs[c] = "none" => Status(c) = "none"
            /\ cs[c] \in {"none", "created", "running", "stopped"}
        BY <3>1, WorkingLife, Answers, RecordValues
      <3>6. Lives(c)
        BY <3>3, <3>4, <3>5, LifeSteps DEF Life!BeginStart
      <3> QED
        BY <1>0, <2>1, <3>2, <3>6, DatedStays
    <2> QED
      BY <2>1, <2>2, <2>3
  <1>4. CASE StartProcess(p, FALSE)
    BY <1>4, StartProcessLife
  <1>5. CASE WritePIDFile(p, To("exit"), Err("exit"))
    BY <1>5, LooksAlone
  <1> QED
    BY <1>0, <1>1, <1>2, <1>3, <1>4, <1>5 DEF StartCommand

\* Every step of a command in its container is one of the life of that container.
LEMMA CommandLife ==
  ASSUME NEW p \in Procs, NEW c \in Ids, Working(p, c), Step(p),
         ~QuerySidecars(p), ~NextContainer(p)
  PROVE  Knows(p)' /\ Dated(c)' /\ Lives(c)
  <1>1. CASE CreateCommand(p)
    BY <1>1, CreateContainerLife, DeleteLife DEF CreateCommand
  <1>2. CASE RunCommand(p)
    <2>1. CASE WritePIDFile(p, To(IF cmd[p].flag THEN "exit" ELSE "attach"), Err("exit"))
      <3>1. CASE cmd[p].flag
        BY <2>1, <3>1, LooksAlone
      <3>2. CASE ~cmd[p].flag
        BY <2>1, <3>2, LooksAlone
      <3> QED
        BY <3>1, <3>2
    <2> QED
      BY <1>2, <2>1, CreateContainerLife, StartProcessLife, LooksAlone, DeleteContainerLife
         DEF RunCommand
  <1>3. CASE StartCommand(p)
    BY <1>3, StartCommandLife
  <1>4. CASE DeleteCommand(p)
    BY <1>4, DeleteContainerLife DEF DeleteCommand
  <1>5. ~Return(p)
    <2>1. pc'[p] # "idle" /\ TypeOK
      BY WorkingFacts DEF Working
    <2> QED
      BY <2>1 DEF Return, ProcessGone, TypeOK
  <1> QED
    BY <1>1, <1>2, <1>3, <1>4, <1>5, WorkingFacts
       DEF Step, ExecCommand, StateCommand, EventsCommand, Writers
\* A container that no command works on may stop, and may then be dropped.
LEMMA LeftLife ==
  ASSUME LifeInv, TypeOK', NEW S, TableMoves(S), NEW c \in Ids, dir'[c] = dir[c],
         \/ cs'[c] = cs[c]
         \/ cs[c] = "running" /\ cs'[c] = "stopped"
         \/ cs[c] = "stopped" /\ cs'[c] = "none",
         At(c, Creating)' <=> At(c, Creating),
         At(c, Starting)' <=> At(c, Starting),
         At(c, Deleting)' <=> At(c, Deleting)
  PROVE  Lives(c)
  <1>0. TypeOK /\ Dated(c) /\ Valid(dir[c].state)
        /\ cs[c] \in {"none", "created", "running", "stopped"}
        /\ cs'[c] \in {"none", "created", "running", "stopped"}
    BY DEF LifeInv, ExclusiveInv, BaseInv, TypeInv, TypeOK, Dated
  <1>a. Status(c) = Answer(cs[c], dir[c], win) /\ Status(c)' = Answer(cs'[c], dir'[c], win')
    BY StatusIsAnswer
  <1>1. ASSUME Work(c) = "starting"
        PROVE  cs[c] \in {"created", "running"} /\ Status(c) \in {"created", "unknown"}
    <2>1. At(c, Starting) /\ cs[c] \in {"created", "running"}
      BY <1>1 DEF Work
    <2>2. PICK q \in Procs : cur[q] = c /\ cmd[q].op \in Writers /\ pc[q] \in Starting
      BY <2>1 DEF At
    <2>3. dir[c] \in {Blank, Unreadable}
      BY <2>2 DEF LifeInv, Knows
    <2> QED
      BY <1>0, <1>a, <2>1, <2>3, Answers, RecordValues
  <1>2. CASE cs'[c] = cs[c]
    <2>1. Work(c)' = Work(c)
      BY <1>2 DEF Work
    <2>2. Status(c)' = Status(c) \/ (Status(c) = "running" /\ Status(c)' = "stopped")
      BY <1>0, <1>2, StatusMoves
    <2>3. CASE Status(c) = "running" /\ Status(c)' = "stopped"
      BY <1>1, <2>1, <2>3, LifeSteps DEF Life!Stop
    <2> QED
      BY <2>1, <2>2, <2>3, LifeSteps
  <1>3. CASE cs[c] = "running" /\ cs'[c] = "stopped"
    <2>1. Work(c)' = IF Work(c) = "starting" THEN "failing" ELSE Work(c)
      BY <1>3 DEF Work
    <2>2. /\ dir[c].kind # "state" => Status(c) = "unknown" /\ Status(c)' = "unknown"
          /\ dir[c].kind = "state" =>
               Status(c) \in {"created", "running", "stopped"} /\ Status(c)' = "stopped"
      BY <1>0, <1>3, <1>a, Answers
    <2>3. CASE Status(c) = "stopped"
      BY <1>1, <2>1, <2>2, <2>3, LifeSteps
    <2>4. CASE Status(c) \in {"unknown", "created", "running"}
      BY <2>1, <2>2, <2>4, LifeSteps DEF Life!Stop
    <2> QED
      BY <2>2, <2>3, <2>4
  <1>4. CASE cs[c] = "stopped" /\ cs'[c] = "none"
    <2>1. Work(c)' = Work(c) /\ Work(c) # "starting"
      BY <1>1, <1>4 DEF Work
    <2>2. Status(c) \in {"stopped", "unknown"} /\ Status(c)' = "none"
      BY <1>0, <1>4, <1>a, Answers
    <2> QED
      BY <2>1, <2>2, LifeSteps DEF Life!Vanish
  <1> QED
    BY <1>2, <1>3, <1>4

\* A process that works elsewhere, or changes nothing, does not change what is at work on
\* a container.
LEMMA AtStays ==
  ASSUME NEW p \in Procs, Alone(p), NEW c, NEW S,
         \/ pc[p] \notin S /\ pc'[p] \notin S
         \/ cur[p] # c /\ cur'[p] # c
         \/ cmd[p].op \notin Writers /\ cmd'[p] = cmd[p]
  PROVE  At(c, S)' <=> At(c, S)
  BY DEF At, Alone

\* A command that ends, or is killed, leaves its container as it is.
LEMMA GoneLife ==
  ASSUME LifeInv, NEW p \in Procs, ProcessGone(p), NEW c \in Ids
  PROVE  Lives(c)
  <1>0. /\ TypeInv /\ TypeOK /\ ExclusiveInv /\ TypeInv' /\ TypeOK' /\ Alone(p) /\ pc'[p] = "idle"
        /\ cmd'[p].op \notin Writers
        /\ \A q \in Pids : win'[q].st = win[q].st /\ win'[q].start = win[q].start
    BY GoneTypes, GoneEffect DEF LifeInv, ExclusiveInv, BaseInv, TypeInv, Writers
  <1>1. UNCHANGED <<cs, dir>>
    BY DEF ProcessGone
  <1>2. Status(c)' = Status(c)
    <2>1. dir[c].state.pid \in Pids \cup {NoPid}
      BY <1>0 DEF TypeOK, StateDirs, States
    <2> QED
      BY <1>0, <1>1, <2>1, StatusIsAnswer DEF Answer
  <1>3. CASE pc[p] # "idle" /\ cmd[p].op \in Writers /\ cur[p] = c
    <2>1. ASSUME NEW S PROVE ~At(c, S)'
      <3>1. ASSUME NEW q \in Procs, cur'[q] = c, cmd'[q].op \in Writers, pc'[q] \in S PROVE FALSE
        <4>1. q # p /\ cur[q] = c /\ cmd[q].op \in Writers
          BY <1>0, <3>1 DEF Alone
        <4>2. pc[q] # "idle"
          BY <1>0, <4>1 DEF TypeInv, Control, NoCommand, Writers
        <4> QED
          BY <1>0, <1>3, <4>1, <4>2, OneWriter DEF SingleWriter
      <3> QED
        BY <3>1 DEF At
    <2>2. Work(c)' = "none"
      BY <2>1 DEF Work
    <2> QED
      BY <1>2, <2>2, LifeSteps DEF Life!GiveUp
  <1>4. CASE ~(pc[p] # "idle" /\ cmd[p].op \in Writers /\ cur[p] = c)
    <2>1. ASSUME NEW S, "idle" \notin S PROVE At(c, S)' <=> At(c, S)
      BY <1>0, <1>4, <2>1 DEF At, Alone
    <2>2. "idle" \notin Creating /\ "idle" \notin Starting /\ "idle" \notin Deleting
      BY DEF Creating, Starting, Deleting
    <2>3. Work(c)' = Work(c)
      BY <1>1, <2>1, <2>2 DEF Work
    <2> QED
      BY <1>2, <2>3, LifeSteps
  <1> QED
    BY <1>3, <1>4

\* delete goes from one container to the next.
LEMMA BetweenLife ==
  ASSUME LifeInv, NEW p \in Procs, pc[p] # "idle", StepOf(p),
         QuerySidecars(p) \/ NextContainer(p)
  PROVE  /\ UNCHANGED <<cs, dir, clock>> /\ Knows(p)'
         /\ \A c \in Ids : Lives(c)
  <1>0. TypeInv /\ TypeOK /\ TypeOK' /\ Alone(p)
    BY StepFrame DEF LifeInv, ExclusiveInv, BaseInv, TypeInv
  <1>1. /\ UNCHANGED <<cs, dir, clock>> /\ pc[p] \in {"query", "next"}
        /\ pc'[p] \in {"next", "exit", "state.props"}
    BY <1>0, Goes DEF QuerySidecars, NextContainer, Skip, hostVars
  <1>2. /\ {"query", "next", "exit", "state.props"} \cap (Creating \cup Starting \cup Deleting) = {}
        /\ {"next", "exit", "state.props"} \subseteq Indifferent
    BY DEF Creating, Starting, Deleting, Indifferent, Steps, WriteSteps, Copies, UsesCopy
  <1>3. Knows(p)'
    BY <1>1, <1>2, KnowsEnds
  <1>4. ASSUME NEW c \in Ids PROVE Lives(c)
    <2>1. TableMoves({})
      BY <1>0, StepTable
    <2>2. /\ At(c, Creating)' <=> At(c, Creating)
          /\ At(c, Starting)' <=> At(c, Starting)
          /\ At(c, Deleting)' <=> At(c, Deleting)
      BY <1>0, <1>1, <1>2, AtStays
    <2> QED
      BY <1>0, <1>1, <2>1, <2>2, LeftLife
  <1> QED
    BY <1>1, <1>3, <1>4
\* The step of a command is one of the lives of all containers.
LEMMA StepLife ==
  ASSUME LifeInv, ExclusiveInv', NEW p \in Procs, pc[p] # "idle", Step(p), StepOf(p)
  PROVE  Knows(p)' /\ \A c \in Ids : Dated(c)' /\ Lives(c)
  <1>0. /\ TypeInv /\ TypeOK /\ TypeOK' /\ Alone(p) /\ pc'[p] # "idle" /\ cmd'[p] = cmd[p]
        /\ cmd[p].op # "delete" => cur'[p] = cur[p]
        /\ TableMoves({}) /\ cur[p] \in Ids
    BY StepFrame, StepTable DEF LifeInv, ExclusiveInv, BaseInv, TypeInv, Control
  <1>d. ASSUME NEW c \in Ids, dir'[c] = dir[c] PROVE Dated(c)'
    BY <1>0, <1>d, DatedStays DEF TableMoves, LifeInv
  <1>1. CASE QuerySidecars(p) \/ NextContainer(p)
    BY <1>1, <1>d, BetweenLife
  <1>2. CASE cmd[p].op \notin Writers
    <2>1. \A c \in Ids : dir'[c] = dir[c] /\ cs'[c] = cs[c]
      BY <1>0, <1>2, StepEffect
    <2>2. Knows(p)'
      BY <1>0, <1>2 DEF Knows
    <2>3. ASSUME NEW c \in Ids PROVE Lives(c)
      <3>1. /\ At(c, Creating)' <=> At(c, Creating)
            /\ At(c, Starting)' <=> At(c, Starting)
            /\ At(c, Deleting)' <=> At(c, Deleting)
        BY <1>0, <1>2, AtStays
      <3> QED
        BY <1>0, <2>1, <3>1, LeftLife
    <2> QED
      BY <1>d, <2>1, <2>2, <2>3
  <1>3. CASE cmd[p].op \in Writers /\ ~QuerySidecars(p) /\ ~NextContainer(p)
    <2>1. cur'[p] = cur[p]
      <3>1. CASE cmd[p].op = "delete"
        <4>1. DeleteContainer(p, cmd[p].flag, To("next"), Err("next")) \/ Return(p)
          BY <1>3, <3>1 DEF Step, CreateCommand, RunCommand, StartCommand, ExecCommand,
                            StateCommand, EventsCommand, DeleteCommand
        <4>2. ~Return(p)
          BY <1>0 DEF Return, ProcessGone, TypeOK
        <4> QED
          BY <1>0, <4>1, <4>2, ReleasedIsDown
      <3> QED
        BY <1>0, <3>1
    <2>2. ASSUME NEW c \in Ids, c = cur[p] PROVE Knows(p)' /\ Dated(c)' /\ Lives(c)
      <3>1. Working(p, c)
        BY <1>0, <1>3, <2>1, <2>2 DEF Working
      <3> QED
        BY <1>3, <3>1, CommandLife
    <2>3. ASSUME NEW c \in Ids, c # cur[p] PROVE Dated(c)' /\ Lives(c)
      <3>1. dir'[c] = dir[c] /\ cs'[c] = cs[c]
        BY <1>0, <2>3, StepEffect
      <3>2. /\ At(c, Creating)' <=> At(c, Creating)
            /\ At(c, Starting)' <=> At(c, Starting)
            /\ At(c, Deleting)' <=> At(c, Deleting)
        BY <1>0, <2>1, <2>3, AtStays
      <3>3. Lives(c)
        BY <1>0, <3>1, <3>2, LeftLife
      <3> QED
        BY <1>d, <3>1, <3>3
    <2> QED
      BY <1>0, <2>2, <2>3
  <1> QED
    BY <1>1, <1>2, <1>3

\* Without winc, containers and programs only stop, and containers are dropped.
LEMMA EnvironmentLife ==
  ASSUME LifeInv, Environment
  PROVE  \A c \in Ids : Dated(c)' /\ Lives(c)
  <1>0. TypeInv /\ TypeOK /\ TypeOK' /\ UNCHANGED <<dir, procVars>>
    BY EnvironmentTypes DEF LifeInv, ExclusiveInv, BaseInv, TypeInv
  <1>1. TableMoves({})
    BY <1>0, EnvironmentTable
  <1> SUFFICES ASSUME NEW c \in Ids PROVE Dated(c)' /\ Lives(c)
    OBVIOUS
  <1>2. Dated(c)'
    BY <1>0, <1>1, DatedStays DEF TableMoves, LifeInv
  <1>3. \/ cs'[c] = cs[c]
        \/ cs[c] = "running" /\ cs'[c] = "stopped"
        \/ cs[c] = "stopped" /\ cs'[c] = "none"
    BY <1>0 DEF Environment, ProcessExit, ProcessReaped, HostProcess, ContainerExit,
                ContainerVanishes, TypeOK
  <1>4. /\ At(c, Creating)' <=> At(c, Creating)
        /\ At(c, Starting)' <=> At(c, Starting)
        /\ At(c, Deleting)' <=> At(c, Deleting)
    BY <1>0 DEF At, procVars
  <1>5. Lives(c)
    BY <1>0, <1>1, <1>3, <1>4, LeftLife
  <1> QED
    BY <1>2, <1>5

\* No command is at work before its first step.
LEMMA BeginLife ==
  ASSUME LifeInv, NEW p \in Procs, Begin(p)
  PROVE  Knows(p)' /\ \A c \in Ids : Dated(c)' /\ Lives(c)
  <1>0. TypeInv /\ TypeOK /\ TypeOK' /\ Alone(p)
    BY BeginTypes DEF LifeInv, ExclusiveInv, BaseInv, TypeInv
  <1>1. /\ pc'[p] = FirstStep[cmd'[p].op] /\ cmd'[p] \in Commands /\ pc[p] = "idle"
        /\ UNCHANGED hostVars
    BY <1>0, BeginEffect
  <1>2. cmd'[p].op \in {"create", "run", "start", "exec", "state", "events", "delete"}
    BY <1>1, HostAssumption DEF Command
  <1>3. /\ pc'[p] \in {"spec", "process", "state.props", "stats.open", "query"}
        /\ cmd'[p].op \in Writers /\ pc'[p] = "spec" => cmd'[p].op # "start"
    BY <1>1, <1>2 DEF FirstStep
  <1>4. {"idle", "spec", "process", "state.props", "stats.open", "query"}
          \cap (Creating \cup Starting \cup Deleting \cup WriteSteps \cup Copies) = {}
    BY DEF Creating, Starting, Deleting, WriteSteps, Copies, UsesCopy
  <1>5. Knows(p)'
    BY <1>3, <1>4 DEF Knows, Starting, WriteSteps, Copies, UsesCopy
  <1>6. TableMoves({}) /\ UNCHANGED <<cs, dir, clock>>
    BY <1>0, <1>1, TableStays DEF hostVars
  <1>7. ASSUME NEW c \in Ids PROVE Dated(c)' /\ Lives(c)
    <2>1. Dated(c)'
      BY <1>0, <1>6, DatedStays DEF LifeInv
    <2>2. /\ At(c, Creating)' <=> At(c, Creating)
          /\ At(c, Starting)' <=> At(c, Starting)
          /\ At(c, Deleting)' <=> At(c, Deleting)
      BY <1>0, <1>1, <1>3, <1>4, AtStays
    <2>3. Lives(c)
      BY <1>0, <1>6, <2>2, LeftLife
    <2> QED
      BY <2>1, <2>3
  <1> QED
    BY <1>5, <1>7

\* The clock does not go back.
LEMMA ClockMoves ==
  ASSUME TypeInv, [Next]_vars
  PROVE  clock' \in {clock, clock + 1}
  <1>0. TypeOK
    BY DEF TypeInv
  <1>1. ASSUME NEW p \in Procs, Begin(p) \/ ProcessGone(p) PROVE clock' = clock
    BY <1>1 DEF Begin, ProcessGone, hostVars
  <1>2. ASSUME NEW p \in Procs, StepOf(p) PROVE clock' \in {clock, clock + 1}
    BY <1>2, StepTable DEF TableMoves
  <1>3. CASE Environment
    BY <1>0, <1>3, EnvironmentTable DEF TableMoves
  <1> QED
    BY <1>1, <1>2, <1>3, NextCases DEF vars

\* Others leave the record alone that a command works on.
LEMMA KnowsOthers ==
  ASSUME LifeInv, [Next]_vars, NEW p \in Procs, OthersMove(p)
  PROVE  Knows(p)'
  <1>0. /\ TypeInv /\ TypeOK /\ ExclusiveInv /\ Knows(p)
        /\ pc'[p] = pc[p] /\ cmd'[p] = cmd[p] /\ cur'[p] = cur[p] /\ loc'[p] = loc[p]
    BY DEF LifeInv, ExclusiveInv, BaseInv, TypeInv, OthersMove
  <1>1. CASE cmd[p].op \notin Writers
    BY <1>0, <1>1 DEF Knows
  <1>2. CASE cmd[p].op \in Writers
    <2>1. dir'[cur[p]] = dir[cur[p]]
      BY <1>0, <1>2, OthersLeave DEF Left
    <2>2. loc[p].start \in Nat /\ clock \in Nat /\ clock' \in {clock, clock + 1}
      BY <1>0, ClockMoves, HostAssumption DEF TypeOK, States
    <2>3. loc[p].start < clock => loc[p].start < clock'
      BY <2>2
    <2> QED
      BY <1>0, <2>1, <2>3 DEF Knows
  <1> QED
    BY <1>1, <1>2

\* Every step of winc and its host is one of the lives of all containers.
LEMMA LifeStep ==
  ASSUME LifeInv, [Next]_vars
  PROVE  LifeInv' /\ \A c \in Ids : Lives(c)
  <1>0. ~Overlap /\ ExclusiveInv /\ ExclusiveInv' /\ TypeInv /\ TypeOK
    BY ExclusiveInvStep DEF LifeInv, ExclusiveInv, BaseInv, TypeInv
  <1>1. \A c \in Ids : Dated(c)' /\ Lives(c)
    <2>1. ASSUME NEW p \in Procs, ProcessGone(p) PROVE \A c \in Ids : Dated(c)' /\ Lives(c)
      <3>1. UNCHANGED <<dir, clock>>
        BY <2>1 DEF ProcessGone
      <3> QED
        BY <1>0, <2>1, <3>1, GoneLife, DatedStays DEF LifeInv
    <2>2. ASSUME NEW p \in Procs, Step(p) PROVE \A c \in Ids : Dated(c)' /\ Lives(c)
      <3>1. pc[p] # "idle" /\ (StepOf(p) \/ ProcessGone(p))
        BY <1>0, <2>2, StepCases, StepNotIdle
      <3> QED
        BY <1>0, <2>1, <2>2, <3>1, StepLife
    <2>3. CASE UNCHANGED vars
      <3>1. \A c \in Ids : Status(c)' = Status(c) /\ Work(c)' = Work(c)
        BY <2>3 DEF vars, Status, Work, At, UserProgramStatus, StateValid, StillActive
      <3>2. ASSUME NEW c \in Ids PROVE Lives(c)
        BY <3>1, LifeSteps
      <3> QED
        BY <1>0, <2>3, <3>2, DatedStays DEF LifeInv, vars
    <2>4. ASSUME NEW p \in Procs, Crash(p) PROVE ProcessGone(p)
      BY <2>4 DEF Crash
    <2> QED
      BY <2>1, <2>2, <2>3, <2>4, BeginLife, EnvironmentLife DEF Next
  <1>2. ASSUME NEW p \in Procs PROVE Knows(p)'
    <2>1. CASE ProcessGone(p)
      BY <1>0, <2>1, GoneEffect DEF Knows, Writers
    <2> QED
      BY <1>0, <2>1, MoveCases, KnowsOthers, BeginLife, StepLife
  <1>3. \A p \in Procs : StartInv(p)'
    BY <1>0, StartInvStep DEF LifeInv
  <1> QED
    BY <1>0, <1>1, <1>2, <1>3 DEF LifeInv

\* Initially there is nothing to know.
LEMMA LifeInvInit == Init /\ ~Overlap => LifeInv
  <1> SUFFICES ASSUME Init, ~Overlap PROVE LifeInv
    OBVIOUS
  <1>1. \A c \in Ids : Dated(c)
    BY RecordValues DEF Init, Dated
  <1>2. \A p \in Procs : StartInv(p) /\ Knows(p)
    BY DEF Init, StartInv, Knows, NoCommand, Writers
  <1> QED
    BY <1>1, <1>2, ExclusiveInvInit DEF LifeInv

\* Whatever fails, wherever winc processes are killed, and for any number of containers:
\* as long as commands on one container do not overlap, each container lives the life
\* that ContainerLifecycle promises.
THEOREM LifecycleImplemented == Spec => LifecycleKept
  <1> DEFINE Kept == ~Overlap => \A c \in Ids : [Life(c)!Next]_(Life(c)!vars)
  <1>1. Init => \A c \in Ids : Life(c)!Init
    BY DEF Init, Life!Init, Status, Work, At, NoCommand, Writers
  <1>2. CASE ~Overlap
    <2>1. LifeInv /\ [Next]_vars => [Kept]_vars
      BY LifeStep DEF Lives
    <2>2. LifeInv /\ [Next]_vars => LifeInv'
      BY LifeStep
    <2>3. Init => LifeInv
      BY <1>2, LifeInvInit
    <2>4. Spec => [][Kept]_vars
      BY <2>1, <2>2, <2>3, PTL DEF Spec
    <2>5. Spec => \A c \in Ids : Life(c)!Init
      BY <1>1, PTL DEF Spec
    <2> QED
      BY <2>4, <2>5 DEF LifecycleKept
  <1>3. CASE Overlap
    <2>1. [Kept]_vars
      BY <1>3
    <2>2. [][Kept]_vars
      BY <2>1, PTL
    <2>3. Spec => \A c \in Ids : Life(c)!Init
      BY <1>1, PTL DEF Spec
    <2> QED
      BY <2>2, <2>3 DEF LifecycleKept
  <1>4. Overlap \in BOOLEAN
    BY HostAssumption
  <1> QED
    BY <1>2, <1>3, <1>4
=============================================================================

---------------------------- MODULE RuntimeProofs ----------------------------
(***************************************************************************)
(* What is proved about Runtime for any number of winc processes,          *)
(* containers and process ids, and whatever the constants allow to fail.   *)
(***************************************************************************)
EXTENDS Runtime, TLAPS

-----------------------------------------------------------------------------
(* Control                                                                 *)

\* Steps that come after a process was started
Started ==
  {"succ.load", "succ.open", "succ.truncate", "succ.write", "bad.truncate",
   "bad.write", "mount.stat", "mount.mkdir", "mount.set", "pidfile", "attach"}

\* Continuations of a command
Conts == [at : Steps \ {"idle"}, err : BOOLEAN]

\* What the locals of a winc process are good for, given where it is
Control(p) ==
  /\ pc[p] = "idle" =>
       /\ cmd[p] = NoCommand /\ cur[p] = NoId /\ todo[p] = {} /\ seen[p] = "unknown"
       /\ loc[p] = ZeroState /\ pid[p] = NoPid /\ status[p] = "none" /\ errs[p] = {}
  /\ pc[p] # "idle" => cur[p] \in Ids /\ cmd[p] \in Commands
  /\ pc[p] \in Started => pid[p] \in Pids
  /\ pc[p] = "unmount.rm" => loc[p].pid # NoPid

TypeInv == TypeOK /\ \A p \in Procs : Control(p)

-----------------------------------------------------------------------------
(* Lemmas about continuations                                              *)

\* Every step label but idle can be continued at, with and without an error.
LEMMA ContTypes ==
  ASSUME NEW l \in Steps \ {"idle"}
  PROVE  /\ To(l) \in Conts /\ To(l).at = l /\ To(l).err = FALSE
         /\ Err(l) \in Conts /\ Err(l).at = l /\ Err(l).err = TRUE
  BY DEF To, Err, Conts

\* Going on keeps the program counters and the recorded errors well typed.
LEMMA GoTypes ==
  ASSUME TypeOK, NEW p \in Procs, NEW k \in Conts, Go(p, k)
  PROVE  /\ pc' \in [Procs -> Steps]
         /\ errs' \in [Procs -> SUBSET {"dir", "mount", "container", "other"}]
         /\ pc'[p] = k.at
         /\ pc'[p] # "idle"
         /\ \A q \in Procs \ {p} : pc'[q] = pc[q] /\ errs'[q] = errs[q]
         /\ k.err = FALSE => errs'[p] = errs[p]
  <1>1. k.at \in Steps /\ k.at # "idle"
    BY DEF Conts
  <1>2. pc \in [Procs -> Steps] /\ errs \in [Procs -> SUBSET {"dir", "mount", "container", "other"}]
    BY DEF TypeOK
  <1>3. Keeps(pc[p]) \in {"dir", "mount", "container", "other"}
    BY DEF Keeps
  <1>4. /\ pc' = [pc EXCEPT ![p] = k.at]
        /\ errs' = [errs EXCEPT ![p] = IF k.err THEN @ \cup {Keeps(pc[p])} ELSE @]
    BY DEF Go
  <1> QED
    BY <1>1, <1>2, <1>3, <1>4

\* Only the locals of p change.
Alone(p) ==
  \A q \in Procs \ {p} :
    /\ pc'[q] = pc[q] /\ cmd'[q] = cmd[q] /\ cur'[q] = cur[q] /\ todo'[q] = todo[q]
    /\ seen'[q] = seen[q] /\ loc'[q] = loc[q] /\ pid'[q] = pid[q]
    /\ status'[q] = status[q] /\ errs'[q] = errs[q]

\* A step of p goes on at one of the labels L, and leaves its command alone.
Flows(p, L) ==
  /\ TypeOK'
  /\ Alone(p)
  /\ pc'[p] \in L
  /\ cmd'[p] = cmd[p]

\* Skip changes only where p goes on.
LEMMA SkipTypes ==
  ASSUME TypeOK, NEW p \in Procs, NEW k \in Conts, Skip(p, k)
  PROVE  Flows(p, {k.at}) /\ UNCHANGED <<hostVars, cur, todo, seen, loc, pid, status>>
  <1>1. Go(p, k) /\ UNCHANGED <<cs, win, clock, dir, mnt, cmd, cur, todo, seen, loc, pid, status>>
    BY DEF Skip
  <1> QED
    BY <1>1, GoTypes DEF TypeOK, Flows, Alone, hostVars

-----------------------------------------------------------------------------
(* Types: what each operation of a component does to the locals of its     *)
(* process, and that it keeps every variable well typed                    *)

\* The record constructors yield records of their type.
LEMMA ValueTypes ==
  /\ ZeroState \in States /\ ZeroState.pid = NoPid
  /\ NoDir \in StateDirs /\ Unreadable \in StateDirs
  /\ \A s \in States : StateFile(s) \in StateDirs
  /\ NoMount \in MountPoints /\ FreePid \in Processes
  <1>1. MaxStarts \in Nat
    BY HostAssumption
  <1> QED
    BY <1>1 DEF ZeroState, States, NoDir, Unreadable, StateFile, StateDirs, NoMount,
                MountPoints, FreePid, Processes

\* os.WriteFile, first step
LEMMA TruncateTypes ==
  ASSUME TypeOK, NEW p \in Procs, cur[p] \in Ids, NEW here, NEW next,
         To(next) \in Conts, NEW bad \in Conts, TruncateState(p, here, next, bad)
  PROVE  /\ Flows(p, {next, bad.at})
         /\ UNCHANGED <<cs, win, clock, mnt, cur, todo, seen, loc, pid, status>>
  <1>1. /\ UNCHANGED <<cs, win, clock, mnt, cmd, cur, todo, seen, loc, pid, status>>
        /\ Go(p, To(next)) \/ Go(p, bad)
        /\ UNCHANGED dir \/ dir' = [dir EXCEPT ![cur[p]] = Unreadable]
    BY DEF TruncateState
  <1>2. dir' \in [Ids -> StateDirs]
    BY <1>1, ValueTypes DEF TypeOK
  <1>3. To(next).at = next
    BY DEF To
  <1> QED
    BY <1>1, <1>2, <1>3, GoTypes DEF TypeOK, Flows, Alone

\* os.WriteFile, second step
LEMMA FillTypes ==
  ASSUME TypeOK, NEW p \in Procs, cur[p] \in Ids, NEW here, NEW ok \in Conts,
         NEW bad \in Conts, FillState(p, here, ok, bad)
  PROVE  /\ Flows(p, {ok.at, bad.at})
         /\ UNCHANGED <<cs, win, clock, mnt, cur, todo, seen, loc, pid, status>>
  <1>1. /\ UNCHANGED <<cs, win, clock, mnt, cmd, cur, todo, seen, loc, pid, status>>
        /\ Go(p, ok) \/ Go(p, bad)
        /\ \/ UNCHANGED dir
           \/ dir' = [dir EXCEPT ![cur[p]] = Unreadable]
           \/ dir' = [dir EXCEPT ![cur[p]] = StateFile(loc[p])]
    BY DEF FillState
  <1>2. loc[p] \in States
    BY DEF TypeOK
  <1>3. dir' \in [Ids -> StateDirs]
    BY <1>1, <1>2, ValueTypes DEF TypeOK
  <1> QED
    BY <1>1, <1>3, GoTypes DEF TypeOK, Flows, Alone

\* Initialize
LEMMA InitializeTypes ==
  ASSUME TypeOK, NEW p \in Procs, cur[p] \in Ids, NEW ok \in Conts, NEW bad \in Conts,
         Initialize(p, ok, bad)
  PROVE  /\ Flows(p, {"init.truncate", "init.write", ok.at, bad.at})
         /\ UNCHANGED <<cs, win, clock, mnt, cur, todo, seen, pid, status>>
  <1>1. CASE pc[p] = "init.mkdir"
    <2>1. /\ UNCHANGED <<cs, win, clock, mnt, cmd, cur, todo, seen, pid, status>>
          /\ Go(p, To("init.truncate")) \/ Go(p, bad)
          /\ UNCHANGED dir \/ dir' = [dir EXCEPT ![cur[p]] = IF @ = NoDir THEN Unreadable ELSE @]
          /\ loc' = [loc EXCEPT ![p] = ZeroState]
      BY <1>1 DEF Initialize, TruncateState, FillState
    <2>2. dir' \in [Ids -> StateDirs] /\ loc' \in [Procs -> States]
      BY <2>1, ValueTypes DEF TypeOK
    <2>3. To("init.truncate") \in Conts /\ To("init.truncate").at = "init.truncate"
      BY ContTypes DEF To, Steps
    <2>4. /\ pc' \in [Procs -> Steps] /\ errs' \in [Procs -> SUBSET {"dir", "mount", "container", "other"}]
          /\ pc'[p] \in {"init.truncate", bad.at}
          /\ \A q \in Procs \ {p} : pc'[q] = pc[q] /\ errs'[q] = errs[q]
      BY <2>1, <2>3, GoTypes
    <2> QED
      BY <2>1, <2>2, <2>4 DEF TypeOK, Flows, Alone
  <1>2. CASE TruncateState(p, "init.truncate", "init.write", bad)
    <2>1. To("init.write") \in Conts
      BY ContTypes DEF Steps, WriteSteps
    <2> QED
      BY <1>2, <2>1, TruncateTypes DEF Flows
  <1>3. CASE FillState(p, "init.write", ok, bad)
    BY <1>3, FillTypes DEF Flows
  <1> QED
    BY <1>1, <1>2, <1>3 DEF Initialize

\* DeleteState
LEMMA DeleteStateTypes ==
  ASSUME TypeOK, NEW p \in Procs, cur[p] \in Ids, NEW ok \in Conts, NEW bad \in Conts,
         DeleteState(p, ok, bad)
  PROVE  /\ Flows(p, {ok.at, bad.at})
         /\ UNCHANGED <<cs, win, clock, mnt, cur, todo, seen, loc, pid, status>>
  <1>1. /\ UNCHANGED <<cs, win, clock, mnt, cmd, cur, todo, seen, loc, pid, status>>
        /\ Go(p, ok) \/ Go(p, bad)
        /\ UNCHANGED dir \/ dir' = [dir EXCEPT ![cur[p]] = NoDir]
    BY DEF DeleteState
  <1>2. dir' \in [Ids -> StateDirs]
    BY <1>1, ValueTypes DEF TypeOK
  <1> QED
    BY <1>1, <1>2, GoTypes DEF TypeOK, Flows, Alone

\* SetFailure
LEMMA SetFailureTypes ==
  ASSUME TypeOK, NEW p \in Procs, cur[p] \in Ids, NEW done \in Conts, SetFailure(p, done)
  PROVE  /\ Flows(p, {"fail.truncate", "fail.write", done.at})
         /\ UNCHANGED <<cs, win, clock, mnt, cur, todo, seen, pid, status>>
  <1>1. CASE pc[p] = "fail.load"
    <2>1. /\ UNCHANGED <<hostVars, cmd, cur, todo, seen, pid, status>>
          /\ Go(p, To("fail.truncate")) \/ Go(p, done)
          /\ UNCHANGED loc \/ loc' = [loc EXCEPT ![p] = [ZeroState EXCEPT !.failed = TRUE]]
      BY <1>1 DEF SetFailure, TruncateState, FillState
    <2>2. [ZeroState EXCEPT !.failed = TRUE] \in States
      BY ValueTypes DEF States
    <2>3. loc' \in [Procs -> States]
      BY <2>1, <2>2 DEF TypeOK
    <2>4. To("fail.truncate") \in Conts /\ To("fail.truncate").at = "fail.truncate"
      BY ContTypes DEF To, Steps
    <2>5. /\ pc' \in [Procs -> Steps] /\ errs' \in [Procs -> SUBSET {"dir", "mount", "container", "other"}]
          /\ pc'[p] \in {"fail.truncate", done.at}
          /\ \A q \in Procs \ {p} : pc'[q] = pc[q] /\ errs'[q] = errs[q]
      BY <2>1, <2>4, GoTypes
    <2> QED
      BY <2>1, <2>3, <2>5 DEF TypeOK, Flows, Alone, hostVars
  <1>2. CASE TruncateState(p, "fail.truncate", "fail.write", done)
    <2>1. To("fail.write") \in Conts
      BY ContTypes DEF Steps, WriteSteps
    <2> QED
      BY <1>2, <2>1, TruncateTypes DEF Flows
  <1>3. CASE FillState(p, "fail.write", done, done)
    BY <1>3, FillTypes DEF Flows
  <1> QED
    BY <1>1, <1>2, <1>3 DEF SetFailure

\* SetSuccess, once a process was started
LEMMA SetSuccessTypes ==
  ASSUME TypeOK, NEW p \in Procs, cur[p] \in Ids, pid[p] \in Pids, NEW ok \in Conts,
         NEW bad \in Conts, SetSuccess(p, ok, bad)
  PROVE  /\ Flows(p, {"succ.open", "succ.truncate", "succ.write", "bad.truncate",
                      "bad.write", ok.at, bad.at})
         /\ UNCHANGED <<cs, win, clock, mnt, cur, todo, seen, pid, status>>
  <1> DEFINE L == {"succ.open", "succ.truncate", "succ.write", "bad.truncate",
                   "bad.write", ok.at, bad.at}
  <1>0. /\ To("succ.open") \in Conts /\ To("succ.open").at = "succ.open"
        /\ To("succ.truncate") \in Conts /\ To("succ.truncate").at = "succ.truncate"
        /\ Err("bad.truncate") \in Conts /\ Err("bad.truncate").at = "bad.truncate"
        /\ To("succ.write") \in Conts /\ To("bad.write") \in Conts
    BY ContTypes DEF To, Err, Steps, WriteSteps
  <1>1. CASE pc[p] \in {"succ.load", "succ.open"}
    <2>1. /\ UNCHANGED <<hostVars, cmd, cur, todo, seen, pid, status>>
          /\ \E k \in {To("succ.open"), To("succ.truncate"), Err("bad.truncate"), bad} : Go(p, k)
          /\ \/ UNCHANGED loc
             \/ loc' = [loc EXCEPT ![p] = [dir[cur[p]].state EXCEPT !.pid = pid[p]]]
             \/ loc' = [loc EXCEPT ![p].start = win[pid[p]].start]
             \/ loc' = [loc EXCEPT ![p].failed = TRUE]
      BY <1>1 DEF SetSuccess, TruncateState, FillState
    <2>2. dir[cur[p]].state \in States /\ win[pid[p]].start \in 0..MaxStarts
      BY DEF TypeOK, StateDirs, Processes
    <2>3. [dir[cur[p]].state EXCEPT !.pid = pid[p]] \in States
      BY <2>2 DEF States
    <2>4. loc' \in [Procs -> States] /\ \A q \in Procs \ {p} : loc'[q] = loc[q]
      <3>1. loc \in [Procs -> States]
        BY DEF TypeOK
      <3>2. CASE loc' = [loc EXCEPT ![p] = [dir[cur[p]].state EXCEPT !.pid = pid[p]]]
        BY <2>3, <3>1, <3>2
      <3>3. CASE loc' = [loc EXCEPT ![p].start = win[pid[p]].start]
        BY <2>2, <3>1, <3>3 DEF States
      <3>4. CASE loc' = [loc EXCEPT ![p].failed = TRUE]
        BY <3>1, <3>4 DEF States
      <3> QED
        BY <2>1, <3>1, <3>2, <3>3, <3>4
    <2>5. /\ pc' \in [Procs -> Steps] /\ errs' \in [Procs -> SUBSET {"dir", "mount", "container", "other"}]
          /\ pc'[p] \in L
          /\ \A q \in Procs \ {p} : pc'[q] = pc[q] /\ errs'[q] = errs[q]
      <3>1. PICK k \in {To("succ.open"), To("succ.truncate"), Err("bad.truncate"), bad} : Go(p, k)
        BY <2>1
      <3>2. k \in Conts /\ k.at \in L
        BY <1>0, <3>1
      <3> QED
        BY <3>1, <3>2, GoTypes
    <2> QED
      BY <2>1, <2>4, <2>5 DEF TypeOK, Flows, Alone, hostVars
  <1>2. CASE TruncateState(p, "succ.truncate", "succ.write", bad)
    BY <1>0, <1>2, TruncateTypes DEF Flows
  <1>3. CASE FillState(p, "succ.write", ok, bad)
    BY <1>3, FillTypes DEF Flows
  <1>4. CASE TruncateState(p, "bad.truncate", "bad.write", bad)
    BY <1>0, <1>4, TruncateTypes DEF Flows
  <1>5. CASE FillState(p, "bad.write", bad, bad)
    BY <1>5, FillTypes DEF Flows
  <1> QED
    BY <1>1, <1>2, <1>3, <1>4, <1>5 DEF SetSuccess

\* Manager.State
LEMMA StateTypes ==
  ASSUME TypeOK, NEW p \in Procs, cur[p] \in Ids, NEW ok \in Conts,
         NEW missing \in Conts, NEW bad \in Conts, State(p, ok, missing, bad)
  PROVE  /\ Flows(p, {"state.load", "state.probe", ok.at, missing.at, bad.at})
         /\ UNCHANGED <<hostVars, cur, todo, pid>>
  <1> DEFINE L == {"state.load", "state.probe", ok.at, missing.at, bad.at}
  <1>1. /\ UNCHANGED <<hostVars, cmd, cur, todo, pid>>
        /\ \E k \in {To("state.load"), To("state.probe"), ok, missing, bad} : Go(p, k)
    BY DEF State
  <1>2. seen' \in [Procs -> {"unknown", "none", "live", "stopped"}]
        /\ \A q \in Procs \ {p} : seen'[q] = seen[q]
    <2>1. \/ UNCHANGED seen
          \/ seen' = [seen EXCEPT ![p] = IF cs[cur[p]] = "stopped" THEN "stopped" ELSE "live"]
          \/ seen' = [seen EXCEPT ![p] = "none"]
      BY DEF State
    <2> QED
      BY <2>1 DEF TypeOK
  <1>3. loc' \in [Procs -> States] /\ \A q \in Procs \ {p} : loc'[q] = loc[q]
    <2>1. UNCHANGED loc \/ loc' = [loc EXCEPT ![p] = dir[cur[p]].state]
      BY DEF State
    <2> QED
      BY <2>1 DEF TypeOK, StateDirs
  <1>4. status' \in [Procs -> {"none", "created", "running", "stopped"}]
        /\ \A q \in Procs \ {p} : status'[q] = status[q]
    <2>1. \/ UNCHANGED status
          \/ status' = [status EXCEPT ![p] = "stopped"]
          \/ status' = [status EXCEPT ![p] = UserProgramStatus(loc[p])]
      BY DEF State
    <2>2. UserProgramStatus(loc[p]) \in {"created", "running", "stopped"}
      BY DEF UserProgramStatus
    <2> QED
      BY <2>1, <2>2 DEF TypeOK
  <1>5. /\ pc' \in [Procs -> Steps] /\ errs' \in [Procs -> SUBSET {"dir", "mount", "container", "other"}]
        /\ pc'[p] \in L
        /\ \A q \in Procs \ {p} : pc'[q] = pc[q] /\ errs'[q] = errs[q]
    <2>1. PICK k \in {To("state.load"), To("state.probe"), ok, missing, bad} : Go(p, k)
      BY <1>1
    <2>2. k \in Conts /\ k.at \in L
      BY <2>1, ContTypes DEF To, Steps
    <2> QED
      BY <2>1, <2>2, GoTypes
  <1> QED
    BY <1>1, <1>2, <1>3, <1>4, <1>5 DEF TypeOK, Flows, Alone, hostVars

\* Processes that exit keep their owner, their start time and their handles.
LEMMA ExitedKeeps ==
  ASSUME win \in [Pids -> Processes], NEW S, win' \in Exited(S)
  PROVE  /\ win' \in [Pids -> Processes]
         /\ \A q \in Pids :
              /\ q \notin S => win'[q] = win[q]
              /\ q \in S => win'[q].st \in {"exited", "exited259"}
              /\ win'[q].owner = win[q].owner
              /\ win'[q].start = win[q].start
              /\ win'[q].held = win[q].held
  <1>1. PICK c \in {"exited", "exited259"} :
          win' = [q \in Pids |-> IF q \in S THEN [win[q] EXCEPT !.st = c] ELSE win[q]]
    BY DEF Exited
  <1>2. ASSUME NEW q \in Pids
        PROVE  /\ win'[q] \in Processes
               /\ q \notin S => win'[q] = win[q]
               /\ q \in S => win'[q].st \in {"exited", "exited259"}
               /\ win'[q].owner = win[q].owner
               /\ win'[q].start = win[q].start
               /\ win'[q].held = win[q].held
    <2>1. win'[q] = IF q \in S THEN [win[q] EXCEPT !.st = c] ELSE win[q]
      BY <1>1
    <2>2. win[q] \in Processes
      OBVIOUS
    <2> QED
      BY <1>1, <2>1, <2>2 DEF Processes
  <1> QED
    BY <1>1, <1>2

\* deleteContainer
LEMMA DestroyTypes ==
  ASSUME TypeOK, NEW p \in Procs, cur[p] \in Ids, NEW ok \in Conts, NEW bad \in Conts,
         DestroyContainer(p, ok, bad)
  PROVE  /\ Flows(p, {"shutdown", "terminate", ok.at, bad.at})
         /\ UNCHANGED <<clock, dir, mnt, cur, todo, seen, loc, pid, status>>
  <1> DEFINE L == {"shutdown", "terminate", ok.at, bad.at}
  <1>1. /\ UNCHANGED <<clock, dir, mnt, cmd, cur, todo, seen, loc, pid, status>>
        /\ \E k \in {To("shutdown"), To("terminate"), ok, bad} : Go(p, k)
        /\ UNCHANGED cs \/ Gone(cur[p])
        /\ UNCHANGED win \/ win' \in Exited(OfContainer(cur[p]))
    BY DEF DestroyContainer
  <1>2. cs' \in [Ids -> {"none", "created", "running", "stopped"}]
    BY <1>1 DEF TypeOK, Gone
  <1>3. win' \in [Pids -> Processes]
    BY <1>1, ExitedKeeps DEF TypeOK
  <1>4. /\ pc' \in [Procs -> Steps] /\ errs' \in [Procs -> SUBSET {"dir", "mount", "container", "other"}]
        /\ pc'[p] \in L
        /\ \A q \in Procs \ {p} : pc'[q] = pc[q] /\ errs'[q] = errs[q]
    <2>1. PICK k \in {To("shutdown"), To("terminate"), ok, bad} : Go(p, k)
      BY <1>1
    <2>2. k \in Conts /\ k.at \in L
      BY <2>1, ContTypes DEF To, Steps
    <2> QED
      BY <2>1, <2>2, GoTypes
  <1> QED
    BY <1>1, <1>2, <1>3, <1>4 DEF TypeOK, Flows, Alone

\* Create
LEMMA CreateTypes ==
  ASSUME TypeOK, NEW p \in Procs, cur[p] \in Ids, NEW ok \in Conts, NEW bad \in Conts,
         Create(p, ok, bad)
  PROVE  /\ Flows(p, {"create.create", "create.start", "destroy.props", ok.at, bad.at})
         /\ UNCHANGED <<win, clock, dir, mnt, cur, todo, loc, pid, status>>
  <1> DEFINE L == {"create.create", "create.start", "destroy.props", ok.at, bad.at}
  <1>1. /\ UNCHANGED <<win, clock, dir, mnt, cmd, cur, todo, loc, pid, status>>
        /\ \E k \in {To("create.create"), To("create.start"), Err("destroy.props"), ok, bad} :
             Go(p, k)
        /\ \/ UNCHANGED cs
           \/ cs' = [cs EXCEPT ![cur[p]] = "created"]
           \/ cs' = [cs EXCEPT ![cur[p]] = "running"]
        /\ \/ UNCHANGED seen
           \/ seen' = [seen EXCEPT ![p] = "none"]
           \/ seen' = [seen EXCEPT ![p] = "live"]
    BY DEF Create, hostVars
  <1>2. cs' \in [Ids -> {"none", "created", "running", "stopped"}]
    BY <1>1 DEF TypeOK
  <1>3. seen' \in [Procs -> {"unknown", "none", "live", "stopped"}]
        /\ \A q \in Procs \ {p} : seen'[q] = seen[q]
    BY <1>1 DEF TypeOK
  <1>4. /\ pc' \in [Procs -> Steps] /\ errs' \in [Procs -> SUBSET {"dir", "mount", "container", "other"}]
        /\ pc'[p] \in L
        /\ \A q \in Procs \ {p} : pc'[q] = pc[q] /\ errs'[q] = errs[q]
    <2>1. PICK k \in {To("create.create"), To("create.start"), Err("destroy.props"), ok, bad} :
            Go(p, k)
      BY <1>1
    <2>2. k \in Conts /\ k.at \in L
      <3>1. {"create.create", "create.start", "destroy.props"} \subseteq Steps \ {"idle"}
        BY DEF Steps
      <3> QED
        BY <2>1, <3>1, ContTypes
    <2> QED
      BY <2>1, <2>2, GoTypes
  <1> QED
    BY <1>1, <1>2, <1>3, <1>4 DEF TypeOK, Flows, Alone

\* Delete
LEMMA DeleteTypes ==
  ASSUME TypeOK, NEW p \in Procs, cur[p] \in Ids, NEW ok \in Conts, NEW bad \in Conts,
         Delete(p, ok, bad)
  PROVE  /\ Flows(p, {"destroy.props", "shutdown", "terminate", ok.at, bad.at})
         /\ UNCHANGED <<clock, dir, mnt, cur, todo, seen, loc, pid, status>>
  <1>1. CASE pc[p] = "delete.open" /\ (Skip(p, To("destroy.props")) \/ Skip(p, bad))
    <2>1. To("destroy.props") \in Conts /\ To("destroy.props").at = "destroy.props"
      BY ContTypes DEF To, Steps
    <2> QED
      BY <1>1, <2>1, SkipTypes DEF Flows, hostVars
  <1>2. CASE DestroyContainer(p, ok, bad)
    BY <1>2, DestroyTypes DEF Flows
  <1> QED
    BY <1>1, <1>2 DEF Delete

\* Exec
LEMMA ExecTypes ==
  ASSUME TypeOK, NEW p \in Procs, cur[p] \in Ids, NEW pipes, NEW ok \in Conts,
         NEW notCreated \in Conts, NEW bad \in Conts, Exec(p, pipes, ok, notCreated, bad)
  PROVE  /\ Flows(p, {"exec.create", ok.at, notCreated.at, bad.at})
         /\ UNCHANGED <<cs, dir, mnt, cur, todo, seen, loc, status>>
         /\ pc'[p] \in {"exec.create", notCreated.at, bad.at} \/ pid'[p] \in Pids
  <1>1. CASE pc[p] = "exec.open"
    <2>1. Skip(p, To("exec.create")) \/ Skip(p, bad)
      BY <1>1 DEF Exec
    <2>2. To("exec.create") \in Conts /\ To("exec.create").at = "exec.create"
      BY ContTypes DEF To, Steps
    <2> QED
      BY <2>1, <2>2, SkipTypes DEF Flows, Skip
  <1>2. ASSUME Go(p, notCreated), UNCHANGED <<win, pid, clock>>,
               UNCHANGED <<cs, dir, mnt, cmd, cur, todo, seen, loc, status>>
        PROVE  /\ Flows(p, {"exec.create", ok.at, notCreated.at, bad.at})
               /\ pc'[p] = notCreated.at
    BY <1>2, GoTypes DEF TypeOK, Flows, Alone
  <1>3. ASSUME NEW q \in Pids,
               win' = [win EXCEPT ![q] =
                             [st |-> "alive", owner |-> cur[p], start |-> clock,
                              held |-> IF pipes THEN {p} ELSE {}]],
               pid' = [pid EXCEPT ![p] = q], clock =< MaxStarts, clock' = clock + 1, Go(p, ok),
               UNCHANGED <<cs, dir, mnt, cmd, cur, todo, seen, loc, status>>
        PROVE  /\ Flows(p, {"exec.create", ok.at, notCreated.at, bad.at})
               /\ pid'[p] \in Pids
    <2>1. MaxStarts \in Nat /\ clock \in 1..(MaxStarts + 1)
      BY HostAssumption DEF TypeOK
    <2>2. clock' \in 1..(MaxStarts + 1)
      BY <1>3, <2>1
    <2>3. win' \in [Pids -> Processes]
      BY <1>3, <2>1 DEF TypeOK, Processes
    <2>4. /\ pid' \in [Procs -> Pids \cup {NoPid}] /\ pid'[p] \in Pids
          /\ \A r \in Procs \ {p} : pid'[r] = pid[r]
      BY <1>3 DEF TypeOK
    <2> QED
      BY <1>3, <2>2, <2>3, <2>4, GoTypes DEF TypeOK, Flows, Alone
  <1> QED
    BY <1>1, <1>2, <1>3 DEF Exec

\* Stats
LEMMA StatsTypes ==
  ASSUME TypeOK, NEW p \in Procs, NEW ok \in Conts, NEW bad \in Conts, Stats(p, ok, bad)
  PROVE  /\ Flows(p, {"stats.read", ok.at, bad.at})
         /\ UNCHANGED <<hostVars, cur, todo, seen, loc, pid, status>>
  <1>1. \E k \in {To("stats.read"), ok, bad} : Skip(p, k)
    BY DEF Stats
  <1>2. To("stats.read") \in Conts /\ To("stats.read").at = "stats.read"
    BY ContTypes DEF To, Steps
  <1> QED
    BY <1>1, <1>2, SkipTypes DEF Flows, Skip, hostVars

\* Mount, for a process that was started
LEMMA MountTypes ==
  ASSUME TypeOK, NEW p \in Procs, cur[p] \in Ids, pid[p] \in Pids, NEW ok \in Conts,
         NEW bad \in Conts, Mount(p, ok, bad)
  PROVE  /\ Flows(p, {"mount.mkdir", "mount.set", ok.at, bad.at})
         /\ UNCHANGED <<cs, win, clock, dir, cur, todo, seen, loc, pid, status>>
  <1> DEFINE L == {"mount.mkdir", "mount.set", ok.at, bad.at}
  <1>1. /\ UNCHANGED <<cs, win, clock, dir, cmd, cur, todo, seen, loc, pid, status>>
        /\ \E k \in {To("mount.mkdir"), To("mount.set"), ok, bad} : Go(p, k)
        /\ \/ UNCHANGED mnt
           \/ mnt' = [mnt EXCEPT ![pid[p]].dir = TRUE]
           \/ mnt' = [mnt EXCEPT ![pid[p]].vol = cur[p]]
    BY DEF Mount, Skip
  <1>2. mnt' \in [Pids -> MountPoints]
    <2>1. mnt \in [Pids -> MountPoints]
      BY DEF TypeOK
    <2>2. CASE mnt' = [mnt EXCEPT ![pid[p]].dir = TRUE]
      BY <2>1, <2>2 DEF MountPoints
    <2>3. CASE mnt' = [mnt EXCEPT ![pid[p]].vol = cur[p]]
      BY <2>1, <2>3 DEF MountPoints
    <2> QED
      BY <1>1, <2>1, <2>2, <2>3
  <1>3. /\ pc' \in [Procs -> Steps] /\ errs' \in [Procs -> SUBSET {"dir", "mount", "container", "other"}]
        /\ pc'[p] \in L
        /\ \A q \in Procs \ {p} : pc'[q] = pc[q] /\ errs'[q] = errs[q]
    <2>1. PICK k \in {To("mount.mkdir"), To("mount.set"), ok, bad} : Go(p, k)
      BY <1>1
    <2>2. {"mount.mkdir", "mount.set"} \subseteq Steps \ {"idle"}
      BY DEF Steps
    <2>3. k \in Conts /\ k.at \in L
      BY <2>1, <2>2, ContTypes
    <2> QED
      BY <2>1, <2>3, GoTypes
  <1> QED
    BY <1>1, <1>2, <1>3 DEF TypeOK, Flows, Alone

\* Unmount of a recorded process id
LEMMA UnmountTypes ==
  ASSUME TypeOK, NEW p \in Procs, pc[p] = "unmount.rm" => loc[p].pid # NoPid,
         NEW ok \in Conts, NEW bad \in Conts, Unmount(p, ok, bad)
  PROVE  /\ Flows(p, {"unmount.rm", ok.at, bad.at})
         /\ UNCHANGED <<cs, win, clock, dir, cur, todo, seen, loc, pid, status>>
         /\ loc'[p].pid # NoPid
  <1> DEFINE L == {"unmount.rm", ok.at, bad.at}
  <1>1. /\ UNCHANGED <<cs, win, clock, dir, cmd, cur, todo, seen, loc, pid, status>>
        /\ \E k \in {To("unmount.rm"), ok, bad} : Go(p, k)
        /\ \/ UNCHANGED mnt
           \/ mnt' = [mnt EXCEPT ![loc[p].pid].vol = NoId]
           \/ mnt' = [mnt EXCEPT ![loc[p].pid] = NoMount]
        /\ loc[p].pid # NoPid
    BY DEF Unmount
  <1>2. mnt' \in [Pids -> MountPoints]
    <2>1. mnt \in [Pids -> MountPoints] /\ loc[p].pid \in Pids
      BY <1>1 DEF TypeOK, States
    <2>2. CASE mnt' = [mnt EXCEPT ![loc[p].pid].vol = NoId]
      BY <2>1, <2>2 DEF MountPoints
    <2>3. CASE mnt' = [mnt EXCEPT ![loc[p].pid] = NoMount]
      BY <2>1, <2>3, ValueTypes
    <2> QED
      BY <1>1, <2>1, <2>2, <2>3
  <1>3. /\ pc' \in [Procs -> Steps] /\ errs' \in [Procs -> SUBSET {"dir", "mount", "container", "other"}]
        /\ pc'[p] \in L
        /\ \A q \in Procs \ {p} : pc'[q] = pc[q] /\ errs'[q] = errs[q]
    <2>1. PICK k \in {To("unmount.rm"), ok, bad} : Go(p, k)
      BY <1>1
    <2>2. "unmount.rm" \in Steps \ {"idle"}
      BY DEF Steps
    <2>3. k \in Conts /\ k.at \in L
      BY <2>1, <2>2, ContTypes
    <2> QED
      BY <2>1, <2>3, GoTypes
  <1> QED
    BY <1>1, <1>2, <1>3 DEF TypeOK, Flows, Alone

\* The steps of Runtime's own functions that touch no state
LEMMA PlainTypes ==
  ASSUME TypeOK, NEW p \in Procs, NEW ok \in Conts, NEW bad \in Conts,
         \/ LoadSpec(p, ok, bad) \/ ValidateProcess(p, ok, bad)
         \/ WritePIDFile(p, ok, bad) \/ AttachIO(p, ok, bad)
  PROVE  /\ Flows(p, {ok.at, bad.at})
         /\ UNCHANGED <<hostVars, cur, todo, seen, loc, pid, status>>
  <1>1. Skip(p, ok) \/ Skip(p, bad)
    BY DEF LoadSpec, ValidateProcess, WritePIDFile, AttachIO
  <1> QED
    BY <1>1, SkipTypes DEF Flows, Skip, hostVars

-----------------------------------------------------------------------------
(* Types: the commands                                                     *)

\* A step that leaves the locals of the other processes alone keeps the control
\* invariant, if it does for its own process.
LEMMA ControlKept ==
  ASSUME TypeInv, NEW p \in Procs, NEW L, Flows(p, L), pc[p] # "idle", "idle" \notin L,
         cur'[p] \in Ids,
         pc'[p] \in Started => pid'[p] \in Pids,
         pc'[p] = "unmount.rm" => loc'[p].pid # NoPid
  PROVE  TypeInv'
  <1>1. Control(p)'
    BY DEF TypeInv, Control, Flows, Started
  <1>2. ASSUME NEW q \in Procs \ {p} PROVE Control(q)'
    BY DEF TypeInv, Control, Flows, Alone
  <1> QED
    BY <1>1, <1>2 DEF TypeInv, Flows

\* createContainer
LEMMA CreateContainerTypes ==
  ASSUME TypeInv, NEW p \in Procs, pc[p] # "idle", NEW ok \in {"exit", "exec.open"},
         CreateContainer(p, To(ok))
  PROVE  TypeInv'
  <1>0. TypeOK /\ cur[p] \in Ids
    BY DEF TypeInv, Control
  <1>a. {"exit", "exec.open", "create.props", "init.mkdir", "delete.open"}
          \subseteq Steps \ {"idle"}
    BY DEF Steps
  <1> DEFINE L == {"exit", "exec.open", "create.props", "create.create", "create.start",
                   "destroy.props", "init.mkdir", "init.truncate", "init.write", "delete.open"}
  <1>b. To(ok) \in Conts /\ To(ok).at = ok
    BY <1>a, ContTypes
  <1>c. Err("exit") \in Conts /\ Err("exit").at = "exit"
    BY <1>a, ContTypes
  <1>1. Flows(p, L) /\ cur' = cur
    <2>1. CASE LoadSpec(p, To("create.props"), Err("exit"))
      <3>1. To("create.props") \in Conts /\ To("create.props").at = "create.props"
        BY <1>a, ContTypes
      <3> QED
        BY <1>0, <1>c, <2>1, <3>1, PlainTypes DEF Flows
    <2>2. CASE Create(p, To("init.mkdir"), Err("exit"))
      <3>1. To("init.mkdir") \in Conts /\ To("init.mkdir").at = "init.mkdir"
        BY <1>a, ContTypes
      <3> QED
        BY <1>0, <1>c, <2>2, <3>1, CreateTypes DEF Flows
    <2>3. CASE Initialize(p, To(ok), Err("delete.open"))
      <3>1. Err("delete.open") \in Conts /\ Err("delete.open").at = "delete.open"
        BY <1>a, ContTypes
      <3> QED
        BY <1>0, <1>b, <2>3, <3>1, InitializeTypes DEF Flows
    <2> QED
      BY <2>1, <2>2, <2>3 DEF CreateContainer
  <1>2. L \cap Started = {} /\ "idle" \notin L /\ "unmount.rm" \notin L
    BY DEF Started
  <1> QED
    BY <1>0, <1>1, <1>2, ControlKept DEF Flows

\* startProcess
LEMMA StartProcessTypes ==
  ASSUME TypeInv, NEW p \in Procs, pc[p] # "idle", NEW detach, StartProcess(p, detach)
  PROVE  TypeInv'
  <1>0. TypeOK /\ cur[p] \in Ids /\ (pc[p] \in Started => pid[p] \in Pids)
    BY DEF TypeInv, Control
  <1>a. {"exit", "succ.load", "fail.load", "mount.stat", "pidfile"} \subseteq Steps \ {"idle"}
    BY DEF Steps
  <1>b. Err("exit") \in Conts /\ Err("exit").at = "exit"
    BY <1>a, ContTypes
  <1>1. CASE Exec(p, ~detach, To("succ.load"), Err("fail.load"), Err("exit"))
    <2>1. /\ To("succ.load") \in Conts /\ To("succ.load").at = "succ.load"
          /\ Err("fail.load") \in Conts /\ Err("fail.load").at = "fail.load"
      BY <1>a, ContTypes
    <2>2. /\ Flows(p, {"exec.create", "succ.load", "fail.load", "exit"})
          /\ cur' = cur
          /\ pc'[p] \in {"exec.create", "fail.load", "exit"} \/ pid'[p] \in Pids
      BY <1>0, <1>1, <1>b, <2>1, ExecTypes
    <2>3. pc'[p] \in {"exec.create", "succ.load", "fail.load", "exit"}
      BY <2>2 DEF Flows
    <2> QED
      BY <1>0, <2>2, <2>3, ControlKept DEF Started
  <1>2. CASE SetFailure(p, Err("exit"))
    <2>1. Flows(p, {"fail.truncate", "fail.write", "exit"}) /\ cur' = cur
      BY <1>0, <1>2, <1>b, SetFailureTypes
    <2>2. pc'[p] \in {"fail.truncate", "fail.write", "exit"}
      BY <2>1 DEF Flows
    <2> QED
      BY <1>0, <2>1, <2>2, ControlKept DEF Started
  <1>3. CASE SetSuccess(p, To("mount.stat"), Err("exit"))
    <2>1. To("mount.stat") \in Conts /\ To("mount.stat").at = "mount.stat"
      BY <1>a, ContTypes
    <2>2. pid[p] \in Pids
      BY <1>0, <1>3 DEF SetSuccess, TruncateState, FillState, Started
    <2>3. /\ Flows(p, {"succ.open", "succ.truncate", "succ.write", "bad.truncate",
                       "bad.write", "mount.stat", "exit"})
          /\ cur' = cur /\ pid' = pid
      BY <1>0, <1>3, <1>b, <2>1, <2>2, SetSuccessTypes
    <2>4. pc'[p] # "unmount.rm"
      BY <2>3 DEF Flows
    <2> QED
      BY <1>0, <2>2, <2>3, <2>4, ControlKept
  <1>4. CASE Mount(p, To("pidfile"), Err("exit"))
    <2>1. To("pidfile") \in Conts /\ To("pidfile").at = "pidfile"
      BY <1>a, ContTypes
    <2>2. pid[p] \in Pids
      BY <1>0, <1>4 DEF Mount, Started
    <2>3. Flows(p, {"mount.mkdir", "mount.set", "pidfile", "exit"}) /\ cur' = cur /\ pid' = pid
      BY <1>0, <1>4, <1>b, <2>1, <2>2, MountTypes
    <2>4. pc'[p] # "unmount.rm"
      BY <2>3 DEF Flows
    <2> QED
      BY <1>0, <2>2, <2>3, <2>4, ControlKept
  <1> QED
    BY <1>1, <1>2, <1>3, <1>4 DEF StartProcess

\* Delete, as deleteContainer and a failed create use it
LEMMA DeleteInv ==
  ASSUME TypeInv, NEW p \in Procs, pc[p] # "idle", NEW l \in {"exit", "next"},
         Delete(p, To(l), Err(l))
  PROVE  TypeInv'
  <1>0. TypeOK /\ cur[p] \in Ids
    BY DEF TypeInv, Control
  <1>1. {"exit", "next"} \subseteq Steps \ {"idle"}
    BY DEF Steps
  <1>2. To(l) \in Conts /\ To(l).at = l /\ Err(l) \in Conts /\ Err(l).at = l
    BY <1>1, ContTypes
  <1>3. Flows(p, {"destroy.props", "shutdown", "terminate", l}) /\ cur' = cur
    BY <1>0, <1>2, DeleteTypes
  <1>4. pc'[p] \in {"destroy.props", "shutdown", "terminate", "exit", "next"}
    BY <1>3 DEF Flows
  <1> QED
    BY <1>0, <1>3, <1>4, ControlKept DEF Started

\* State, wherever a command goes on after it
LEMMA StateInv ==
  ASSUME TypeInv, NEW p \in Procs, pc[p] # "idle",
         NEW ok \in Conts, NEW missing \in Conts, NEW bad \in Conts,
         {ok.at, missing.at, bad.at} \subseteq
           {"exit", "next", "unmount", "rmstate", "start.check"},
         State(p, ok, missing, bad)
  PROVE  TypeInv'
  <1>0. TypeOK /\ cur[p] \in Ids
    BY DEF TypeInv, Control
  <1>1. Flows(p, {"state.load", "state.probe", ok.at, missing.at, bad.at}) /\ cur' = cur
    BY <1>0, StateTypes
  <1>2. pc'[p] \in {"state.load", "state.probe", "exit", "next", "unmount", "rmstate",
                    "start.check"}
    BY <1>1 DEF Flows
  <1> QED
    BY <1>0, <1>1, <1>2, ControlKept DEF Started

\* deleteContainer
LEMMA DeleteContainerTypes ==
  ASSUME TypeInv, NEW p \in Procs, pc[p] # "idle", NEW force, NEW l \in {"exit", "next"},
         DeleteContainer(p, force, To(l), Err(l))
  PROVE  TypeInv'
  <1>0. TypeOK /\ cur[p] \in Ids /\ (pc[p] = "unmount.rm" => loc[p].pid # NoPid)
    BY DEF TypeInv, Control
  <1>a. {"exit", "next", "unmount", "rmstate", "delete.open"} \subseteq Steps \ {"idle"}
    BY DEF Steps
  <1>b. /\ To("rmstate") \in Conts /\ To("rmstate").at = "rmstate"
        /\ Err("rmstate") \in Conts /\ Err("rmstate").at = "rmstate"
    BY <1>a, ContTypes
  <1>1. CASE State(p, To("unmount"), IF force THEN To(l) ELSE Err(l), Err("rmstate"))
    <2>1. /\ To("unmount") \in Conts /\ To("unmount").at = "unmount"
          /\ To(l) \in Conts /\ To(l).at = l /\ Err(l) \in Conts /\ Err(l).at = l
      BY <1>a, ContTypes
    <2> QED
      BY <1>1, <1>b, <2>1, StateInv
  <1>2. CASE pc[p] = "unmount" /\ Skip(p, To("rmstate"))
    <2>1. Flows(p, {"rmstate"}) /\ cur' = cur
      BY <1>0, <1>2, <1>b, SkipTypes
    <2>2. pc'[p] = "rmstate"
      BY <2>1 DEF Flows
    <2> QED
      BY <1>0, <2>1, <2>2, ControlKept DEF Started
  <1>3. CASE Unmount(p, To("rmstate"), Err("rmstate"))
    <2>1. Flows(p, {"unmount.rm", "rmstate"}) /\ cur' = cur /\ loc'[p].pid # NoPid
      BY <1>0, <1>3, <1>b, UnmountTypes
    <2>2. pc'[p] \notin Started
      BY <2>1 DEF Flows, Started
    <2> QED
      BY <1>0, <2>1, <2>2, ControlKept
  <1>4. CASE DeleteState(p, To("delete.open"), Err("delete.open"))
    <2>1. /\ To("delete.open") \in Conts /\ To("delete.open").at = "delete.open"
          /\ Err("delete.open") \in Conts /\ Err("delete.open").at = "delete.open"
      BY <1>a, ContTypes
    <2>2. Flows(p, {"delete.open"}) /\ cur' = cur
      BY <1>0, <1>4, <2>1, DeleteStateTypes
    <2>3. pc'[p] = "delete.open"
      BY <2>2 DEF Flows
    <2> QED
      BY <1>0, <2>2, <2>3, ControlKept DEF Started
  <1>5. CASE Delete(p, To(l), Err(l))
    BY <1>5, DeleteInv
  <1> QED
    BY <1>1, <1>2, <1>3, <1>4, <1>5 DEF DeleteContainer

\* Commands but state can be told from no command by their name.
LEMMA NotIdle ==
  ASSUME TypeInv, NEW p \in Procs, cmd[p].op # "state"
  PROVE  pc[p] # "idle"
  BY DEF TypeInv, Control, NoCommand

\* create
LEMMA CreateCommandTypes ==
  ASSUME TypeInv, NEW p \in Procs, CreateCommand(p)
  PROVE  TypeInv'
  <1>1. pc[p] # "idle"
    BY NotIdle DEF CreateCommand
  <1>2. CreateContainer(p, To("exit")) \/ Delete(p, To("exit"), Err("exit"))
    BY DEF CreateCommand
  <1> QED
    BY <1>1, <1>2, CreateContainerTypes, DeleteInv

\* Writing the pid file and attaching go on at exit, at attach or at the delete
\* that follows an attached run.
LEMMA PidFileTypes ==
  ASSUME TypeInv, NEW p \in Procs, pc[p] # "idle", NEW ok \in {"exit", "attach", "state.props"},
         NEW bad \in {"exit", "state.props"},
         \/ WritePIDFile(p, To(ok), Err(bad))
         \/ AttachIO(p, To(ok), Err(bad))
  PROVE  TypeInv'
  <1>0. TypeOK /\ cur[p] \in Ids /\ pid[p] \in Pids
    BY DEF TypeInv, Control, WritePIDFile, AttachIO, Started
  <1>1. {"exit", "attach", "state.props"} \subseteq Steps \ {"idle"}
    BY DEF Steps
  <1>2. To(ok) \in Conts /\ To(ok).at = ok /\ Err(bad) \in Conts /\ Err(bad).at = bad
    BY <1>1, ContTypes
  <1>3. Flows(p, {ok, bad}) /\ cur' = cur /\ pid' = pid
    BY <1>0, <1>2, PlainTypes
  <1>4. pc'[p] # "unmount.rm"
    BY <1>3 DEF Flows
  <1> QED
    BY <1>0, <1>3, <1>4, ControlKept

\* Loading the specification, validating a process
LEMMA LoadTypes ==
  ASSUME TypeInv, NEW p \in Procs, pc[p] # "idle", NEW l \in {"exec.open", "create.props"},
         LoadSpec(p, To(l), Err("exit")) \/ ValidateProcess(p, To(l), Err("exit"))
  PROVE  TypeInv'
  <1>0. TypeOK /\ cur[p] \in Ids
    BY DEF TypeInv, Control
  <1>1. {"exit", "exec.open", "create.props"} \subseteq Steps \ {"idle"}
    BY DEF Steps
  <1>2. To(l) \in Conts /\ To(l).at = l /\ Err("exit") \in Conts /\ Err("exit").at = "exit"
    BY <1>1, ContTypes
  <1>3. Flows(p, {l, "exit"}) /\ cur' = cur
    BY <1>0, <1>2, PlainTypes
  <1>4. pc'[p] \in {"exit", "exec.open", "create.props"}
    BY <1>3 DEF Flows
  <1> QED
    BY <1>0, <1>3, <1>4, ControlKept DEF Started

\* run
LEMMA RunCommandTypes ==
  ASSUME TypeInv, NEW p \in Procs, RunCommand(p)
  PROVE  TypeInv'
  <1>1. pc[p] # "idle"
    BY NotIdle DEF RunCommand
  <1>2. CASE WritePIDFile(p, To(IF cmd[p].flag THEN "exit" ELSE "attach"), Err("exit"))
    BY <1>1, <1>2, PidFileTypes
  <1>3. CASE AttachIO(p, To("state.props"), Err("state.props"))
    BY <1>1, <1>3, PidFileTypes
  <1>4. CASE CreateContainer(p, To("exec.open"))
    BY <1>1, <1>4, CreateContainerTypes
  <1>5. CASE StartProcess(p, cmd[p].flag)
    BY <1>1, <1>5, StartProcessTypes
  <1>6. CASE DeleteContainer(p, FALSE, To("exit"), Err("exit"))
    BY <1>1, <1>6, DeleteContainerTypes
  <1> QED
    BY <1>2, <1>3, <1>4, <1>5, <1>6 DEF RunCommand

\* start
LEMMA StartCommandTypes ==
  ASSUME TypeInv, NEW p \in Procs, StartCommand(p)
  PROVE  TypeInv'
  <1>0. pc[p] # "idle" /\ TypeOK /\ cur[p] \in Ids
    BY NotIdle DEF StartCommand, TypeInv, Control
  <1>a. {"exit", "spec", "start.check"} \subseteq Steps \ {"idle"}
    BY DEF Steps
  <1>b. Err("exit") \in Conts /\ Err("exit").at = "exit"
    BY <1>a, ContTypes
  <1>1. CASE State(p, To("start.check"), Err("exit"), Err("exit"))
    <2>1. To("start.check") \in Conts /\ To("start.check").at = "start.check"
      BY <1>a, ContTypes
    <2> QED
      BY <1>0, <1>1, <1>b, <2>1, StateInv
  <1>2. CASE Skip(p, IF status[p] = "created" THEN To("spec") ELSE Err("exit"))
    <2>1. To("spec") \in Conts /\ To("spec").at = "spec"
      BY <1>a, ContTypes
    <2>2. (Flows(p, {"spec"}) \/ Flows(p, {"exit"})) /\ cur' = cur
      BY <1>0, <1>2, <1>b, <2>1, SkipTypes
    <2>3. pc'[p] \in {"spec", "exit"}
      BY <2>2 DEF Flows
    <2> QED
      BY <1>0, <2>2, <2>3, ControlKept DEF Started
  <1>3. CASE LoadSpec(p, To("exec.open"), Err("exit"))
    BY <1>0, <1>3, LoadTypes
  <1>4. CASE StartProcess(p, FALSE)
    BY <1>0, <1>4, StartProcessTypes
  <1>5. CASE WritePIDFile(p, To("exit"), Err("exit"))
    BY <1>0, <1>5, PidFileTypes
  <1> QED
    BY <1>1, <1>2, <1>3, <1>4, <1>5 DEF StartCommand

\* exec
LEMMA ExecCommandTypes ==
  ASSUME TypeInv, NEW p \in Procs, ExecCommand(p)
  PROVE  TypeInv'
  <1>0. pc[p] # "idle" /\ TypeOK /\ cur[p] \in Ids
    BY NotIdle DEF ExecCommand, TypeInv, Control
  <1>1. CASE ValidateProcess(p, To("exec.open"), Err("exit"))
    BY <1>0, <1>1, LoadTypes
  <1>2. CASE Exec(p, ~cmd[p].flag, To("pidfile"), Err("exit"), Err("exit"))
    <2>a. {"exit", "pidfile"} \subseteq Steps \ {"idle"}
      BY DEF Steps
    <2>1. /\ To("pidfile") \in Conts /\ To("pidfile").at = "pidfile"
          /\ Err("exit") \in Conts /\ Err("exit").at = "exit"
      BY <2>a, ContTypes
    <2>2. /\ Flows(p, {"exec.create", "pidfile", "exit", "exit"}) /\ cur' = cur
          /\ pc'[p] \in {"exec.create", "exit", "exit"} \/ pid'[p] \in Pids
      <3> DEFINE pipes == ~cmd[p].flag
      <3>1. Exec(p, pipes, To("pidfile"), Err("exit"), Err("exit"))
        BY <1>2
      <3> HIDE DEF pipes
      <3> QED
        BY <1>0, <2>1, <3>1, ExecTypes
    <2>3. pc'[p] # "unmount.rm"
      BY <2>2 DEF Flows
    <2>4. pc'[p] \in Started => pid'[p] \in Pids
      BY <2>2 DEF Started
    <2> QED
      BY <1>0, <2>2, <2>3, <2>4, ControlKept
  <1>3. CASE WritePIDFile(p, To(IF cmd[p].flag THEN "exit" ELSE "attach"), Err("exit"))
    BY <1>0, <1>3, PidFileTypes
  <1>4. CASE AttachIO(p, To("exit"), Err("exit"))
    BY <1>0, <1>4, PidFileTypes
  <1> QED
    BY <1>1, <1>2, <1>3, <1>4 DEF ExecCommand

\* state and events
LEMMA LookTypes ==
  ASSUME TypeInv, NEW p \in Procs, StateCommand(p) \/ EventsCommand(p)
  PROVE  TypeInv'
  <1>0. "exit" \in Steps \ {"idle"}
    BY DEF Steps
  <1>1. /\ To("exit") \in Conts /\ To("exit").at = "exit"
        /\ Err("exit") \in Conts /\ Err("exit").at = "exit"
    BY <1>0, ContTypes
  <1>2. CASE State(p, To("exit"), Err("exit"), Err("exit"))
    <2>1. pc[p] # "idle"
      BY <1>2 DEF State
    <2> QED
      BY <1>1, <1>2, <2>1, StateInv
  <1>3. CASE Stats(p, To("exit"), Err("exit"))
    <2>1. pc[p] # "idle" /\ TypeOK /\ cur[p] \in Ids
      BY <1>3 DEF Stats, TypeInv, Control
    <2>2. Flows(p, {"stats.read", "exit"}) /\ cur' = cur
      BY <1>1, <1>3, <2>1, StatsTypes
    <2>3. pc'[p] \in {"stats.read", "exit"}
      BY <2>2 DEF Flows
    <2> QED
      BY <2>1, <2>2, <2>3, ControlKept DEF Started
  <1> QED
    BY <1>2, <1>3 DEF StateCommand, EventsCommand

\* The two steps of delete between containers
LEMMA BetweenTypes ==
  ASSUME TypeInv, NEW p \in Procs, pc[p] # "idle", QuerySidecars(p) \/ NextContainer(p)
  PROVE  TypeInv'
  <1>0. TypeOK /\ cur[p] \in Ids /\ cmd[p].id \in Ids
    BY HostAssumption DEF TypeInv, Control, Command
  <1>a. {"exit", "next", "state.props"} \subseteq Steps \ {"idle"}
    BY DEF Steps
  <1>b. /\ To("exit") \in Conts /\ To("exit").at = "exit"
        /\ Err("exit") \in Conts /\ Err("exit").at = "exit"
        /\ To("next") \in Conts /\ To("next").at = "next"
        /\ To("state.props") \in Conts /\ To("state.props").at = "state.props"
    BY <1>a, ContTypes
  <1>1. CASE QuerySidecars(p)
    <2>1. /\ UNCHANGED <<hostVars, cmd, cur, seen, loc, pid, status>>
          /\ Go(p, To("next")) \/ Go(p, Err("exit"))
          /\ \/ UNCHANGED todo
             \/ todo' = [todo EXCEPT ![p] = {cmd[p].id} \cup {s \in Ids : Owner[s] = cmd[p].id
                                                                     /\ cs[s] # "none"}]
      BY <1>1 DEF QuerySidecars
    <2>2. todo' \in [Procs -> SUBSET Ids] /\ \A q \in Procs \ {p} : todo'[q] = todo[q]
      BY <1>0, <2>1 DEF TypeOK
    <2>a. /\ pc' \in [Procs -> Steps] /\ errs' \in [Procs -> SUBSET {"dir", "mount", "container", "other"}]
          /\ pc'[p] \in {"next", "exit"}
          /\ \A q \in Procs \ {p} : pc'[q] = pc[q] /\ errs'[q] = errs[q]
      BY <1>0, <1>b, <2>1, GoTypes
    <2>3. Flows(p, {"next", "exit"})
      BY <1>0, <2>1, <2>2, <2>a DEF TypeOK, Flows, Alone, hostVars
    <2>4. pc'[p] \in {"next", "exit"}
      BY <2>3 DEF Flows
    <2> QED
      BY <1>0, <2>1, <2>3, <2>4, ControlKept DEF Started
  <1>2. CASE Skip(p, To("exit"))
    <2>1. Flows(p, {"exit"}) /\ cur' = cur
      BY <1>0, <1>2, <1>b, SkipTypes
    <2>2. pc'[p] = "exit"
      BY <2>1 DEF Flows
    <2> QED
      BY <1>0, <2>1, <2>2, ControlKept DEF Started
  <1>3. ASSUME NEW c \in todo[p], cur' = [cur EXCEPT ![p] = c],
               todo' = [todo EXCEPT ![p] = @ \ {c}], Go(p, To("state.props")),
               UNCHANGED <<hostVars, cmd, seen, loc, pid, status>>
        PROVE  TypeInv'
    <2>1. c \in Ids
      BY <1>0 DEF TypeOK
    <2>2. /\ cur' \in [Procs -> Ids \cup {NoId}] /\ cur'[p] = c
          /\ \A q \in Procs \ {p} : cur'[q] = cur[q]
      BY <1>0, <1>3, <2>1 DEF TypeOK
    <2>3. todo' \in [Procs -> SUBSET Ids] /\ \A q \in Procs \ {p} : todo'[q] = todo[q]
      BY <1>0, <1>3 DEF TypeOK
    <2>a. /\ pc' \in [Procs -> Steps] /\ errs' \in [Procs -> SUBSET {"dir", "mount", "container", "other"}]
          /\ pc'[p] = "state.props"
          /\ \A q \in Procs \ {p} : pc'[q] = pc[q] /\ errs'[q] = errs[q]
      BY <1>0, <1>3, <1>b, GoTypes
    <2>4. Flows(p, {"state.props"})
      BY <1>0, <1>3, <2>2, <2>3, <2>a DEF TypeOK, Flows, Alone, hostVars
    <2>5. pc'[p] = "state.props"
      BY <2>4 DEF Flows
    <2> QED
      BY <2>1, <2>2, <2>4, <2>5, ControlKept DEF Started
  <1> QED
    BY <1>1, <1>2, <1>3 DEF NextContainer

\* delete
LEMMA DeleteCommandTypes ==
  ASSUME TypeInv, NEW p \in Procs, DeleteCommand(p)
  PROVE  TypeInv'
  <1>1. pc[p] # "idle"
    BY NotIdle DEF DeleteCommand
  <1>2. CASE QuerySidecars(p) \/ NextContainer(p)
    BY <1>1, <1>2, BetweenTypes
  <1>3. CASE DeleteContainer(p, cmd[p].flag, To("next"), Err("next"))
    BY <1>1, <1>3, DeleteContainerTypes
  <1> QED
    BY <1>2, <1>3 DEF DeleteCommand

\* A command begins.
LEMMA BeginTypes ==
  ASSUME TypeInv, NEW p \in Procs, Begin(p)
  PROVE  TypeInv' /\ Alone(p)
  <1>1. PICK k \in Commands :
          /\ pc[p] = "idle"
          /\ pc' = [pc EXCEPT ![p] = FirstStep[k.op]]
          /\ cmd' = [cmd EXCEPT ![p] = k]
          /\ cur' = [cur EXCEPT ![p] = k.id]
          /\ UNCHANGED <<hostVars, todo, seen, loc, pid, status, errs>>
    BY DEF Begin
  <1>2. k \in Command
    BY HostAssumption
  <1>3. FirstStep[k.op] \in {"spec", "process", "state.props", "stats.open", "query"}
    BY <1>2 DEF Command, FirstStep
  <1>4. FirstStep[k.op] \in Steps \ {"idle"}
    BY <1>3 DEF Steps
  <1>5. k.id \in Ids
    BY <1>2 DEF Command
  <1>6. TypeOK' /\ Alone(p)
    BY <1>1, <1>4, <1>5 DEF TypeInv, TypeOK, Alone, hostVars
  <1>7. Control(p)'
    BY <1>1, <1>3, <1>5 DEF TypeInv, TypeOK, Control, Started
  <1>8. ASSUME NEW q \in Procs \ {p} PROVE Control(q)'
    BY <1>6 DEF TypeInv, Control, Alone
  <1> QED
    BY <1>6, <1>7, <1>8 DEF TypeInv

\* A winc process is gone.
LEMMA GoneTypes ==
  ASSUME TypeInv, NEW p \in Procs, ProcessGone(p)
  PROVE  /\ TypeInv' /\ Alone(p) /\ pc'[p] = "idle"
         /\ \A q \in Pids : /\ win'[q].st = win[q].st /\ win'[q].owner = win[q].owner
                            /\ win'[q].start = win[q].start
                            /\ win'[q].held = win[q].held \ {p}
  <1>1. win' \in [Pids -> Processes]
        /\ \A q \in Pids : /\ win'[q].st = win[q].st /\ win'[q].owner = win[q].owner
                            /\ win'[q].start = win[q].start
                            /\ win'[q].held = win[q].held \ {p}
    <2>1. win' = [q \in Pids |-> [win[q] EXCEPT !.held = @ \ {p}]]
      BY DEF ProcessGone
    <2>2. ASSUME NEW q \in Pids
          PROVE  /\ win'[q] \in Processes
                 /\ win'[q].st = win[q].st /\ win'[q].owner = win[q].owner
                 /\ win'[q].start = win[q].start
                 /\ win'[q].held = win[q].held \ {p}
      <3>1. win[q] \in Processes
        BY DEF TypeInv, TypeOK
      <3>2. win'[q] = [win[q] EXCEPT !.held = @ \ {p}]
        BY <2>1
      <3> QED
        BY <3>1, <3>2 DEF Processes
    <2> QED
      BY <2>1, <2>2
  <1>2. "idle" \in Steps
    BY DEF Steps
  <1>3. TypeOK' /\ Alone(p)
    BY <1>1, <1>2, ValueTypes DEF TypeInv, TypeOK, Alone, ProcessGone
  <1>4. Control(p)' /\ pc'[p] = "idle"
    BY DEF TypeInv, TypeOK, Control, ProcessGone, Started
  <1>5. ASSUME NEW q \in Procs \ {p} PROVE Control(q)'
    BY <1>3 DEF TypeInv, Control, Alone
  <1> QED
    BY <1>1, <1>3, <1>4, <1>5 DEF TypeInv

\* What goes on without winc leaves winc's own state alone.
LEMMA EnvironmentTypes ==
  ASSUME TypeInv, Environment
  PROVE  TypeInv' /\ UNCHANGED <<dir, mnt, procVars>>
  <1>1. UNCHANGED <<dir, mnt, procVars>>
    BY DEF Environment, ProcessExit, ProcessReaped, HostProcess, ContainerExit, ContainerVanishes
  <1>2. win' \in [Pids -> Processes] /\ clock' \in 1..(MaxStarts + 1)
    <2>0. win \in [Pids -> Processes] /\ clock \in 1..(MaxStarts + 1) /\ MaxStarts \in Nat
      BY HostAssumption DEF TypeInv, TypeOK
    <2>1. CASE ProcessExit
      BY <2>0, <2>1, ExitedKeeps DEF ProcessExit
    <2>2. CASE ProcessReaped
      BY <2>0, <2>2, ValueTypes DEF ProcessReaped
    <2>3. CASE HostProcess
      BY <2>0, <2>3 DEF HostProcess, Processes
    <2>4. CASE ContainerExit
      BY <2>0, <2>4, ExitedKeeps DEF ContainerExit
    <2>5. CASE ContainerVanishes
      BY <2>0, <2>5 DEF ContainerVanishes
    <2> QED
      BY <2>1, <2>2, <2>3, <2>4, <2>5 DEF Environment
  <1>3. cs' \in [Ids -> {"none", "created", "running", "stopped"}]
    BY DEF TypeInv, TypeOK, Environment, ProcessExit, ProcessReaped, HostProcess,
           ContainerExit, ContainerVanishes
  <1>4. TypeOK'
    BY <1>1, <1>2, <1>3 DEF TypeInv, TypeOK, procVars
  <1> QED
    BY <1>1, <1>4 DEF TypeInv, Control, procVars

-----------------------------------------------------------------------------
(* The type invariant                                                      *)

\* Every step keeps the variables well typed and the locals in line with the
\* program counters.
LEMMA TypeInvStep ==
  ASSUME TypeInv, [Next]_vars
  PROVE  TypeInv'
  <1>1. ASSUME NEW p \in Procs, Begin(p) PROVE TypeInv'
    BY <1>1, BeginTypes
  <1>2. ASSUME NEW p \in Procs, Step(p) PROVE TypeInv'
    BY <1>2, CreateCommandTypes, RunCommandTypes, StartCommandTypes, ExecCommandTypes,
       LookTypes, DeleteCommandTypes, GoneTypes DEF Step, Return
  <1>3. ASSUME NEW p \in Procs, Crash(p) PROVE TypeInv'
    BY <1>3, GoneTypes DEF Crash
  <1>4. CASE Environment
    BY <1>4, EnvironmentTypes
  <1>5. CASE UNCHANGED vars
    BY <1>5 DEF vars, TypeInv, TypeOK, Control
  <1> QED
    BY <1>1, <1>2, <1>3, <1>4, <1>5 DEF Next

\* Initially no command runs.
LEMMA TypeInvInit == Init => TypeInv
  <1> SUFFICES ASSUME Init PROVE TypeInv
    OBVIOUS
  <1>1. "idle" \in Steps /\ MaxStarts \in Nat
    BY HostAssumption DEF Steps
  <1>2. TypeOK
    BY <1>1, ValueTypes DEF Init, TypeOK
  <1>3. \A p \in Procs : Control(p)
    BY DEF Init, Control, Started
  <1> QED
    BY <1>2, <1>3 DEF TypeInv

\* Whatever winc processes run at the same time and whatever fails, the host's
\* tables and files and the locals of the commands keep their shapes.
THEOREM Typing == Spec => []TypeOK
  <1>1. TypeInv => TypeOK
    BY DEF TypeInv
  <1> QED
    BY <1>1, TypeInvInit, TypeInvStep, PTL DEF Spec

-----------------------------------------------------------------------------
(* The steps of a command, by the operation they belong to                 *)

\* Where the operations begin; a continuation leads to one of these.
Entries ==
  {"exit", "spec", "start.check", "create.props", "init.mkdir", "exec.open", "succ.load",
   "fail.load", "mount.stat", "pidfile", "attach", "state.props", "unmount", "rmstate",
   "delete.open", "next"}

Quiet == {k \in Conts : k.at \in Entries}

\* The operations that the step of a command may belong to
StepOf(p) ==
  \/ \E k \in Quiet : Skip(p, k)
  \/ /\ cmd[p].op \in {"create", "run"}
     /\ \E ok, bad \in Quiet : Create(p, ok, bad) \/ Initialize(p, ok, bad)
  \/ /\ cmd[p].op \in {"run", "start"}
     /\ \E ok, bad \in Quiet : SetFailure(p, bad) \/ SetSuccess(p, ok, bad) \/ Mount(p, ok, bad)
  \/ /\ cmd[p].op \in {"run", "start", "exec"}
     /\ \E pipes \in BOOLEAN, ok, notCreated, bad \in Quiet :
          /\ cmd[p].op = "start" \/ ~cmd[p].flag => pipes
          /\ cmd[p].op = "exec" <=> ok.at = "pidfile"
          /\ Exec(p, pipes, ok, notCreated, bad)
  \/ /\ cmd[p].op \in {"run", "delete"}
     /\ \E ok, bad \in Quiet : Unmount(p, ok, bad) \/ DeleteState(p, ok, bad)
  \/ /\ cmd[p].op \in {"create", "run", "delete"}
     /\ \E ok, bad \in Quiet : Delete(p, ok, bad)
  \/ \E ok, missing, bad \in Quiet : State(p, ok, missing, bad) \/ Stats(p, ok, bad)
  \/ cmd[p].op = "delete" /\ (QuerySidecars(p) \/ NextContainer(p))

\* The entry points are continuations.
LEMMA QuietTypes ==
  ASSUME NEW l \in Entries
  PROVE  /\ To(l) \in Quiet /\ To(l).at = l /\ To(l).err = FALSE
         /\ Err(l) \in Quiet /\ Err(l).at = l /\ Err(l).err = TRUE
  <1>1. l \in Steps \ {"idle"}
    BY DEF Entries, Steps
  <1> QED
    BY <1>1, ContTypes DEF Quiet

\* createContainer is made of these operations.
LEMMA CreateContainerCases ==
  ASSUME NEW p \in Procs, cmd[p].op \in {"create", "run"}, NEW ok \in {"exit", "exec.open"},
         CreateContainer(p, To(ok))
  PROVE  StepOf(p)
  <1>1. {ok, "exit", "create.props", "init.mkdir", "delete.open"} \subseteq Entries
    BY DEF Entries
  <1>2. /\ To(ok) \in Quiet /\ Err("exit") \in Quiet /\ To("create.props") \in Quiet
        /\ To("init.mkdir") \in Quiet /\ Err("delete.open") \in Quiet
    BY <1>1, QuietTypes
  <1>3. CASE LoadSpec(p, To("create.props"), Err("exit"))
    BY <1>2, <1>3 DEF StepOf, LoadSpec
  <1>4. CASE Create(p, To("init.mkdir"), Err("exit"))
    BY <1>2, <1>4 DEF StepOf
  <1>5. CASE Initialize(p, To(ok), Err("delete.open"))
    BY <1>2, <1>5 DEF StepOf
  <1> QED
    BY <1>3, <1>4, <1>5 DEF CreateContainer

\* So is startProcess; start, and run unless it is detached, ask for pipes.
LEMMA StartProcessCases ==
  ASSUME NEW p \in Procs, cmd[p].op \in {"run", "start"}, NEW detach \in BOOLEAN,
         cmd[p].op = "start" \/ ~cmd[p].flag => ~detach,
         StartProcess(p, detach)
  PROVE  StepOf(p)
  <1>1. {"exit", "succ.load", "fail.load", "mount.stat", "pidfile"} \subseteq Entries
    BY DEF Entries
  <1>2. /\ Err("exit") \in Quiet /\ To("succ.load") \in Quiet /\ To("succ.load").at = "succ.load"
        /\ Err("fail.load") \in Quiet
        /\ To("mount.stat") \in Quiet /\ To("pidfile") \in Quiet
    BY <1>1, QuietTypes
  <1>3. CASE Exec(p, ~detach, To("succ.load"), Err("fail.load"), Err("exit"))
    <2> DEFINE pipes == ~detach
    <2>1. pipes \in BOOLEAN /\ (cmd[p].op = "start" \/ ~cmd[p].flag => pipes)
      OBVIOUS
    <2>2. Exec(p, pipes, To("succ.load"), Err("fail.load"), Err("exit"))
      BY <1>3
    <2> HIDE DEF pipes
    <2> QED
      BY <1>2, <2>1, <2>2 DEF StepOf
  <1>4. CASE SetFailure(p, Err("exit"))
    BY <1>2, <1>4 DEF StepOf
  <1>5. CASE SetSuccess(p, To("mount.stat"), Err("exit"))
    BY <1>2, <1>5 DEF StepOf
  <1>6. CASE Mount(p, To("pidfile"), Err("exit"))
    BY <1>2, <1>6 DEF StepOf
  <1> QED
    BY <1>3, <1>4, <1>5, <1>6 DEF StartProcess

\* So is deleteContainer.
LEMMA DeleteContainerCases ==
  ASSUME NEW p \in Procs, cmd[p].op \in {"run", "delete"}, NEW force,
         NEW l \in {"exit", "next"}, DeleteContainer(p, force, To(l), Err(l))
  PROVE  StepOf(p)
  <1>1. {l, "unmount", "rmstate", "delete.open"} \subseteq Entries
    BY DEF Entries
  <1>2. /\ To(l) \in Quiet /\ Err(l) \in Quiet /\ To("unmount") \in Quiet
        /\ To("rmstate") \in Quiet /\ Err("rmstate") \in Quiet
        /\ To("delete.open") \in Quiet /\ Err("delete.open") \in Quiet
    BY <1>1, QuietTypes
  <1>3. CASE State(p, To("unmount"), IF force THEN To(l) ELSE Err(l), Err("rmstate"))
    BY <1>2, <1>3 DEF StepOf
  <1>4. CASE pc[p] = "unmount" /\ Skip(p, To("rmstate"))
    BY <1>2, <1>4 DEF StepOf
  <1>5. CASE Unmount(p, To("rmstate"), Err("rmstate"))
    BY <1>2, <1>5 DEF StepOf
  <1>6. CASE DeleteState(p, To("delete.open"), Err("delete.open"))
    BY <1>2, <1>6 DEF StepOf
  <1>7. CASE Delete(p, To(l), Err(l))
    BY <1>2, <1>7 DEF StepOf
  <1> QED
    BY <1>3, <1>4, <1>5, <1>6, <1>7 DEF DeleteContainer

\* Every step of a command belongs to one of the operations, or ends it.
LEMMA StepCases ==
  ASSUME TypeInv, NEW p \in Procs, Step(p)
  PROVE  StepOf(p) \/ ProcessGone(p)
  <1>0. Entries = Entries \cup {"exit", "spec", "start.check", "exec.open", "pidfile", "attach",
                                 "state.props", "next"}
    BY DEF Entries
  <1>1. /\ To("exit") \in Quiet /\ Err("exit") \in Quiet
        /\ To("spec") \in Quiet /\ To("start.check") \in Quiet
    BY <1>0, QuietTypes
  <1>2. /\ To("exec.open") \in Quiet
        /\ To("pidfile") \in Quiet /\ To("pidfile").at = "pidfile"
        /\ To("attach") \in Quiet
        /\ To("state.props") \in Quiet /\ Err("state.props") \in Quiet
    BY <1>0, QuietTypes
  <1>3. CASE CreateCommand(p)
    BY <1>1, <1>3, CreateContainerCases DEF CreateCommand, StepOf
  <1>4. CASE RunCommand(p)
    <2>1. cmd[p].flag \in BOOLEAN
      <3>1. cmd[p] \in Commands \cup {NoCommand}
        BY DEF TypeInv, TypeOK
      <3>2. CASE cmd[p] \in Command
        BY <3>2 DEF Command
      <3>3. CASE cmd[p] = NoCommand
        BY <3>3 DEF NoCommand
      <3>4. Commands \subseteq Command
        BY HostAssumption
      <3> QED
        BY <3>1, <3>2, <3>3, <3>4
    <2>2. CASE WritePIDFile(p, To(IF cmd[p].flag THEN "exit" ELSE "attach"), Err("exit"))
      BY <1>1, <1>2, <2>2 DEF WritePIDFile, StepOf
    <2>3. CASE AttachIO(p, To("state.props"), Err("state.props"))
      BY <1>2, <2>3 DEF AttachIO, StepOf
    <2>4. CASE CreateContainer(p, To("exec.open"))
      BY <1>4, <2>4, CreateContainerCases DEF RunCommand
    <2>5. CASE StartProcess(p, cmd[p].flag)
      BY <1>4, <2>1, <2>5, StartProcessCases DEF RunCommand
    <2>6. CASE DeleteContainer(p, FALSE, To("exit"), Err("exit"))
      BY <1>4, <2>6, DeleteContainerCases DEF RunCommand
    <2> QED
      BY <1>4, <2>2, <2>3, <2>4, <2>5, <2>6 DEF RunCommand
  <1>5. CASE StartCommand(p)
    <2>1. CASE State(p, To("start.check"), Err("exit"), Err("exit"))
      BY <1>1, <2>1 DEF StepOf
    <2>2. CASE Skip(p, IF status[p] = "created" THEN To("spec") ELSE Err("exit"))
      BY <1>1, <2>2 DEF StepOf
    <2>3. CASE LoadSpec(p, To("exec.open"), Err("exit"))
      BY <1>1, <1>2, <2>3 DEF LoadSpec, StepOf
    <2>4. CASE StartProcess(p, FALSE)
      BY <1>5, <2>4, StartProcessCases DEF StartCommand
    <2>5. CASE WritePIDFile(p, To("exit"), Err("exit"))
      BY <1>1, <2>5 DEF WritePIDFile, StepOf
    <2> QED
      BY <1>5, <2>1, <2>2, <2>3, <2>4, <2>5 DEF StartCommand
  <1>6. CASE ExecCommand(p)
    <2>1. CASE ValidateProcess(p, To("exec.open"), Err("exit"))
      BY <1>1, <1>2, <2>1 DEF ValidateProcess, StepOf
    <2>2. CASE Exec(p, ~cmd[p].flag, To("pidfile"), Err("exit"), Err("exit"))
      <3> DEFINE pipes == ~cmd[p].flag
      <3>1. pipes \in BOOLEAN /\ (~cmd[p].flag => pipes)
        OBVIOUS
      <3>2. Exec(p, pipes, To("pidfile"), Err("exit"), Err("exit"))
        BY <2>2
      <3>3. cmd[p].op = "exec"
        BY <1>6 DEF ExecCommand
      <3> HIDE DEF pipes
      <3> QED
        BY <1>1, <1>2, <3>1, <3>2, <3>3 DEF StepOf
    <2>3. CASE WritePIDFile(p, To(IF cmd[p].flag THEN "exit" ELSE "attach"), Err("exit"))
      BY <1>1, <1>2, <2>3 DEF WritePIDFile, StepOf
    <2>4. CASE AttachIO(p, To("exit"), Err("exit"))
      BY <1>1, <2>4 DEF AttachIO, StepOf
    <2> QED
      BY <1>6, <2>1, <2>2, <2>3, <2>4 DEF ExecCommand
  <1>7. CASE StateCommand(p) \/ EventsCommand(p)
    BY <1>1, <1>7 DEF StateCommand, EventsCommand, StepOf
  <1>8. CASE DeleteCommand(p)
    BY <1>8, DeleteContainerCases DEF DeleteCommand, StepOf
  <1>9. CASE Return(p)
    BY <1>9 DEF Return
  <1> QED
    BY <1>3, <1>4, <1>5, <1>6, <1>7, <1>8, <1>9 DEF Step

\* A process that takes a step of a command has a command.
LEMMA StepNotIdle ==
  ASSUME TypeInv, NEW p \in Procs, Step(p)
  PROVE  pc[p] # "idle"
  <1>1. CASE StateCommand(p) \/ EventsCommand(p)
    BY <1>1 DEF StateCommand, EventsCommand, State, Stats
  <1>2. CASE Return(p)
    BY <1>2 DEF Return
  <1> QED
    BY <1>1, <1>2, NotIdle DEF Step, CreateCommand, RunCommand, StartCommand, ExecCommand,
                               DeleteCommand

\* What the step of a command leaves alone
LEMMA StepFrame ==
  ASSUME TypeInv, NEW p \in Procs, pc[p] # "idle", StepOf(p)
  PROVE  /\ TypeOK' /\ Alone(p)
         /\ pc'[p] # "idle" /\ cmd'[p] = cmd[p]
         /\ cmd[p].op # "delete" => cur'[p] = cur[p] /\ todo'[p] = todo[p]
  <1> DEFINE Framed == /\ TypeOK' /\ Alone(p)
                       /\ pc'[p] # "idle" /\ cmd'[p] = cmd[p]
                       /\ cmd[p].op # "delete" => cur'[p] = cur[p] /\ todo'[p] = todo[p]
  <1>0. /\ TypeOK /\ cur[p] \in Ids
        /\ pc[p] \in Started => pid[p] \in Pids
        /\ pc[p] = "unmount.rm" => loc[p].pid # NoPid
    BY DEF TypeInv, Control
  <1>q. \A k \in Quiet : k \in Conts /\ k.at # "idle"
    BY DEF Quiet, Entries
  <1>f. ASSUME NEW L, Flows(p, L), "idle" \notin L, cur' = cur, todo' = todo
        PROVE  Framed
    BY <1>f DEF Flows
  <1>1. ASSUME NEW k \in Quiet, Skip(p, k)
        PROVE  Framed
    <2>2. Flows(p, {k.at})
          /\ cur' = cur /\ todo' = todo
      BY <1>0, <1>1, <1>q, SkipTypes
    <2> QED
      BY <1>f, <1>q, <2>2
  <1>2. ASSUME NEW ok \in Quiet, NEW bad \in Quiet, Create(p, ok, bad)
        PROVE  Framed
    <2>2. Flows(p, {"create.create", "create.start", "destroy.props", ok.at, bad.at})
          /\ cur' = cur /\ todo' = todo
      BY <1>0, <1>2, <1>q, CreateTypes
    <2> QED
      BY <1>f, <1>q, <2>2
  <1>3. ASSUME NEW ok \in Quiet, NEW bad \in Quiet, Initialize(p, ok, bad)
        PROVE  Framed
    <2>2. Flows(p, {"init.truncate", "init.write", ok.at, bad.at})
          /\ cur' = cur /\ todo' = todo
      BY <1>0, <1>3, <1>q, InitializeTypes
    <2> QED
      BY <1>f, <1>q, <2>2
  <1>4. ASSUME NEW bad \in Quiet, SetFailure(p, bad)
        PROVE  Framed
    <2>2. Flows(p, {"fail.truncate", "fail.write", bad.at})
          /\ cur' = cur /\ todo' = todo
      BY <1>0, <1>4, <1>q, SetFailureTypes
    <2> QED
      BY <1>f, <1>q, <2>2
  <1>5. ASSUME NEW ok \in Quiet, NEW bad \in Quiet, SetSuccess(p, ok, bad)
        PROVE  Framed
    <2>1. pid[p] \in Pids
      BY <1>0, <1>5 DEF SetSuccess, TruncateState, FillState, Started
    <2>2. Flows(p, {"succ.open", "succ.truncate", "succ.write", "bad.truncate",
                      "bad.write", ok.at, bad.at})
          /\ cur' = cur /\ todo' = todo
      BY <1>0, <1>5, <1>q, <2>1, SetSuccessTypes
    <2> QED
      BY <1>f, <1>q, <2>2
  <1>6. ASSUME NEW ok \in Quiet, NEW bad \in Quiet, Mount(p, ok, bad)
        PROVE  Framed
    <2>1. pid[p] \in Pids
      BY <1>0, <1>6 DEF Mount, Started
    <2>2. Flows(p, {"mount.mkdir", "mount.set", ok.at, bad.at})
          /\ cur' = cur /\ todo' = todo
      BY <1>0, <1>6, <1>q, <2>1, MountTypes
    <2> QED
      BY <1>f, <1>q, <2>2
  <1>7. ASSUME NEW pipes, NEW ok \in Quiet, NEW notCreated \in Quiet, NEW bad \in Quiet,
               Exec(p, pipes, ok, notCreated, bad)
        PROVE  Framed
    <2>2. Flows(p, {"exec.create", ok.at, notCreated.at, bad.at})
          /\ cur' = cur /\ todo' = todo
      BY <1>0, <1>7, <1>q, ExecTypes
    <2> QED
      BY <1>f, <1>q, <2>2
  <1>8. ASSUME NEW ok \in Quiet, NEW bad \in Quiet, Unmount(p, ok, bad)
        PROVE  Framed
    <2>2. Flows(p, {"unmount.rm", ok.at, bad.at})
          /\ cur' = cur /\ todo' = todo
      BY <1>0, <1>8, <1>q, UnmountTypes
    <2> QED
      BY <1>f, <1>q, <2>2
  <1>9. ASSUME NEW ok \in Quiet, NEW bad \in Quiet, DeleteState(p, ok, bad)
        PROVE  Framed
    <2>2. Flows(p, {ok.at, bad.at})
          /\ cur' = cur /\ todo' = todo
      BY <1>0, <1>9, <1>q, DeleteStateTypes
    <2> QED
      BY <1>f, <1>q, <2>2
  <1>10. ASSUME NEW ok \in Quiet, NEW bad \in Quiet, Delete(p, ok, bad)
        PROVE  Framed
    <2>2. Flows(p, {"destroy.props", "shutdown", "terminate", ok.at, bad.at})
          /\ cur' = cur /\ todo' = todo
      BY <1>0, <1>10, <1>q, DeleteTypes
    <2> QED
      BY <1>f, <1>q, <2>2
  <1>11. ASSUME NEW ok \in Quiet, NEW missing \in Quiet, NEW bad \in Quiet,
               State(p, ok, missing, bad)
        PROVE  Framed
    <2>2. Flows(p, {"state.load", "state.probe", ok.at, missing.at, bad.at})
          /\ cur' = cur /\ todo' = todo
      BY <1>0, <1>11, <1>q, StateTypes
    <2> QED
      BY <1>f, <1>q, <2>2
  <1>12. ASSUME NEW ok \in Quiet, NEW bad \in Quiet, Stats(p, ok, bad)
        PROVE  Framed
    <2>2. Flows(p, {"stats.read", ok.at, bad.at})
          /\ cur' = cur /\ todo' = todo
      BY <1>0, <1>12, <1>q, StatsTypes
    <2> QED
      BY <1>f, <1>q, <2>2
  <1>13. ASSUME QuerySidecars(p) \/ NextContainer(p), cmd[p].op = "delete"
         PROVE  Framed
    <2>1. TypeOK'
      BY <1>13, BetweenTypes DEF TypeInv
    <2>2. {"exit", "next", "state.props"} \subseteq Steps \ {"idle"}
      BY DEF Steps
    <2>3. PICK k \in {To("next"), Err("exit"), To("exit"), To("state.props")} : Go(p, k)
      BY <1>13 DEF QuerySidecars, NextContainer, Skip
    <2>4. k \in Conts
      BY <2>2, ContTypes
    <2>5. pc'[p] # "idle" /\ \A q \in Procs \ {p} : pc'[q] = pc[q] /\ errs'[q] = errs[q]
      BY <1>0, <2>3, <2>4, GoTypes
    <2>6. /\ UNCHANGED <<cmd, seen, loc, pid, status>>
          /\ cur' = cur \/ \E c : cur' = [cur EXCEPT ![p] = c]
          /\ todo' = todo \/ \E T : todo' = [todo EXCEPT ![p] = T]
      BY <1>13 DEF QuerySidecars, NextContainer, Skip
    <2>7. \A q \in Procs \ {p} : cur'[q] = cur[q] /\ todo'[q] = todo[q]
      BY <1>0, <2>6 DEF TypeOK
    <2> QED
      BY <1>13, <2>1, <2>5, <2>6, <2>7 DEF Alone
  <1> HIDE DEF Framed
  <1>14. Framed
    BY <1>1, <1>2, <1>3, <1>4, <1>5, <1>6, <1>7, <1>8, <1>9, <1>10, <1>11, <1>12, <1>13 DEF StepOf
  <1> QED
    BY <1>14 DEF Framed

-----------------------------------------------------------------------------
(* Records                                                                 *)

\* Steps at which a process still needs its copy of state.json
UsesCopy ==
  {"state.probe", "init.truncate", "init.write", "fail.truncate", "fail.write", "succ.open",
   "succ.truncate", "succ.write", "bad.truncate", "bad.write"}

\* A process was started at some time before now.
StartsPast == \A q \in Pids : win[q].st # "free" => 0 < win[q].start /\ win[q].start < clock

\* The record s describes no process but one of c, now and later.
Owns(c, s) ==
  /\ s.start < clock
  /\ \A q \in Pids : s.pid = q /\ win[q].st # "free" /\ s.start = win[q].start => win[q].owner = c

\* Every command but delete works on the container it names.
OnNamed(p) == pc[p] # "idle" /\ cmd[p].op # "delete" => cur[p] = cmd[p].id

\* start and an attached run keep the process they started open, so that its
\* process id is not given away.
HoldsInit(p) ==
  (cmd[p].op = "start" \/ (cmd[p].op = "run" /\ ~cmd[p].flag)) /\ pid[p] # NoPid =>
    /\ p \in win[pid[p]].held
    /\ win[pid[p]].st # "free"
    /\ win[pid[p]].owner = cmd[p].id

\* Steps between the start of an init process and its record
Records == {"succ.load", "succ.open", "succ.truncate", "succ.write", "bad.truncate", "bad.write"}

BaseInv ==
  /\ TypeInv
  /\ StartsPast
  /\ \A p \in Procs : OnNamed(p) /\ HoldsInit(p)

RecordInv ==
  /\ BaseInv
  /\ \A c \in Ids : Owns(c, dir[c].state)
  /\ \A p \in Procs : /\ pc[p] \in UsesCopy => Owns(cur[p], loc[p])
                      /\ pc[p] = "succ.open" => loc[p].pid = pid[p]

\* How the process table moves while nobody but the processes of S closes a handle:
\* a process id is freed when nobody holds it, and given to a new process with a
\* new start time; a process that has exited does not run again.
TableMoves(S) ==
  /\ clock' \in {clock, clock + 1}
  /\ \A q \in Pids :
       \/ win'[q].st = "free" /\ (win[q].st = "free" \/ win[q].held = {})
       \/ /\ win[q].st # "free" /\ win'[q].st # "free"
          /\ win'[q].owner = win[q].owner /\ win'[q].start = win[q].start
          /\ StillActive(q)' => StillActive(q)
          /\ win[q].held \ S \subseteq win'[q].held
       \/ win[q].st = "free" /\ win'[q].start = clock /\ clock' = clock + 1

\* The table does not move when it stays as it is.
LEMMA TableStays ==
  ASSUME TypeOK, UNCHANGED <<win, clock>>
  PROVE  TableMoves({})
  BY DEF TypeOK, Processes, TableMoves, StillActive

\* Processes that exit stay in the table.
LEMMA TableExits ==
  ASSUME TypeOK, NEW S, \A q \in S : Alive(q), win' \in Exited(S), clock' = clock
  PROVE  TableMoves({})
  <1>1. /\ win' \in [Pids -> Processes]
        /\ \A q \in Pids :
              /\ q \notin S => win'[q] = win[q]
              /\ q \in S => win'[q].st \in {"exited", "exited259"}
              /\ win'[q].owner = win[q].owner
              /\ win'[q].start = win[q].start
              /\ win'[q].held = win[q].held
    BY ExitedKeeps DEF TypeOK
  <1> QED
    BY <1>1 DEF TableMoves, StillActive, Alive

\* Exec either starts a process or leaves the table alone.
LEMMA ExecEffect ==
  ASSUME NEW p \in Procs, NEW pipes, NEW ok, NEW notCreated, NEW bad,
         Exec(p, pipes, ok, notCreated, bad)
  PROVE  \/ UNCHANGED <<win, clock, pid>>
         \/ /\ pc[p] = "exec.create" /\ cs[cur[p]] = "running" /\ Go(p, ok)
            /\ clock' = clock + 1
            /\ \E q \in Pids, h \in SUBSET {p} :
                 /\ pipes => h = {p}
                 /\ win[q].st = "free"
                 /\ win' = [win EXCEPT ![q] = [st |-> "alive", owner |-> cur[p],
                                              start |-> clock, held |-> h]]
                 /\ pid' = [pid EXCEPT ![p] = q]
  <1>1. CASE pc[p] = "exec.open"
    BY <1>1 DEF Exec, Skip
  <1>2. ASSUME pc[p] = "exec.create", cs[cur[p]] = "running", Go(p, ok), clock' = clock + 1,
               NEW q \in Pids, win[q].st = "free",
               win' = [win EXCEPT ![q] = [st |-> "alive", owner |-> cur[p], start |-> clock,
                                          held |-> IF pipes THEN {p} ELSE {}]],
               pid' = [pid EXCEPT ![p] = q]
        PROVE  \E r \in Pids, h \in SUBSET {p} :
                 /\ pipes => h = {p}
                 /\ win[r].st = "free"
                 /\ win' = [win EXCEPT ![r] = [st |-> "alive", owner |-> cur[p],
                                              start |-> clock, held |-> h]]
                 /\ pid' = [pid EXCEPT ![p] = r]
    <2>1. CASE pipes
      <3>1. /\ pipes => {p} = {p}
            /\ win[q].st = "free"
            /\ win' = [win EXCEPT ![q] = [st |-> "alive", owner |-> cur[p],
                                         start |-> clock, held |-> {p}]]
            /\ pid' = [pid EXCEPT ![p] = q]
        BY <1>2, <2>1
      <3> QED
        BY <3>1
    <2>2. CASE ~pipes
      <3>1. /\ pipes => {} = {p}
            /\ win[q].st = "free"
            /\ win' = [win EXCEPT ![q] = [st |-> "alive", owner |-> cur[p],
                                         start |-> clock, held |-> {}]]
            /\ pid' = [pid EXCEPT ![p] = q]
        BY <1>2, <2>2
      <3>2. {} \in SUBSET {p}
        OBVIOUS
      <3> QED
        BY <3>1, <3>2, Zenon
    <2> QED
      BY <2>1, <2>2
  <1>3. CASE pc[p] = "exec.create"
    <2>1. CASE UNCHANGED <<win, pid, clock>>
      BY <2>1
    <2>2. CASE /\ cs[cur[p]] = "running"
               /\ \E q \in Pids :
                    /\ win[q].st = "free"
                    /\ win' = [win EXCEPT ![q] =
                                 [st |-> "alive", owner |-> cur[p], start |-> clock,
                                  held |-> IF pipes THEN {p} ELSE {}]]
                    /\ pid' = [pid EXCEPT ![p] = q]
               /\ clock' = clock + 1
               /\ Go(p, ok)
      BY <1>2, <1>3, <2>2
    <2> QED
      BY <1>3, <2>1, <2>2 DEF Exec
  <1> QED
    BY <1>1, <1>3 DEF Exec

\* Starting a process moves the table.
LEMMA TableStarts ==
  ASSUME TypeOK, NEW q \in Pids, win[q].st = "free", clock' = clock + 1, NEW c, NEW h,
         win' = [win EXCEPT ![q] = [st |-> "alive", owner |-> c, start |-> clock, held |-> h]]
  PROVE  TableMoves({})
  <1>1. ASSUME NEW r \in Pids, r # q PROVE win'[r] = win[r]
    BY <1>1 DEF TypeOK
  <1>2. win'[q].start = clock
    BY DEF TypeOK
  <1> QED
    BY <1>1, <1>2 DEF TypeOK, Processes, TableMoves, StillActive

\* Only Exec and Delete touch the process table, and only Exec sets pid.
LEMMA StepTable ==
  ASSUME TypeInv, NEW p \in Procs, StepOf(p)
  PROVE  TableMoves({})
  <1>0. TypeOK
    BY DEF TypeInv
  <1>1. ASSUME NEW ok, NEW bad,
               \/ Skip(p, ok) \/ Create(p, ok, bad) \/ Mount(p, ok, bad) \/ Unmount(p, ok, bad)
               \/ DeleteState(p, ok, bad) \/ Stats(p, ok, bad)
               \/ QuerySidecars(p) \/ NextContainer(p)
        PROVE  UNCHANGED <<win, clock>>
    BY <1>1 DEF Skip, Create, Mount, Unmount, DeleteState, Stats, QuerySidecars, NextContainer,
                hostVars
  <1>2. ASSUME NEW ok, NEW bad,
               Initialize(p, ok, bad) \/ SetFailure(p, bad) \/ SetSuccess(p, ok, bad)
        PROVE  UNCHANGED <<win, clock>>
    BY <1>2 DEF Initialize, SetFailure, SetSuccess, TruncateState, FillState, hostVars
  <1>3. ASSUME NEW ok, NEW missing, NEW bad, State(p, ok, missing, bad)
        PROVE  UNCHANGED <<win, clock>>
    BY <1>3 DEF State, hostVars
  <1>4. ASSUME NEW pipes \in BOOLEAN, NEW ok, NEW notCreated, NEW bad,
               Exec(p, pipes, ok, notCreated, bad)
        PROVE  TableMoves({})
    <2>1. CASE UNCHANGED <<win, clock>>
      BY <1>0, <2>1, TableStays
    <2>2. ASSUME NEW q \in Pids, NEW h, win[q].st = "free", clock' = clock + 1,
                 win' = [win EXCEPT ![q] = [st |-> "alive", owner |-> cur[p], start |-> clock,
                                            held |-> h]]
          PROVE  TableMoves({})
      BY <1>0, <2>2, TableStarts
    <2> QED
      BY <1>4, <2>1, <2>2, ExecEffect
  <1>5. ASSUME NEW ok, NEW bad, Delete(p, ok, bad)
        PROVE  TableMoves({})
    <2>1. clock' = clock /\ (UNCHANGED win \/ win' \in Exited(OfContainer(cur[p])))
      BY <1>5 DEF Delete, DestroyContainer, Skip
    <2>2. \A q \in OfContainer(cur[p]) : Alive(q)
      BY DEF OfContainer
    <2> QED
      BY <1>0, <2>1, <2>2, TableStays, TableExits
  <1> QED
    BY <1>0, <1>1, <1>2, <1>3, <1>4, <1>5, TableStays DEF StepOf

\* Start times stay in the past.
LEMMA StartsKept ==
  ASSUME TypeOK, StartsPast, NEW S, TableMoves(S)
  PROVE  StartsPast'
  BY DEF TypeOK, StartsPast, TableMoves, Processes

\* A record that describes no foreign process never comes to describe one.
LEMMA OwnsKept ==
  ASSUME TypeOK, NEW S, TableMoves(S)
  PROVE  \A c \in Ids, s \in States : Owns(c, s) => Owns(c, s)'
  <1> SUFFICES ASSUME NEW c \in Ids, NEW s \in States, Owns(c, s)
               PROVE  Owns(c, s)'
    OBVIOUS
  <1>1. clock \in Nat /\ s.start \in Nat /\ s.start < clock
    BY HostAssumption DEF TypeOK, States, Owns
  <1>2. s.start < clock'
    BY <1>1 DEF TableMoves
  <1>3. ASSUME NEW q \in Pids, s.pid = q, win'[q].st # "free", s.start = win'[q].start
        PROVE  win'[q].owner = c
    <2>1. CASE /\ win[q].st # "free"
               /\ win'[q].owner = win[q].owner /\ win'[q].start = win[q].start
      BY <1>3, <2>1 DEF Owns
    <2>2. CASE win'[q].start = clock
      BY <1>1, <1>3, <2>2
    <2> QED
      BY <1>3, <2>1, <2>2 DEF TableMoves
  <1> QED
    BY <1>2, <1>3 DEF Owns

\* A process that is held stays what it is.
LEMMA HoldsKept ==
  ASSUME TypeOK, NEW S, TableMoves(S), NEW p \in Procs, p \notin S, HoldsInit(p),
         cmd'[p] = cmd[p], pid'[p] = pid[p]
  PROVE  HoldsInit(p)'
  <1> SUFFICES ASSUME cmd[p].op = "start" \/ (cmd[p].op = "run" /\ ~cmd[p].flag),
                      pid[p] # NoPid
               PROVE  /\ p \in win'[pid[p]].held
                      /\ win'[pid[p]].st # "free"
                      /\ win'[pid[p]].owner = cmd[p].id
    BY DEF HoldsInit
  <1>1. pid[p] \in Pids
    BY DEF TypeOK
  <1>2. /\ p \in win[pid[p]].held
        /\ win[pid[p]].st # "free"
        /\ win[pid[p]].owner = cmd[p].id
    BY DEF HoldsInit
  <1> QED
    BY <1>1, <1>2 DEF TableMoves

\* Only Exec sets pid.
LEMMA StepPid ==
  ASSUME TypeInv, NEW p \in Procs, pc[p] # "idle", StepOf(p)
  PROVE  \/ pid' = pid
         \/ /\ cmd[p].op \in {"run", "start", "exec"} /\ pc[p] = "exec.create"
            /\ cs[cur[p]] = "running" /\ cs' = cs /\ dir' = dir /\ mnt' = mnt
            /\ pc'[p] \in Entries
            /\ cmd[p].op = "exec" <=> pc'[p] = "pidfile"
            /\ pid'[p] \in Pids
            /\ win[pid'[p]].st = "free"
            /\ win'[pid'[p]].st = "alive"
            /\ win'[pid'[p]].owner = cur[p]
            /\ win'[pid'[p]].start = clock
            /\ cmd[p].op = "start" \/ ~cmd[p].flag => win'[pid'[p]].held = {p}
  <1>0. TypeOK
    BY DEF TypeInv
  <1>1. ASSUME NEW ok, NEW bad,
               \/ Skip(p, ok) \/ Create(p, ok, bad) \/ Mount(p, ok, bad) \/ Unmount(p, ok, bad)
               \/ DeleteState(p, ok, bad) \/ Stats(p, ok, bad) \/ Delete(p, ok, bad)
               \/ QuerySidecars(p) \/ NextContainer(p)
        PROVE  pid' = pid
    BY <1>1 DEF Skip, Create, Mount, Unmount, DeleteState, Stats, QuerySidecars, NextContainer,
                Delete, DestroyContainer
  <1>2. ASSUME NEW ok, NEW bad,
               Initialize(p, ok, bad) \/ SetFailure(p, bad) \/ SetSuccess(p, ok, bad)
        PROVE  pid' = pid
    BY <1>2 DEF Initialize, SetFailure, SetSuccess, TruncateState, FillState
  <1>3. ASSUME NEW ok, NEW missing, NEW bad, State(p, ok, missing, bad)
        PROVE  pid' = pid
    BY <1>3 DEF State
  <1>4. ASSUME cmd[p].op \in {"run", "start", "exec"}, NEW pipes \in BOOLEAN,
               NEW ok \in Quiet, NEW notCreated \in Quiet, NEW bad \in Quiet,
               cmd[p].op = "start" \/ ~cmd[p].flag => pipes,
               cmd[p].op = "exec" <=> ok.at = "pidfile",
               Exec(p, pipes, ok, notCreated, bad), pid' # pid
        PROVE  /\ pc[p] = "exec.create" /\ cs[cur[p]] = "running"
               /\ cs' = cs /\ dir' = dir /\ mnt' = mnt
               /\ pc'[p] \in Entries
               /\ cmd[p].op = "exec" <=> pc'[p] = "pidfile"
               /\ pid'[p] \in Pids
               /\ win[pid'[p]].st = "free"
               /\ win'[pid'[p]].st = "alive"
               /\ win'[pid'[p]].owner = cur[p]
               /\ win'[pid'[p]].start = clock
               /\ cmd[p].op = "start" \/ ~cmd[p].flag => win'[pid'[p]].held = {p}
    <2>0. Exec(p, pipes, ok, notCreated, bad) /\ ~UNCHANGED <<win, clock, pid>>
      BY <1>4
    <2>1. PICK q \in Pids, h \in SUBSET {p} :
            /\ pipes => h = {p}
            /\ win[q].st = "free"
            /\ win' = [win EXCEPT ![q] = [st |-> "alive", owner |-> cur[p],
                                         start |-> clock, held |-> h]]
            /\ pid' = [pid EXCEPT ![p] = q]
      BY <2>0, ExecEffect
    <2>2. pc[p] = "exec.create" /\ cs[cur[p]] = "running" /\ Go(p, ok)
      BY <1>4, ExecEffect
    <2>3. cs' = cs /\ dir' = dir /\ mnt' = mnt
      BY <1>4, <2>2 DEF Exec
    <2>4. pid'[p] = q
      BY <1>0, <2>1 DEF TypeOK
    <2>5. win'[q] = [st |-> "alive", owner |-> cur[p], start |-> clock, held |-> h]
      BY <1>0, <2>1 DEF TypeOK
    <2>6. pc'[p] = ok.at /\ ok.at \in Entries
      BY <1>0, <2>2 DEF Go, TypeOK, Quiet
    <2> QED
      BY <1>4, <2>1, <2>2, <2>3, <2>4, <2>5, <2>6
  <1> QED
    BY <1>1, <1>2, <1>3, <1>4 DEF StepOf

-----------------------------------------------------------------------------
(* The handles                                                             *)

\* The kinds of steps there are
LEMMA NextCases ==
  ASSUME TypeInv, [Next]_vars
  PROVE  \/ \E p \in Procs : Begin(p)
         \/ \E p \in Procs : pc[p] # "idle" /\ StepOf(p)
         \/ \E p \in Procs : pc[p] # "idle" /\ ProcessGone(p)
         \/ Environment
         \/ UNCHANGED vars
  <1>1. ASSUME NEW p \in Procs, Step(p)
        PROVE  pc[p] # "idle" /\ (StepOf(p) \/ ProcessGone(p))
    BY <1>1, StepCases, StepNotIdle
  <1>2. ASSUME NEW p \in Procs, Crash(p)
        PROVE  pc[p] # "idle" /\ ProcessGone(p)
    BY <1>2 DEF Crash
  <1> QED
    BY <1>1, <1>2 DEF Next

\* The host and the containers move the process table, too.
LEMMA EnvironmentTable ==
  ASSUME TypeOK, Environment
  PROVE  TableMoves({})
  <1>1. CASE ProcessExit
    BY <1>1, TableExits DEF ProcessExit
  <1>2. CASE ProcessReaped
    BY <1>2 DEF ProcessReaped, TypeOK, TableMoves, Processes, FreePid, StillActive
  <1>3. CASE HostProcess
    BY <1>3, TableStarts DEF HostProcess
  <1>4. CASE ContainerExit
    BY <1>4, TableExits DEF ContainerExit, OfContainer
  <1>5. CASE ContainerVanishes
    BY <1>5, TableStays DEF ContainerVanishes
  <1> QED
    BY <1>1, <1>2, <1>3, <1>4, <1>5 DEF Environment

\* A process that goes closes its own handles.
LEMMA GoneTable ==
  ASSUME TypeOK, NEW p \in Procs, ProcessGone(p)
  PROVE  TableMoves({p})
  <1>1. ASSUME NEW q \in Pids
        PROVE  /\ win'[q].st = win[q].st /\ win'[q].owner = win[q].owner
               /\ win'[q].start = win[q].start /\ win'[q].held = win[q].held \ {p}
    <2>1. win'[q] = [win[q] EXCEPT !.held = @ \ {p}]
      BY DEF ProcessGone
    <2>2. win[q] \in Processes
      BY DEF TypeOK
    <2> QED
      BY <2>1, <2>2 DEF Processes
  <1>2. clock' = clock
    BY DEF ProcessGone
  <1> QED
    BY <1>1, <1>2 DEF TableMoves, StillActive

\* Commands work on the container they name, processes have start times of the
\* past, and the process ids of init processes being recorded are held.
LEMMA BaseInvStep ==
  ASSUME BaseInv, [Next]_vars
  PROVE  BaseInv'
  <1>0. TypeInv /\ TypeOK /\ TypeInv' /\ StartsPast
    BY TypeInvStep DEF BaseInv, TypeInv
  <1>1. ASSUME NEW p \in Procs, Begin(p)
        PROVE  BaseInv'
    <2>1. TableMoves({}) /\ Alone(p) /\ UNCHANGED pid
      BY <1>0, <1>1, TableStays, BeginTypes DEF Begin, hostVars
    <2>2. OnNamed(p)' /\ HoldsInit(p)'
      <3>1. pid'[p] = NoPid
        BY <1>0, <1>1, <2>1 DEF TypeInv, Control, Begin
      <3>2. cur'[p] = cmd'[p].id
        BY <1>0, <1>1 DEF TypeOK, Begin
      <3> QED
        BY <3>1, <3>2 DEF OnNamed, HoldsInit
    <2>3. ASSUME NEW q \in Procs, q # p PROVE OnNamed(q)' /\ HoldsInit(q)'
      BY <1>0, <2>1, <2>3, HoldsKept DEF BaseInv, OnNamed, Alone
    <2> QED
      BY <1>0, <2>1, <2>2, <2>3, StartsKept DEF BaseInv
  <1>2. ASSUME NEW p \in Procs, pc[p] # "idle", StepOf(p)
        PROVE  BaseInv'
    <2>1. /\ TableMoves({}) /\ Alone(p) /\ cmd'[p] = cmd[p] /\ pc'[p] # "idle"
          /\ cmd[p].op # "delete" => cur'[p] = cur[p]
      BY <1>0, <1>2, StepTable, StepFrame
    <2>2. OnNamed(p)'
      BY <1>2, <2>1 DEF BaseInv, OnNamed
    <2>3. HoldsInit(p)'
      <3>1. CASE pid' = pid
        BY <1>0, <2>1, <3>1, HoldsKept DEF BaseInv
      <3>2. CASE pid' # pid
        BY <1>0, <1>2, <2>1, <3>2, StepPid DEF BaseInv, OnNamed, HoldsInit
      <3> QED
        BY <3>1, <3>2
    <2>4. ASSUME NEW q \in Procs, q # p PROVE OnNamed(q)' /\ HoldsInit(q)'
      BY <1>0, <2>1, <2>4, HoldsKept DEF BaseInv, OnNamed, Alone
    <2> QED
      BY <1>0, <2>1, <2>2, <2>3, <2>4, StartsKept DEF BaseInv
  <1>3. ASSUME NEW p \in Procs, ProcessGone(p)
        PROVE  BaseInv'
    <2>1. TableMoves({p}) /\ Alone(p)
      BY <1>0, <1>3, GoneTable, GoneTypes
    <2>2. OnNamed(p)' /\ HoldsInit(p)'
      BY <1>0, <1>3 DEF TypeOK, ProcessGone, OnNamed, HoldsInit
    <2>3. ASSUME NEW q \in Procs, q # p PROVE OnNamed(q)' /\ HoldsInit(q)'
      BY <1>0, <2>1, <2>3, HoldsKept DEF BaseInv, OnNamed, Alone
    <2> QED
      BY <1>0, <2>1, <2>2, <2>3, StartsKept DEF BaseInv
  <1>4. ASSUME TableMoves({}), UNCHANGED <<pc, cmd, cur, pid>>
        PROVE  BaseInv'
    BY <1>0, <1>4, StartsKept, HoldsKept DEF BaseInv, OnNamed
  <1>5. CASE Environment
    BY <1>0, <1>4, <1>5, EnvironmentTable, EnvironmentTypes DEF procVars
  <1>6. CASE UNCHANGED vars
    BY <1>0, <1>4, <1>6, TableStays DEF vars
  <1> QED
    BY <1>0, <1>1, <1>2, <1>3, <1>5, <1>6, NextCases

\* Initially there are neither commands nor processes.
LEMMA BaseInvInit == Init => BaseInv
  <1> SUFFICES ASSUME Init PROVE BaseInv
    OBVIOUS
  <1>1. StartsPast
    BY DEF Init, StartsPast, FreePid
  <1>2. \A p \in Procs : OnNamed(p) /\ HoldsInit(p)
    BY DEF Init, OnNamed, HoldsInit
  <1> QED
    BY <1>1, <1>2, TypeInvInit DEF BaseInv

-----------------------------------------------------------------------------
(* The records                                                             *)

\* A record without a process describes none.
LEMMA ZeroOwns ==
  ASSUME TypeOK, NEW c, NEW s \in States, s.pid = NoPid, s.start = 0
  PROVE  Owns(c, s)
  BY HostAssumption DEF TypeOK, Owns

\* What the first step of a write leaves is no record.
LEMMA TruncateRecords ==
  ASSUME RecordInv, NEW p \in Procs, NEW here, NEW next, NEW bad, TruncateState(p, here, next, bad)
  PROVE  /\ \A c \in Ids : Owns(c, dir'[c].state)
         /\ UNCHANGED <<cur, loc, pid>>
  <1>0. TypeOK
    BY DEF RecordInv, BaseInv, TypeInv
  <1>1. ZeroState \in States /\ ZeroState.pid = NoPid /\ ZeroState.start = 0
    BY ValueTypes DEF ZeroState
  <1>2. ASSUME NEW c \in Ids PROVE dir'[c].state = dir[c].state \/ dir'[c].state = ZeroState
    BY <1>0 DEF TruncateState, TypeOK, Unreadable
  <1>3. ASSUME NEW c \in Ids PROVE Owns(c, dir'[c].state)
    <2>1. CASE dir'[c].state = dir[c].state
      BY <2>1 DEF RecordInv
    <2>2. CASE dir'[c].state = ZeroState
      BY <1>0, <1>1, <2>2, ZeroOwns
    <2> QED
      BY <1>2, <2>1, <2>2
  <1> QED
    BY <1>3 DEF TruncateState

\* The second step writes the copy of the process.
LEMMA FillRecords ==
  ASSUME RecordInv, NEW p \in Procs, NEW here \in UsesCopy, NEW ok, NEW bad,
         FillState(p, here, ok, bad)
  PROVE  /\ \A c \in Ids : Owns(c, dir'[c].state)
         /\ UNCHANGED <<cur, loc, pid>>
  <1>0. TypeOK
    BY DEF RecordInv, BaseInv, TypeInv
  <1>1. ZeroState \in States /\ ZeroState.pid = NoPid /\ ZeroState.start = 0
    BY ValueTypes DEF ZeroState
  <1>2. ASSUME NEW c \in Ids
        PROVE  \/ dir'[c].state \in {dir[c].state, ZeroState}
               \/ c = cur[p] /\ dir'[c].state = loc[p]
    BY <1>0 DEF FillState, TypeOK, Unreadable, StateFile
  <1>3. Owns(cur[p], loc[p])
    BY DEF RecordInv, FillState
  <1>4. ASSUME NEW c \in Ids PROVE Owns(c, dir'[c].state)
    <2>1. CASE dir'[c].state = dir[c].state
      BY <2>1 DEF RecordInv
    <2>2. CASE dir'[c].state = ZeroState
      BY <1>0, <1>1, <2>2, ZeroOwns
    <2> QED
      BY <1>2, <1>3, <2>1, <2>2
  <1> QED
    BY <1>4 DEF FillState

\* Initialize records that there is no process yet.
LEMMA InitializeRecords ==
  ASSUME RecordInv, NEW p \in Procs, pc[p] # "idle", NEW ok \in Quiet, NEW bad \in Quiet,
         Initialize(p, ok, bad)
  PROVE  /\ \A c \in Ids : Owns(c, dir'[c].state)
         /\ Owns(cur[p], loc'[p])
         /\ pc'[p] # "succ.open"
  <1>0. TypeOK /\ cur[p] \in Ids
    BY DEF RecordInv, BaseInv, TypeInv, Control
  <1>1. ZeroState \in States /\ ZeroState.pid = NoPid /\ ZeroState.start = 0
    BY ValueTypes DEF ZeroState
  <1>2. pc'[p] # "succ.open"
    <2>1. ok \in Conts /\ bad \in Conts /\ "succ.open" \notin {ok.at, bad.at}
      BY DEF Quiet, Entries
    <2>2. Flows(p, {"init.truncate", "init.write", ok.at, bad.at})
      BY <1>0, <2>1, InitializeTypes
    <2> QED
      BY <2>1, <2>2 DEF Flows
  <1>3. CASE pc[p] = "init.mkdir"
    <2>1. loc'[p] = ZeroState
      BY <1>0, <1>3 DEF Initialize, TruncateState, FillState, TypeOK
    <2>2. ASSUME NEW c \in Ids PROVE dir'[c].state \in {dir[c].state, ZeroState}
      BY <1>0, <1>3 DEF Initialize, TruncateState, FillState, TypeOK, Unreadable
    <2>3. \A c \in Ids : Owns(c, ZeroState)
      BY <1>0, <1>1, ZeroOwns
    <2> QED
      BY <1>0, <1>2, <2>1, <2>2, <2>3 DEF RecordInv
  <1>4. CASE TruncateState(p, "init.truncate", "init.write", bad)
    BY <1>2, <1>4, TruncateRecords DEF RecordInv, UsesCopy, TruncateState
  <1>5. CASE FillState(p, "init.write", ok, bad)
    <2>1. "init.write" \in UsesCopy
      BY DEF UsesCopy
    <2> QED
      BY <1>2, <1>5, <2>1, FillRecords DEF RecordInv, FillState
  <1> QED
    BY <1>3, <1>4, <1>5 DEF Initialize

\* SetFailure records that there will be no process.
LEMMA SetFailureRecords ==
  ASSUME RecordInv, NEW p \in Procs, pc[p] # "idle", NEW done \in Quiet, SetFailure(p, done)
  PROVE  /\ \A c \in Ids : Owns(c, dir'[c].state)
         /\ pc'[p] \in UsesCopy => Owns(cur[p], loc'[p])
         /\ pc'[p] # "succ.open"
  <1>0. TypeOK /\ cur[p] \in Ids
    BY DEF RecordInv, BaseInv, TypeInv, Control
  <1>q. done \in Conts /\ done.at \notin UsesCopy
    BY DEF Quiet, Entries, UsesCopy
  <1>2. pc'[p] # "succ.open"
    <2>2. Flows(p, {"fail.truncate", "fail.write", done.at})
      BY <1>0, <1>q, SetFailureTypes
    <2> QED
      BY <1>q, <2>2 DEF Flows, UsesCopy
  <1>3. CASE pc[p] = "fail.load"
    <2>1. dir' = dir
      BY <1>3 DEF SetFailure, TruncateState, FillState, hostVars
    <2>2. CASE Go(p, done)
      BY <1>0, <1>2, <1>q, <2>1, <2>2 DEF RecordInv, Go, TypeOK
    <2>3. CASE loc' = [loc EXCEPT ![p] = [ZeroState EXCEPT !.failed = TRUE]]
      <3>1. loc'[p] = [pid |-> NoPid, start |-> 0, failed |-> TRUE]
        BY <1>0, <2>3 DEF TypeOK, ZeroState
      <3>2. MaxStarts \in Nat
        BY HostAssumption
      <3>3. loc'[p] \in States /\ loc'[p].pid = NoPid /\ loc'[p].start = 0
        BY <3>1, <3>2 DEF States
      <3> QED
        BY <1>0, <1>2, <2>1, <3>3, ZeroOwns DEF RecordInv
    <2> QED
      BY <1>3, <2>2, <2>3 DEF SetFailure, TruncateState, FillState
  <1>4. CASE TruncateState(p, "fail.truncate", "fail.write", done)
    BY <1>2, <1>4, TruncateRecords DEF RecordInv, UsesCopy, TruncateState
  <1>5. CASE FillState(p, "fail.write", done, done)
    <2>1. "fail.write" \in UsesCopy
      BY DEF UsesCopy
    <2> QED
      BY <1>2, <1>5, <2>1, FillRecords DEF RecordInv, FillState
  <1> QED
    BY <1>3, <1>4, <1>5 DEF SetFailure

\* SetSuccess records the process that its caller holds.
LEMMA SetSuccessRecords ==
  ASSUME RecordInv, NEW p \in Procs, pc[p] # "idle", NEW ok \in Quiet, NEW bad \in Quiet,
         cmd[p].op = "start" \/ (cmd[p].op = "run" /\ ~cmd[p].flag),
         SetSuccess(p, ok, bad)
  PROVE  /\ \A c \in Ids : Owns(c, dir'[c].state)
         /\ pc'[p] \in UsesCopy => Owns(cur[p], loc'[p])
         /\ pc'[p] = "succ.open" => loc'[p].pid = pid'[p]
  <1>0. TypeOK /\ cur[p] \in Ids /\ (pc[p] \in Started => pid[p] \in Pids)
    BY DEF RecordInv, BaseInv, TypeInv, Control
  <1>q. /\ ok \in Conts /\ ok.at \notin UsesCopy
        /\ bad \in Conts /\ bad.at \notin UsesCopy
    BY DEF Quiet, Entries, UsesCopy
  <1>1. pid[p] \in Pids
    BY <1>0 DEF SetSuccess, TruncateState, FillState, Started
  <1>2. win[pid[p]].owner = cur[p] /\ win[pid[p]].st # "free"
    <2>1. NoPid \notin Pids
      BY HostAssumption
    <2> QED
      BY <1>1, <2>1 DEF RecordInv, BaseInv, HoldsInit, OnNamed
  <1>3. CASE pc[p] = "succ.load"
    <2>1. dir' = dir /\ pid' = pid
      BY <1>3 DEF SetSuccess, TruncateState, FillState, hostVars
    <2>2. CASE Go(p, bad)
      BY <1>0, <1>q, <2>1, <2>2 DEF RecordInv, Go, TypeOK, UsesCopy
    <2>3. CASE loc' = [loc EXCEPT ![p] = [dir[cur[p]].state EXCEPT !.pid = pid[p]]]
      <3>0. dir[cur[p]].state \in States
        BY <1>0 DEF TypeOK, StateDirs
      <3>1. loc'[p].pid = pid[p] /\ loc'[p].start = dir[cur[p]].state.start
        BY <1>0, <2>3, <3>0 DEF TypeOK, States
      <3>2. dir[cur[p]].state.start < clock
        BY <1>0 DEF RecordInv, Owns
      <3>3. Owns(cur[p], loc'[p])
        BY <1>2, <3>1, <3>2 DEF Owns
      <3> QED
        BY <2>1, <3>1, <3>3 DEF RecordInv
    <2> QED
      BY <1>3, <2>2, <2>3 DEF SetSuccess, TruncateState, FillState
  <1>4. CASE pc[p] = "succ.open"
    <2>1. dir' = dir /\ pid' = pid /\ loc[p].pid = pid[p] /\ loc[p] \in States
          /\ Owns(cur[p], loc[p])
      BY <1>0, <1>4 DEF SetSuccess, TruncateState, FillState, hostVars, RecordInv, UsesCopy, TypeOK
    <2>2. pc'[p] # "succ.open"
      <3>1. PICK k \in {To("succ.truncate"), Err("bad.truncate")} : Go(p, k)
        BY <1>4 DEF SetSuccess, TruncateState, FillState
      <3>2. pc'[p] = k.at
        BY <1>0, <3>1 DEF Go, TypeOK
      <3> QED
        BY <3>1, <3>2 DEF To, Err
    <2>3. loc'[p].pid = pid[p] /\ loc'[p].start \in {win[pid[p]].start, loc[p].start}
      BY <1>0, <1>4, <2>1 DEF SetSuccess, TruncateState, FillState, TypeOK, States
    <2>4. win[pid[p]].start < clock /\ loc[p].start < clock
      BY <1>1, <1>2, <2>1 DEF RecordInv, BaseInv, StartsPast, Owns
    <2>5. Owns(cur[p], loc'[p])
      BY <1>2, <2>3, <2>4 DEF Owns
    <2> QED
      BY <2>1, <2>2, <2>5 DEF RecordInv
  <1>5. ASSUME NEW here, NEW next \in {"succ.write", "bad.write"},
               here \in {"succ.truncate", "bad.truncate"}, TruncateState(p, here, next, bad)
        PROVE  /\ \A c \in Ids : Owns(c, dir'[c].state)
               /\ pc'[p] \in UsesCopy => Owns(cur[p], loc'[p])
               /\ pc'[p] # "succ.open"
    <2>1. pc[p] = here /\ pc[p] \in UsesCopy
      BY <1>5 DEF TruncateState, UsesCopy
    <2>2. pc'[p] \in {To(next).at, bad.at}
      BY <1>0, <1>5 DEF TruncateState, Go, TypeOK
    <2>3. pc'[p] # "succ.open"
      BY <1>q, <2>2 DEF To, UsesCopy
    <2> QED
      BY <1>5, <2>1, <2>3, TruncateRecords DEF RecordInv
  <1>6. ASSUME NEW here \in UsesCopy, NEW k \in {ok, bad}, FillState(p, here, k, bad)
        PROVE  /\ \A c \in Ids : Owns(c, dir'[c].state)
               /\ pc'[p] \in UsesCopy => Owns(cur[p], loc'[p])
               /\ pc'[p] # "succ.open"
    <2>1. pc'[p] \in {k.at, bad.at}
      BY <1>0, <1>6 DEF FillState, Go, TypeOK
    <2>2. pc'[p] \notin UsesCopy /\ "succ.open" \in UsesCopy
      BY <1>q, <2>1 DEF UsesCopy
    <2> QED
      BY <1>6, <2>2, FillRecords
  <1>7. "succ.write" \in UsesCopy /\ "bad.write" \in UsesCopy
    BY DEF UsesCopy
  <1> QED
    BY <1>3, <1>4, <1>5, <1>6, <1>7 DEF SetSuccess

\* State takes a copy of the record.
LEMMA StateRecords ==
  ASSUME RecordInv, NEW p \in Procs, pc[p] # "idle",
         NEW ok \in Quiet, NEW missing \in Quiet, NEW bad \in Quiet, State(p, ok, missing, bad)
  PROVE  /\ \A c \in Ids : Owns(c, dir'[c].state)
         /\ pc'[p] \in UsesCopy => Owns(cur[p], loc'[p])
         /\ pc'[p] # "succ.open"
  <1>0. TypeOK /\ cur[p] \in Ids
    BY DEF RecordInv, BaseInv, TypeInv, Control
  <1>q. {ok.at, missing.at, bad.at} \cap UsesCopy = {} /\ ok \in Conts /\ missing \in Conts
        /\ bad \in Conts
    BY DEF Quiet, Entries, UsesCopy
  <1>1. Flows(p, {"state.load", "state.probe", ok.at, missing.at, bad.at})
    BY <1>0, <1>q, StateTypes
  <1>2. pc'[p] # "succ.open" /\ dir' = dir
    BY <1>q, <1>1 DEF Flows, UsesCopy, State, hostVars
  <1>3. CASE pc'[p] = "state.probe"
    <2>0. "state.probe" \notin {ok.at, missing.at, bad.at, "state.load"}
      BY <1>q DEF UsesCopy
    <2>1. pc[p] = "state.load"
      <3>1. CASE pc[p] = "state.props"
        <4>1. PICK k \in {To("state.load"), missing, bad} : Go(p, k)
          BY <3>1 DEF State
        <4>2. k.at # "state.probe"
          BY <2>0, <4>1 DEF To
        <4> QED
          BY <1>0, <1>3, <4>1, <4>2 DEF Go, TypeOK
      <3>2. CASE pc[p] = "state.probe"
        <4>1. PICK k \in {ok, bad} : Go(p, k)
          BY <3>2 DEF State
        <4> QED
          BY <1>0, <1>3, <2>0, <4>1 DEF Go, TypeOK
      <3> QED
        BY <3>1, <3>2 DEF State
    <2>2. loc' = [loc EXCEPT ![p] = dir[cur[p]].state]
      BY <1>0, <1>3, <2>0, <2>1 DEF State, Go, TypeOK
    <2> QED
      BY <1>0, <1>2, <2>2 DEF RecordInv, TypeOK
  <1>4. CASE pc'[p] # "state.probe"
    BY <1>1, <1>2, <1>4, <1>q DEF Flows, RecordInv, UsesCopy
  <1> QED
    BY <1>3, <1>4

\* Nothing else touches the records but the removal of a state directory.
LEMMA StepRecords ==
  ASSUME NoDetachedRun, RecordInv, NEW p \in Procs, pc[p] # "idle", StepOf(p)
  PROVE  /\ \A c \in Ids : Owns(c, dir'[c].state)
         /\ pc'[p] \in UsesCopy => Owns(cur[p], loc'[p]) /\ cur'[p] = cur[p]
         /\ pc'[p] = "succ.open" => loc'[p].pid = pid'[p]
  <1> DEFINE Recorded == /\ \A c \in Ids : Owns(c, dir'[c].state)
                         /\ pc'[p] \in UsesCopy => Owns(cur[p], loc'[p])
                         /\ pc'[p] = "succ.open" => loc'[p].pid = pid'[p]
  <1>0. /\ TypeOK /\ cur[p] \in Ids /\ TypeInv /\ cmd[p] \in Commands
        /\ pc[p] \in Started => pid[p] \in Pids
        /\ pc[p] = "unmount.rm" => loc[p].pid # NoPid
    BY DEF RecordInv, BaseInv, TypeInv, Control
  <1>q. \A k \in Quiet : k \in Conts /\ k.at \notin UsesCopy
    BY DEF Quiet, Entries, UsesCopy
  <1>f. ASSUME NEW L, Flows(p, L), L \cap UsesCopy = {}, dir' = dir
        PROVE  Recorded
    BY <1>f DEF Flows, RecordInv, UsesCopy
  <1>1. ASSUME NEW k \in Quiet, Skip(p, k)
        PROVE  Recorded
    BY <1>0, <1>1, <1>q, <1>f, SkipTypes DEF hostVars
  <1>2. ASSUME NEW ok \in Quiet, NEW bad \in Quiet, Create(p, ok, bad)
        PROVE  Recorded
    <2>1. {"create.create", "create.start", "destroy.props", ok.at, bad.at} \cap UsesCopy = {}
      BY <1>q DEF UsesCopy
    <2>2. dir' = dir
      BY <1>2 DEF Create, hostVars
    <2> QED
      BY <1>0, <1>2, <1>q, <1>f, <2>1, <2>2, CreateTypes
  <1>3. ASSUME NEW ok \in Quiet, NEW bad \in Quiet, Mount(p, ok, bad)
        PROVE  Recorded
    <2>1. {"mount.mkdir", "mount.set", ok.at, bad.at} \cap UsesCopy = {}
      BY <1>q DEF UsesCopy
    <2>2. dir' = dir /\ pid[p] \in Pids
      BY <1>0, <1>3 DEF Mount, Skip, Started
    <2> QED
      BY <1>0, <1>3, <1>q, <1>f, <2>1, <2>2, MountTypes
  <1>4. ASSUME NEW pipes, NEW ok \in Quiet, NEW notCreated \in Quiet, NEW bad \in Quiet,
               Exec(p, pipes, ok, notCreated, bad)
        PROVE  Recorded
    <2>1. {"exec.create", ok.at, notCreated.at, bad.at} \cap UsesCopy = {}
      BY <1>q DEF UsesCopy
    <2>2. dir' = dir
      BY <1>4 DEF Exec, Skip
    <2> QED
      BY <1>0, <1>4, <1>q, <1>f, <2>1, <2>2, ExecTypes
  <1>5. ASSUME NEW ok \in Quiet, NEW bad \in Quiet, Unmount(p, ok, bad)
        PROVE  Recorded
    <2>1. {"unmount.rm", ok.at, bad.at} \cap UsesCopy = {}
      BY <1>q DEF UsesCopy
    <2>2. dir' = dir
      BY <1>5 DEF Unmount
    <2> QED
      BY <1>0, <1>5, <1>q, <1>f, <2>1, <2>2, UnmountTypes
  <1>6. ASSUME NEW ok \in Quiet, NEW bad \in Quiet, DeleteState(p, ok, bad)
        PROVE  Recorded
    <2>1. pc'[p] \notin UsesCopy
      BY <1>0, <1>6, <1>q, DeleteStateTypes DEF Flows
    <2>2. ASSUME NEW c \in Ids PROVE dir'[c].state \in {dir[c].state, ZeroState}
      BY <1>0, <1>6 DEF DeleteState, TypeOK, NoDir
    <2>3. ZeroState \in States /\ ZeroState.pid = NoPid /\ ZeroState.start = 0
      BY ValueTypes DEF ZeroState
    <2>4. \A c \in Ids : Owns(c, ZeroState)
      BY <1>0, <2>3, ZeroOwns
    <2> QED
      BY <2>1, <2>2, <2>4 DEF RecordInv, UsesCopy
  <1>7. ASSUME NEW ok \in Quiet, NEW bad \in Quiet, Delete(p, ok, bad)
        PROVE  Recorded
    <2>1. {"destroy.props", "shutdown", "terminate", ok.at, bad.at} \cap UsesCopy = {}
      BY <1>q DEF UsesCopy
    <2>2. dir' = dir
      BY <1>7 DEF Delete, DestroyContainer, Skip
    <2> QED
      BY <1>0, <1>7, <1>q, <1>f, <2>1, <2>2, DeleteTypes
  <1>8. ASSUME NEW ok \in Quiet, NEW bad \in Quiet, Stats(p, ok, bad)
        PROVE  Recorded
    <2>1. {"stats.read", ok.at, bad.at} \cap UsesCopy = {}
      BY <1>q DEF UsesCopy
    <2>2. dir' = dir
      BY <1>8 DEF Stats, Skip
    <2> QED
      BY <1>0, <1>8, <1>q, <1>f, <2>1, <2>2, StatsTypes
  <1>9. ASSUME QuerySidecars(p) \/ NextContainer(p)
        PROVE  Recorded
    <2>1. PICK k \in {To("next"), Err("exit"), To("exit"), To("state.props")} : Go(p, k)
      BY <1>9 DEF QuerySidecars, NextContainer, Skip
    <2>2. pc'[p] = k.at
      BY <1>0, <2>1 DEF Go, TypeOK
    <2>3. pc'[p] \notin UsesCopy /\ dir' = dir
      BY <1>9, <2>1, <2>2 DEF To, Err, UsesCopy, QuerySidecars, NextContainer, Skip, hostVars
    <2> QED
      BY <2>3 DEF RecordInv, UsesCopy
  <1>10. ASSUME NEW ok \in Quiet, NEW bad \in Quiet, cmd[p].op \in {"run", "start"},
               SetSuccess(p, ok, bad)
        PROVE  Recorded
    <2>1. cmd[p].op = "start" \/ (cmd[p].op = "run" /\ ~cmd[p].flag)
      BY <1>0, <1>10 DEF NoDetachedRun
    <2> QED
      BY <1>10, <2>1, SetSuccessRecords
  <1>11. ASSUME NEW ok \in Quiet, NEW bad \in Quiet,
                Initialize(p, ok, bad) \/ SetFailure(p, bad)
         PROVE  Recorded
    BY <1>11, InitializeRecords, SetFailureRecords
  <1>12. ASSUME NEW ok \in Quiet, NEW missing \in Quiet, NEW bad \in Quiet,
                State(p, ok, missing, bad)
         PROVE  Recorded
    BY <1>12, StateRecords
  <1> HIDE DEF Recorded
  <1>13. Recorded
    BY <1>1, <1>2, <1>3, <1>4, <1>5, <1>6, <1>7, <1>8, <1>9, <1>10, <1>11, <1>12 DEF StepOf
  <1>14. ASSUME pc'[p] \in UsesCopy
         PROVE  cur'[p] = cur[p]
    <2>1. CASE cmd[p].op # "delete"
      BY <1>0, <2>1, StepFrame
    <2>2. CASE QuerySidecars(p) \/ NextContainer(p)
      <3>1. PICK k \in {To("next"), Err("exit"), To("exit"), To("state.props")} : Go(p, k)
        BY <2>2 DEF QuerySidecars, NextContainer, Skip
      <3>2. pc'[p] = k.at
        BY <1>0, <3>1 DEF Go, TypeOK
      <3> QED
        BY <1>14, <3>1, <3>2 DEF To, Err, UsesCopy
    <2>3. ASSUME NEW ok, NEW bad, NEW missing,
                 \/ Unmount(p, ok, bad) \/ DeleteState(p, ok, bad)
                 \/ Delete(p, ok, bad) \/ State(p, ok, missing, bad) \/ Stats(p, ok, bad)
                 \/ Skip(p, ok)
          PROVE  cur' = cur
      BY <2>3 DEF Unmount, DeleteState, Delete, DestroyContainer, State, Stats, Skip
    <2> QED
      BY <2>1, <2>2, <2>3 DEF StepOf
  <1> QED
    BY <1>13, <1>14 DEF Recorded

\* What the records describe is a matter of the process table only.
LEMMA RecordInvStep ==
  ASSUME NoDetachedRun, RecordInv, [Next]_vars
  PROVE  RecordInv'
  <1>0. TypeInv /\ TypeOK /\ BaseInv' /\ TypeOK'
    BY BaseInvStep DEF RecordInv, BaseInv, TypeInv
  <1>k. ASSUME NEW S, TableMoves(S), NEW c \in Ids, NEW s \in States, Owns(c, s)
        PROVE  Owns(c, s)'
    BY <1>0, <1>k, OwnsKept
  <1>t. /\ \A c \in Ids : dir[c].state \in States /\ dir'[c].state \in States
        /\ \A p \in Procs : loc[p] \in States /\ loc'[p] \in States
        /\ \A p \in Procs : pc[p] # "idle" => cur[p] \in Ids
        /\ \A p \in Procs : pc[p] \in UsesCopy => pc[p] # "idle"
    BY <1>0 DEF TypeOK, StateDirs, TypeInv, Control, UsesCopy
  <1>d. ASSUME NEW S, TableMoves(S), \A c \in Ids : Owns(c, dir'[c].state)
        PROVE  \A c \in Ids : Owns(c, dir[c].state)'
    BY <1>0, <1>d, <1>t, <1>k DEF Owns
  <1>l. ASSUME NEW S, TableMoves(S), NEW p \in Procs,
               pc'[p] = pc[p], cur'[p] = cur[p], loc'[p] = loc[p], pid'[p] = pid[p]
        PROVE  /\ (pc[p] \in UsesCopy => Owns(cur[p], loc[p]))'
               /\ (pc[p] = "succ.open" => loc[p].pid = pid[p])'
    BY <1>0, <1>l, <1>t, <1>k DEF Owns, RecordInv
  <1>1. ASSUME NEW p \in Procs, Begin(p)
        PROVE  RecordInv'
    <2>1. TableMoves({}) /\ Alone(p) /\ dir' = dir
      BY <1>0, <1>1, TableStays, BeginTypes DEF Begin, hostVars
    <2>2. pc'[p] \notin UsesCopy
      <3>1. PICK k \in Commands : pc' = [pc EXCEPT ![p] = FirstStep[k.op]]
        BY <1>1 DEF Begin
      <3>2. k.op \in {"create", "run", "start", "exec", "state", "events", "delete"}
        BY HostAssumption DEF Command
      <3>3. pc'[p] = FirstStep[k.op]
        BY <1>0, <3>1 DEF TypeOK
      <3> QED
        BY <3>2, <3>3 DEF FirstStep, UsesCopy
    <2>3. \A c \in Ids : Owns(c, dir[c].state)'
      BY <1>d, <2>1 DEF RecordInv
    <2>4. ASSUME NEW q \in Procs, q # p
          PROVE  /\ (pc[q] \in UsesCopy => Owns(cur[q], loc[q]))'
                 /\ (pc[q] = "succ.open" => loc[q].pid = pid[q])'
      BY <1>l, <2>1, <2>4 DEF Alone
    <2> QED
      BY <1>0, <2>2, <2>3, <2>4 DEF RecordInv, UsesCopy
  <1>2. ASSUME NEW p \in Procs, pc[p] # "idle", StepOf(p)
        PROVE  RecordInv'
    <2>1. TableMoves({}) /\ Alone(p)
      BY <1>0, <1>2, StepTable, StepFrame
    <2>2. /\ \A c \in Ids : Owns(c, dir'[c].state)
          /\ pc'[p] \in UsesCopy => Owns(cur[p], loc'[p]) /\ cur'[p] = cur[p]
          /\ pc'[p] = "succ.open" => loc'[p].pid = pid'[p]
      BY <1>2, StepRecords
    <2>3. \A c \in Ids : Owns(c, dir[c].state)'
      BY <1>d, <2>1, <2>2
    <2>4. (pc[p] \in UsesCopy => Owns(cur[p], loc[p]))'
      BY <1>2, <1>k, <1>t, <2>1, <2>2 DEF Owns
    <2>5. ASSUME NEW q \in Procs, q # p
          PROVE  /\ (pc[q] \in UsesCopy => Owns(cur[q], loc[q]))'
                 /\ (pc[q] = "succ.open" => loc[q].pid = pid[q])'
      BY <1>l, <2>1, <2>5 DEF Alone
    <2> QED
      BY <1>0, <2>2, <2>3, <2>4, <2>5 DEF RecordInv
  <1>3. ASSUME NEW p \in Procs, ProcessGone(p)
        PROVE  RecordInv'
    <2>1. TableMoves({p}) /\ Alone(p) /\ dir' = dir
      BY <1>0, <1>3, GoneTable, GoneTypes DEF ProcessGone
    <2>2. pc'[p] \notin UsesCopy
      BY <1>0, <1>3 DEF TypeOK, ProcessGone, UsesCopy
    <2>3. \A c \in Ids : Owns(c, dir[c].state)'
      BY <1>d, <2>1 DEF RecordInv
    <2>4. ASSUME NEW q \in Procs, q # p
          PROVE  /\ (pc[q] \in UsesCopy => Owns(cur[q], loc[q]))'
                 /\ (pc[q] = "succ.open" => loc[q].pid = pid[q])'
      BY <1>l, <2>1, <2>4 DEF Alone
    <2> QED
      BY <1>0, <2>2, <2>3, <2>4 DEF RecordInv, UsesCopy
  <1>4. ASSUME TableMoves({}), UNCHANGED <<dir, pc, cur, loc, pid>>
        PROVE  RecordInv'
    <2>1. \A c \in Ids : Owns(c, dir[c].state)'
      BY <1>d, <1>4 DEF RecordInv
    <2> QED
      BY <1>0, <1>l, <1>4, <2>1 DEF RecordInv
  <1>5. CASE Environment
    BY <1>0, <1>4, <1>5, EnvironmentTable, EnvironmentTypes DEF procVars
  <1>6. CASE UNCHANGED vars
    BY <1>0, <1>4, <1>6, TableStays DEF vars
  <1> QED
    BY <1>0, <1>1, <1>2, <1>3, <1>5, <1>6, NextCases

\* Initially nothing is recorded.
LEMMA RecordInvInit == Init => RecordInv
  <1> SUFFICES ASSUME Init PROVE RecordInv
    OBVIOUS
  <1>1. BaseInv /\ TypeOK
    BY BaseInvInit DEF BaseInv, TypeInv
  <1>2. \A c \in Ids : dir[c].state = ZeroState
    BY DEF Init, NoDir
  <1>3. ZeroState \in States /\ ZeroState.pid = NoPid /\ ZeroState.start = 0
    BY ValueTypes DEF ZeroState
  <1>4. \A c \in Ids : Owns(c, dir[c].state)
    BY <1>1, <1>2, <1>3, ZeroOwns
  <1>5. \A p \in Procs : pc[p] \notin UsesCopy
    BY DEF Init, UsesCopy
  <1> QED
    BY <1>1, <1>4, <1>5 DEF RecordInv, UsesCopy

\* As long as run is not used with --detach, a state.json never comes to describe a
\* process outside its container, although process ids are reused: SetSuccess reads
\* the start time while its caller still holds the process.
THEOREM RecordsAreOwn == Spec => []RecordedInitIsOwn
  <1>1. CASE NoDetachedRun
    <2>1. RecordInv => RecordedInitIsOwn
      BY DEF RecordInv, Owns, RecordedInitIsOwn
    <2>2. RecordInv /\ [Next]_vars => RecordInv'
      BY <1>1, RecordInvStep
    <2> QED
      BY <2>1, <2>2, RecordInvInit, PTL DEF Spec
  <1>2. CASE ~NoDetachedRun
    <2>1. RecordedInitIsOwn
      BY <1>2 DEF RecordedInitIsOwn
    <2> QED
      BY <2>1, PTL
  <1> QED
    BY <1>1, <1>2

\* As long as run is not used with --detach, winc calls a container running only
\* when a process of that container has the recorded process id and is alive, or has
\* exited with STILL_ACTIVE.
THEOREM RunningIsAlive ==
  ASSUME NoDetachedRun
  PROVE  Spec => RunningIsTrue
  <1> DEFINE Probe(p) ==
        pc[p] = "state.probe" /\ status'[p] = "running" /\ status[p] # "running"
          => /\ win[loc[p].pid].st \in {"alive", "exited259"}
             /\ win[loc[p].pid].owner = cur[p]
  <1>1. RecordInv /\ [Next]_vars => [\A p \in Procs : Probe(p)]_vars
    <2> SUFFICES ASSUME RecordInv, [Next]_vars, NEW p \in Procs, pc[p] = "state.probe",
                        status'[p] = "running", status[p] # "running"
                 PROVE  /\ win[loc[p].pid].st \in {"alive", "exited259"}
                        /\ win[loc[p].pid].owner = cur[p]
      BY DEF Probe
    <2>0. TypeInv /\ TypeOK /\ loc[p] \in States
      BY DEF RecordInv, BaseInv, TypeInv, TypeOK
    <2>1. ASSUME NEW q \in Procs, Begin(q) PROVE FALSE
      BY <2>1 DEF Begin
    <2>2. ASSUME NEW q \in Procs, ProcessGone(q) PROVE FALSE
      BY <2>0, <2>2 DEF ProcessGone, TypeOK
    <2>3. Environment \/ UNCHANGED vars => FALSE
      BY <2>0, EnvironmentTypes DEF procVars, vars
    <2>4. PICK q \in Procs : pc[q] # "idle" /\ StepOf(q)
      BY <2>0, <2>1, <2>2, <2>3, NextCases
    <2>5. q = p
      BY <2>0, <2>4, StepFrame DEF Alone
    <2>6. PICK ok, missing, bad \in Quiet : State(p, ok, missing, bad)
      <3>1. ASSUME NEW ok, NEW bad, NEW pipes, NEW notCreated,
                   \/ Skip(p, ok) \/ Create(p, ok, bad) \/ Initialize(p, ok, bad)
                   \/ SetFailure(p, bad) \/ SetSuccess(p, ok, bad) \/ Mount(p, ok, bad)
                   \/ Exec(p, pipes, ok, notCreated, bad)
                   \/ Unmount(p, ok, bad) \/ DeleteState(p, ok, bad) \/ Delete(p, ok, bad)
                   \/ Stats(p, ok, bad) \/ QuerySidecars(p) \/ NextContainer(p)
            PROVE  status' = status
        <4>1. CASE \/ Skip(p, ok) \/ Create(p, ok, bad) \/ Mount(p, ok, bad)
                   \/ Unmount(p, ok, bad) \/ DeleteState(p, ok, bad) \/ Delete(p, ok, bad)
          BY <4>1 DEF Skip, Create, Mount, Unmount, DeleteState, Delete, DestroyContainer
        <4>2. CASE Initialize(p, ok, bad) \/ SetFailure(p, bad) \/ SetSuccess(p, ok, bad)
          BY <4>2 DEF Initialize, SetFailure, SetSuccess, TruncateState, FillState
        <4>3. CASE \/ Exec(p, pipes, ok, notCreated, bad)
                   \/ Stats(p, ok, bad) \/ QuerySidecars(p) \/ NextContainer(p)
          BY <4>3 DEF Exec, Stats, QuerySidecars, NextContainer, Skip
        <4> QED
          BY <3>1, <4>1, <4>2, <4>3
      <3> QED
        BY <2>4, <2>5, <3>1 DEF StepOf
    <2>7. UserProgramStatus(loc[p]) = "running"
      BY <2>0, <2>6 DEF State, TypeOK
    <2>8. /\ loc[p].pid # NoPid /\ win[loc[p].pid].st # "free"
          /\ StillActive(loc[p].pid) /\ win[loc[p].pid].start = loc[p].start
      BY <2>7 DEF UserProgramStatus
    <2>9. loc[p].pid \in Pids
      BY <2>0, <2>8 DEF States
    <2>10. Owns(cur[p], loc[p])
      BY DEF RecordInv, UsesCopy
    <2> QED
      BY <2>8, <2>9, <2>10 DEF Owns, StillActive
  <1>2. RecordInv /\ [Next]_vars => RecordInv'
    BY RecordInvStep
  <1>3. Spec => [][\A p \in Procs : Probe(p)]_vars
    BY <1>1, <1>2, RecordInvInit, PTL DEF Spec
  <1> QED
    BY <1>3 DEF RunningIsTrue
=============================================================================

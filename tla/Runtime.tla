------------------------------- MODULE Runtime -------------------------------
(***************************************************************************)
(* runtime: the commands of winc, composed from the container manager, the *)
(* state manager and the mounter, run by any number of winc processes on   *)
(* one host.                                                               *)
(***************************************************************************)
EXTENDS StateManager, ContainerManager, Mounter

Init ==
  /\ cs = [c \in Ids |-> "none"]
  /\ win = [q \in Pids |-> FreePid]
  /\ clock = 1
  /\ dir = [c \in Ids |-> NoDir]
  /\ mnt = [q \in Pids |-> NoMount]
  /\ pc = [p \in Procs |-> "idle"]
  /\ cmd = [p \in Procs |-> NoCommand]
  /\ cur = [p \in Procs |-> NoId]
  /\ todo = [p \in Procs |-> {}]
  /\ seen = [p \in Procs |-> "unknown"]
  /\ loc = [p \in Procs |-> ZeroState]
  /\ pid = [p \in Procs |-> NoPid]
  /\ status = [p \in Procs |-> "none"]
  /\ errs = [p \in Procs |-> {}]

-----------------------------------------------------------------------------
(* Commands begin and end                                                  *)

\* The containers a command works on; state and events only look, exec only adds
\* a process
Touches(k) ==
  CASE k.op \in {"state", "events", "exec"} -> {}
    [] k.op = "delete" -> {k.id} \cup {s \in Ids : Owner[s] = k.id}
    [] OTHER -> {k.id}

MayBegin(k) ==
  Overlap \/ \A q \in Procs : pc[q] # "idle" => Touches(k) \cap Touches(cmd[q]) = {}

FirstStep == [create |-> "spec", run |-> "spec", exec |-> "process",
              start |-> "state.props", state |-> "state.props",
              events |-> "stats.open", delete |-> "query"]

Begin(p) ==
  \E k \in Commands :
    /\ pc[p] = "idle"
    /\ MayBegin(k)
    /\ pc' = [pc EXCEPT ![p] = FirstStep[k.op]]
    /\ cmd' = [cmd EXCEPT ![p] = k]
    /\ cur' = [cur EXCEPT ![p] = k.id]
    /\ UNCHANGED <<hostVars, todo, seen, loc, pid, status, errs>>

\* The winc process is gone, and with it its locals and its open handles.
ProcessGone(p) ==
  /\ pc' = [pc EXCEPT ![p] = "idle"]
  /\ cmd' = [cmd EXCEPT ![p] = NoCommand]
  /\ cur' = [cur EXCEPT ![p] = NoId]
  /\ todo' = [todo EXCEPT ![p] = {}]
  /\ seen' = [seen EXCEPT ![p] = "unknown"]
  /\ loc' = [loc EXCEPT ![p] = ZeroState]
  /\ pid' = [pid EXCEPT ![p] = NoPid]
  /\ status' = [status EXCEPT ![p] = "none"]
  /\ errs' = [errs EXCEPT ![p] = {}]
  /\ win' = [q \in Pids |-> [win[q] EXCEPT !.held = @ \ {p}]]
  /\ UNCHANGED <<cs, clock, dir, mnt>>

Return(p) == pc[p] = "exit" /\ ProcessGone(p)

Crash(p) == "crash" \in Faults /\ pc[p] \notin {"idle", "exit"} /\ ProcessGone(p)

-----------------------------------------------------------------------------
(* Steps of Runtime's own functions                                        *)

\* ValidateBundle refuses a bundle whose config.json cannot be read, is not valid
\* JSON, is of another version or misses a part that winc needs.
BundleRefused == "fs" \in Faults

\* The specification in the bundle, and the credential specification
LoadSpec(p, ok, bad) ==
  /\ pc[p] = "spec"
  /\ Skip(p, ok) \/ (BundleRefused /\ Skip(p, bad))

\* The process.json of exec and what overrides it
ValidateProcess(p, ok, bad) ==
  /\ pc[p] = "process"
  /\ Skip(p, ok) \/ ("fs" \in Faults /\ Skip(p, bad))

WritePIDFile(p, ok, bad) ==
  /\ pc[p] = "pidfile"
  /\ Skip(p, ok) \/ ("fs" \in Faults /\ Skip(p, bad))

\* AttachIO returns once the process has exited, or with an error of HCS.
AttachIO(p, ok, bad) ==
  /\ pc[p] = "attach"
  /\ (~Alive(pid[p]) /\ Skip(p, ok)) \/ ("hcs" \in Faults /\ Skip(p, bad))

\* Faulty variant: a container whose state cannot be initialized is kept.
CreateContainerNoCleanup(p, ok) ==
  \/ LoadSpec(p, To("create.props"), Err("exit"))
  \/ Create(p, To("init.mkdir"), Err("exit"))
  \/ Initialize(p, ok, Err("exit"))

\* createContainer; a container whose state cannot be initialized is deleted.
CreateContainer(p, ok) ==
  \/ LoadSpec(p, To("create.props"), Err("exit"))
  \/ Create(p, To("init.mkdir"), Err("exit"))
  \/ Initialize(p, ok, Err("delete.open"))

StartProcess(p, detach) ==
  \/ Exec(p, ~detach, To("succ.load"), Err("fail.load"), Err("exit"))
  \/ SetFailure(p, Err("exit"))
  \/ SetSuccess(p, To("mount.stat"), Err("exit"))
  \/ Mount(p, To("pidfile"), Err("exit"))

\* Faulty variant: the volume stays mounted.
DeleteContainerNoUnmount(p, force, done, failed) ==
  \/ State(p, To("rmstate"), IF force THEN done ELSE failed, Err("rmstate"))
  \/ DeleteState(p, To("delete.open"), Err("delete.open"))
  \/ Delete(p, done, failed)

\* Faulty variant: the state is deleted before the volume is unmounted.
DeleteContainerStateFirst(p, force, done, failed) ==
  \/ State(p, To("rmstate"), IF force THEN done ELSE failed, Err("rmstate"))
  \/ DeleteState(p, To("unmount"), Err("unmount"))
  \/ pc[p] = "unmount" /\ loc[p].pid = NoPid /\ Skip(p, To("delete.open"))
  \/ Unmount(p, To("delete.open"), Err("delete.open"))
  \/ Delete(p, done, failed)

\* Faulty variant: the compute system goes first, and an error of that is returned.
DeleteContainerHcsFirst(p, force, done, failed) ==
  \/ State(p, To("delete.open"), IF force THEN done ELSE failed, Err("delete.open"))
  \/ Delete(p, To("unmount"), failed)
  \/ pc[p] = "unmount" /\ loc[p].pid = NoPid /\ Skip(p, To("rmstate"))
  \/ Unmount(p, To("rmstate"), Err("rmstate"))
  \/ DeleteState(p, done, failed)

\* deleteContainer: an hcs.NotFoundError ends it at once, every other error is
\* collected and the remaining resources are released all the same.
DeleteContainer(p, force, done, failed) ==
  \/ State(p, To("unmount"), IF force THEN done ELSE failed, Err("rmstate"))
  \/ pc[p] = "unmount" /\ loc[p].pid = NoPid /\ Skip(p, To("rmstate"))
  \/ Unmount(p, To("rmstate"), Err("rmstate"))
  \/ DeleteState(p, To("delete.open"), Err("delete.open"))
  \/ Delete(p, done, failed)

-----------------------------------------------------------------------------
(* The commands                                                            *)

CreateCommand(p) ==
  /\ cmd[p].op = "create"
  /\ \/ CreateContainer(p, To("exit"))
     \/ Delete(p, To("exit"), Err("exit"))

RunCommand(p) ==
  /\ cmd[p].op = "run"
  /\ \/ CreateContainer(p, To("exec.open"))
     \/ StartProcess(p, cmd[p].flag)
     \/ WritePIDFile(p, To(IF cmd[p].flag THEN "exit" ELSE "attach"), Err("exit"))
     \/ AttachIO(p, To("state.props"), Err("state.props"))
     \/ DeleteContainer(p, FALSE, To("exit"), Err("exit"))

\* Faulty variant: the status is not looked at before the process is started.
StartUnchecked(p) ==
  /\ cmd[p].op = "start"
  /\ \/ State(p, To("spec"), Err("exit"), Err("exit"))
     \/ LoadSpec(p, To("exec.open"), Err("exit"))
     \/ StartProcess(p, FALSE)
     \/ WritePIDFile(p, To("exit"), Err("exit"))

StartCommand(p) ==
  /\ cmd[p].op = "start"
  /\ \/ State(p, To("start.check"), Err("exit"), Err("exit"))
     \/ /\ pc[p] = "start.check"
        /\ Skip(p, IF status[p] = "created" THEN To("spec") ELSE Err("exit"))
     \/ LoadSpec(p, To("exec.open"), Err("exit"))
     \/ StartProcess(p, FALSE)
     \/ WritePIDFile(p, To("exit"), Err("exit"))

ExecCommand(p) ==
  /\ cmd[p].op = "exec"
  /\ \/ ValidateProcess(p, To("exec.open"), Err("exit"))
     \/ Exec(p, ~cmd[p].flag, To("pidfile"), Err("exit"), Err("exit"))
     \/ WritePIDFile(p, To(IF cmd[p].flag THEN "exit" ELSE "attach"), Err("exit"))
     \/ AttachIO(p, To("exit"), Err("exit"))

StateCommand(p) ==
  /\ cmd[p].op = "state"
  /\ State(p, To("exit"), Err("exit"), Err("exit"))

EventsCommand(p) ==
  /\ cmd[p].op = "events"
  /\ Stats(p, To("exit"), Err("exit"))

\* The sidecars are looked up once, and deleted before their container.
QuerySidecars(p) ==
  /\ pc[p] = "query"
  /\ \/ /\ todo' = [todo EXCEPT ![p] =
                      {cmd[p].id} \cup {s \in Ids : Owner[s] = cmd[p].id
                                                    /\ cs[s] # "none"}]
        /\ Go(p, To("next"))
     \/ /\ "hcs" \in Faults
        /\ Go(p, Err("exit"))
        /\ UNCHANGED todo
  /\ UNCHANGED <<hostVars, cmd, cur, seen, loc, pid, status>>

\* Faulty variant: the containers are deleted in any order.
NextContainerAnyOrder(p) ==
  /\ pc[p] = "next"
  /\ \/ /\ todo[p] = {}
        /\ Skip(p, To("exit"))
     \/ \E c \in todo[p] :
          /\ cur' = [cur EXCEPT ![p] = c]
          /\ todo' = [todo EXCEPT ![p] = @ \ {c}]
          /\ Go(p, To("state.props"))
          /\ UNCHANGED <<hostVars, cmd, seen, loc, pid, status>>

NextContainer(p) ==
  /\ pc[p] = "next"
  /\ \/ /\ todo[p] = {}
        /\ Skip(p, To("exit"))
     \/ \E c \in todo[p] :
          /\ c = cmd[p].id => todo[p] = {c}
          /\ cur' = [cur EXCEPT ![p] = c]
          /\ todo' = [todo EXCEPT ![p] = @ \ {c}]
          /\ Go(p, To("state.props"))
          /\ UNCHANGED <<hostVars, cmd, seen, loc, pid, status>>

DeleteCommand(p) ==
  /\ cmd[p].op = "delete"
  /\ \/ QuerySidecars(p)
     \/ NextContainer(p)
     \/ DeleteContainer(p, cmd[p].flag, To("next"), Err("next"))

Step(p) ==
  \/ CreateCommand(p) \/ RunCommand(p) \/ StartCommand(p)
  \/ ExecCommand(p) \/ StateCommand(p) \/ EventsCommand(p) \/ DeleteCommand(p)
  \/ Return(p)

Next == (\E p \in Procs : Begin(p) \/ Step(p) \/ Crash(p)) \/ Environment

Spec == Init /\ [][Next]_vars

-----------------------------------------------------------------------------
(* Properties                                                              *)

Steps ==
  {"idle", "exit", "spec", "process", "pidfile", "attach", "start.check", "query", "next",
   "state.props", "state.load", "state.probe",
   "create.props", "create.create", "create.start",
   "init.mkdir", "init.truncate", "exec.open", "exec.create",
   "fail.load", "fail.truncate", "succ.load", "succ.open", "succ.truncate",
   "bad.truncate", "mount.stat", "mount.mkdir", "mount.set",
   "unmount", "unmount.rm", "rmstate", "delete.open", "destroy.props",
   "shutdown", "terminate", "stats.open", "stats.read"} \cup WriteSteps

\* The variables have the shapes of the Go types, files and tables they model.
TypeOK ==
  /\ cs \in [Ids -> {"none", "created", "running", "stopped"}]
  /\ win \in [Pids -> Processes]
  /\ clock \in 1..(MaxStarts + 1)
  /\ dir \in [Ids -> StateDirs]
  /\ mnt \in [Pids -> MountPoints]
  /\ pc \in [Procs -> Steps]
  /\ cmd \in [Procs -> Commands \cup {NoCommand}]
  /\ cur \in [Procs -> Ids \cup {NoId}]
  /\ todo \in [Procs -> SUBSET Ids]
  /\ seen \in [Procs -> {"unknown", "none", "live", "stopped"}]
  /\ loc \in [Procs -> States]
  /\ pid \in [Procs -> Pids \cup {NoPid}]
  /\ status \in [Procs -> {"none", "created", "running", "stopped"}]
  /\ errs \in [Procs -> SUBSET {"dir", "mount", "container", "other"}]

NoDetachedRun == \A k \in Commands : k.op = "run" => ~k.flag

\* A start time that a state.json records next to a process id was never that
\* of a process outside the container: process ids are reused, but state.json
\* cannot come to describe somebody else's process.
RecordedInitIsOwn ==
  NoDetachedRun =>
    \A c \in Ids, q \in Pids :
      /\ dir[c].state.pid = q
      /\ win[q].st # "free"
      /\ dir[c].state.start = win[q].start
      => win[q].owner = c

\* When winc calls a container running, the process it looks at, under the
\* recorded process id, is one of that container, and it is alive or has exited
\* with the code STILL_ACTIVE (259), which GetExitCodeProcess cannot tell apart.
RunningIsTrue ==
  [][\A p \in Procs :
       pc[p] = "state.probe" /\ status'[p] = "running" /\ status[p] # "running"
         => /\ win[loc[p].pid].st \in {"alive", "exited259"}
            /\ win[loc[p].pid].owner = cur[p]]_vars

\* delete that reports success on a container HCS still knew has taken it
\* down: it does not run, has no state directory, and its volume is mounted
\* nowhere.
DeletedMeansGone ==
  \A p \in Procs :
    pc[p] = "exit" /\ cmd[p].op = "delete" /\ errs[p] = {}
    /\ seen[p] \in {"live", "stopped"} =>
      /\ cs[cmd[p].id] \in {"none", "stopped"}
      /\ dir[cmd[p].id] = NoDir
      /\ \A q \in Pids : mnt[q].vol # cmd[p].id

\* delete of a container that HCS knew when it was asked gets rid of the state
\* directory, unless removing that failed, and of the volume mounted for the
\* recorded process, unless reading its state or unmounting failed.  Nothing
\* else that goes wrong may keep them, such as a container that goes away by
\* itself in the middle.
DeleteReleasesResources ==
  \A p \in Procs :
    pc[p] = "exit" /\ cmd[p].op = "delete" /\ seen[p] \in {"live", "stopped"} =>
      /\ "dir" \notin errs[p] => dir[cmd[p].id] = NoDir
      /\ "mount" \notin errs[p] /\ loc[p].pid # NoPid => mnt[loc[p].pid].vol # cmd[p].id

\* Before delete takes a container down without having met an error, the
\* sidecars that share its network are down.
SidecarsGoFirst ==
  \A p \in Procs, s \in Ids :
    /\ cmd[p].op = "delete" /\ errs[p] = {}
    /\ pc[p] \in {"destroy.props", "shutdown", "terminate"}
    /\ cur[p] = cmd[p].id /\ Owner[s] = cmd[p].id
    => cs[s] \in {"none", "stopped"}

\* start that reports success has recorded its process in state.json, and has
\* mounted the container's volume for it.
StartedMeansRecorded ==
  \A p \in Procs :
    pc[p] = "exit" /\ cmd[p].op = "start" /\ errs[p] = {} =>
      /\ dir[cmd[p].id] = StateFile([pid |-> pid[p], start |-> win[pid[p]].start,
                                      failed |-> FALSE])
      /\ win[pid[p]].owner = cmd[p].id
      /\ mnt[pid[p]].vol = cmd[p].id

\* A mounted volume can be found again: the state.json of its container names
\* the process id it is mounted for.
MountsAreRecorded ==
  \A q \in Pids : mnt[q].vol # NoId =>
    /\ dir[mnt[q].vol].kind = "state"
    /\ dir[mnt[q].vol].state.pid = q

\* A create that fails on a container that did not exist leaves no container
\* running, wherever it failed, unless taking it down again failed too.
FailedCreateLeavesNothing ==
  \A p \in Procs :
    /\ pc[p] = "exit" /\ cmd[p].op = "create" /\ seen[p] = "none"
    /\ errs[p] # {} /\ "container" \notin errs[p]
    => cs[cmd[p].id] \in {"none", "stopped"}

\* As long as commands on one container do not overlap, start does not start a
\* process in a container whose state.json records an init process that still
\* runs, whatever was killed or failed before.
RunningIsNotStarted ==
  [][\A p \in Procs, q \in Pids :
       /\ ~Overlap
       /\ cmd[p].op = "start" /\ pid[p] = NoPid /\ pid'[p] # NoPid
       /\ Alive(q) /\ win[q].owner = cur[p]
       => dir[cur[p]].state.pid # q \/ dir[cur[p]].state.start # win[q].start]_vars

\* delete releases the resources of its container, not those of another one.
UnmountsOwnVolume ==
  [][\A p \in Procs :
       pc[p] = "unmount" /\ pc'[p] = "unmount.rm" =>
         mnt[loc[p].pid].vol = cur[p]]_vars
=============================================================================

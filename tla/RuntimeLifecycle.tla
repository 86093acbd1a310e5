-------------------------- MODULE RuntimeLifecycle --------------------------
(***************************************************************************)
(* The commands of winc give every container the life that                 *)
(* ContainerLifecycle promises.                                            *)
(***************************************************************************)
EXTENDS Runtime

\* What Manager.State would answer of c if nothing failed
Status(c) ==
  IF cs[c] = "none" THEN "none"
  ELSE IF dir[c].kind # "state" THEN "unknown"
  ELSE IF cs[c] = "stopped" THEN "stopped"
  ELSE IF ~dir[c].state.failed /\ ~StateValid(dir[c].state) THEN "unknown"
  ELSE UserProgramStatus(dir[c].state)

\* Where create, run, start and delete change what State answers
Creating == {"create.start", "init.mkdir", "init.truncate", "init.write"}
Starting == {"exec.open", "exec.create", "fail.load", "fail.truncate", "fail.write",
             "succ.load", "succ.open", "succ.truncate", "succ.write",
             "bad.truncate", "bad.write"}
Deleting == {"rmstate", "delete.open", "destroy.props", "shutdown", "terminate"}

\* The commands that change a container, its state directory or its mounts
Writers == {"create", "run", "start", "delete"}

At(c, steps) ==
  \E p \in Procs : cur[p] = c /\ cmd[p].op \in Writers /\ pc[p] \in steps

Work(c) ==
  IF At(c, Creating) THEN "creating"
  ELSE IF At(c, Starting)
    THEN IF cs[c] \in {"created", "running"} THEN "starting" ELSE "failing"
  ELSE IF At(c, Deleting) THEN "deleting" ELSE "none"

Life(c) == INSTANCE ContainerLifecycle WITH life <- Status(c), work <- Work(c)

\* Whatever fails, and wherever a winc process is killed: as long as commands on
\* one container do not overlap, each container is none at first, is created,
\* comes to run at most by a start that found it created, and once stopped never
\* runs again until it has been deleted; only the command that writes a record
\* makes it readable again, and only delete takes away what has not stopped.
LifecycleKept ==
  /\ \A c \in Ids : Life(c)!Init
  /\ [][~Overlap => \A c \in Ids : [Life(c)!Next]_(Life(c)!vars)]_vars
=============================================================================

------------------------------ MODULE WincHost ------------------------------
(***************************************************************************)
(* The Windows host that winc processes share: compute systems kept by the *)
(* Host Compute Service (HCS), the process table, winc's state directories *)
(* and the mount directories under c:\proc.  Everything here outlives a    *)
(* winc process; winc keeps nothing else between two commands.             *)
(*                                                                         *)
(* One element of Procs is the slot of one winc process.  The variables    *)
(* pc ... errs are its program counter and its locals; they start afresh   *)
(* with every command.  An operation of a component is an action with its  *)
(* continuations as parameters, in the way its caller resumes after it.    *)
(***************************************************************************)
EXTENDS Integers, FiniteSets

CONSTANTS
  Procs,      \* slots for concurrent winc processes
  Ids,        \* container ids
  NoId,       \* no container
  Host,       \* owner of the host's own processes
  Pids,       \* process ids
  NoPid,      \* process id 0
  Owner,      \* [Ids -> Ids \cup {NoId}], the container a sidecar belongs to
  Commands,   \* the winc commands that are run, see Command
  MaxStarts,  \* bound on the number of processes ever started
  Overlap,    \* TRUE: two commands may work on one container at a time
  Faults      \* what may go wrong, a subset of FaultKinds

FaultKinds == {"crash",    \* a winc process is killed
               "hcs",      \* an HCS call fails
               "fs",       \* reading or writing a file or directory fails
               "win",      \* OpenProcess or a query on its handle fails
               "mount",    \* setting or deleting a mount point fails
               "vanish",   \* HCS drops a container that stopped by itself
               "code259"}  \* a program exits with STILL_ACTIVE as its code

Command == [op : {"create", "run", "start", "exec", "state", "events", "delete"},
            id : Ids,
            flag : BOOLEAN]  \* run, exec: --detach; delete: --force

ASSUME HostAssumption ==
  /\ NoId \notin Ids /\ Host \notin Ids /\ Host # NoId
  /\ NoPid \notin Pids
  /\ Owner \in [Ids -> Ids \cup {NoId}]
  /\ Commands \subseteq Command
  /\ MaxStarts \in Nat
  /\ Overlap \in BOOLEAN
  /\ Faults \subseteq FaultKinds

VARIABLES
  cs,     \* HCS: each container's compute system
  win,    \* the process table
  clock,  \* the start time of the next process; 0 is the zero Filetime
  dir,    \* each container's state directory and the state.json in it
  mnt,    \* the mount directory c:\proc\<pid> of each process id
  pc,     \* where a winc process is
  cmd,    \* its command
  cur,    \* the container it is working on
  todo,   \* delete: containers still to delete before the one named
  seen,   \* what HCS said of the container when it was last asked
  loc,    \* its copy of state.json
  pid,    \* the process it started, or NoPid
  status, \* the container status that StateManager.State computed
  errs    \* the errors it has met and will report, by what they keep from being released

hostVars == <<cs, win, clock, dir, mnt>>
procVars == <<pc, cmd, cur, todo, seen, loc, pid, status, errs>>
vars == <<cs, win, clock, dir, mnt, pc, cmd, cur, todo, seen, loc, pid,
          status, errs>>

-----------------------------------------------------------------------------
(* Values                                                                  *)

\* state.State without the bundle path
ZeroState == [pid |-> NoPid, start |-> 0, failed |-> FALSE]

States == [pid : Pids \cup {NoPid}, start : 0..MaxStarts, failed : BOOLEAN]

\* A state directory: absent, without a readable state.json, or with one
NoDir == [kind |-> "none", state |-> ZeroState]
Unreadable == [kind |-> "bare", state |-> ZeroState]
StateFile(s) == [kind |-> "state", state |-> s]

StateDirs == [kind : {"none", "bare", "state"}, state : States]

NoMount == [dir |-> FALSE, vol |-> NoId]
BareMount == [dir |-> TRUE, vol |-> NoId]

MountPoints == [dir : BOOLEAN, vol : Ids \cup {NoId}]

FreePid == [st |-> "free", owner |-> NoId, start |-> 0, held |-> {}]

Processes == [st : {"free", "alive", "exited", "exited259"},
              owner : Ids \cup {Host, NoId},
              start : 0..MaxStarts,
              held : SUBSET Procs]  \* the winc processes with a handle to it

NoCommand == [op |-> "state", id |-> NoId, flag |-> FALSE]

Alive(q) == win[q].st = "alive"

-----------------------------------------------------------------------------
(* Control                                                                 *)

\* A continuation: where to go on, and whether an error is on record then
To(l) == [at |-> l, err |-> FALSE]
Err(l) == [at |-> l, err |-> TRUE]

\* What a command that meets an error at a step may not be able to release: the
\* state directory, the mounted volume, or the compute system
Keeps(l) == CASE l = "rmstate" -> "dir"
              [] l \in {"state.load", "state.probe", "unmount", "unmount.rm"} -> "mount"
              [] l \in {"delete.open", "destroy.props", "terminate"} -> "container"
              [] OTHER -> "other"

Go(p, k) ==
  /\ pc' = [pc EXCEPT ![p] = k.at]
  /\ errs' = [errs EXCEPT ![p] = IF k.err THEN @ \cup {Keeps(pc[p])} ELSE @]

\* Between two steps of a command only its continuation changes.
Skip(p, k) ==
  /\ Go(p, k)
  /\ UNCHANGED <<cs, win, clock, dir, mnt, cmd, cur, todo, seen, loc, pid, status>>

-----------------------------------------------------------------------------
(* What goes on without winc                                               *)

\* The processes of S exit; a program may exit with the code STILL_ACTIVE.
Exited(S) ==
  {[q \in Pids |-> IF q \in S THEN [win[q] EXCEPT !.st = c] ELSE win[q]] :
     c \in {"exited"} \cup (IF "code259" \in Faults THEN {"exited259"} ELSE {})}

ProcessExit ==
  \E q \in Pids :
    /\ Alive(q)
    /\ win' \in Exited({q})
    /\ UNCHANGED <<cs, clock, dir, mnt, procVars>>

\* Windows frees a process id once nobody has a handle to the process.
ProcessReaped ==
  \E q \in Pids :
    /\ win[q].st \notin {"free", "alive"}
    /\ win[q].held = {}
    /\ win' = [win EXCEPT ![q] = FreePid]
    /\ UNCHANGED <<cs, clock, dir, mnt, procVars>>

\* The host starts a process of its own, on a process id that is free.
HostProcess ==
  \E q \in Pids :
    /\ clock =< MaxStarts
    /\ win[q].st = "free"
    /\ win' = [win EXCEPT ![q] =
                 [st |-> "alive", owner |-> Host, start |-> clock, held |-> {}]]
    /\ clock' = clock + 1
    /\ UNCHANGED <<cs, dir, mnt, procVars>>

OfContainer(c) == {q \in Pids : Alive(q) /\ win[q].owner = c}

\* A container stops without winc asking for it.  HCS keeps a stopped compute
\* system as long as somebody has it open, and may drop it otherwise.
ContainerExit ==
  \E c \in Ids :
    /\ cs[c] = "running"
    /\ cs' = [cs EXCEPT ![c] = "stopped"]
    /\ win' \in Exited(OfContainer(c))
    /\ UNCHANGED <<clock, dir, mnt, procVars>>

ContainerVanishes ==
  \E c \in Ids :
    /\ "vanish" \in Faults
    /\ cs[c] = "stopped"
    /\ cs' = [cs EXCEPT ![c] = "none"]
    /\ UNCHANGED <<win, clock, dir, mnt, procVars>>

Environment ==
  \/ ProcessExit \/ ProcessReaped \/ HostProcess
  \/ ContainerExit \/ ContainerVanishes
=============================================================================

------------------------- MODULE ContainerLifecycle -------------------------
(***************************************************************************)
(* What winc promises about the life of one container: what `winc state`   *)
(* would report of it, and what the winc command that is at work on it may *)
(* do to that.  Nothing is said of process ids, files or errors.           *)
(***************************************************************************)

VARIABLES
  life,  \* what `winc state` would report; "unknown" is an error of it
  work   \* what a winc command is doing to the container

vars == <<life, work>>

Lives == {"none", "unknown", "created", "running", "stopped"}
Works == {"none", "creating",
          "starting",  \* its process is started and recorded
          "failing",   \* the same, but the container is down by now
          "deleting"}

TypeOK == life \in Lives /\ work \in Works

Init == life = "none" /\ work = "none"

\* The container exists.  A record that an earlier one has left may still be there.
Create ==
  /\ life = "none" /\ work = "none"
  /\ life' \in Lives \ {"none"}
  /\ work' = "creating"

\* A start goes ahead with a container that is as it was created; or it finds out
\* too late that the container is down.
BeginStart ==
  /\ work = "none"
  /\ \/ life = "created" /\ work' = "starting"
     \/ life \in {"stopped", "none"} /\ work' = "failing"
  /\ UNCHANGED life

\* The record is about to be written, and cannot be read.
Rewrite ==
  /\ \/ work = "creating" /\ life # "none"
     \/ work = "starting" /\ life = "created"
     \/ work = "failing" /\ life = "stopped"
  /\ life' = "unknown"
  /\ UNCHANGED work

\* The record is written.  run goes on to start what it has created.
Record ==
  \/ /\ work = "creating" /\ life = "unknown"
     /\ \/ life' = "created" /\ work' \in {"none", "starting"}
        \/ life' = "stopped" /\ work' \in {"none", "failing"}
  \/ /\ work = "creating" /\ life = "none"
     /\ work' = "failing"
     /\ UNCHANGED life
  \/ /\ work = "starting" /\ life = "unknown"
     /\ life' \in {"running", "stopped"} /\ work' = "none"
  \/ /\ work = "failing" /\ life = "unknown"
     /\ life' = "stopped" /\ work' = "none"

\* The command returns or is killed, and the container stays as it is.
GiveUp == work # "none" /\ work' = "none" /\ UNCHANGED life

\* The program exits, or the whole container does.
Stop ==
  /\ life \in {"created", "running", "unknown"}
  /\ life' = IF life = "unknown" THEN life ELSE "stopped"
  /\ work' = IF work = "starting" THEN "failing" ELSE work

\* A container that is down may be dropped.
Vanish ==
  /\ life \in {"stopped", "unknown"} /\ work # "starting"
  /\ life' = "none"
  /\ UNCHANGED work

\* delete begins, or create gives a container up that it cannot record.
BeginDelete ==
  /\ work \in {"none", "creating"} /\ work' = "deleting"
  /\ UNCHANGED life

\* The record is removed.
Forget ==
  /\ work = "deleting" /\ life # "none"
  /\ life' = "unknown"
  /\ UNCHANGED work

\* The container is down; whoever has it open keeps it from being dropped.
Destroy ==
  /\ work = "deleting" /\ work' = "none"
  /\ \/ life' = "none"
     \/ life' = IF life \in {"created", "running"} THEN "stopped" ELSE life

Next ==
  \/ Create \/ BeginStart \/ Rewrite \/ Record \/ GiveUp \/ Stop \/ Vanish
  \/ BeginDelete \/ Forget \/ Destroy

Spec == Init /\ [][Next]_vars
=============================================================================

----------------------------- MODULE MCRuntime -----------------------------
(***************************************************************************)
(* Small instances of Runtime.                                             *)
(***************************************************************************)
EXTENDS RuntimeLifecycle, TLC

NoSidecars == [c \in Ids |-> NoId]

Cmds(ops, flags) == [op : ops, id : Ids, flag : flags]

\* create, start and delete a container; start and delete look at it first
Lifecycle == Cmds({"create", "start"}, {FALSE}) \cup Cmds({"delete"}, BOOLEAN)

\* the same, attached runs, and commands that look on
WithOnlookers == Lifecycle \cup Cmds({"run", "state", "events"}, {FALSE})

\* attached runs and processes, racing with start and with delete
Attached == Cmds({"run", "start", "delete"}, {FALSE}) \cup Cmds({"exec"}, BOOLEAN)

\* one container is a sidecar of the other
Main == CHOOSE c \in Ids : TRUE
OneSidecar == [c \in Ids |-> IF c = Main THEN NoId ELSE Main]

\* the life of a container, and sidecars of it that come and go
WithSidecars ==
  {k \in Lifecycle : k.id = Main \/ (k.op \in {"create", "delete"} /\ ~k.flag)}

Symmetry == Permutations(Procs) \cup Permutations(Pids)
=============================================================================

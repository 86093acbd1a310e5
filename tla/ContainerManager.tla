-------------------------- MODULE ContainerManager --------------------------
(***************************************************************************)
(* runtime/container: create, start, shut down and terminate compute       *)
(* systems through HCS, and start processes in them.                       *)
(***************************************************************************)
EXTENDS WincHost

\* The container has exited; HCS drops its compute system once nobody has it
\* open any more.
Gone(c) == cs' \in {[cs EXCEPT ![c] = "none"], [cs EXCEPT ![c] = "stopped"]}

\* deleteContainer: Close a stopped compute system, otherwise Shutdown and, if
\* that fails, Terminate.  Both wait until the container has exited.
DestroyContainer(p, ok, bad) ==
  \/ /\ pc[p] = "destroy.props"
     /\ \/ /\ cs[cur[p]] = "stopped"
           /\ Gone(cur[p])
           /\ Go(p, ok)
        \/ /\ cs[cur[p]] \in {"created", "running"}
           /\ Go(p, To("shutdown"))
           /\ UNCHANGED cs
        \/ /\ cs[cur[p]] = "none" \/ "hcs" \in Faults
           /\ Go(p, bad)
           /\ UNCHANGED cs
     /\ UNCHANGED <<win, clock, dir, mnt, cmd, cur, todo, seen, loc, pid, status>>
  \/ /\ pc[p] \in {"shutdown", "terminate"}
     /\ \/ /\ cs[cur[p]] # "none"
           /\ Gone(cur[p])
           /\ win' \in Exited(OfContainer(cur[p]))
           /\ Go(p, ok)
        \/ /\ cs[cur[p]] = "none" \/ "hcs" \in Faults
           /\ Go(p, IF pc[p] = "shutdown" THEN To("terminate") ELSE bad)
           /\ UNCHANGED <<cs, win>>
     /\ UNCHANGED <<clock, dir, mnt, cmd, cur, todo, seen, loc, pid, status>>

\* Create.  Everything between the existence check and CreateContainer only
\* reads: layers, mapped directories, the shared network endpoint.
Create(p, ok, bad) ==
  \/ /\ pc[p] = "create.props"
     /\ \/ /\ cs[cur[p]] = "none"
           /\ seen' = [seen EXCEPT ![p] = "none"]
           /\ Go(p, To("create.create"))
        \/ /\ cs[cur[p]] # "none"
           /\ seen' = [seen EXCEPT ![p] = "live"]
           /\ Go(p, bad)
        \/ /\ "hcs" \in Faults
           /\ Go(p, bad)
           /\ UNCHANGED seen
     /\ UNCHANGED <<hostVars, cmd, cur, todo, loc, pid, status>>
  \/ /\ pc[p] = "create.create"
     /\ \/ /\ cs[cur[p]] = "none"
           /\ cs' = [cs EXCEPT ![cur[p]] = "created"]
           /\ Go(p, To("create.start"))
        \/ /\ cs[cur[p]] # "none" \/ "hcs" \in Faults \/ "fs" \in Faults
           /\ Go(p, bad)
           /\ UNCHANGED cs
     /\ UNCHANGED <<win, clock, dir, mnt, cmd, cur, todo, seen, loc, pid, status>>
  \/ /\ pc[p] = "create.start"
     /\ \/ /\ cs[cur[p]] = "created"
           /\ cs' = [cs EXCEPT ![cur[p]] = "running"]
           /\ Go(p, ok)
        \/ /\ cs[cur[p]] # "created" \/ "hcs" \in Faults
           /\ Go(p, Err("destroy.props"))
           /\ UNCHANGED cs
     /\ UNCHANGED <<win, clock, dir, mnt, cmd, cur, todo, seen, loc, pid, status>>

\* Delete.  OpenContainer reports a missing container with an error that is not
\* hcs.NotFoundError, so that force makes no difference.
Delete(p, ok, bad) ==
  \/ /\ pc[p] = "delete.open"
     /\ \/ /\ cs[cur[p]] # "none"
           /\ Skip(p, To("destroy.props"))
        \/ /\ cs[cur[p]] = "none" \/ "hcs" \in Faults
           /\ Skip(p, bad)
  \/ DestroyContainer(p, ok, bad)

\* Faulty variant: the process is closed before its start time is read.
ExecUnheld(p, createIOPipes, ok, notCreated, bad) ==
  \/ /\ pc[p] = "exec.open"
     /\ cs[cur[p]] # "none"
     /\ Skip(p, To("exec.create"))
  \/ /\ pc[p] = "exec.create"
     /\ cs[cur[p]] = "running"
     /\ clock =< MaxStarts
     /\ \E q \in Pids :
          /\ win[q].st = "free"
          /\ win' = [win EXCEPT ![q] = [st |-> "alive", owner |-> cur[p],
                                        start |-> clock, held |-> {}]]
          /\ pid' = [pid EXCEPT ![p] = q]
     /\ clock' = clock + 1
     /\ Go(p, ok)
     /\ UNCHANGED <<cs, dir, mnt, cmd, cur, todo, seen, loc, status>>

\* Exec.  hcsshim keeps the process open only if it made pipes for its IO.
Exec(p, createIOPipes, ok, notCreated, bad) ==
  \/ /\ pc[p] = "exec.open"
     /\ \/ /\ cs[cur[p]] # "none"
           /\ Skip(p, To("exec.create"))
        \/ /\ cs[cur[p]] = "none" \/ "hcs" \in Faults
           /\ Skip(p, bad)
  \/ /\ pc[p] = "exec.create"
     /\ \/ /\ cs[cur[p]] = "running"
           /\ \E q \in Pids :
                /\ win[q].st = "free"
                /\ win' = [win EXCEPT ![q] =
                             [st |-> "alive", owner |-> cur[p], start |-> clock,
                              held |-> IF createIOPipes THEN {p} ELSE {}]]
                /\ pid' = [pid EXCEPT ![p] = q]
           /\ clock =< MaxStarts
           /\ clock' = clock + 1
           /\ Go(p, ok)
        \/ /\ \/ cs[cur[p]] # "running"
              \/ "hcs" \in Faults
              \/ clock > MaxStarts
              \/ \A q \in Pids : win[q].st # "free"
           /\ Go(p, notCreated)
           /\ UNCHANGED <<win, pid, clock>>
     /\ UNCHANGED <<cs, dir, mnt, cmd, cur, todo, seen, loc, status>>

\* Stats: OpenContainer, then Statistics and ProcessList, which only read
Stats(p, ok, bad) ==
  \/ /\ pc[p] = "stats.open"
     /\ \/ cs[cur[p]] # "none" /\ Skip(p, To("stats.read"))
        \/ (cs[cur[p]] = "none" \/ "hcs" \in Faults) /\ Skip(p, bad)
  \/ /\ pc[p] = "stats.read"
     /\ \/ cs[cur[p]] = "running" /\ Skip(p, ok)
        \/ (cs[cur[p]] # "running" \/ "hcs" \in Faults) /\ Skip(p, bad)
=============================================================================

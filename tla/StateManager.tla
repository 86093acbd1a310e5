---------------------------- MODULE StateManager ----------------------------
(***************************************************************************)
(* runtime/state: the state.json of a container and the status computed    *)
(* from it, from HCS and from the process table.                           *)
(***************************************************************************)
EXTENDS WincHost

\* loadState succeeds on a readable state.json.
Loads(p) == dir[cur[p]].kind = "state"

LoadFails(p) == ~Loads(p) \/ "fs" \in Faults

-----------------------------------------------------------------------------
(* writeState: os.WriteFile truncates the file, then writes it.            *)

WriteSteps == {"init.write", "fail.write", "succ.write", "bad.write"}

TruncateState(p, here, next, bad) ==
  /\ pc[p] = here
  /\ \/ /\ dir[cur[p]].kind # "none"
        /\ dir' = [dir EXCEPT ![cur[p]] = Unreadable]
        /\ Go(p, To(next))
     \/ /\ dir[cur[p]].kind = "none" \/ "fs" \in Faults
        /\ Go(p, bad)
        /\ UNCHANGED dir
  /\ UNCHANGED <<cs, win, clock, mnt, cmd, cur, todo, seen, loc, pid, status>>

\* If another process has written the file since it was truncated, its longer
\* text may stick out at the end, and the file is no longer JSON.
FillState(p, here, ok, bad) ==
  /\ pc[p] = here
  /\ \/ /\ \/ dir' = [dir EXCEPT ![cur[p]] = StateFile(loc[p])]
           \/ /\ Loads(p)
              /\ dir' = [dir EXCEPT ![cur[p]] = Unreadable]
        /\ Go(p, ok)
     \/ /\ "fs" \in Faults
        /\ Go(p, bad)
        /\ UNCHANGED dir
  /\ UNCHANGED <<cs, win, clock, mnt, cmd, cur, todo, seen, loc, pid, status>>

-----------------------------------------------------------------------------
Initialize(p, ok, bad) ==
  \/ /\ pc[p] = "init.mkdir"
     /\ \/ /\ dir' = [dir EXCEPT ![cur[p]] = IF @ = NoDir THEN Unreadable ELSE @]
           /\ Go(p, To("init.truncate"))
        \/ /\ "fs" \in Faults
           /\ Go(p, bad)
           /\ UNCHANGED dir
     /\ loc' = [loc EXCEPT ![p] = ZeroState]
     /\ UNCHANGED <<cs, win, clock, mnt, cmd, cur, todo, seen, pid, status>>
  \/ TruncateState(p, "init.truncate", "init.write", bad)
  \/ FillState(p, "init.write", ok, bad)

\* os.RemoveAll fails while another process has state.json open for writing.
DeleteState(p, ok, bad) ==
  /\ pc[p] = "rmstate"
  /\ LET busy == \E q \in Procs \ {p} : pc[q] \in WriteSteps /\ cur[q] = cur[p]
     IN  \/ /\ ~busy
            /\ dir' = [dir EXCEPT ![cur[p]] = NoDir]
            /\ Go(p, ok)
         \/ /\ busy \/ "fs" \in Faults
            /\ Go(p, bad)
            /\ UNCHANGED dir
  /\ UNCHANGED <<cs, win, clock, mnt, cmd, cur, todo, seen, loc, pid, status>>

\* SetFailure; its caller only logs an error of it
SetFailure(p, done) ==
  \/ /\ pc[p] = "fail.load"
     /\ \/ /\ Loads(p)
           /\ loc' = [loc EXCEPT ![p] = [ZeroState EXCEPT !.failed = TRUE]]
           /\ Go(p, To("fail.truncate"))
        \/ /\ LoadFails(p)
           /\ Go(p, done)
           /\ UNCHANGED loc
     /\ UNCHANGED <<hostVars, cmd, cur, todo, seen, pid, status>>
  \/ TruncateState(p, "fail.truncate", "fail.write", done)
  \/ FillState(p, "fail.write", done, done)

\* Faulty variant: the start time is not stored.
SetSuccessNoTime(p, ok, bad) ==
  \/ /\ pc[p] = "succ.load"
     /\ Loads(p)
     /\ loc' = [loc EXCEPT ![p] = [dir[cur[p]].state EXCEPT !.pid = pid[p]]]
     /\ Go(p, To("succ.truncate"))
     /\ UNCHANGED <<hostVars, cmd, cur, todo, seen, pid, status>>
  \/ TruncateState(p, "succ.truncate", "succ.write", bad)
  \/ FillState(p, "succ.write", ok, bad)

\* OpenProcess and GetProcessStartTime on the process just started.  If they
\* fail, the failure is recorded together with the process id.
SetSuccess(p, ok, bad) ==
  \/ /\ pc[p] = "succ.load"
     /\ \/ /\ Loads(p)
           /\ loc' = [loc EXCEPT ![p] = [dir[cur[p]].state EXCEPT !.pid = pid[p]]]
           /\ Go(p, To("succ.open"))
        \/ /\ LoadFails(p)
           /\ Go(p, bad)
           /\ UNCHANGED loc
     /\ UNCHANGED <<hostVars, cmd, cur, todo, seen, pid, status>>
  \/ /\ pc[p] = "succ.open"
     /\ \/ /\ win[pid[p]].st # "free"
           /\ loc' = [loc EXCEPT ![p].start = win[pid[p]].start]
           /\ Go(p, To("succ.truncate"))
        \/ /\ win[pid[p]].st = "free" \/ "win" \in Faults
           /\ loc' = [loc EXCEPT ![p].failed = TRUE]
           /\ Go(p, Err("bad.truncate"))
     /\ UNCHANGED <<hostVars, cmd, cur, todo, seen, pid, status>>
  \/ TruncateState(p, "succ.truncate", "succ.write", bad)
  \/ FillState(p, "succ.write", ok, bad)
  \/ TruncateState(p, "bad.truncate", "bad.write", bad)
  \/ FillState(p, "bad.write", bad, bad)

-----------------------------------------------------------------------------
StateValid(s) == (s.pid = NoPid) <=> (s.start = 0)

\* GetExitCodeProcess answers STILL_ACTIVE
StillActive(q) == win[q].st \in {"alive", "exited259"}

\* Faulty variant: statuses the OCI runtime specification does not know.
UserProgramStatusUnset(s) ==
  IF s.failed THEN "failed"
  ELSE IF s.pid = NoPid THEN "created"
  ELSE IF win[s.pid].st # "free" THEN "running" ELSE "exited"

\* Faulty variant: the start time is not compared.
UserProgramStatusNoTime(s) ==
  IF s.failed THEN "stopped"
  ELSE IF s.pid = NoPid THEN "created"
  ELSE IF win[s.pid].st # "free" /\ StillActive(s.pid) THEN "running" ELSE "stopped"

\* userProgramStatus once the process queries, if any are made, have succeeded
UserProgramStatus(s) ==
  IF s.failed THEN "stopped"
  ELSE IF s.pid = NoPid THEN "created"
  ELSE IF win[s.pid].st # "free" /\ StillActive(s.pid) /\ win[s.pid].start = s.start
       THEN "running"
       ELSE "stopped"

QueriesProcess(s) == ~s.failed /\ s.pid # NoPid

\* Manager.State; missing is its answer hcs.NotFoundError, bad any other error
State(p, ok, missing, bad) ==
  \/ /\ pc[p] = "state.props"
     /\ \/ /\ cs[cur[p]] # "none"
           /\ seen' = [seen EXCEPT ![p] = IF cs[cur[p]] = "stopped" THEN "stopped"
                                                                  ELSE "live"]
           /\ Go(p, To("state.load"))
        \/ /\ cs[cur[p]] = "none"
           /\ seen' = [seen EXCEPT ![p] = "none"]
           /\ Go(p, missing)
        \/ /\ "hcs" \in Faults
           /\ Go(p, bad)
           /\ UNCHANGED seen
     /\ UNCHANGED <<hostVars, cmd, cur, todo, loc, pid, status>>
  \/ /\ pc[p] = "state.load"
     /\ \/ /\ Loads(p)
           /\ loc' = [loc EXCEPT ![p] = dir[cur[p]].state]
           /\ IF seen[p] = "stopped"
                THEN /\ status' = [status EXCEPT ![p] = "stopped"]
                     /\ Go(p, ok)
                ELSE /\ UNCHANGED status
                     /\ Go(p, To("state.probe"))
        \/ /\ LoadFails(p)
           /\ Go(p, bad)
           /\ UNCHANGED <<loc, status>>
     /\ UNCHANGED <<hostVars, cmd, cur, todo, seen, pid>>
  \/ /\ pc[p] = "state.probe"
     /\ \/ /\ loc[p].failed \/ StateValid(loc[p])
           /\ status' = [status EXCEPT ![p] = UserProgramStatus(loc[p])]
           /\ Go(p, ok)
        \/ /\ \/ ~loc[p].failed /\ ~StateValid(loc[p])
              \/ QueriesProcess(loc[p]) /\ "win" \in Faults
           /\ Go(p, bad)
           /\ UNCHANGED status
     /\ UNCHANGED <<hostVars, cmd, cur, todo, seen, loc, pid>>
=============================================================================

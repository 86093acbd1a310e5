------------------------------- MODULE Mounter -------------------------------
(***************************************************************************)
(* runtime/mount: the container's volume under c:\proc\<pid>\root.         *)
(***************************************************************************)
EXTENDS WincHost

Mount(p, ok, bad) ==
  \/ /\ pc[p] = "mount.stat"
     /\ IF mnt[pid[p]].dir THEN Skip(p, bad) ELSE Skip(p, To("mount.mkdir"))
  \/ /\ pc[p] = "mount.mkdir"
     /\ \/ /\ mnt' = [mnt EXCEPT ![pid[p]].dir = TRUE]
           /\ Go(p, To("mount.set"))
        \/ /\ "fs" \in Faults
           /\ Go(p, bad)
           /\ UNCHANGED mnt
     /\ UNCHANGED <<cs, win, clock, dir, cmd, cur, todo, seen, loc, pid, status>>
  \/ /\ pc[p] = "mount.set"
     /\ \/ /\ mnt[pid[p]] = BareMount
           /\ mnt' = [mnt EXCEPT ![pid[p]].vol = cur[p]]
           /\ Go(p, ok)
        \/ /\ mnt[pid[p]] # BareMount \/ "mount" \in Faults
           /\ Go(p, bad)
           /\ UNCHANGED mnt
     /\ UNCHANGED <<cs, win, clock, dir, cmd, cur, todo, seen, loc, pid, status>>

\* Unmount(loc.pid).  deletePoint fails without a mount point; the directory is
\* removed in any case, by the deferred RemoveAll if not before.
Unmount(p, ok, bad) ==
  \/ /\ pc[p] = "unmount"
     /\ loc[p].pid # NoPid
     /\ \/ /\ mnt[loc[p].pid].vol # NoId
           /\ mnt' = [mnt EXCEPT ![loc[p].pid].vol = NoId]
           /\ Go(p, To("unmount.rm"))
        \/ /\ mnt[loc[p].pid].vol = NoId \/ "mount" \in Faults
           /\ \/ mnt' = [mnt EXCEPT ![loc[p].pid] = NoMount]
              \/ /\ Faults \cap {"mount", "fs"} # {}
                 /\ UNCHANGED mnt
           /\ Go(p, bad)
     /\ UNCHANGED <<cs, win, clock, dir, cmd, cur, todo, seen, loc, pid, status>>
  \/ /\ pc[p] = "unmount.rm"
     /\ \/ /\ mnt' = [mnt EXCEPT ![loc[p].pid] = NoMount]
           /\ Go(p, ok)
        \/ /\ "fs" \in Faults
           /\ Go(p, bad)
           /\ UNCHANGED mnt
     /\ UNCHANGED <<cs, win, clock, dir, cmd, cur, todo, seen, loc, pid, status>>
=============================================================================

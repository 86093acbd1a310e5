------------------------------ MODULE PortPool ------------------------------
(***************************************************************************)
(* What the port allocator promises its callers: one pool of host ports,   *)
(* each owned by at most one container handle, acquired one at a time and  *)
(* released a whole handle at a time, every operation taking effect in one *)
(* step whatever the number of winc-network processes.                     *)
(*                                                                         *)
(* The promise has one hole, which MayLose opens: an operation cut short   *)
(* while it rewrites the state file loses the record of every acquired     *)
(* port, and may leave a file that no later operation can read.            *)
(***************************************************************************)
EXTENDS Naturals

CONSTANTS Handles,   \* container handles
          Ports,     \* the host ports of the pool
          MayLose    \* TRUE when an operation may be cut short

VARIABLES acquired,  \* [Handles -> SUBSET Ports], the ports each handle owns
          readable   \* FALSE once the state file cannot be parsed any more

vars == <<acquired, readable>>

Nothing == [h \in Handles |-> {}]

Init == acquired = Nothing /\ readable = TRUE

Acquire(h) ==
  /\ readable
  /\ \E n \in Ports :
       /\ \A g \in Handles : n \notin acquired[g]
       /\ acquired' = [acquired EXCEPT ![h] = @ \cup {n}]
  /\ UNCHANGED readable

Release(h) ==
  /\ readable
  /\ acquired' = [acquired EXCEPT ![h] = {}]
  /\ UNCHANGED readable

Lose ==
  /\ MayLose
  /\ readable
  /\ acquired' = Nothing
  /\ readable' \in BOOLEAN

Next == (\E h \in Handles : Acquire(h) \/ Release(h)) \/ Lose

Spec == Init /\ [][Next]_vars
=============================================================================

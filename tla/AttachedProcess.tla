-------------------------- MODULE AttachedProcess --------------------------
(***************************************************************************)
(* What Runtime relies on when it calls AttachIO: the call does not come   *)
(* back before the process has exited, or else with an error of HCS.       *)
(* ProcessIO implements it.                                                *)
(***************************************************************************)

CONSTANT MayFail  \* TRUE when calls of HCS may fail

VARIABLES
  alive,  \* the process runs
  call    \* the call of AttachIO: "on", then "ok" or "error"

vars == <<alive, call>>

Init == alive = TRUE /\ call = "on"

Exit ==
  /\ alive
  /\ alive' = FALSE
  /\ UNCHANGED call

Return ==
  /\ call = "on"
  /\ \/ ~alive /\ call' = "ok"
     \/ MayFail /\ call' = "error"
  /\ UNCHANGED alive

Spec == Init /\ [][Exit \/ Return]_vars
=============================================================================

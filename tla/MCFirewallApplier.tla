------------------------- MODULE MCFirewallApplier -------------------------
(***************************************************************************)
(* A small instance of FirewallApplier.                                    *)
(***************************************************************************)
EXTENDS FirewallApplier, TLC

Up(h, in, out) == [op |-> "up", handle |-> h, in |-> in, out |-> out]

\* several rules of one name; a port of the pool and one of the caller's choice;
\* a protocol that is refused after rules have been made
SomeCommands ==
  {[Up(h, <<>>, <<>>) EXCEPT !.op = "down"] : h \in Handles}
  \cup {Up(h, in, <<"valid">>) : h \in Handles, in \in {<<0>>, <<8080, 0>>}}
  \cup {Up(h, <<0>>, <<"valid", "invalid">>) : h \in Handles}
=============================================================================

-------------------------- MODULE MCNetworkManager --------------------------
(***************************************************************************)
(* Small instances of NetworkManager.                                      *)
(***************************************************************************)
EXTENDS NetworkManager, TLC

Cmd(op, h) == [op |-> op, handle |-> h, subnet |-> "a", suffix |-> TRUE,
               in |-> <<>>, out |-> "none", ports |-> "none"]

Up(h, in, out, ports) ==
  [Cmd("up", h) EXCEPT !.in = in, !.out = out, !.ports = ports]

Create == Cmd("create", NoHandle)

Downs == {Cmd("down", h) : h \in Handles}

\* One or two pool ports, with or without a port of the caller's choice
TwoPorts ==
  {Create} \cup Downs
  \cup {Up(h, in, "none", "list") : h \in Handles, in \in {<<0>>, <<0, 8080, 0>>}}

\* Every kind of input, while the NAT network comes and goes under two
\* configurations
AllInputs ==
  {[Create EXCEPT !.subnet = s, !.suffix = x] : s \in {"a", "b"}, x \in BOOLEAN}
  \cup {Cmd("delete", NoHandle)} \cup Downs
  \cup {Up(h, <<0>>, out, "list") : h \in Handles, out \in {"none", "rules", "invalid"}}
  \cup {Up(h, <<>>, "none", ports) : h \in Handles, ports \in {"none", "other", "list", "invalid"}}

\* NetIn rules and no NetOut rules
NetInOnly == {Create} \cup Downs \cup {Up(h, <<0>>, "none", "none") : h \in Handles}

Symmetry == Permutations(Procs) \cup Permutations(Handles) \cup Permutations(Eids)
=============================================================================

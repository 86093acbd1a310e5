--------------------------- MODULE MCTestDouble ---------------------------
(***************************************************************************)
(* Small instances of TestDouble: for every double of the repository,      *)
(* its methods two by two, told apart only by whether they have arguments  *)
(* and results.  Methods share no mutex but invocationsMutex.              *)
(***************************************************************************)
EXTENDS TestDouble, TLC

D == INSTANCE Doubles

Some(n) == IF n > 0 THEN 1 ELSE 0
Shape(m) == [args |-> Some(m.args), results |-> Some(m.results)]

Neighbours == UNION {{<<Shape(d[i]), Shape(d[i + 1])>> : i \in 1..(Len(d) - 1)} :
                       d \in D!AllDoubles}

\* Methods that differ, each pair in one order; two that are alike are covered
\* by either one of these.
SomeDoubles ==
  {d \in Neighbours : d[1] # d[2] /\ d[1].args =< d[2].args
                                  /\ d[1].results >= d[2].results}
=============================================================================

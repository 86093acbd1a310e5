---------------------------- MODULE MCProcessIO ----------------------------
(***************************************************************************)
(* A small instance of ProcessIO.                                          *)
(***************************************************************************)
EXTENDS ProcessIO

\* run and exec attach all three streams; any of them may be nil
SomeAttachments == {Streams, {"stdout"}}

\* as much as fits into the pipe, and more
SomeOutput == [s \in Outs |-> IF s = "stdout" THEN 1 ELSE 2]
=============================================================================

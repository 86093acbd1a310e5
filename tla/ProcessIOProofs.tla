-------------------------- MODULE ProcessIOProofs --------------------------
(***************************************************************************)
(* What is proved about ProcessIO, for every set of attached streams,      *)
(* every amount of output, every size of the pipes and every failure.      *)
(***************************************************************************)
EXTENDS ProcessIO, TLAPS

-----------------------------------------------------------------------------
(* The inductive invariant                                                 *)

\* Where AttachIO and a copy of the output can be
MainSteps == {"notify", "stdio", "stdin", "stdout", "stderr", "wait", "select", "code", "returned"}
CopySteps == {"none", "copy", "close", "lost", "stuck", "end", "end.lost"}
Places == MainSteps \cup CopySteps \cup {"receive", "kill", "killed", "failed"}

Types ==
  /\ proc \in {"running", "exited"} /\ child \in {"none", "alive", "gone"}
  /\ left \in [Outs -> Nat] /\ wrote \in [Outs -> Nat]
  /\ pipe \in [Outs -> Nat] /\ copied \in [Outs -> Nat]
  /\ at \in [Goroutines -> Places]
  /\ at["main"] \in MainSteps /\ at["waiter"] \in {"none", "wait", "end"}
  /\ \A s \in Outs : at[s] \in CopySteps
  /\ wgEmpty \in BOOLEAN /\ waitErr \in BOOLEAN
  /\ result \in {"none", "ok", "error"}

\* The steps of AttachIO before and after it has come to a stream
Ahead(s) == {"notify", "stdio", "stdin", "stdout"} \cup (IF s = "stderr" THEN {"stderr"} ELSE {})
Behind(s) == {"wait", "select", "code"} \cup (IF s = "stdout" THEN {"stderr"} ELSE {})

\* A chunk is in the pipe or has been copied, unless the copy has broken off;
\* the copy has met the end of the pipe only if nobody can write any more.
Conserved(s) ==
  /\ at[s] \in {"none", "copy", "close", "end"} => copied[s] + pipe[s] = wrote[s]
  /\ at[s] \in {"close", "end"} => pipe[s] = 0 /\ ~Writers

\* AttachIO starts the copy of a stream when it comes to it, not before.
Started(s) ==
  /\ at["main"] \in Ahead(s) => at[s] = "none"
  /\ at["main"] \in Behind(s) /\ s \in attach => at[s] # "none"

\* The wait group counts the copies that have not called Done.
Busy(s) == IF at[s] \in {"copy", "close", "lost", "stuck"} THEN 1 ELSE 0
Counted == wg = Busy("stdout") + Busy("stderr")

\* The channel wgEmpty is served only after all copies were started and counted.
Awaited ==
  /\ at["waiter"] # "none" => /\ at["main"] \in {"select", "code", "returned"}
                              /\ \A s \in Outs \cap attach : at[s] # "none"
  /\ wgEmpty => wg = 0 /\ at["waiter"] # "none"
  /\ via = "group" => wgEmpty

\* The result is there when the call has come back, after the process has
\* exited unless an error of HCS was met.
Answered ==
  /\ result # "none" <=> at["main"] = "returned"
  /\ at["main"] \in {"select", "code"} /\ ~waitErr => proc = "exited"
  /\ waitErr => "hcs" \in Faults

IOInv ==
  /\ Types /\ Counted /\ Awaited /\ Answered
  /\ \A s \in Outs : Conserved(s) /\ Started(s)

-----------------------------------------------------------------------------
(* Every step keeps it                                                     *)

\* The goroutines are told apart.
LEMMA Names ==
  /\ Outs = {"stdout", "stderr"} /\ Streams = {"stdout", "stderr", "stdin"}
  /\ "main" \in Goroutines /\ "waiter" \in Goroutines /\ "killer" \in Goroutines
  /\ "stdin" \in Goroutines /\ Outs \subseteq Goroutines
  /\ \A s \in Outs : s \notin {"main", "waiter", "killer", "stdin"}
  BY DEF Outs, Streams, Goroutines

\* A step of one goroutine moves only this goroutine.
LEMMA Moves ==
  ASSUME Types, NEW g \in Goroutines, NEW l \in Places, Goes(g, l)
  PROVE  /\ at'[g] = l /\ \A f \in Goroutines \ {g} : at'[f] = at[f]
         /\ at' \in [Goroutines -> Places]
  BY DEF Types, Goes

\* Nobody writes to a pipe again after everybody has left it.
LEMMA WritersGone ==
  ASSUME Types, ~Writers,
         \/ UNCHANGED <<proc, child>>
         \/ proc' = "exited" /\ UNCHANGED child
         \/ ChildStep
  PROVE  ~Writers'
  BY DEF Types, Writers, ChildStep

\* The program writes a chunk.
LEMMA WriteKeeps ==
  ASSUME IOInv, NEW s \in Outs, ProgramWrites(s)
  PROVE  IOInv'
  <1>1. Types /\ Counted /\ Awaited /\ Answered /\ \A r \in Outs : Conserved(r) /\ Started(r)
    BY DEF IOInv
  <1>2. UNCHANGED <<attach, proc, child, copied, at, wg, wgEmpty, waitErr, via, result>> /\ Writers
    BY DEF ProgramWrites
  <1>3. /\ left' \in [Outs -> Nat] /\ pipe' \in [Outs -> Nat] /\ wrote' \in [Outs -> Nat]
        /\ \A r \in Outs : \/ pipe'[r] = pipe[r] /\ wrote'[r] = wrote[r]
                           \/ pipe'[r] = pipe[r] + 1 /\ wrote'[r] = wrote[r] + 1
    <2>1. /\ left \in [Outs -> Nat] /\ left[s] > 0 /\ left' = [left EXCEPT ![s] = @ - 1]
          /\ pipe \in [Outs -> Nat] /\ wrote \in [Outs -> Nat]
      BY <1>1 DEF ProgramWrites, Types
    <2>2. left' \in [Outs -> Nat]
      BY <2>1
    <2>3. CASE UNCHANGED <<pipe, wrote>>
      BY <2>1, <2>2, <2>3
    <2>4. CASE /\ pipe' = [pipe EXCEPT ![s] = @ + 1]
               /\ wrote' = [wrote EXCEPT ![s] = @ + 1]
      BY <2>1, <2>2, <2>4
    <2> QED
      BY <2>3, <2>4 DEF ProgramWrites
  <1>4. ASSUME NEW r \in Outs PROVE Conserved(r)'
    BY <1>1, <1>2, <1>3 DEF Conserved, Types, Writers
  <1>5. Types'
    BY <1>1, <1>2, <1>3 DEF Types
  <1> QED
    BY <1>1, <1>2, <1>4, <1>5 DEF IOInv, Counted, Awaited, Answered, Started, Busy

\* Steps that change none of what the invariant is about, but the writers
LEMMA RestKeeps ==
  ASSUME IOInv,
         UNCHANGED <<attach, left, wrote, pipe, copied, wg, wgEmpty, waitErr, via, result>>,
         \/ UNCHANGED <<proc, child>>
         \/ proc' = "exited" /\ UNCHANGED child
         \/ ChildStep,
         \/ at' = at
         \/ \E g \in {"killer", "stdin"}, l \in Places : Goes(g, l)
  PROVE  IOInv'
  <1>1. Types /\ Counted /\ Awaited /\ Answered /\ \A r \in Outs : Conserved(r) /\ Started(r)
    BY DEF IOInv
  <1>2. /\ \A g \in Goroutines \ {"killer", "stdin"} : at'[g] = at[g]
        /\ at' \in [Goroutines -> Places]
    BY <1>1, Moves, Names DEF Types
  <1>3. /\ at'["main"] = at["main"] /\ at'["waiter"] = at["waiter"]
        /\ \A s \in Outs : at'[s] = at[s]
        /\ at'["stdout"] = at["stdout"] /\ at'["stderr"] = at["stderr"]
    BY <1>2, Names
  <1>4. /\ proc' \in {"running", "exited"} /\ child' \in {"none", "alive", "gone"}
        /\ proc = "exited" => proc' = "exited"
    BY <1>1 DEF Types, ChildStep
  <1>5. Types'
    BY <1>1, <1>2, <1>3, <1>4 DEF Types
  <1>6. ~Writers => ~Writers'
    BY <1>1, WritersGone
  <1>7. ASSUME NEW s \in Outs PROVE Conserved(s)' /\ Started(s)'
    BY <1>1, <1>3, <1>6 DEF Conserved, Started
  <1>8. Counted' /\ Awaited'
    BY <1>1, <1>3 DEF Counted, Busy, Awaited
  <1>9. Answered'
    BY <1>1, <1>3, <1>4 DEF Answered
  <1> QED
    BY <1>5, <1>7, <1>8, <1>9 DEF IOInv

\* One step of a copy
LEMMA CopyKeeps ==
  ASSUME IOInv, NEW s \in Outs, CopyOut(s)
  PROVE  IOInv'
  <1>1. Types /\ Counted /\ Awaited /\ Answered /\ \A r \in Outs : Conserved(r) /\ Started(r)
    BY DEF IOInv
  <1>2. /\ UNCHANGED <<attach, proc, child, left, wrote, wgEmpty, waitErr, via, result>>
        /\ at[s] \in {"copy", "close", "lost"} /\ s \in Goroutines
        /\ Writers' = Writers
    BY Names DEF CopyOut, Writers
  <1>3. PICK l \in CopySteps \ {"none"} : at' = [at EXCEPT ![s] = l]
    BY <1>1 DEF CopyOut, Goes, CopySteps, Types
  <1>4. l \in Places
    BY DEF Places
  <1>5. /\ at'[s] = l /\ \A f \in Goroutines \ {s} : at'[f] = at[f]
        /\ at' \in [Goroutines -> Places]
    BY <1>1, <1>2, <1>3, <1>4, Moves DEF Goes
  <1>6. at'["main"] = at["main"] /\ at'["waiter"] = at["waiter"]
    BY <1>5, Names
  <1>7. /\ pipe' \in [Outs -> Nat] /\ copied' \in [Outs -> Nat]
        /\ \A r \in Outs \ {s} : pipe'[r] = pipe[r] /\ copied'[r] = copied[r]
        /\ \/ pipe'[s] = pipe[s] /\ copied'[s] = copied[s] /\ (at[s] # "copy" \/ pipe[s] = 0)
           \/ pipe'[s] + 1 = pipe[s] /\ copied'[s] = copied[s] + 1 /\ l = "copy"
           \/ l \in {"lost", "stuck"}
    <2>1. pipe \in [Outs -> Nat] /\ copied \in [Outs -> Nat]
      BY <1>1 DEF Types
    <2>2. CASE UNCHANGED <<pipe, copied>>
      BY <2>1, <2>2, <1>2, <1>5 DEF CopyOut, Goes
    <2>3. CASE /\ pipe[s] > 0 /\ pipe' = [pipe EXCEPT ![s] = @ - 1]
               /\ copied' = [copied EXCEPT ![s] = @ + 1] /\ at' = at /\ at[s] = "copy"
      BY <2>1, <2>3, <1>5
    <2>4. CASE /\ pipe[s] > 0 /\ pipe' = [pipe EXCEPT ![s] = @ - 1]
               /\ copied' = copied /\ (Goes(s, "lost") \/ Goes(s, "stuck"))
      <3>1. l \in {"lost", "stuck"}
        BY <1>1, <1>2, <1>5, <2>4 DEF Goes, Types
      <3> QED
        BY <2>1, <2>4, <3>1
    <2> QED
      BY <2>2, <2>3, <2>4 DEF CopyOut
  <1>8. \/ at[s] = "copy" /\ l \in {"copy", "lost", "stuck"} /\ wg' = wg
        \/ at[s] = "copy" /\ l = "close" /\ wg' = wg /\ pipe[s] = 0 /\ ~Writers
           /\ UNCHANGED <<pipe, copied>>
        \/ at[s] = "close" /\ l = "end" /\ wg' = wg - 1 /\ UNCHANGED <<pipe, copied>>
        \/ at[s] = "lost" /\ l = "end.lost" /\ wg' = wg - 1
    BY <1>1, <1>2, <1>5 DEF CopyOut, Goes, Types
  <1>9. Types'
    <2>1. \A r \in Outs : at'[r] \in CopySteps
      BY <1>1, <1>5, Names DEF Types
    <2> QED
      BY <1>1, <1>2, <1>5, <1>6, <1>7, <2>1 DEF Types
  <1>10. Conserved(s)'
    BY <1>1, <1>2, <1>5, <1>7, <1>8 DEF Conserved, Types
  <1>11. ASSUME NEW r \in Outs \ {s} PROVE Conserved(r)'
    <2>1. at'[r] = at[r]
      BY <1>5, Names
    <2> QED
      BY <1>1, <1>2, <1>7, <2>1 DEF Conserved
  <1>12. ASSUME NEW r \in Outs PROVE Started(r)'
    <2>1. CASE r = s
      BY <1>1, <1>2, <1>5, <1>6, <2>1 DEF Started
    <2>2. CASE r # s
      BY <1>1, <1>2, <1>5, <1>6, <2>2, Names DEF Started
    <2> QED
      BY <2>1, <2>2
  <1>13. Counted'
    <2>1. CASE s = "stdout"
      <3>1. at'["stderr"] = at["stderr"]
        BY <1>5, <2>1, Names
      <3> QED
        BY <1>1, <1>5, <1>8, <2>1, <3>1 DEF Counted, Busy
    <2>2. CASE s = "stderr"
      <3>1. at'["stdout"] = at["stdout"]
        BY <1>5, <2>2, Names
      <3> QED
        BY <1>1, <1>5, <1>8, <2>2, <3>1 DEF Counted, Busy
    <2> QED
      BY <2>1, <2>2, Names
  <1>14. Awaited'
    <2>1. ~wgEmpty
      <3>1. wg # 0
        BY <1>1, <1>2, Names DEF Counted, Busy
      <3> QED
        BY <1>1, <3>1 DEF Awaited
    <2>2. \A r \in Outs \cap attach : at[r] # "none" => at'[r] # "none"
      BY <1>5, Names
    <2> QED
      BY <1>1, <1>2, <1>6, <2>1, <2>2 DEF Awaited
  <1>15. Answered'
    BY <1>1, <1>2, <1>6 DEF Answered
  <1> QED
    BY <1>9, <1>10, <1>11, <1>12, <1>13, <1>14, <1>15 DEF IOInv

\* AttachIO comes to a stream.
LEMMA AttachKeeps ==
  ASSUME IOInv, NEW s \in Streams, AttachStream(s)
  PROVE  IOInv'
  <1>1. Types /\ Counted /\ Awaited /\ Answered /\ \A r \in Outs : Conserved(r) /\ Started(r)
    BY DEF IOInv
  <1>2. /\ UNCHANGED <<attach, proc, child, left, wrote, pipe, copied, wgEmpty, waitErr, via, result>>
        /\ at["main"] = s /\ s \in Goroutines \ {"main", "waiter", "killer"}
        /\ at' = [at EXCEPT !["main"] = Following[s], ![s] = IF s \in attach THEN "copy" ELSE "none"]
        /\ wg' = IF s \in attach \cap Outs THEN wg + 1 ELSE wg
    BY Names DEF AttachStream
  <1>3. /\ at'["main"] = Following[s] /\ at'[s] = IF s \in attach THEN "copy" ELSE "none"
        /\ \A f \in Goroutines \ {"main", s} : at'[f] = at[f]
        /\ at' \in [Goroutines -> Places]
    <2>1. Following[s] \in Places
      BY Names DEF Following, Places, MainSteps
    <2>2. "copy" \in Places /\ "none" \in Places
      BY DEF Places, CopySteps
    <2> QED
      BY <1>1, <1>2, <2>1, <2>2, Names DEF Types
  <1>4. at'["waiter"] = at["waiter"] /\ at["waiter"] = "none" /\ ~wgEmpty /\ via # "group"
    BY <1>1, <1>2, <1>3, Names DEF Awaited
  <1>5. /\ s = "stdin" => at'["main"] = "stdout"
        /\ s = "stdout" => at'["main"] = "stderr"
        /\ s = "stderr" => at'["main"] = "wait"
    BY <1>3 DEF Following
  <1>6. s \in Outs => at[s] = "none"
    BY <1>1, <1>2, Names DEF Started, Ahead
  <1>7. Types'
    <2>1. \A r \in Outs : at'[r] \in CopySteps
      BY <1>1, <1>2, <1>3, Names DEF Types, CopySteps
    <2>2. at'["main"] \in MainSteps
      BY <1>2, <1>5, Names DEF MainSteps
    <2> QED
      BY <1>1, <1>2, <1>3, <1>4, <2>1, <2>2 DEF Types
  <1>8. ASSUME NEW r \in Outs PROVE Conserved(r)' /\ Started(r)'
    <2>1. CASE r = s
      <3>1. at[r] = "none" /\ at'[r] \in {"copy", "none"} /\ (r \in attach => at'[r] # "none")
        BY <1>3, <1>6, <2>1
      <3>2. at'["main"] \notin Ahead(r)
        BY <1>5, <2>1, Names DEF Ahead
      <3> QED
        BY <1>1, <1>2, <3>1, <3>2 DEF Conserved, Started
    <2>2. CASE r # s
      <3>1. at'[r] = at[r]
        BY <1>3, <2>2, Names
      <3>2. /\ at'["main"] \in Ahead(r) => at["main"] \in Ahead(r)
            /\ at'["main"] \in Behind(r) => at["main"] \in Behind(r)
        BY <1>2, <1>5, <2>2, Names DEF Ahead, Behind
      <3>3. Conserved(r)'
        BY <1>1, <1>2, <3>1 DEF Conserved, Writers
      <3>4. Started(r)'
        BY <1>1, <1>2, <3>1, <3>2 DEF Started
      <3> QED
        BY <3>3, <3>4
    <2> QED
      BY <2>1, <2>2
  <1>9. Counted'
    <2>1. CASE s = "stdout"
      <3>1. at'["stderr"] = at["stderr"]
        BY <1>3, <2>1, Names
      <3> QED
        BY <1>1, <1>2, <1>3, <1>6, <2>1, <3>1, Names DEF Counted, Busy
    <2>2. CASE s = "stderr"
      <3>1. at'["stdout"] = at["stdout"]
        BY <1>3, <2>2, Names
      <3> QED
        BY <1>1, <1>2, <1>3, <1>6, <2>2, <3>1, Names DEF Counted, Busy
    <2>3. CASE s = "stdin"
      <3>1. at'["stdout"] = at["stdout"] /\ at'["stderr"] = at["stderr"] /\ wg' = wg
        BY <1>2, <1>3, <2>3, Names
      <3> QED
        BY <1>1, <3>1 DEF Counted, Busy
    <2> QED
      BY <2>1, <2>2, <2>3, Names
  <1>10. Awaited'
    BY <1>2, <1>4 DEF Awaited
  <1>11. Answered'
    BY <1>1, <1>2, <1>5, Names DEF Answered
  <1> QED
    BY <1>7, <1>8, <1>9, <1>10, <1>11 DEF IOInv

\* The other steps of AttachIO, and the goroutine of waitWithTimeout
LEMMA MainKeeps ==
  ASSUME IOInv, SetInterrupt \/ Stdio \/ Wait \/ Waiter \/ Select \/ ExitCode, Attached
  PROVE  IOInv'
  <1>1. Types /\ Counted /\ Awaited /\ Answered /\ \A r \in Outs : Conserved(r) /\ Started(r)
    BY DEF IOInv
  <1>2. UNCHANGED <<attach, proc, child, left, wrote, pipe, copied, wg>> /\ Writers' = Writers
    BY DEF SetInterrupt, Stdio, Wait, Waiter, Select, ExitCode, Writers
  <1>3. /\ at' \in [Goroutines -> Places]
        /\ \A s \in Outs : at'[s] = at[s]
        /\ \/ at["main"] = "notify" /\ at'["main"] = "stdio" /\ at'["waiter"] = at["waiter"]
           \/ /\ at["main"] = "stdio" /\ at'["main"] \in {"stdin", "returned"}
              /\ at'["waiter"] = at["waiter"]
           \/ at["main"] = "wait" /\ at'["main"] = "select" /\ at'["waiter"] = "wait"
           \/ at["main"] = "select" /\ at'["main"] = "code" /\ at'["waiter"] = at["waiter"]
           \/ at["main"] = "code" /\ at'["main"] = "returned" /\ at'["waiter"] = at["waiter"]
           \/ at["waiter"] = "wait" /\ at'["main"] = at["main"] /\ at'["waiter"] = "end"
    <2>1. at \in [Goroutines -> Places]
      BY <1>1 DEF Types
    <2>2. {"stdio", "stdin", "select", "code", "returned", "receive", "wait", "end"} \subseteq Places
      BY DEF Places, MainSteps, CopySteps
    <2>3. CASE SetInterrupt \/ Wait
      BY <2>1, <2>2, <2>3, Names DEF SetInterrupt, Wait
    <2>4. CASE Stdio \/ Select \/ ExitCode
      BY <2>1, <2>2, <2>4, Names DEF Stdio, Select, ExitCode, Goes
    <2>5. CASE Waiter
      BY <2>1, <2>2, <2>5, Names DEF Waiter, Goes
    <2> QED
      BY <2>3, <2>4, <2>5
  <1>4. /\ wgEmpty' \in BOOLEAN /\ waitErr' \in BOOLEAN /\ result' \in {"none", "ok", "error"}
    BY <1>1 DEF Types, SetInterrupt, Stdio, Wait, Waiter, Select, ExitCode
  <1>5. Types'
    BY <1>1, <1>2, <1>3, <1>4 DEF Types, MainSteps
  <1>6. ASSUME NEW s \in Outs PROVE Conserved(s)' /\ Started(s)'
    <2>1. Conserved(s)'
      BY <1>1, <1>2, <1>3 DEF Conserved
    <2>2. /\ at'["main"] \in Ahead(s) => at["main"] \in Ahead(s)
          /\ at'["main"] \in Behind(s) => at["main"] \in Behind(s)
      BY <1>3 DEF Ahead, Behind
    <2>3. Started(s)'
      BY <1>1, <1>2, <1>3, <2>2 DEF Started
    <2> QED
      BY <2>1, <2>3
  <1>7. Counted'
    BY <1>1, <1>2, <1>3, Names DEF Counted, Busy
  <1>8. Awaited'
    <2>1. CASE Wait
      <3>1. /\ at["main"] = "wait" /\ at'["main"] = "select" /\ at'["waiter"] = "wait"
            /\ UNCHANGED <<wgEmpty, via>>
        BY <1>1, <2>1, Names DEF Wait, Types
      <3>2. \A s \in Outs \cap attach : at[s] # "none"
        BY <1>1, <3>1 DEF Started, Behind
      <3>3. ~wgEmpty
        BY <1>1, <3>1 DEF Awaited
      <3> QED
        BY <1>1, <1>2, <1>3, <3>1, <3>2, <3>3 DEF Awaited
    <2>2. CASE Waiter
      <3>1. wg = 0 /\ at["waiter"] = "wait" /\ at'["waiter"] = "end" /\ at'["main"] = at["main"]
        BY <1>1, <2>2, Names DEF Waiter, Goes, Types
      <3> QED
        BY <1>1, <1>2, <1>3, <2>2, <3>1 DEF Awaited, Waiter
    <2>3. CASE Select
      BY <1>1, <1>2, <1>3, <2>3 DEF Awaited, Select
    <2>4. CASE SetInterrupt \/ Stdio \/ ExitCode
      BY <1>1, <1>2, <1>3, <2>4 DEF Awaited, SetInterrupt, Stdio, ExitCode
    <2> QED
      BY <2>1, <2>2, <2>3, <2>4
  <1>9. Answered'
    <2>0. at \in [Goroutines -> Places]
      BY <1>1 DEF Types
    <2>1. CASE SetInterrupt \/ Stdio
      BY <1>1, <2>0, <2>1, Names DEF Answered, SetInterrupt, Stdio, Goes
    <2>2. CASE Wait
      BY <1>1, <2>0, <2>2, Names DEF Answered, Wait, Goes
    <2>3. CASE Waiter \/ Select
      BY <1>1, <2>0, <2>3, Names DEF Answered, Waiter, Select, Goes
    <2>4. CASE ExitCode
      BY <1>1, <2>0, <2>4, Names DEF Answered, ExitCode, Goes
    <2> QED
      BY <2>1, <2>2, <2>3, <2>4
  <1> QED
    BY <1>5, <1>6, <1>7, <1>8, <1>9 DEF IOInv

\* Every step keeps the invariant.
LEMMA IOStep == IOInv /\ [Next]_vars => IOInv'
  <1> SUFFICES ASSUME IOInv, [Next]_vars PROVE IOInv'
    OBVIOUS
  <1>1. CASE UNCHANGED vars
    BY <1>1, RestKeeps DEF vars
  <1>2. CASE \E s \in Outs : ProgramWrites(s)
    BY <1>2, WriteKeeps
  <1>3. CASE \E s \in Outs : CopyOut(s)
    BY <1>3, CopyKeeps
  <1>4. CASE \E s \in Streams : AttachStream(s)
    BY <1>4, AttachKeeps
  <1>5. CASE Attached /\ (SetInterrupt \/ Stdio \/ Wait \/ Waiter \/ Select \/ ExitCode)
    BY <1>5, MainKeeps
  <1>6. CASE ProgramExits \/ InputEnds \/ Interrupt \/ Timer
    BY <1>6, RestKeeps DEF ProgramExits, InputEnds, Interrupt, Timer
  <1>7. CASE ChildStep
    <2>1. UNCHANGED <<attach, left, wrote, pipe, copied, wg, wgEmpty, waitErr, via, result, at>>
      BY <1>7 DEF ChildStep
    <2> QED
      BY <1>7, <2>1, RestKeeps
  <1>8. CASE Killer \/ CopyStdin
    <2>1. {"kill", "killed", "failed", "close", "end"} \subseteq Places
      BY DEF Places, CopySteps
    <2>2. \E g \in {"killer", "stdin"}, l \in Places : Goes(g, l)
      BY <1>8, <2>1 DEF Killer, CopyStdin
    <2>3. /\ UNCHANGED <<attach, left, wrote, pipe, copied, wg, wgEmpty, waitErr, via, result, child>>
          /\ proc' = proc \/ proc' = "exited"
      BY <1>8 DEF Killer, CopyStdin
    <2> QED
      BY <2>2, <2>3, RestKeeps
  <1> QED
    BY <1>1, <1>2, <1>3, <1>4, <1>5, <1>6, <1>7, <1>8 DEF Next, Step, Program, AttachIO

\* Nothing has been written at first.
LEMMA IOInit == Init => IOInv
  <1> SUFFICES ASSUME Init PROVE IOInv
    OBVIOUS
  <1>1. Types
    <2>1. {"notify", "none"} \subseteq Places
      BY DEF Places, MainSteps, CopySteps
    <2>2. at \in [Goroutines -> Places] /\ at["main"] = "notify"
          /\ \A g \in Goroutines \ {"main"} : at[g] = "none"
      BY <2>1, Names DEF Init
    <2> QED
      BY <2>2, ProcessIOAssumption, Names DEF Init, Types, MainSteps, CopySteps
  <1>2. \A s \in Outs : Conserved(s) /\ Started(s)
    BY Names DEF Init, Conserved, Started, Behind
  <1>3. Counted
    BY Names DEF Init, Counted, Busy
  <1>4. Awaited /\ Answered
    BY Names DEF Init, Awaited, Answered
  <1> QED
    BY <1>1, <1>2, <1>3, <1>4 DEF IOInv

\* AttachIO that comes back before the grace period is over has passed on
\* everything that anybody wrote to the attached outputs, however the program,
\* its children, the copies and the wait group were scheduled.
THEOREM OutputComplete == Spec => []OutputIsComplete
  <1>1. IOInv => OutputIsComplete
    <2> SUFFICES ASSUME IOInv, at["main"] = "returned", via = "group",
                        NEW s \in Outs \cap attach, at[s] # "end.lost"
                 PROVE  copied[s] = wrote[s]
      BY DEF OutputIsComplete
    <2>1. wg = 0 /\ at[s] # "none" /\ at[s] \in CopySteps
      BY DEF IOInv, Awaited, Types
    <2>2. Busy("stdout") \in {0, 1} /\ Busy("stderr") \in {0, 1} /\ Busy("stdout") + Busy("stderr") = 0
      BY <2>1 DEF IOInv, Counted, Busy
    <2>3. Busy(s) = 0
      BY <2>2, Names
    <2>4. at[s] = "end"
      BY <2>1, <2>3 DEF Busy, CopySteps
    <2> QED
      BY <2>4 DEF IOInv, Conserved, Types
  <1> QED
    BY <1>1, IOInit, IOStep, PTL DEF Spec

\* To its caller AttachIO is one step: it does not come back before the process
\* has exited, or else with an error of HCS.
THEOREM AttachImplements == Spec => AttachIsOneStep
  <1>1. Init => OneStep!Init
    BY DEF Init, OneStep!Init
  <1>2. IOInv /\ [Next]_vars => [OneStep!Exit \/ OneStep!Return]_OneStep!vars
    <2> SUFFICES ASSUME IOInv, [Next]_vars
                 PROVE  \/ OneStep!Exit \/ OneStep!Return
                        \/ UNCHANGED <<proc = "running", IF result = "none" THEN "on" ELSE result>>
      BY DEF OneStep!vars
    <2>1. Answered /\ Types
      BY DEF IOInv
    <2>2. CASE UNCHANGED <<proc, result>>
      BY <2>2
    <2>3. CASE ProgramExits \/ Killer
      BY <2>1, <2>3 DEF ProgramExits, Killer, OneStep!Exit, Types
    <2>4. CASE Stdio
      BY <2>1, <2>4 DEF Stdio, OneStep!Return, Types, Answered
    <2>5. CASE ExitCode
      BY <2>1, <2>5 DEF ExitCode, OneStep!Return, Types, Answered
    <2>6. \/ UNCHANGED <<proc, result>> \/ ProgramExits \/ Killer \/ Stdio \/ ExitCode
      BY DEF Next, Step, Program, AttachIO, vars, SetInterrupt, AttachStream, Wait, Select, CopyStdin,
             CopyOut, Waiter, Timer, ProgramWrites, ChildStep, InputEnds, Interrupt
    <2> QED
      BY <2>2, <2>3, <2>4, <2>5, <2>6
  <1> QED
    BY <1>1, <1>2, IOInit, IOStep, PTL DEF Spec, AttachIsOneStep, OneStep!Spec
=============================================================================

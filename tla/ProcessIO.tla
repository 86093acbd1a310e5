----------------------------- MODULE ProcessIO -----------------------------
(***************************************************************************)
(* runtime/hcsprocess: winc attached to a process of a container.          *)
(*                                                                         *)
(* AttachIO copies the process's streams to and from winc's own in         *)
(* goroutines of their own, waits for the process, and then gives the      *)
(* copies of the output a grace period.  SetInterrupt leaves a goroutine   *)
(* behind that kills the process at an interrupt.  Time is only            *)
(* represented by the timer, which may expire at any moment.               *)
(***************************************************************************)
EXTENDS Integers, FiniteSets

CONSTANTS
  Attachments,  \* the sets of streams that a caller attaches
  Output,       \* chunks of output that the program writes to each stream
  PipeSize,     \* chunks that fit into a pipe
  MaxSignals,   \* bound on the number of interrupts
  Faults        \* what may go wrong, a subset of FaultKinds

Outs == {"stdout", "stderr"}
Streams == Outs \cup {"stdin"}

FaultKinds == {"hcs",     \* a call of HCS fails
               "child",   \* a child inherits the pipes and outlives the process
               "sink"}    \* writing to winc's own output fails, or blocks

ASSUME ProcessIOAssumption ==
  /\ Attachments \subseteq SUBSET Streams
  /\ Output \in [Outs -> Nat] /\ PipeSize \in Nat \ {0} /\ MaxSignals \in Nat
  /\ Faults \subseteq FaultKinds

VARIABLES
  attach,   \* the streams of the call that are not nil
  proc,     \* "running" or "exited"
  child,    \* "none", "alive" or "gone": who else has the pipes open
  left,     \* chunks the program has still to write
  wrote,    \* chunks it has written into a pipe
  pipe,     \* chunks in the pipe
  copied,   \* chunks that reached winc's own output
  input,    \* winc's own input: "flowing" or "ended"
  open,     \* winc's ends of the pipes that are open
  at,       \* where each goroutine is
  wg,       \* the wait group
  wgEmpty,  \* something is in the channel wgEmpty
  timer,    \* "off", "armed" or "fired"
  signal,   \* an interrupt is in the channel
  signals,  \* interrupts so far
  waitErr,  \* Wait returned an error
  via,      \* what ended the wait for the output: "group" or "timer"
  result    \* "none", "ok" or "error"

vars == <<attach, proc, child, left, wrote, pipe, copied, input,
          open, at, wg, wgEmpty, timer, signal, signals, waitErr, via, result>>

Goroutines == {"main", "stdin", "stdout", "stderr", "waiter", "killer"}

Init ==
  /\ attach \in Attachments
  /\ proc = "running" /\ child = "none"
  /\ left = Output
  /\ wrote = [s \in Outs |-> 0]
  /\ pipe = [s \in Outs |-> 0]
  /\ copied = [s \in Outs |-> 0]
  /\ input = "flowing"
  /\ open = Streams
  /\ at = [g \in Goroutines |-> IF g = "main" THEN "notify" ELSE "none"]
  /\ wg = 0 /\ wgEmpty = FALSE
  /\ timer = "off"
  /\ signal = FALSE /\ signals = 0
  /\ waitErr = FALSE /\ via = "none" /\ result = "none"

Goes(g, l) == at' = [at EXCEPT ![g] = l]

-----------------------------------------------------------------------------
(* The process, its child, and the user of winc                            *)

Writers == proc = "running" \/ child = "alive"

\* A write blocks while the pipe is full, and fails, to no effect here, once
\* winc has closed its end.
ProgramWrites(s) ==
  /\ Writers
  /\ left[s] > 0
  /\ \/ /\ s \in open /\ pipe[s] < PipeSize
        /\ pipe' = [pipe EXCEPT ![s] = @ + 1]
        /\ wrote' = [wrote EXCEPT ![s] = @ + 1]
     \/ /\ s \notin open
        /\ UNCHANGED <<pipe, wrote>>
  /\ left' = [left EXCEPT ![s] = @ - 1]
  /\ UNCHANGED <<attach, proc, child, copied, input, open, at, wg, wgEmpty, timer,
                 signal, signals, waitErr, via, result>>

\* A program may exit before the end of its input.
ProgramExits ==
  /\ proc = "running"
  /\ child = "alive" \/ \A s \in Outs : left[s] = 0
  /\ proc' = "exited"
  /\ UNCHANGED <<attach, child, left, wrote, pipe, copied, input, open, at, wg,
                 wgEmpty, timer, signal, signals, waitErr, via, result>>

ChildStep ==
  /\ "child" \in Faults
  /\ \/ child = "none" /\ proc = "running" /\ child' = "alive"
     \/ child = "alive" /\ child' = "gone"
  /\ UNCHANGED <<attach, proc, left, wrote, pipe, copied, input, open, at, wg,
                 wgEmpty, timer, signal, signals, waitErr, via, result>>

InputEnds ==
  /\ input = "flowing"
  /\ input' = "ended"
  /\ UNCHANGED <<attach, proc, child, left, wrote, pipe, copied, open, at, wg,
                 wgEmpty, timer, signal, signals, waitErr, via, result>>

\* signal.Notify does not block: an interrupt is dropped if the channel is full.
Interrupt ==
  /\ at["killer"] # "none"
  /\ signals < MaxSignals
  /\ signals' = signals + 1
  /\ signal' = TRUE
  /\ UNCHANGED <<attach, proc, child, left, wrote, pipe, copied, input, open, at,
                 wg, wgEmpty, timer, waitErr, via, result>>

-----------------------------------------------------------------------------
(* SetInterrupt                                                            *)

SetInterrupt ==
  /\ at["main"] = "notify"
  /\ at' = [at EXCEPT !["main"] = "stdio", !["killer"] = "receive"]
  /\ UNCHANGED <<attach, proc, child, left, wrote, pipe, copied, input, open, wg,
                 wgEmpty, timer, signal, signals, waitErr, via, result>>

\* Faulty variant: the interrupt is taken from the channel and forgotten.
KillerDeaf ==
  /\ at["killer"] = "receive" /\ signal
  /\ signal' = FALSE
  /\ Goes("killer", "end")
  /\ UNCHANGED <<attach, proc, child, left, wrote, pipe, copied, input, open, wg,
                 wgEmpty, timer, signals, waitErr, via, result>>

\* One interrupt is received, and an error of Kill is dropped.
Killer ==
  \/ /\ at["killer"] = "receive" /\ signal
     /\ signal' = FALSE
     /\ Goes("killer", "kill")
     /\ UNCHANGED <<attach, proc, child, left, wrote, pipe, copied, input, open, wg,
                    wgEmpty, timer, signals, waitErr, via, result>>
  \/ /\ at["killer"] = "kill"
     /\ \/ proc' = "exited" /\ Goes("killer", "killed")
        \/ "hcs" \in Faults /\ UNCHANGED proc /\ Goes("killer", "failed")
     /\ UNCHANGED <<attach, child, left, wrote, pipe, copied, input, open, wg,
                    wgEmpty, timer, signal, signals, waitErr, via, result>>

-----------------------------------------------------------------------------
(* The copying goroutines                                                  *)

\* A write to the stdin of a process that has exited fails and ends the copy, if
\* there is anything to write.
CopyStdin ==
  \/ /\ at["stdin"] = "copy"
     /\ input = "ended" \/ proc = "exited"
     /\ Goes("stdin", "close")
     /\ UNCHANGED open
     /\ UNCHANGED <<attach, proc, child, left, wrote, pipe, copied, input, wg,
                    wgEmpty, timer, signal, signals, waitErr, via, result>>
  \/ /\ at["stdin"] = "close"
     /\ open' = open \ {"stdin"}
     /\ Goes("stdin", "end")
     /\ UNCHANGED <<attach, proc, child, left, wrote, pipe, copied, input, wg,
                    wgEmpty, timer, signal, signals, waitErr, via, result>>

\* io.Copy of stdout or stderr ends when nobody can write to the pipe any more,
\* or with an error of winc's own output, which may also block; then Close and
\* Done.
CopyOut(s) ==
  \/ /\ at[s] = "copy"
     /\ \/ /\ pipe[s] > 0
           /\ pipe' = [pipe EXCEPT ![s] = @ - 1]
           /\ copied' = [copied EXCEPT ![s] = @ + 1]
           /\ UNCHANGED at
        \/ /\ pipe[s] > 0 /\ "sink" \in Faults
           /\ pipe' = [pipe EXCEPT ![s] = @ - 1]
           /\ Goes(s, "lost") \/ Goes(s, "stuck")
           /\ UNCHANGED copied
        \/ /\ pipe[s] = 0 /\ ~Writers
           /\ Goes(s, "close")
           /\ UNCHANGED <<pipe, copied>>
     /\ UNCHANGED <<attach, proc, child, left, wrote, input, open, wg, wgEmpty,
                    timer, signal, signals, waitErr, via, result>>
  \/ /\ at[s] \in {"close", "lost"}
     /\ open' = open \ {s}
     /\ wg' = wg - 1
     /\ Goes(s, IF at[s] = "close" THEN "end" ELSE "end.lost")
     /\ UNCHANGED <<attach, proc, child, left, wrote, pipe, copied, input,
                    wgEmpty, timer, signal, signals, waitErr, via, result>>

-----------------------------------------------------------------------------
(* AttachIO                                                                *)

Stdio ==
  /\ at["main"] = "stdio"
  /\ \/ Goes("main", "stdin") /\ UNCHANGED result
     \/ "hcs" \in Faults /\ Goes("main", "returned") /\ result' = "error"
  /\ UNCHANGED <<attach, proc, child, left, wrote, pipe, copied, input, open, wg,
                 wgEmpty, timer, signal, signals, waitErr, via>>

Following == [stdin |-> "stdout", stdout |-> "stderr", stderr |-> "wait"]

\* Faulty variant: a stream that is not attached is left open.
AttachStreamNoClose(s) ==
  /\ at["main"] = s
  /\ at' = [at EXCEPT !["main"] = Following[s],
                      ![s] = IF s \in attach THEN "copy" ELSE "none"]
  /\ wg' = IF s \in attach \cap Outs THEN wg + 1 ELSE wg
  /\ UNCHANGED <<attach, proc, child, left, wrote, pipe, copied, input, open, wgEmpty,
                 timer, signal, signals, waitErr, via, result>>

\* Faulty variant: the goroutines are not counted.
AttachStreamNoAdd(s) ==
  /\ at["main"] = s
  /\ at' = [at EXCEPT !["main"] = Following[s],
                      ![s] = IF s \in attach THEN "copy" ELSE "none"]
  /\ open' = IF s \in attach THEN open ELSE open \ {s}
  /\ UNCHANGED <<attach, proc, child, left, wrote, pipe, copied, input, wg, wgEmpty,
                 timer, signal, signals, waitErr, via, result>>

\* One stream: either a goroutine that copies it, counted if it is an output, or
\* winc's end is closed at once.
AttachStream(s) ==
  /\ at["main"] = s
  /\ at' = [at EXCEPT !["main"] = Following[s],
                      ![s] = IF s \in attach THEN "copy" ELSE "none"]
  /\ open' = IF s \in attach THEN open ELSE open \ {s}
  /\ wg' = IF s \in attach \cap Outs THEN wg + 1 ELSE wg
  /\ UNCHANGED <<attach, proc, child, left, wrote, pipe, copied, input, wgEmpty,
                 timer, signal, signals, waitErr, via, result>>

\* Faulty variant: AttachIO does not wait for the process.
WaitNot ==
  /\ at["main"] = "wait"
  /\ at' = [at EXCEPT !["main"] = "select", !["waiter"] = "wait"]
  /\ timer' = "armed"
  /\ UNCHANGED <<attach, proc, child, left, wrote, pipe, copied, input, open, wg,
                 wgEmpty, signal, signals, waitErr, via, result>>

\* Wait, whose error is kept, and the first half of waitWithTimeout
Wait ==
  /\ at["main"] = "wait"
  /\ \/ proc = "exited" /\ UNCHANGED waitErr
     \/ "hcs" \in Faults /\ waitErr' = TRUE
  /\ at' = [at EXCEPT !["main"] = "select", !["waiter"] = "wait"]
  /\ timer' = "armed"
  /\ UNCHANGED <<attach, proc, child, left, wrote, pipe, copied, input, open, wg,
                 wgEmpty, signal, signals, via, result>>

Waiter ==
  /\ at["waiter"] = "wait"
  /\ wg = 0
  /\ wgEmpty' = TRUE
  /\ Goes("waiter", "end")
  /\ UNCHANGED <<attach, proc, child, left, wrote, pipe, copied, input, open, wg,
                 timer, signal, signals, waitErr, via, result>>

Timer ==
  /\ timer = "armed"
  /\ timer' = "fired"
  /\ UNCHANGED <<attach, proc, child, left, wrote, pipe, copied, input, open, at,
                 wg, wgEmpty, signal, signals, waitErr, via, result>>

\* Faulty variant: the wait for the output has no timeout.
SelectUntimed ==
  /\ at["main"] = "select"
  /\ wgEmpty /\ via' = "group"
  /\ Goes("main", "code")
  /\ UNCHANGED <<attach, proc, child, left, wrote, pipe, copied, input, open, wg,
                 wgEmpty, timer, signal, signals, waitErr, result>>

\* The second half of waitWithTimeout; select picks any case that is ready.
Select ==
  /\ at["main"] = "select"
  /\ \/ timer = "fired" /\ via' = "timer"
     \/ wgEmpty /\ via' = "group"
  /\ Goes("main", "code")
  /\ UNCHANGED <<attach, proc, child, left, wrote, pipe, copied, input, open, wg,
                 wgEmpty, timer, signal, signals, waitErr, result>>

ExitCode ==
  /\ at["main"] = "code"
  /\ \/ ~waitErr /\ result' = "ok"
     \/ (waitErr \/ "hcs" \in Faults) /\ result' = "error"
  /\ Goes("main", "returned")
  /\ UNCHANGED <<attach, proc, child, left, wrote, pipe, copied, input, open, wg,
                 wgEmpty, timer, signal, signals, waitErr, via>>

AttachIO == Stdio \/ (\E s \in Streams : AttachStream(s)) \/ Wait \/ Select \/ ExitCode

-----------------------------------------------------------------------------
Program == (\E s \in Outs : ProgramWrites(s)) \/ ProgramExits

Step ==
  \/ SetInterrupt \/ AttachIO \/ Killer \/ CopyStdin
  \/ \E s \in Outs : CopyOut(s)
  \/ Waiter \/ Timer
  \/ Program \/ ChildStep \/ InputEnds \/ Interrupt

\* What the goroutines do after the call has come back is of no interest: winc
\* ends, and they with it.
Attached == at["main"] # "returned"

Next == Attached /\ Step

\* Every goroutine that can run is scheduled, time passes, and a program goes on
\* that can write, or that has met the end of its input.  Nothing is assumed of
\* the child, of winc's own input and output, and of the user, and nothing makes
\* Wait fail while the process runs.
Fairness ==
  /\ WF_vars(/\ Attached
             /\ SetInterrupt \/ AttachIO
             /\ at["main"] = "wait" => proc = "exited")
  /\ WF_vars(Attached /\ Killer)
  /\ WF_vars(Attached /\ CopyStdin /\ input = "ended")
  /\ \A s \in Outs : WF_vars(Attached /\ CopyOut(s))
  /\ \A s \in Outs : WF_vars(Attached /\ ProgramWrites(s))
  /\ WF_vars(Attached /\ ProgramExits /\ "stdin" \notin open)
  /\ WF_vars(Attached /\ Waiter) /\ WF_vars(Attached /\ Timer)

Spec == Init /\ [][Next]_vars /\ Fairness

-----------------------------------------------------------------------------
(* Properties                                                              *)

\* AttachIO that comes back before the grace period is over has passed on
\* everything that anybody wrote to the attached outputs, unless writing to
\* winc's own output failed.
OutputIsComplete ==
  at["main"] = "returned" /\ via = "group" =>
    \A s \in Outs \cap attach : at[s] # "end.lost" => copied[s] = wrote[s]

\* AttachIO comes back once the process has exited, also when a child keeps the
\* pipes open, winc's input never ends or its output is stuck.
ReturnsAfterExit == proc = "exited" ~> at["main"] = "returned"

\* A program that writes its output and reads its input to the end is never left
\* blocked on a pipe, whichever streams are attached, as long as winc's own
\* outputs take what they are given.
ProgramIsServed ==
  at["main"] = "wait" /\ ("stdin" \notin attach \/ input = "ended")
    ~> \/ proc = "exited" \/ at["main"] = "returned"
       \/ \E s \in Outs : at[s] = "stuck"

\* An interrupt makes AttachIO come back, unless HCS fails to kill the process.
InterruptEndsCall ==
  signal /\ at["killer"] = "receive"
    ~> at["main"] = "returned" \/ at["killer"] = "failed"

\* To Runtime, AttachIO is one step that is taken after the process has exited,
\* or when HCS fails.
OneStep == INSTANCE AttachedProcess
             WITH MayFail <- "hcs" \in Faults, alive <- proc = "running",
                  call <- IF result = "none" THEN "on" ELSE result

AttachIsOneStep == OneStep!Spec
=============================================================================

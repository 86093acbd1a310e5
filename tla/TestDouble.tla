---------------------------- MODULE TestDouble ----------------------------
(***************************************************************************)
(* The generated test doubles (the fakes directories): what the goroutines *)
(* of a test and of the code under test may do with one of them.           *)
(*                                                                         *)
(* All doubles are made alike, one block per method of the interface; see  *)
(* module Doubles.  A method records its arguments under its own mutex,    *)
(* and in the list of all invocations under invocationsMutex.  What a      *)
(* caller passes is represented by the caller and the number of its call.  *)
(***************************************************************************)
EXTENDS Integers, Sequences

CONSTANTS
  Tests,     \* goroutines of a test, which may use all of a double
  Callers,   \* goroutines of the code under test, which call its methods
  NoThread,  \* no goroutine
  Doubles,   \* doubles, each the sequence of its methods
  MaxOps     \* bound on the number of operations of a goroutine of a test;
             \* one of the code under test makes one call

Threads == Tests \cup Callers

ASSUME DoubleAssumption ==
  /\ NoThread \notin Threads
  /\ Doubles \subseteq Seq([args : Nat, results : Nat])
  /\ MaxOps \in Nat

VARIABLES
  double,       \* the double
  stub,         \* Stub: there is one
  args,         \* ArgsForCall
  returns,      \* Returns, what the caller gets
  onCall,       \* ReturnsOnCall: the calls for which there is a result
  invocations,  \* the list of invocations, by method
  mutex,        \* the mutex of every method, and invocationsMutex
  pc,           \* where a goroutine is
  op,           \* its operation
  ops,          \* the number of operations it has begun
  saw,          \* what its call read under the mutex
  snap          \* what its Invocations copied

vars == <<double, stub, args, returns, onCall, invocations, mutex, pc, op, ops,
          saw, snap>>

conf == <<double, stub, returns, onCall>>

Methods == DOMAIN double

\* The mutexes: of each method, and invocationsMutex
inv == 0
Mutexes == Methods \cup {inv}

Setters == {"Calls", "Returns", "ReturnsOnCall"}
Readers == {"CallCount", "ArgsForCall"}

\* The operations of a double: a method without arguments has no ArgsForCall
\* to look up, one without results no results to set.
Operations ==
  {[kind |-> k, method |-> m, i |-> i] :
     k \in Setters \cup Readers \cup {"Method"}, m \in Methods, i \in 1..2}
Sensible(o) ==
  /\ o.kind = "ArgsForCall" => double[o.method].args > 0
  /\ o.kind \in {"Returns", "ReturnsOnCall"} => double[o.method].results > 0
  /\ o.kind # "ReturnsOnCall" => o.i = 2

NoOp == [kind |-> "none", method |-> inv, i |-> 0]
Invocations == [kind |-> "Invocations", method |-> inv, i |-> 0]

\* What a call returns
Zero == <<"returns", 0>>
Nothing == [stub |-> FALSE, result |-> Zero]

Init ==
  /\ double \in Doubles
  /\ stub = [m \in Methods |-> FALSE]
  /\ args = [m \in Methods |-> <<>>]
  /\ returns = [m \in Methods |-> Zero]
  /\ onCall = [m \in Methods |-> {}]
  /\ invocations = [m \in Methods |-> <<>>]
  /\ mutex = [l \in Mutexes |-> [w |-> NoThread, r |-> {}, q |-> {}]]
  /\ pc = [t \in Threads |-> "idle"]
  /\ op = [t \in Threads |-> NoOp]
  /\ ops = [t \in Threads |-> 0]
  /\ saw = [t \in Threads |-> Nothing]
  /\ snap = [t \in Threads |-> <<>>]

Goes(t, l) == pc' = [pc EXCEPT ![t] = l]

\* The operation of t is over.
Ends(t) ==
  /\ Goes(t, "idle")
  /\ op' = [op EXCEPT ![t] = NoOp]
  /\ saw' = [saw EXCEPT ![t] = Nothing]
  /\ snap' = [snap EXCEPT ![t] = <<>>]

-----------------------------------------------------------------------------
(* sync.RWMutex: a writer announces itself, which holds up readers that    *)
(* come later, and goes on when the readers before it have left; the       *)
(* readers it held up come before the next writer.                         *)

Lock(t, l) ==
  /\ mutex[l].w = NoThread
  /\ mutex' = [mutex EXCEPT ![l].w = t]

Locked(l) == mutex[l].r = {}

Unlock(l) == mutex' = [mutex EXCEPT ![l] = [w |-> NoThread, r |-> @.r \cup @.q, q |-> {}]]

RLock(t, l) ==
  mutex' = IF mutex[l].w = NoThread THEN [mutex EXCEPT ![l].r = @ \cup {t}]
                                    ELSE [mutex EXCEPT ![l].q = @ \cup {t}]

RLocked(t, l) == t \in mutex[l].r

RUnlock(t, l) == mutex' = [mutex EXCEPT ![l].r = @ \ {t}]

-----------------------------------------------------------------------------
(* A method of the double                                                  *)

Call(t) == <<t, ops[t]>>

\* The result of the n-th call of m
Result(m, n) == IF n \in onCall[m] THEN <<"onCall", n>> ELSE returns[m]

LockMethod(t) ==
  /\ pc[t] = "Method"
  /\ Lock(t, op[t].method)
  /\ Goes(t, "Method.locked")
  /\ UNCHANGED <<conf, args, invocations, op, ops, saw, snap>>

\* ArgsForCall and everything that decides the result
RecordArgs(t) ==
  LET m == op[t].method
  IN
  /\ pc[t] = "Method.locked"
  /\ Locked(m)
  /\ saw' = [saw EXCEPT ![t] = [stub |-> stub[m],
                                result |-> Result(m, Len(args[m]) + 1)]]
  /\ args' = [args EXCEPT ![m] = Append(@, Call(t))]
  /\ Goes(t, "record")
  /\ UNCHANGED <<conf, invocations, mutex, op, ops, snap>>

\* Faulty variant: invocationsMutex is taken as a reader.
RecordInvocationShared(t) ==
  LET m == op[t].method
  IN
  \/ /\ pc[t] = "record"
     /\ Goes(t, "record.locked")
     /\ snap' = [snap EXCEPT ![t] = invocations]
     /\ UNCHANGED <<conf, args, invocations, mutex, op, ops, saw>>
  \/ /\ pc[t] = "record.locked"
     /\ invocations' = [snap[t] EXCEPT ![m] = Append(@, Call(t))]
     /\ snap' = [snap EXCEPT ![t] = <<>>]
     /\ Goes(t, "unlock")
     /\ UNCHANGED <<conf, args, mutex, op, ops, saw>>

\* recordInvocation, with the method's mutex held
RecordInvocation(t) ==
  \/ /\ pc[t] = "record"
     /\ Lock(t, inv)
     /\ Goes(t, "record.locked")
     /\ UNCHANGED <<conf, args, invocations, op, ops, saw, snap>>
  \/ /\ pc[t] = "record.locked"
     /\ Locked(inv)
     /\ invocations' = [invocations EXCEPT ![op[t].method] = Append(@, Call(t))]
     /\ Unlock(inv)
     /\ Goes(t, "unlock")
     /\ UNCHANGED <<conf, args, op, ops, saw, snap>>

\* Faulty variant: the stub is called with the mutex held.
UnlockMethodLate(t) ==
  /\ pc[t] = "unlock"
  /\ \/ saw[t].stub /\ Goes(t, "stub") /\ UNCHANGED mutex
     \/ ~saw[t].stub /\ Goes(t, "return") /\ Unlock(op[t].method)
  /\ UNCHANGED <<conf, args, invocations, op, ops, saw, snap>>

\* The stub is called without the mutex.
UnlockMethod(t) ==
  /\ pc[t] = "unlock"
  /\ Unlock(op[t].method)
  /\ Goes(t, IF saw[t].stub THEN "stub" ELSE "return")
  /\ UNCHANGED <<conf, args, invocations, op, ops, saw, snap>>

\* A stub of a test may ask the double how often it has been called.
Stub(t) ==
  \/ /\ pc[t] = "stub"
     /\ \/ RLock(t, op[t].method) /\ Goes(t, "stub.count")
        \/ Goes(t, "return") /\ UNCHANGED mutex
     /\ UNCHANGED <<conf, args, invocations, op, ops, saw, snap>>
  \/ /\ pc[t] = "stub.count"
     /\ RLocked(t, op[t].method)
     /\ RUnlock(t, op[t].method)
     /\ Goes(t, "return")
     /\ UNCHANGED <<conf, args, invocations, op, ops, saw, snap>>

Method(t) ==
  \/ LockMethod(t) \/ RecordArgs(t) \/ RecordInvocation(t) \/ UnlockMethod(t)
  \/ Stub(t)

-----------------------------------------------------------------------------
(* What a test sets, and what it reads                                     *)

\* Calls, Returns and ReturnsOnCall; the latter two take a stub away.
Set(t) ==
  LET m == op[t].method
      kind == op[t].kind
  IN
  \/ /\ pc[t] = "Set"
     /\ Lock(t, m)
     /\ Goes(t, "Set.locked")
     /\ UNCHANGED <<conf, args, invocations, op, ops, saw, snap>>
  \/ /\ pc[t] = "Set.locked"
     /\ Locked(m)
     /\ stub' = [stub EXCEPT ![m] = (kind = "Calls")]
     /\ returns' = IF kind = "Returns" THEN [returns EXCEPT ![m] = <<"returns", 1>>]
                                       ELSE returns
     /\ onCall' = IF kind = "ReturnsOnCall" THEN [onCall EXCEPT ![m] = @ \cup {op[t].i}]
                                            ELSE onCall
     /\ Unlock(m)
     /\ Ends(t)
     /\ UNCHANGED <<double, args, invocations, ops>>

\* Faulty variant: a mutex that is not released when the index is out of range.
ReadUndeferred(t) ==
  LET m == op[t].method
  IN
  \/ /\ pc[t] = "Read"
     /\ RLock(t, m)
     /\ Goes(t, "Read.locked")
     /\ UNCHANGED <<conf, args, invocations, op, ops, saw, snap>>
  \/ /\ pc[t] = "Read.locked"
     /\ RLocked(t, m)
     /\ IF op[t].kind = "ArgsForCall" /\ op[t].i > Len(args[m])
          THEN UNCHANGED mutex ELSE RUnlock(t, m)
     /\ Ends(t)
     /\ UNCHANGED <<conf, args, invocations, ops>>

\* CallCount and ArgsForCall; the latter panics for a call there has not been,
\* and the deferred RUnlock is done all the same.
Read(t) ==
  LET m == op[t].method
  IN
  \/ /\ pc[t] = "Read"
     /\ RLock(t, m)
     /\ Goes(t, "Read.locked")
     /\ UNCHANGED <<conf, args, invocations, op, ops, saw, snap>>
  \/ /\ pc[t] = "Read.locked"
     /\ RLocked(t, m)
     /\ RUnlock(t, m)
     /\ Ends(t)
     /\ UNCHANGED <<conf, args, invocations, ops>>

\* Faulty variant: the methods' mutexes are not taken.
CopyInvocationsUnlocked(t) ==
  \/ /\ pc[t] = "Invocations" /\ op[t].i = 0
     /\ RLock(t, inv)
     /\ op' = [op EXCEPT ![t].i = 1]
     /\ UNCHANGED <<conf, args, invocations, pc, ops, saw, snap>>
  \/ /\ pc[t] = "Invocations" /\ op[t].i = 1
     /\ RLocked(t, inv)
     /\ snap' = [snap EXCEPT ![t] = invocations]
     /\ Goes(t, "Invocations.copied")
     /\ UNCHANGED <<conf, args, invocations, mutex, op, ops, saw>>

\* Invocations takes invocationsMutex, then the mutex of every method in turn,
\* then copies.
CopyInvocations(t) ==
  LET l == op[t].i   \* the mutexes it has asked for are those before l
  IN
  /\ pc[t] = "Invocations"
  /\ l > 0 => RLocked(t, l - 1)
  /\ \/ /\ l \in Mutexes
        /\ RLock(t, l)
        /\ op' = [op EXCEPT ![t].i = l + 1]
        /\ UNCHANGED <<pc, snap>>
     \/ /\ l \notin Mutexes
        /\ snap' = [snap EXCEPT ![t] = invocations]
        /\ Goes(t, "Invocations.copied")
        /\ UNCHANGED <<mutex, op>>
  /\ UNCHANGED <<conf, args, invocations, ops, saw>>

\* The deferred RUnlocks, last mutex first
ReleaseAll(t) ==
  LET held == {l \in Mutexes : t \in mutex[l].r}
      l == CHOOSE l \in held : \A k \in held : k =< l
  IN
  /\ pc[t] = "Invocations.copied"
  /\ RUnlock(t, l)
  /\ IF l = inv THEN Ends(t) ELSE UNCHANGED <<pc, op, saw, snap>>
  /\ UNCHANGED <<conf, args, invocations, ops>>

-----------------------------------------------------------------------------
Begin(t) ==
  /\ pc[t] = "idle"
  /\ ops[t] < IF t \in Tests THEN MaxOps ELSE 1
  /\ ops' = [ops EXCEPT ![t] = @ + 1]
  /\ \E o \in {o \in Operations : Sensible(o)} \cup {Invocations} :
       /\ t \in Callers => o.kind = "Method"
       /\ op' = [op EXCEPT ![t] = o]
       /\ \/ o.kind \in Setters /\ Goes(t, "Set")
          \/ o.kind \in Readers /\ Goes(t, "Read")
          \/ o.kind \in {"Method", "Invocations"} /\ Goes(t, o.kind)
  /\ UNCHANGED <<conf, args, invocations, mutex, saw, snap>>

Return(t) ==
  /\ pc[t] = "return"
  /\ Ends(t)
  /\ UNCHANGED <<conf, args, invocations, mutex, ops>>

Step(t) ==
  \/ Method(t) \/ Set(t) \/ Read(t) \/ CopyInvocations(t) \/ ReleaseAll(t)
  \/ Return(t)

Next == \E t \in Threads : Begin(t) \/ Step(t)

\* A goroutine that can run is scheduled, and no one waits for a mutex for ever
\* that others keep giving back.
Spec == Init /\ [][Next]_vars /\ \A t \in Threads : WF_vars(Step(t))

-----------------------------------------------------------------------------
(* Properties                                                              *)

\* Whoever holds the mutex of a method, reader or writer about to work, finds
\* the list of its calls and the list of invocations in agreement: the same
\* calls in the same order, however many goroutines call.
RecordsAgree ==
  \A m \in Methods : (mutex[m].w = NoThread \/ mutex[m].r # {}) =>
    args[m] = invocations[m]

\* What Invocations copies is what the calls recorded, for all methods at one
\* moment: the copy has no call that ArgsForCall does not know, and lacks none.
SnapshotIsConsistent ==
  [][\A t \in Threads : pc[t] = "Invocations" /\ pc'[t] = "Invocations.copied" =>
       snap'[t] = args]_vars

Busy(t) == pc[t] # "idle"

\* t can go on only when somebody else gives a mutex back: it is about to take one
\* that has a writer, or has announced itself and waits for the readers before it,
\* or is a reader that a writer holds up.
Waits(t) ==
  LET m == op[t].method
  IN
  \/ pc[t] \in {"Method", "Set"} /\ mutex[m].w # NoThread
  \/ pc[t] \in {"Method.locked", "Set.locked"} /\ ~Locked(m)
  \/ pc[t] = "record" /\ mutex[inv].w # NoThread
  \/ pc[t] = "record.locked" /\ ~Locked(inv)
  \/ pc[t] \in {"stub.count", "Read.locked"} /\ ~RLocked(t, m)
  \/ pc[t] = "Invocations" /\ op[t].i > 0 /\ ~RLocked(t, op[t].i - 1)

\* Nothing but a call of Invocations can make the goroutines block each other: it
\* takes the mutexes in the other order than the methods do.  A double on which
\* everyone waits for somebody has a method that waits for invocationsMutex and an
\* Invocations that has it and waits for that method.
OnlyInvocationsBlocks ==
  (\E t \in Threads : Busy(t)) /\ (\A t \in Threads : Busy(t) => Waits(t)) =>
    \E t, u \in Threads :
      /\ pc[t] = "Invocations" /\ RLocked(t, inv)
      /\ pc[u] \in {"record", "record.locked"} /\ op[u].method = op[t].i - 1

\* Without Invocations, every operation comes back, also a call whose stub asks
\* the double itself.
OperationsReturn ==
  \A t \in Threads :
    Busy(t) ~> ~Busy(t) \/ \E u \in Threads : op[u].kind = "Invocations"
=============================================================================

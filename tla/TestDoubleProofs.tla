-------------------------- MODULE TestDoubleProofs --------------------------
(***************************************************************************)
(* What is proved about TestDouble, for every double, every number of      *)
(* goroutines and every number of operations.                              *)
(***************************************************************************)
EXTENDS TestDouble, WellFoundedInduction, TLAPS

-----------------------------------------------------------------------------
(* The inductive invariant                                                 *)

\* Steps of an operation that works with the mutex of its method: between
\* RecordArgs and RecordInvocation, with the mutex held and no reader
\* there, with the mutex held, and all of them
Recording == {"record", "record.locked"}
Sole == Recording \cup {"unlock"}
Writing == Sole \cup {"Method.locked", "Set.locked"}
OfMethod == Writing \cup {"Method", "stub", "stub.count", "return", "Set", "Read", "Read.locked"}
Places == OfMethod \cup {"idle", "Invocations", "Invocations.copied"}

Kinds == Setters \cup Readers \cup {"Method", "Invocations", "none"}

Ops == [kind : Kinds, method : Nat, i : Nat]
RWMutex == [w : Threads \cup {NoThread}, r : SUBSET Threads, q : SUBSET Threads]
Calls == Threads \X Nat

Types ==
  /\ double \in Doubles
  /\ args \in [Methods -> Seq(Calls)] /\ invocations \in [Methods -> Seq(Calls)]
  /\ mutex \in [Mutexes -> RWMutex]
  /\ pc \in [Threads -> Places]
  /\ op \in [Threads -> Ops]
  /\ ops \in [Threads -> Nat]
  /\ DOMAIN snap = Threads

\* The mutexes that a goroutine holds, given where it is
Own(u) ==
  /\ pc[u] \in OfMethod => op[u].method \in Methods
  /\ pc[u] \in Writing => mutex[op[u].method].w = u
  /\ pc[u] \in Sole => mutex[op[u].method].r = {}
  /\ pc[u] = "Invocations" =>
       /\ op[u].i = 0 \/ op[u].i - 1 \in Mutexes
       /\ \A l \in Mutexes : l + 1 < op[u].i => u \in mutex[l].r

\* u has recorded the arguments of a call of m, and not yet the invocation.
Records(u, m) == pc[u] \in Recording /\ op[u].method = m

\* The two lists agree, but for the call that is being recorded.
Agree(m) == (\A u \in Threads : ~Records(u, m)) => args[m] = invocations[m]
Behind(u) == \A m \in Methods : Records(u, m) => args[m] = Append(invocations[m], Call(u))

DoubleInv ==
  /\ Types
  /\ \A u \in Threads : Own(u) /\ Behind(u)
  /\ \A m \in Methods : Agree(m)

-----------------------------------------------------------------------------
(* What the operations of a mutex do                                       *)

\* The methods and mutexes of a double are numbered.
LEMMA Numbered ==
  ASSUME double \in Doubles
  PROVE  \E n \in Nat : Methods = 1..n /\ Mutexes = 0..n
  <1>1. double \in Seq([args : Nat, results : Nat])
    BY DoubleAssumption
  <1>2. PICK n \in Nat : DOMAIN double = 1..n
    BY <1>1
  <1>3. Mutexes = 0..n
    BY <1>2 DEF Mutexes, Methods, inv
  <1> QED
    BY <1>2, <1>3 DEF Methods

\* What others hold of the mutexes stays as it is: a method's mutex that one
\* of them has as a writer, and every mutex one of them has as a reader.
Kept(t) ==
  /\ mutex' \in [Mutexes -> RWMutex]
  /\ \A m \in Methods : mutex[m].w \notin {t, NoThread} =>
       mutex'[m].w = mutex[m].w /\ (mutex[m].r = {} => mutex'[m].r = {})
  /\ \A l \in Mutexes : \A u \in Threads \ {t} : u \in mutex[l].r => u \in mutex'[l].r

\* Lock
LEMMA LockIs ==
  ASSUME Types, NEW t \in Threads, NEW l \in Mutexes, Lock(t, l)
  PROVE  /\ Kept(t) /\ mutex'[l].w = t
         /\ \A k \in Mutexes : mutex'[k].r = mutex[k].r
         /\ \A k \in Mutexes \ {l} : mutex'[k] = mutex[k]
  <1>1. mutex \in [Mutexes -> RWMutex] /\ mutex[l].w = NoThread /\ mutex' = [mutex EXCEPT ![l].w = t]
    BY DEF Types, Lock
  <1>2. /\ mutex'[l].w = t /\ mutex'[l].r = mutex[l].r
        /\ mutex'[l] \in RWMutex
        /\ mutex' \in [Mutexes -> RWMutex]
        /\ \A k \in Mutexes \ {l} : mutex'[k] = mutex[k]
    BY <1>1 DEF RWMutex
  <1>3. Methods \subseteq Mutexes
    BY DEF Mutexes
  <1> QED
    BY <1>1, <1>2, <1>3 DEF Kept

\* Unlock, by the goroutine that has the mutex if it is a method's
LEMMA UnlockIs ==
  ASSUME Types, NEW t \in Threads, NEW l \in Mutexes, Unlock(l), l \in Methods => mutex[l].w = t
  PROVE  /\ Kept(t)
         /\ \A k \in Mutexes \ {l} : mutex'[k] = mutex[k]
  <1>1. /\ mutex \in [Mutexes -> RWMutex]
        /\ mutex' = [mutex EXCEPT ![l] = [w |-> NoThread, r |-> @.r \cup @.q, q |-> {}]]
    BY DEF Types, Unlock
  <1>2. /\ mutex[l].r \in SUBSET Threads /\ mutex[l].q \in SUBSET Threads
    BY <1>1 DEF RWMutex
  <1>3. /\ mutex'[l] = [w |-> NoThread, r |-> mutex[l].r \cup mutex[l].q, q |-> {}]
        /\ mutex'[l].r = mutex[l].r \cup mutex[l].q
        /\ \A k \in Mutexes \ {l} : mutex'[k] = mutex[k]
    BY <1>1
  <1>4. mutex'[l] \in RWMutex
    BY <1>2, <1>3 DEF RWMutex
  <1>5. mutex' \in [Mutexes -> RWMutex]
    BY <1>1, <1>3, <1>4
  <1>6. Methods \subseteq Mutexes
    BY DEF Mutexes
  <1> QED
    BY <1>3, <1>5, <1>6 DEF Kept

\* RLock
LEMMA RLockIs ==
  ASSUME Types, NEW t \in Threads, NEW l \in Mutexes, RLock(t, l)
  PROVE  /\ Kept(t)
         /\ \A k \in Mutexes : mutex[k].r \subseteq mutex'[k].r
  <1>1. mutex \in [Mutexes -> RWMutex]
    BY DEF Types
  <1>2. \A k \in Mutexes : mutex[k].r \in SUBSET Threads /\ mutex[k].q \in SUBSET Threads
    BY <1>1 DEF RWMutex
  <1>3. Methods \subseteq Mutexes
    BY DEF Mutexes
  <1>4. CASE mutex[l].w = NoThread /\ mutex' = [mutex EXCEPT ![l].r = @ \cup {t}]
    <2>1. /\ mutex'[l].w = mutex[l].w /\ mutex'[l].r = mutex[l].r \cup {t}
          /\ mutex'[l] \in RWMutex
          /\ \A k \in Mutexes \ {l} : mutex'[k] = mutex[k]
      BY <1>1, <1>2, <1>4 DEF RWMutex
    <2>2. mutex' \in [Mutexes -> RWMutex]
      BY <1>1, <1>4, <2>1
    <2> QED
      BY <1>2, <1>3, <1>4, <2>1, <2>2 DEF Kept
  <1>5. CASE mutex' = [mutex EXCEPT ![l].q = @ \cup {t}]
    <2>1. /\ mutex'[l].w = mutex[l].w /\ mutex'[l].r = mutex[l].r
          /\ mutex'[l] \in RWMutex
          /\ \A k \in Mutexes \ {l} : mutex'[k] = mutex[k]
      BY <1>1, <1>2, <1>5 DEF RWMutex
    <2>2. mutex' \in [Mutexes -> RWMutex]
      BY <1>1, <1>5, <2>1
    <2> QED
      BY <1>2, <1>3, <2>1, <2>2 DEF Kept
  <1> QED
    BY <1>4, <1>5 DEF RLock

\* RUnlock
LEMMA RUnlockIs ==
  ASSUME Types, NEW t \in Threads, NEW l, RUnlock(t, l)
  PROVE  Kept(t)
  <1>1. mutex \in [Mutexes -> RWMutex] /\ mutex' = [mutex EXCEPT ![l].r = @ \ {t}]
    BY DEF Types, RUnlock
  <1>2. ASSUME NEW k \in Mutexes
        PROVE  /\ mutex'[k] \in RWMutex /\ mutex'[k].w = mutex[k].w
               /\ mutex'[k].r = mutex[k].r \/ mutex'[k].r = mutex[k].r \ {t}
    <2>1. mutex[k] \in RWMutex
      BY <1>1
    <2>2. CASE k = l
      BY <1>1, <2>1, <2>2 DEF RWMutex
    <2>3. CASE k # l
      BY <1>1, <2>1, <2>3
    <2> QED
      BY <2>2, <2>3
  <1>3. mutex' \in [Mutexes -> RWMutex]
    <2>1. DOMAIN mutex' = Mutexes /\ mutex' = [k \in Mutexes |-> mutex'[k]]
      BY <1>1
    <2> QED
      BY <1>2, <2>1
  <1>4. Methods \subseteq Mutexes
    BY DEF Mutexes
  <1> QED
    BY <1>2, <1>3, <1>4 DEF Kept

\* Nothing is done to a mutex.
LEMMA NoMutexIs ==
  ASSUME Types, NEW t, mutex' = mutex
  PROVE  Kept(t)
  BY DEF Types, Kept

-----------------------------------------------------------------------------
(* What the steps do, field by field                                       *)

\* The other goroutines stay where they are.
Alone(t) ==
  \A u \in Threads \ {t} : pc'[u] = pc[u] /\ op'[u] = op[u] /\ ops'[u] = ops[u]

\* t leaves both lists alone, and records the call it has been recording, if any.
Neutral(t) ==
  /\ args' = args /\ invocations' = invocations
  /\ \/ pc[t] \notin Recording /\ pc'[t] \notin Recording
     \/ pc[t] \in Recording /\ pc'[t] \in Recording /\ op' = op /\ ops' = ops

\* t records the arguments of its call, or its invocation.
RecordsArgs(t) ==
  /\ pc[t] = "Method.locked" /\ pc'[t] = "record"
  /\ args' = [args EXCEPT ![op[t].method] = Append(@, Call(t))]
  /\ invocations' = invocations /\ op' = op /\ ops' = ops
RecordsInvocation(t) ==
  /\ pc[t] = "record.locked" /\ pc'[t] = "unlock"
  /\ invocations' = [invocations EXCEPT ![op[t].method] = Append(@, Call(t))]
  /\ args' = args /\ op' = op /\ ops' = ops

Moves(t) ==
  /\ double' = double /\ Types' /\ Alone(t) /\ Kept(t) /\ Own(t)'
  /\ Neutral(t) \/ RecordsArgs(t) \/ RecordsInvocation(t)

\* A step of t keeps types, and leaves other goroutines where they are.
LEMMA Frame ==
  ASSUME Types, NEW t \in Threads, double' = double, Kept(t), NEW l \in Places,
         pc' = [pc EXCEPT ![t] = l],
         op' = op \/ \E o \in Ops : op' = [op EXCEPT ![t] = o],
         ops' = ops \/ ops' = [ops EXCEPT ![t] = @ + 1],
         snap' = snap \/ \E x : snap' = [snap EXCEPT ![t] = x],
         args' \in [Methods -> Seq(Calls)], invocations' \in [Methods -> Seq(Calls)]
  PROVE  Types' /\ Alone(t) /\ pc'[t] = l /\ Methods' = Methods /\ Mutexes' = Mutexes
  <1>1. Methods' = Methods /\ Mutexes' = Mutexes
    BY DEF Methods, Mutexes
  <1>2. /\ pc' \in [Threads -> Places] /\ op' \in [Threads -> Ops] /\ ops' \in [Threads -> Nat]
        /\ pc'[t] = l
        /\ \A u \in Threads \ {t} : pc'[u] = pc[u] /\ op'[u] = op[u] /\ ops'[u] = ops[u]
    <2>0. pc \in [Threads -> Places] /\ op \in [Threads -> Ops] /\ ops \in [Threads -> Nat]
      BY DEF Types
    <2>1. /\ pc' \in [Threads -> Places] /\ pc'[t] = l
          /\ \A u \in Threads \ {t} : pc'[u] = pc[u]
      BY <2>0
    <2>2. op' \in [Threads -> Ops] /\ \A u \in Threads \ {t} : op'[u] = op[u]
      <3>1. CASE op' = op
        BY <2>0, <3>1
      <3>2. ASSUME NEW o \in Ops, op' = [op EXCEPT ![t] = o]
            PROVE  op' \in [Threads -> Ops] /\ \A u \in Threads \ {t} : op'[u] = op[u]
        BY <2>0, <3>2
      <3> QED
        BY <3>1, <3>2
    <2>3. ops' \in [Threads -> Nat] /\ \A u \in Threads \ {t} : ops'[u] = ops[u]
      <3>1. CASE ops' = ops
        BY <2>0, <3>1
      <3>2. CASE ops' = [ops EXCEPT ![t] = @ + 1]
        BY <2>0, <3>2
      <3> QED
        BY <3>1, <3>2
    <2> QED
      BY <2>1, <2>2, <2>3
  <1>3. DOMAIN snap' = Threads
    <2>1. CASE snap' = snap
      BY <2>1 DEF Types
    <2>2. ASSUME NEW x, snap' = [snap EXCEPT ![t] = x] PROVE DOMAIN snap' = Threads
      BY <2>2 DEF Types
    <2> QED
      BY <2>1, <2>2
  <1>4. Types'
    <2>1. double \in Doubles
      BY DEF Types
    <2>2. mutex' \in [Mutexes -> RWMutex]
      BY DEF Kept
    <2> QED
      BY <1>1, <1>2, <1>3, <2>1, <2>2 DEF Types
  <1> QED
    BY <1>1, <1>2, <1>4 DEF Alone

\* An operation that ends leaves nothing to be shown of its goroutine.
LEMMA EndsFrame ==
  ASSUME Types, NEW t \in Threads, double' = double, Kept(t), Ends(t), ops' = ops,
         args' = args, invocations' = invocations, pc[t] \notin Recording
  PROVE  Moves(t)
  <1>1. NoOp \in Ops
    BY DEF NoOp, Ops, Kinds, inv
  <1>2. Types' /\ Alone(t) /\ pc'[t] = "idle"
    <2>1. "idle" \in Places
      BY DEF Places
    <2>2. args \in [Methods -> Seq(Calls)] /\ invocations \in [Methods -> Seq(Calls)]
      BY DEF Types
    <2> QED
      BY <1>1, <2>1, <2>2, Frame DEF Ends, Goes
  <1>3. Own(t)'
    BY <1>2 DEF Own, OfMethod, Writing, Sole, Recording
  <1>4. Neutral(t)
    BY <1>2 DEF Neutral, Recording
  <1> QED
    BY <1>2, <1>3, <1>4 DEF Moves

\* A step that only moves on, and works a mutex
LEMMA PlainFrame ==
  ASSUME Types, NEW t \in Threads, Own(t), double' = double, Kept(t), NEW l \in Places,
         Goes(t, l), UNCHANGED <<op, ops, snap, args, invocations>>,
         pc[t] \in Recording <=> l \in Recording,
         pc[t] \in OfMethod /\ l \in OfMethod,
         l \in Writing => mutex'[op[t].method].w = t,
         l \in Sole => mutex'[op[t].method].r = {}
  PROVE  Moves(t)
  <1>1. Types' /\ Alone(t) /\ pc'[t] = l /\ Methods' = Methods
    <2>1. args \in [Methods -> Seq(Calls)] /\ invocations \in [Methods -> Seq(Calls)]
      BY DEF Types
    <2> QED
      BY <2>1, Frame DEF Goes
  <1>2. Own(t)'
    BY <1>1 DEF Own, OfMethod, Writing, Sole, Recording
  <1>3. Neutral(t)
    BY <1>1 DEF Neutral
  <1> QED
    BY <1>1, <1>2, <1>3 DEF Moves

\* What a method's steps do
LEMMA MethodMoves ==
  ASSUME Types, NEW t \in Threads, Own(t), Method(t)
  PROVE  Moves(t)
  <1>0. pc[t] \in OfMethod
    BY DEF Method, LockMethod, RecordArgs, RecordInvocation, UnlockMethod, Stub, OfMethod,
           Writing, Sole, Recording
  <1>m. PICK m \in Methods : m = op[t].method
    BY <1>0 DEF Own
  <1>1. m \in Mutexes /\ inv \in Mutexes /\ m # inv
    <2>1. PICK n \in Nat : Methods = 1..n /\ Mutexes = 0..n
      BY Numbered DEF Types
    <2> QED
      BY <1>m, <2>1 DEF inv
  <1>2. /\ {"Method.locked", "record", "record.locked", "unlock", "stub", "stub.count", "return"}
             \subseteq OfMethod
        /\ OfMethod \subseteq Places
    BY DEF OfMethod, Writing, Sole, Recording, Places
  <1>3. CASE LockMethod(t)
    <2>1. /\ pc[t] = "Method" /\ Lock(t, m) /\ Goes(t, "Method.locked")
          /\ UNCHANGED <<double, op, ops, snap, args, invocations>>
      BY <1>3, <1>m DEF LockMethod, conf
    <2>2. Kept(t) /\ mutex'[m].w = t
      BY <1>1, <2>1, LockIs
    <2>3. "Method.locked" \notin Sole /\ "Method.locked" \notin Recording /\ pc[t] \notin Recording
      BY <2>1 DEF Sole, Recording
    <2> QED
      BY <1>0, <1>2, <1>m, <2>1, <2>2, <2>3, PlainFrame
  <1>4. CASE RecordArgs(t)
    <2>1. /\ pc[t] = "Method.locked" /\ mutex[m].r = {} /\ Goes(t, "record")
          /\ args' = [args EXCEPT ![m] = Append(@, Call(t))]
          /\ UNCHANGED <<double, op, ops, snap, invocations, mutex>>
      BY <1>4, <1>m DEF RecordArgs, Locked, conf
    <2>2. Kept(t)
      BY <2>1, NoMutexIs
    <2>3. args' \in [Methods -> Seq(Calls)] /\ invocations' \in [Methods -> Seq(Calls)]
      <3>1. Call(t) \in Calls
        BY DEF Call, Calls, Types
      <3> QED
        BY <1>m, <2>1, <3>1 DEF Types
    <2>4. Types' /\ Alone(t) /\ pc'[t] = "record" /\ Methods' = Methods
      BY <1>2, <2>1, <2>2, <2>3, Frame DEF Goes
    <2>5. mutex[m].w = t
      BY <1>m, <2>1 DEF Own, Writing
    <2>6. Own(t)'
      BY <1>m, <2>1, <2>4, <2>5 DEF Own
    <2>7. RecordsArgs(t)
      BY <1>m, <2>1, <2>4 DEF RecordsArgs
    <2> QED
      BY <2>1, <2>2, <2>4, <2>6, <2>7 DEF Moves
  <1>5. CASE RecordInvocation(t) /\ pc[t] = "record"
    <2>1. /\ Lock(t, inv) /\ Goes(t, "record.locked")
          /\ UNCHANGED <<double, op, ops, snap, args, invocations>>
      BY <1>5 DEF RecordInvocation, conf
    <2>2. Kept(t) /\ mutex'[m] = mutex[m]
      BY <1>1, <2>1, LockIs
    <2>3. mutex[m].w = t /\ mutex[m].r = {}
      BY <1>5, <1>m DEF Own, Writing, Sole, Recording
    <2>4. "record.locked" \in Recording /\ pc[t] \in Recording
      BY <1>5 DEF Recording
    <2> QED
      BY <1>0, <1>2, <1>m, <2>1, <2>2, <2>3, <2>4, PlainFrame
  <1>6. CASE RecordInvocation(t) /\ pc[t] = "record.locked"
    <2>1. /\ Unlock(inv) /\ Goes(t, "unlock")
          /\ invocations' = [invocations EXCEPT ![m] = Append(@, Call(t))]
          /\ UNCHANGED <<double, op, ops, snap, args>>
      BY <1>6, <1>m DEF RecordInvocation, conf
    <2>2. Kept(t) /\ mutex'[m] = mutex[m]
      <3>1. inv \notin Methods
        <4>1. PICK n \in Nat : Methods = 1..n
          BY Numbered DEF Types
        <4> QED
          BY <4>1 DEF inv
      <3> QED
        BY <1>1, <2>1, <3>1, UnlockIs
    <2>3. args' \in [Methods -> Seq(Calls)] /\ invocations' \in [Methods -> Seq(Calls)]
      <3>1. Call(t) \in Calls
        BY DEF Call, Calls, Types
      <3> QED
        BY <1>m, <2>1, <3>1 DEF Types
    <2>4. Types' /\ Alone(t) /\ pc'[t] = "unlock" /\ Methods' = Methods
      BY <1>2, <2>1, <2>2, <2>3, Frame DEF Goes
    <2>5. mutex[m].w = t /\ mutex[m].r = {}
      BY <1>6, <1>m DEF Own, Writing, Sole, Recording
    <2>6. Own(t)'
      BY <1>m, <2>1, <2>2, <2>4, <2>5 DEF Own
    <2>7. RecordsInvocation(t)
      BY <1>6, <1>m, <2>1, <2>4 DEF RecordsInvocation
    <2> QED
      BY <2>1, <2>2, <2>4, <2>6, <2>7 DEF Moves
  <1>7. CASE UnlockMethod(t)
    <2>1. PICK l \in {"stub", "return"} :
            /\ pc[t] = "unlock" /\ Unlock(m) /\ Goes(t, l)
            /\ UNCHANGED <<double, op, ops, snap, args, invocations>>
      BY <1>7, <1>m DEF UnlockMethod, conf
    <2>2. Kept(t)
      <3>1. mutex[m].w = t
        BY <1>m, <2>1 DEF Own, Writing, Sole
      <3> QED
        BY <1>1, <2>1, <3>1, UnlockIs
    <2>3. l \notin Writing /\ l \notin Sole /\ l \notin Recording /\ pc[t] \notin Recording
      BY <2>1 DEF Writing, Sole, Recording
    <2> QED
      BY <1>0, <1>2, <2>1, <2>2, <2>3, PlainFrame
  <1>8. CASE Stub(t)
    <2>1. PICK l \in {"stub.count", "return"} :
            /\ pc[t] \in {"stub", "stub.count"} /\ Goes(t, l)
            /\ RLock(t, m) \/ RUnlock(t, m) \/ mutex' = mutex
            /\ UNCHANGED <<double, op, ops, snap, args, invocations>>
      BY <1>8, <1>m DEF Stub, conf
    <2>2. Kept(t)
      BY <1>1, <2>1, RLockIs, RUnlockIs, NoMutexIs
    <2>3. l \notin Writing /\ l \notin Sole /\ l \notin Recording /\ pc[t] \notin Recording
      BY <2>1 DEF Writing, Sole, Recording
    <2> QED
      BY <1>0, <1>2, <2>1, <2>2, <2>3, PlainFrame
  <1> QED
    BY <1>3, <1>4, <1>5, <1>6, <1>7, <1>8 DEF Method, RecordInvocation

\* What Calls, Returns, ReturnsOnCall, CallCount and ArgsForCall do
LEMMA TestMoves ==
  ASSUME Types, NEW t \in Threads, Own(t), Set(t) \/ Read(t)
  PROVE  Moves(t)
  <1>0. pc[t] \in {"Set", "Set.locked", "Read", "Read.locked"}
    BY DEF Set, Read
  <1>1. pc[t] \in OfMethod /\ pc[t] \notin Recording
    BY <1>0 DEF OfMethod, Writing, Sole, Recording
  <1>m. PICK m \in Methods : m = op[t].method
    BY <1>1 DEF Own
  <1>2. m \in Mutexes
    BY <1>m DEF Mutexes
  <1>3. {"Set.locked", "Read.locked"} \subseteq OfMethod /\ OfMethod \subseteq Places
    BY DEF OfMethod, Writing, Places
  <1>4. CASE pc[t] = "Set"
    <2>1. /\ Lock(t, m) /\ Goes(t, "Set.locked")
          /\ UNCHANGED <<double, op, ops, snap, args, invocations>>
      BY <1>4, <1>m DEF Set, Read, conf
    <2>2. Kept(t) /\ mutex'[m].w = t
      BY <1>2, <2>1, LockIs
    <2>3. "Set.locked" \notin Sole /\ "Set.locked" \notin Recording
      BY DEF Sole, Recording
    <2> QED
      BY <1>1, <1>3, <1>m, <2>1, <2>2, <2>3, PlainFrame
  <1>5. CASE pc[t] = "Set.locked"
    <2>1. Unlock(m) /\ Ends(t) /\ UNCHANGED <<double, ops, args, invocations>>
      BY <1>5, <1>m DEF Set, Read, conf
    <2>2. mutex[m].w = t
      BY <1>5, <1>m DEF Own, Writing
    <2>3. Kept(t)
      BY <1>2, <2>1, <2>2, UnlockIs
    <2> QED
      BY <1>1, <2>1, <2>3, EndsFrame
  <1>6. CASE pc[t] = "Read"
    <2>1. /\ RLock(t, m) /\ Goes(t, "Read.locked")
          /\ UNCHANGED <<double, op, ops, snap, args, invocations>>
      BY <1>6, <1>m DEF Set, Read, conf
    <2>2. Kept(t)
      BY <1>2, <2>1, RLockIs
    <2>3. "Read.locked" \notin Writing /\ "Read.locked" \notin Sole /\ "Read.locked" \notin Recording
      BY DEF Writing, Sole, Recording
    <2> QED
      BY <1>1, <1>3, <2>1, <2>2, <2>3, PlainFrame
  <1>7. CASE pc[t] = "Read.locked"
    <2>1. RUnlock(t, m) /\ Ends(t) /\ UNCHANGED <<double, ops, args, invocations>>
      BY <1>7, <1>m DEF Set, Read, conf
    <2>2. Kept(t)
      BY <2>1, RUnlockIs
    <2> QED
      BY <1>1, <2>1, <2>2, EndsFrame
  <1> QED
    BY <1>0, <1>4, <1>5, <1>6, <1>7

\* Before Invocations copies it holds every mutex as a reader.
LEMMA CopyHoldsAll ==
  ASSUME Types, NEW t \in Threads, Own(t), pc[t] = "Invocations",
         op[t].i > 0 => RLocked(t, op[t].i - 1)
  PROVE  /\ \A l \in Mutexes : l < op[t].i => t \in mutex[l].r
         /\ op[t].i \notin Mutexes => \A m \in Methods : t \in mutex[m].r
  <1>1. PICK n \in Nat : Methods = 1..n /\ Mutexes = 0..n
    BY Numbered DEF Types
  <1>2. PICK i \in Nat : i = op[t].i
    BY DEF Types, Ops
  <1>3. /\ i = 0 \/ i - 1 \in 0..n
        /\ \A l \in 0..n : l + 1 < i => t \in mutex[l].r
        /\ i > 0 => t \in mutex[i - 1].r
    BY <1>1, <1>2 DEF Own, RLocked
  <1>4. ASSUME NEW l \in 0..n, l < i PROVE t \in mutex[l].r
    <2>1. CASE l + 1 < i
      BY <1>3, <2>1
    <2>2. CASE ~(l + 1 < i)
      <3>1. l = i - 1 /\ i > 0
        BY <1>4, <2>2
      <3> QED
        BY <1>3, <3>1
    <2> QED
      BY <2>1, <2>2
  <1>5. ASSUME i \notin 0..n, NEW m \in 1..n PROVE t \in mutex[m].r
    <2>1. m \in 0..n /\ m < i
      BY <1>5
    <2> QED
      BY <1>4, <2>1
  <1> QED
    BY <1>1, <1>2, <1>4, <1>5

\* What Invocations does
LEMMA InvocationsMoves ==
  ASSUME Types, NEW t \in Threads, Own(t), CopyInvocations(t) \/ ReleaseAll(t)
  PROVE  Moves(t)
  <1>0. args \in [Methods -> Seq(Calls)] /\ invocations \in [Methods -> Seq(Calls)]
    BY DEF Types
  <1>p. {"Invocations", "Invocations.copied"} \subseteq Places
    BY DEF Places
  <1>1. CASE ReleaseAll(t)
    <2>1. pc[t] = "Invocations.copied" /\ UNCHANGED <<double, ops, args, invocations>>
      BY <1>1 DEF ReleaseAll, conf
    <2>2. (\E l : RUnlock(t, l)) /\ (Ends(t) \/ UNCHANGED <<pc, op, snap>>)
      BY <1>1 DEF ReleaseAll
    <2>3. Kept(t)
      BY <2>2, RUnlockIs
    <2>4. pc[t] \notin Recording
      BY <2>1 DEF Recording
    <2>5. CASE Ends(t)
      BY <2>1, <2>3, <2>4, <2>5, EndsFrame
    <2>6. CASE UNCHANGED <<pc, op, snap>>
      <3>1. pc' = [pc EXCEPT ![t] = "Invocations.copied"]
        BY <2>1, <2>6 DEF Types
      <3>2. Types' /\ Alone(t) /\ pc'[t] = "Invocations.copied"
        BY <1>0, <1>p, <2>1, <2>3, <2>6, <3>1, Frame
      <3>3. Own(t)' /\ Neutral(t)
        BY <2>1, <2>4, <3>2 DEF Own, OfMethod, Writing, Sole, Recording, Neutral
      <3> QED
        BY <2>1, <2>3, <3>2, <3>3 DEF Moves
    <2> QED
      BY <2>2, <2>5, <2>6
  <1>2. CASE CopyInvocations(t)
    <2>1. /\ pc[t] = "Invocations" /\ UNCHANGED <<double, ops, args, invocations>>
          /\ op[t].i > 0 => RLocked(t, op[t].i - 1)
      BY <1>2 DEF CopyInvocations, conf
    <2>2. pc[t] \notin Recording
      BY <2>1 DEF Recording
    <2>3. \A l \in Mutexes : l < op[t].i => t \in mutex[l].r
      BY <2>1, CopyHoldsAll
    <2>4. ASSUME op[t].i \in Mutexes, RLock(t, op[t].i), UNCHANGED <<pc, snap>>,
                 op' = [op EXCEPT ![t].i = op[t].i + 1]
          PROVE  Moves(t)
      <3>i. PICK i \in Nat : i = op[t].i
        BY DEF Types, Ops
      <3>1. op[t] \in Ops /\ op \in [Threads -> Ops]
        BY DEF Types
      <3>2. PICK o : o = [op[t] EXCEPT !.i = i + 1]
        OBVIOUS
      <3>3. o \in Ops /\ o.i = i + 1 /\ op' = [op EXCEPT ![t] = o] /\ op'[t] = o
        BY <2>4, <3>1, <3>2, <3>i DEF Ops
      <3>4. Kept(t) /\ \A k \in Mutexes : mutex[k].r \subseteq mutex'[k].r
        BY <2>4, RLockIs
      <3>5. pc' = [pc EXCEPT ![t] = "Invocations"]
        BY <2>1, <2>4 DEF Types
      <3>6. Types' /\ Alone(t) /\ pc'[t] = "Invocations" /\ Mutexes' = Mutexes
        BY <1>0, <1>p, <2>1, <2>4, <3>3, <3>4, <3>5, Frame
      <3>7. ASSUME NEW l \in Mutexes, l + 1 < i + 1 PROVE t \in mutex'[l].r
        <4>1. PICK n \in Nat : Mutexes = 0..n
          BY Numbered DEF Types
        <4>2. l < i
          BY <3>7, <4>1
        <4> QED
          BY <2>3, <3>4, <3>i, <4>2
      <3>8. op'[t].i = i + 1 /\ i + 1 - 1 \in Mutexes
        BY <2>4, <3>3, <3>i
      <3>9. Own(t)'
        BY <3>6, <3>7, <3>8 DEF Own, OfMethod, Writing, Sole, Recording
      <3>10. Neutral(t)
        BY <2>1, <2>2, <3>6 DEF Neutral, Recording
      <3> QED
        BY <2>1, <3>4, <3>6, <3>9, <3>10 DEF Moves
    <2>5. ASSUME snap' = [snap EXCEPT ![t] = invocations], Goes(t, "Invocations.copied"),
                 UNCHANGED <<mutex, op>>
          PROVE  Moves(t)
      <3>1. Kept(t)
        BY <2>5, NoMutexIs
      <3>2. Types' /\ Alone(t) /\ pc'[t] = "Invocations.copied"
        BY <1>0, <1>p, <2>1, <2>5, <3>1, Frame DEF Goes
      <3>3. Own(t)' /\ Neutral(t)
        BY <2>1, <2>2, <3>2 DEF Own, OfMethod, Writing, Sole, Recording, Neutral
      <3> QED
        BY <2>1, <3>1, <3>2, <3>3 DEF Moves
    <2> QED
      BY <1>2, <2>4, <2>5 DEF CopyInvocations
  <1> QED
    BY <1>1, <1>2

\* What the beginning and the end of an operation do
LEMMA BeginMoves ==
  ASSUME Types, NEW t \in Threads, Own(t), Begin(t) \/ Return(t)
  PROVE  Moves(t)
  <1>1. CASE Return(t)
    <2>1. pc[t] = "return" /\ Ends(t) /\ UNCHANGED <<double, args, invocations, mutex, ops>>
      BY <1>1 DEF Return, conf
    <2>2. Kept(t) /\ pc[t] \notin Recording
      BY <2>1, NoMutexIs DEF Recording
    <2> QED
      BY <2>1, <2>2, EndsFrame
  <1>2. CASE Begin(t)
    <2>1. PICK o \in {o \in Operations : Sensible(o)} \cup {Invocations} :
            /\ op' = [op EXCEPT ![t] = o]
            /\ \/ o.kind \in Setters /\ Goes(t, "Set")
               \/ o.kind \in Readers /\ Goes(t, "Read")
               \/ o.kind \in {"Method", "Invocations"} /\ Goes(t, o.kind)
      BY <1>2 DEF Begin
    <2>2. /\ pc[t] = "idle" /\ ops' = [ops EXCEPT ![t] = @ + 1]
          /\ UNCHANGED <<double, args, invocations, mutex, snap>>
      BY <1>2 DEF Begin, conf
    <2>3. /\ o \in Ops
          /\ o.kind # "Invocations" => o.method \in Methods
          /\ o.kind = "Invocations" => o.i = 0
      <3>1. CASE o = Invocations
        BY <3>1 DEF Invocations, Ops, Kinds, inv
      <3>2. CASE o \in Operations
        <4>1. PICK n \in Nat : Methods = 1..n
          BY Numbered DEF Types
        <4>2. PICK k \in Setters \cup Readers \cup {"Method"}, m \in Methods, i \in 1..2 :
                o = [kind |-> k, method |-> m, i |-> i]
          BY <3>2 DEF Operations
        <4>3. m \in Nat /\ i \in Nat
          BY <4>1, <4>2
        <4>4. k \in Kinds /\ k # "Invocations"
          BY <4>2 DEF Kinds, Setters, Readers
        <4> QED
          BY <4>2, <4>3, <4>4 DEF Ops
      <3> QED
        BY <2>1, <3>1, <3>2
    <2>4. PICK l \in {"Set", "Read", "Method", "Invocations"} :
            /\ Goes(t, l)
            /\ l = "Invocations" <=> o.kind = "Invocations"
      BY <2>1 DEF Setters, Readers
    <2>5. Kept(t) /\ pc[t] \notin Recording
      BY <2>2, NoMutexIs DEF Recording
    <2>6. l \in Places
      BY <2>4 DEF Places, OfMethod
    <2>7. Types' /\ Alone(t) /\ pc'[t] = l /\ Methods' = Methods /\ Mutexes' = Mutexes
      <3>1. args \in [Methods -> Seq(Calls)] /\ invocations \in [Methods -> Seq(Calls)]
        BY DEF Types
      <3> QED
        BY <2>1, <2>2, <2>3, <2>4, <2>5, <2>6, <3>1, Frame DEF Goes
    <2>8. op'[t] = o
      BY <2>1 DEF Types
    <2>9. l \notin Writing /\ l \notin Sole /\ l \notin Recording
      BY <2>4 DEF Writing, Sole, Recording
    <2>10. Own(t)'
      <3>1. CASE l = "Invocations"
        <4>1. op'[t].i = 0
          BY <2>3, <2>4, <2>8, <3>1
        <4>2. PICK n \in Nat : Mutexes = 0..n
          BY Numbered DEF Types
        <4>3. \A k \in Mutexes' : ~(k + 1 < op'[t].i)
          BY <2>7, <4>1, <4>2
        <4> QED
          BY <2>7, <3>1, <4>1, <4>3 DEF Own, OfMethod, Writing, Sole, Recording
      <3>2. CASE l # "Invocations"
        BY <2>3, <2>4, <2>7, <2>8, <2>9, <3>2 DEF Own
      <3> QED
        BY <3>1, <3>2
    <2>11. Neutral(t)
      BY <2>2, <2>5, <2>7, <2>9 DEF Neutral
    <2> QED
      BY <2>2, <2>5, <2>7, <2>10, <2>11 DEF Moves
  <1> QED
    BY <1>1, <1>2

-----------------------------------------------------------------------------
(* The lists agree                                                         *)

\* Two goroutines do not record calls of one method.
LEMMA OneRecords ==
  ASSUME DoubleInv, NEW t \in Threads, NEW u \in Threads, pc[t] \in Writing, Records(u, op[t].method)
  PROVE  u = t
  <1>1. Own(t) /\ Own(u)
    BY DEF DoubleInv
  <1> QED
    BY <1>1 DEF Own, Records, Writing, Sole

\* Every step of a goroutine keeps DoubleInv.
LEMMA MoveKeeps ==
  ASSUME DoubleInv, NEW t \in Threads, Moves(t)
  PROVE  DoubleInv'
  <1>0. /\ Types /\ Types' /\ Alone(t) /\ Kept(t) /\ double' = double
        /\ \A u \in Threads : Own(u) /\ Behind(u)
        /\ \A m \in Methods : Agree(m)
    BY DEF DoubleInv, Moves
  <1>1. Methods' = Methods /\ Mutexes' = Mutexes /\ Methods \subseteq Mutexes
    BY <1>0 DEF Methods, Mutexes
  <1>2. ASSUME NEW u \in Threads PROVE Own(u)'
    <2>1. CASE u = t
      BY <2>1 DEF Moves
    <2>2. CASE u # t
      <3>1. pc'[u] = pc[u] /\ op'[u] = op[u]
        BY <1>0, <2>2 DEF Alone
      <3>2. Own(u) /\ u # NoThread
        BY <1>0, DoubleAssumption
      <3>3. ASSUME pc[u] \in Writing
            PROVE  /\ mutex'[op[u].method].w = u
                   /\ mutex[op[u].method].r = {} => mutex'[op[u].method].r = {}
        <4>1. op[u].method \in Methods /\ mutex[op[u].method].w = u
          BY <3>2, <3>3 DEF Own, OfMethod
        <4> QED
          BY <1>0, <2>2, <3>2, <4>1 DEF Kept
      <3>4. pc[u] \in Sole => mutex'[op[u].method].r = {}
        BY <3>2, <3>3 DEF Own, Writing
      <3>5. ASSUME pc[u] = "Invocations"
            PROVE  \A l \in Mutexes : l + 1 < op[u].i => u \in mutex'[l].r
        BY <1>0, <2>2, <3>2, <3>5 DEF Own, Kept
      <3> QED
        BY <1>1, <3>1, <3>2, <3>3, <3>4, <3>5 DEF Own
    <2> QED
      BY <2>1, <2>2
  <1>3. \A u \in Threads \ {t} : (\A m : Records(u, m)' <=> Records(u, m)) /\ Call(u)' = Call(u)
    BY <1>0 DEF Alone, Records, Call
  <1>4. CASE Neutral(t)
    <2>1. \A m : Records(t, m)' <=> Records(t, m)
      BY <1>4 DEF Neutral, Records
    <2>2. \A m : Records(t, m) => Call(t)' = Call(t)
      BY <1>4 DEF Neutral, Records, Call
    <2>3. args' = args /\ invocations' = invocations
      BY <1>4 DEF Neutral
    <2>4. ASSUME NEW u \in Threads PROVE Behind(u)'
      BY <1>0, <1>1, <1>3, <2>1, <2>2, <2>3 DEF Behind
    <2>5. ASSUME NEW m \in Methods PROVE Agree(m)'
      BY <1>0, <1>3, <2>1, <2>3 DEF Agree
    <2> QED
      BY <1>0, <1>1, <1>2, <2>4, <2>5 DEF DoubleInv
  <1>5. CASE RecordsArgs(t)
    <2>1. PICK m \in Methods : m = op[t].method
      BY <1>0, <1>5 DEF RecordsArgs, Own, OfMethod, Writing
    <2>2. /\ pc[t] = "Method.locked" /\ pc'[t] = "record" /\ invocations' = invocations
          /\ args' = [args EXCEPT ![m] = Append(@, Call(t))]
          /\ op' = op /\ Call(t)' = Call(t)
      BY <1>5, <2>1 DEF RecordsArgs, Call
    <2>3. /\ args'[m] = Append(args[m], Call(t))
          /\ \A k \in Methods \ {m} : args'[k] = args[k]
      BY <1>0, <2>2 DEF Types
    <2>4. \A u \in Threads : ~Records(u, m)
      <3>1. ASSUME NEW u \in Threads, Records(u, m) PROVE FALSE
        <4>1. u = t
          BY <2>1, <2>2, <3>1, OneRecords DEF Writing
        <4> QED
          BY <2>2, <3>1, <4>1 DEF Records, Recording
      <3> QED
        BY <3>1
    <2>5. args[m] = invocations[m]
      BY <1>0, <2>4 DEF Agree
    <2>6. \A k : Records(t, k)' <=> k = m
      BY <2>1, <2>2 DEF Records, Recording
    <2>7. ASSUME NEW u \in Threads, NEW k \in Methods, Records(u, k)'
          PROVE  args'[k] = Append(invocations'[k], Call(u)')
      <3>1. CASE u = t
        BY <2>2, <2>3, <2>5, <2>6, <2>7, <3>1
      <3>2. CASE u # t
        <4>1. Records(u, k) /\ Call(u)' = Call(u)
          BY <1>3, <2>7, <3>2
        <4>2. k # m
          BY <2>4, <4>1
        <4>3. args[k] = Append(invocations[k], Call(u))
          BY <1>0, <4>1 DEF Behind
        <4> QED
          BY <2>2, <2>3, <4>1, <4>2, <4>3
      <3> QED
        BY <3>1, <3>2
    <2>8. ASSUME NEW u \in Threads PROVE Behind(u)'
      BY <1>1, <2>7 DEF Behind
    <2>9. ASSUME NEW k \in Methods PROVE Agree(k)'
      <3>1. CASE k = m
        BY <2>6, <3>1 DEF Agree
      <3>2. CASE k # m
        <4>1. ~Records(t, k)
          BY <2>2 DEF Records, Recording
        <4> QED
          BY <1>0, <1>3, <2>2, <2>3, <3>2, <4>1 DEF Agree
      <3> QED
        BY <3>1, <3>2
    <2> QED
      BY <1>0, <1>1, <1>2, <2>8, <2>9 DEF DoubleInv
  <1>6. CASE RecordsInvocation(t)
    <2>1. PICK m \in Methods : m = op[t].method
      BY <1>0, <1>6 DEF RecordsInvocation, Own, OfMethod, Writing, Sole, Recording
    <2>2. /\ pc[t] = "record.locked" /\ pc'[t] = "unlock" /\ args' = args
          /\ invocations' = [invocations EXCEPT ![m] = Append(@, Call(t))]
      BY <1>6, <2>1 DEF RecordsInvocation
    <2>3. /\ invocations'[m] = Append(invocations[m], Call(t))
          /\ \A k \in Methods \ {m} : invocations'[k] = invocations[k]
      BY <1>0, <2>2 DEF Types
    <2>4. Records(t, m) /\ \A k : Records(t, k) => k = m
      BY <2>1, <2>2 DEF Records, Recording
    <2>5. args[m] = Append(invocations[m], Call(t))
      BY <1>0, <2>4 DEF Behind
    <2>6. \A k : ~Records(t, k)'
      BY <2>2 DEF Records, Recording
    <2>7. ASSUME NEW u \in Threads, NEW k \in Methods, Records(u, k)'
          PROVE  args'[k] = Append(invocations'[k], Call(u)')
      <3>1. u # t
        BY <2>6, <2>7
      <3>2. Records(u, k) /\ Call(u)' = Call(u)
        BY <1>3, <2>7, <3>1
      <3>3. k # m
        BY <2>1, <2>2, <3>1, <3>2, OneRecords DEF Writing, Sole, Recording
      <3>4. args[k] = Append(invocations[k], Call(u))
        BY <1>0, <3>2 DEF Behind
      <3> QED
        BY <2>2, <2>3, <3>2, <3>3, <3>4
    <2>8. ASSUME NEW u \in Threads PROVE Behind(u)'
      BY <1>1, <2>7 DEF Behind
    <2>9. ASSUME NEW k \in Methods PROVE Agree(k)'
      <3>1. CASE k = m
        BY <2>2, <2>3, <2>5, <3>1 DEF Agree
      <3>2. CASE k # m
        <4>1. ~Records(t, k)
          BY <2>4, <3>2
        <4> QED
          BY <1>0, <1>3, <2>2, <2>3, <3>2, <4>1 DEF Agree
      <3> QED
        BY <3>1, <3>2
    <2> QED
      BY <1>0, <1>1, <1>2, <2>8, <2>9 DEF DoubleInv
  <1> QED
    BY <1>4, <1>5, <1>6 DEF Moves

\* Every step is one of these.
LEMMA NextMoves ==
  ASSUME DoubleInv, Next
  PROVE  \E t \in Threads : Moves(t) /\ (Begin(t) \/ Step(t))
  <1>1. PICK t \in Threads : Begin(t) \/ Step(t)
    BY DEF Next
  <1>2. Types /\ Own(t)
    BY DEF DoubleInv
  <1> QED
    BY <1>1, <1>2, MethodMoves, TestMoves, InvocationsMoves, BeginMoves DEF Step

\* Every step keeps DoubleInv.
LEMMA DoubleStep ==
  ASSUME DoubleInv, [Next]_vars
  PROVE  DoubleInv'
  <1>1. CASE UNCHANGED vars
    <2>1. UNCHANGED <<double, args, invocations, mutex, pc, op, ops, snap>>
      BY <1>1 DEF vars
    <2>2. Methods' = Methods /\ Mutexes' = Mutexes
      BY <2>1 DEF Methods, Mutexes
    <2>3. Types'
      BY <2>1, <2>2 DEF DoubleInv, Types
    <2>4. ASSUME NEW u \in Threads PROVE Own(u)' /\ Behind(u)'
      BY <2>1, <2>2 DEF DoubleInv, Own, Behind, Records, Call
    <2>5. ASSUME NEW m \in Methods PROVE Agree(m)'
      BY <2>1 DEF DoubleInv, Agree, Records
    <2> QED
      BY <2>2, <2>3, <2>4, <2>5 DEF DoubleInv
  <1>2. CASE Next
    BY <1>2, NextMoves, MoveKeeps
  <1> QED
    BY <1>1, <1>2

\* At first nothing has been recorded.
LEMMA DoubleInit == Init => DoubleInv
  <1> SUFFICES ASSUME Init PROVE DoubleInv
    OBVIOUS
  <1>1. NoOp \in Ops /\ "idle" \in Places
    BY DEF NoOp, Ops, Kinds, inv, Places
  <1>2. Types
    BY <1>1 DEF Init, Types, RWMutex
  <1>3. ASSUME NEW u \in Threads PROVE Own(u) /\ Behind(u)
    BY DEF Init, Own, Behind, Records, OfMethod, Writing, Sole, Recording
  <1>4. ASSUME NEW m \in Methods PROVE Agree(m)
    BY DEF Init, Agree
  <1> QED
    BY <1>2, <1>3, <1>4 DEF DoubleInv

\* Whoever may work with a method's mutex finds ArgsForCall and the invocations of
\* that method in agreement, the same calls in the same order, for any double
\* and any number of goroutines that call, set and read.
THEOREM ListsAgree == Spec => []RecordsAgree
  <1>1. ASSUME DoubleInv PROVE RecordsAgree
    <2> SUFFICES ASSUME NEW m \in Methods, mutex[m].w = NoThread \/ mutex[m].r # {}
                 PROVE  args[m] = invocations[m]
      BY DEF RecordsAgree
    <2>1. ASSUME NEW u \in Threads, Records(u, m) PROVE FALSE
      <3>1. Own(u) /\ u # NoThread
        BY <1>1, DoubleAssumption DEF DoubleInv
      <3> QED
        BY <2>1, <3>1 DEF Own, Records, Writing, Sole
    <2> QED
      BY <1>1, <2>1 DEF DoubleInv, Agree
  <1>2. DoubleInv /\ [Next]_vars => DoubleInv'
    BY DoubleStep
  <1> QED
    BY <1>1, <1>2, DoubleInit, PTL DEF Spec

\* Invocations copies what the calls of all methods have recorded up to one and
\* the same moment: it has every mutex when it copies, so no call is under way.
THEOREM SnapshotsAreConsistent == Spec => SnapshotIsConsistent
  <1>1. ASSUME DoubleInv, [Next]_vars, NEW t \in Threads,
               pc[t] = "Invocations" /\ pc'[t] = "Invocations.copied"
        PROVE  snap'[t] = args
    <2>0. Types /\ Own(t)
      BY <1>1 DEF DoubleInv
    <2>1. Next
      BY <1>1 DEF vars
    <2>2. PICK u \in Threads : Moves(u) /\ (Begin(u) \/ Step(u))
      BY <1>1, <2>1, NextMoves
    <2>3. u = t
      BY <1>1, <2>2 DEF Moves, Alone
    <2>4. CopyInvocations(t)
      BY <1>1, <2>2, <2>3 DEF Step, Begin, Return, Method, LockMethod, RecordArgs, RecordInvocation,
         UnlockMethod, Stub, Set, Read, ReleaseAll
    <2>5. /\ snap' = [snap EXCEPT ![t] = invocations] /\ op[t].i \notin Mutexes
          /\ op[t].i > 0 => RLocked(t, op[t].i - 1)
      BY <1>1, <2>4 DEF CopyInvocations
    <2>6. snap'[t] = invocations
      BY <2>0, <2>5 DEF Types
    <2>7. \A m \in Methods : t \in mutex[m].r
      BY <1>1, <2>0, <2>5, CopyHoldsAll
    <2>8. ASSUME NEW m \in Methods PROVE args[m] = invocations[m]
      <3>1. ASSUME NEW v \in Threads, Records(v, m) PROVE FALSE
        <4>1. Own(v)
          BY <1>1 DEF DoubleInv
        <4> QED
          BY <2>7, <3>1, <4>1 DEF Own, Records, Sole
      <3> QED
        BY <1>1, <3>1 DEF DoubleInv, Agree
    <2>9. args = invocations
      BY <2>0, <2>8 DEF Types
    <2> QED
      BY <2>6, <2>9
  <1>2. DoubleInv /\ [Next]_vars =>
          [\A t \in Threads : pc[t] = "Invocations" /\ pc'[t] = "Invocations.copied" =>
             snap'[t] = args]_vars
    BY <1>1
  <1>3. DoubleInv /\ [Next]_vars => DoubleInv'
    BY DoubleStep
  <1> QED
    BY <1>2, <1>3, DoubleInit, PTL DEF Spec, SnapshotIsConsistent
-----------------------------------------------------------------------------
(* Who has and who waits for a mutex                                       *)

\* u is the writer of mutex l, one of its readers, or a reader that has asked
\* for it, given where u is.
AsWriter(u, l) ==
  \/ pc[u] \in Writing /\ op[u].method = l
  \/ pc[u] = "record.locked" /\ l = inv
AsksFor(u, l) ==
  \/ pc[u] \in {"stub.count", "Read.locked"} /\ op[u].method = l
  \/ pc[u] = "Invocations" /\ l < op[u].i
AsReader(u, l) == AsksFor(u, l) \/ pc[u] = "Invocations.copied"

\* A goroutine is entered in a mutex only where its place says so,
Tenure(u, l) ==
  /\ mutex[l].w = u => AsWriter(u, l)
  /\ u \in mutex[l].r => AsReader(u, l)
  /\ u \in mutex[l].q => AsksFor(u, l)

\* and one that has asked to read is a reader or queues.
Asked(u) ==
  /\ pc[u] \in {"stub.count", "Read.locked"} =>
       u \in mutex[op[u].method].r \cup mutex[op[u].method].q
  /\ pc[u] = "Invocations" /\ op[u].i > 0 =>
       u \in mutex[op[u].i - 1].r \cup mutex[op[u].i - 1].q

\* Readers queue only behind a writer.
Sound(l) ==
  /\ mutex[l].r \cap mutex[l].q = {}
  /\ mutex[l].q # {} => mutex[l].w # NoThread

HoldInv ==
  /\ DoubleInv
  /\ \A u \in Threads : Asked(u)
  /\ \A l \in Mutexes : Sound(l) /\ \A u \in Threads : Tenure(u, l)

\* t does not enter or remove others.
Others(t) ==
  \A l \in Mutexes :
    /\ Sound(l)'
    /\ mutex'[l].w \in {t, NoThread, mutex[l].w}
    /\ mutex'[l].q \subseteq mutex[l].q \cup {t}
    /\ (mutex'[l].r \cup mutex'[l].q) \ {t} = (mutex[l].r \cup mutex[l].q) \ {t}

\* Lock
LEMMA LockEnters ==
  ASSUME Types, NEW t \in Threads, NEW l \in Mutexes, Lock(t, l), \A k \in Mutexes : Sound(k)
  PROVE  /\ Others(t)
         /\ \A k \in Mutexes : /\ mutex'[k].r = mutex[k].r /\ mutex'[k].q = mutex[k].q
                               /\ mutex'[k].w = IF k = l THEN t ELSE mutex[k].w
  <1>1. mutex \in [Mutexes -> RWMutex] /\ mutex' = [mutex EXCEPT ![l].w = t] /\ t # NoThread
    BY DoubleAssumption DEF Types, Lock
  <1>2. ASSUME NEW k \in Mutexes
        PROVE  /\ mutex'[k].r = mutex[k].r /\ mutex'[k].q = mutex[k].q
               /\ mutex'[k].w = IF k = l THEN t ELSE mutex[k].w
    BY <1>1 DEF RWMutex
  <1> QED
    BY <1>1, <1>2 DEF Others, Sound

\* Unlock
LEMMA UnlockEnters ==
  ASSUME Types, NEW t \in Threads, NEW l \in Mutexes, Unlock(l), \A k \in Mutexes : Sound(k)
  PROVE  /\ Others(t)
         /\ \A k \in Mutexes \ {l} : mutex'[k] = mutex[k]
         /\ mutex'[l] = [w |-> NoThread, r |-> mutex[l].r \cup mutex[l].q, q |-> {}]
  <1>1. /\ mutex \in [Mutexes -> RWMutex]
        /\ mutex' = [mutex EXCEPT ![l] = [w |-> NoThread, r |-> @.r \cup @.q, q |-> {}]]
    BY DEF Types, Unlock
  <1>2. mutex'[l] = [w |-> NoThread, r |-> mutex[l].r \cup mutex[l].q, q |-> {}]
    BY <1>1
  <1>3. \A k \in Mutexes \ {l} : mutex'[k] = mutex[k]
    BY <1>1
  <1>4. mutex'[l].w = NoThread /\ mutex'[l].r = mutex[l].r \cup mutex[l].q /\ mutex'[l].q = {}
    BY <1>2
  <1> QED
    BY <1>2, <1>3, <1>4 DEF Others, Sound

\* RLock, by a goroutine that has not asked for the mutex yet
LEMMA RLockEnters ==
  ASSUME Types, NEW t \in Threads, NEW l \in Mutexes, RLock(t, l), \A k \in Mutexes : Sound(k),
         t \notin mutex[l].r \cup mutex[l].q
  PROVE  /\ Others(t)
         /\ \A k \in Mutexes \ {l} : mutex'[k] = mutex[k]
         /\ mutex'[l].w = mutex[l].w /\ t \in mutex'[l].r \cup mutex'[l].q
  <1>1. mutex \in [Mutexes -> RWMutex]
    BY DEF Types
  <1>2. CASE mutex[l].w = NoThread /\ mutex' = [mutex EXCEPT ![l].r = @ \cup {t}]
    <2>1. /\ mutex'[l].w = mutex[l].w /\ mutex'[l].r = mutex[l].r \cup {t}
          /\ mutex'[l].q = mutex[l].q
      BY <1>1, <1>2 DEF RWMutex
    <2>2. \A k \in Mutexes \ {l} : mutex'[k] = mutex[k]
      BY <1>1, <1>2
    <2> QED
      BY <2>1, <2>2 DEF Others, Sound
  <1>3. CASE mutex[l].w # NoThread /\ mutex' = [mutex EXCEPT ![l].q = @ \cup {t}]
    <2>1. /\ mutex'[l].w = mutex[l].w /\ mutex'[l].q = mutex[l].q \cup {t}
          /\ mutex'[l].r = mutex[l].r
      BY <1>1, <1>3 DEF RWMutex
    <2>2. \A k \in Mutexes \ {l} : mutex'[k] = mutex[k]
      BY <1>1, <1>3
    <2> QED
      BY <1>3, <2>1, <2>2 DEF Others, Sound
  <1> QED
    BY <1>2, <1>3 DEF RLock

\* RUnlock
LEMMA RUnlockEnters ==
  ASSUME Types, NEW t \in Threads, NEW l, RUnlock(t, l), \A k \in Mutexes : Sound(k)
  PROVE  /\ Others(t)
         /\ \A k \in Mutexes : /\ mutex'[k].w = mutex[k].w /\ mutex'[k].q = mutex[k].q
                               /\ mutex'[k].r = IF k = l THEN mutex[k].r \ {t} ELSE mutex[k].r
  <1>1. mutex \in [Mutexes -> RWMutex] /\ mutex' = [mutex EXCEPT ![l].r = @ \ {t}]
    BY DEF Types, RUnlock
  <1>2. ASSUME NEW k \in Mutexes
        PROVE  /\ mutex'[k].w = mutex[k].w /\ mutex'[k].q = mutex[k].q
               /\ mutex'[k].r = IF k = l THEN mutex[k].r \ {t} ELSE mutex[k].r
    BY <1>1 DEF RWMutex
  <1> QED
    BY <1>2 DEF Others, Sound

\* What a step leaves of it
Holds(t) == Others(t) /\ Asked(t)' /\ \A l \in Mutexes : Tenure(t, l)'

\* A method's steps
LEMMA MethodHolds ==
  ASSUME HoldInv, NEW t \in Threads, Method(t), Moves(t)
  PROVE  Holds(t)
  <1>0. /\ Types /\ Types' /\ Own(t) /\ Methods' = Methods /\ Mutexes' = Mutexes
        /\ \A l \in Mutexes : Sound(l) /\ Tenure(t, l)
    BY DEF HoldInv, DoubleInv, Moves, Methods, Mutexes
  <1>m. PICK m \in Methods : m = op[t].method
    BY <1>0 DEF Own, Method, LockMethod, RecordArgs, RecordInvocation, UnlockMethod, Stub, OfMethod,
                Writing, Sole, Recording
  <1>1. m \in Mutexes /\ inv \in Mutexes /\ m # inv /\ t # NoThread
    <2>1. PICK n \in Nat : Methods = 1..n /\ Mutexes = 0..n
      BY <1>0, Numbered DEF Types
    <2> QED
      BY <1>m, <2>1, DoubleAssumption DEF inv
  <1>2. op' = op /\ pc \in [Threads -> Places]
    BY <1>0 DEF Method, LockMethod, RecordArgs, RecordInvocation, UnlockMethod, Stub, Types
  <1> USE DEF AsWriter, AsReader, AsksFor, Writing, Sole, Recording
  <1>3. CASE LockMethod(t)
    <2>1. pc[t] = "Method" /\ Lock(t, m) /\ pc'[t] = "Method.locked"
      BY <1>2, <1>3, <1>m DEF LockMethod, Goes
    <2>2. Others(t) /\ \A k \in Mutexes : /\ mutex'[k].r = mutex[k].r /\ mutex'[k].q = mutex[k].q
                                          /\ mutex'[k].w = IF k = m THEN t ELSE mutex[k].w
      BY <1>0, <1>1, <2>1, LockEnters
    <2>3. ASSUME NEW l \in Mutexes PROVE Tenure(t, l)'
      BY <1>0, <1>2, <1>m, <2>1, <2>2 DEF Tenure
    <2> QED
      BY <2>1, <2>2, <2>3 DEF Holds, Asked
  <1>4. CASE RecordArgs(t)
    <2>1. pc[t] = "Method.locked" /\ mutex' = mutex /\ pc'[t] = "record"
      BY <1>2, <1>4, <1>m DEF RecordArgs, Goes
    <2>2. Others(t)
      BY <1>0, <2>1 DEF Others, Sound
    <2>3. ASSUME NEW l \in Mutexes PROVE Tenure(t, l)'
      BY <1>0, <1>2, <1>m, <2>1, <2>2 DEF Tenure
    <2> QED
      BY <2>1, <2>2, <2>3 DEF Holds, Asked
  <1>5. CASE RecordInvocation(t) /\ pc[t] = "record"
    <2>1. Lock(t, inv) /\ pc'[t] = "record.locked"
      BY <1>2, <1>5 DEF RecordInvocation, Goes
    <2>2. Others(t) /\ \A k \in Mutexes : /\ mutex'[k].r = mutex[k].r /\ mutex'[k].q = mutex[k].q
                                          /\ mutex'[k].w = IF k = inv THEN t ELSE mutex[k].w
      BY <1>0, <1>1, <2>1, LockEnters
    <2>3. ASSUME NEW l \in Mutexes PROVE Tenure(t, l)'
      BY <1>0, <1>2, <1>5, <1>m, <2>1, <2>2 DEF Tenure
    <2> QED
      BY <2>1, <2>2, <2>3 DEF Holds, Asked
  <1>6. CASE RecordInvocation(t) /\ pc[t] = "record.locked"
    <2>1. Unlock(inv) /\ pc'[t] = "unlock"
      BY <1>2, <1>6 DEF RecordInvocation, Goes
    <2>2. /\ Others(t) /\ \A k \in Mutexes \ {inv} : mutex'[k] = mutex[k]
          /\ mutex'[inv] = [w |-> NoThread, r |-> mutex[inv].r \cup mutex[inv].q, q |-> {}]
      BY <1>0, <1>1, <2>1, UnlockEnters
    <2>3. mutex'[inv].w = NoThread /\ mutex'[inv].r = mutex[inv].r \cup mutex[inv].q /\ mutex'[inv].q = {}
      BY <2>2
    <2>4. ASSUME NEW l \in Mutexes PROVE Tenure(t, l)'
      <3>1. CASE l = inv
        BY <1>0, <1>1, <1>2, <1>6, <2>1, <2>3, <3>1 DEF Tenure
      <3>2. CASE l # inv
        BY <1>0, <1>2, <1>6, <2>1, <2>2, <3>2 DEF Tenure
      <3> QED
        BY <3>1, <3>2
    <2> QED
      BY <2>1, <2>2, <2>4 DEF Holds, Asked
  <1>7. CASE UnlockMethod(t)
    <2>1. pc[t] = "unlock" /\ Unlock(m) /\ pc'[t] \in {"stub", "return"}
      BY <1>2, <1>7, <1>m DEF UnlockMethod, Goes
    <2>2. /\ Others(t) /\ \A k \in Mutexes \ {m} : mutex'[k] = mutex[k]
          /\ mutex'[m] = [w |-> NoThread, r |-> mutex[m].r \cup mutex[m].q, q |-> {}]
      BY <1>0, <1>1, <2>1, UnlockEnters
    <2>3. mutex'[m].w = NoThread /\ mutex'[m].r = mutex[m].r \cup mutex[m].q /\ mutex'[m].q = {}
      BY <2>2
    <2>4. ASSUME NEW l \in Mutexes PROVE Tenure(t, l)'
      <3>1. CASE l = m
        BY <1>0, <1>1, <1>2, <1>m, <2>1, <2>3, <3>1 DEF Tenure
      <3>2. CASE l # m
        BY <1>0, <1>2, <1>m, <2>1, <2>2, <3>2 DEF Tenure
      <3> QED
        BY <3>1, <3>2
    <2> QED
      BY <2>1, <2>2, <2>4 DEF Holds, Asked
  <1>8. CASE Stub(t)
    <2>1. CASE pc[t] = "stub" /\ RLock(t, m) /\ pc'[t] = "stub.count"
      <3>1. t \notin mutex[m].r \cup mutex[m].q
        BY <1>0, <1>1, <2>1 DEF Tenure
      <3>2. /\ Others(t) /\ \A k \in Mutexes \ {m} : mutex'[k] = mutex[k]
            /\ mutex'[m].w = mutex[m].w /\ t \in mutex'[m].r \cup mutex'[m].q
        BY <1>0, <1>1, <2>1, <3>1, RLockEnters
      <3>3. ASSUME NEW l \in Mutexes PROVE Tenure(t, l)'
        BY <1>0, <1>2, <1>m, <2>1, <3>2, <3>3 DEF Tenure
      <3> QED
        BY <1>2, <1>m, <2>1, <3>2, <3>3 DEF Holds, Asked
    <2>2. CASE pc[t] = "stub" /\ mutex' = mutex /\ pc'[t] = "return"
      <3>1. Others(t)
        BY <1>0, <2>2 DEF Others, Sound
      <3>2. ASSUME NEW l \in Mutexes PROVE Tenure(t, l)'
        BY <1>0, <1>2, <1>m, <2>2 DEF Tenure
      <3> QED
        BY <2>2, <3>1, <3>2 DEF Holds, Asked
    <2>3. CASE pc[t] = "stub.count" /\ RLocked(t, m) /\ RUnlock(t, m) /\ pc'[t] = "return"
      <3>1. Others(t) /\ \A k \in Mutexes : /\ mutex'[k].w = mutex[k].w /\ mutex'[k].q = mutex[k].q
                                            /\ mutex'[k].r = IF k = m THEN mutex[k].r \ {t} ELSE mutex[k].r
        BY <1>0, <1>1, <2>3, RUnlockEnters
      <3>2. ASSUME NEW l \in Mutexes PROVE Tenure(t, l)'
        BY <1>0, <1>1, <1>2, <1>m, <2>3, <3>1 DEF Tenure, RLocked, Sound
      <3> QED
        BY <2>3, <3>1, <3>2 DEF Holds, Asked
    <2> QED
      BY <1>2, <1>8, <1>m, <2>1, <2>2, <2>3 DEF Stub, Goes
  <1> QED
    BY <1>3, <1>4, <1>5, <1>6, <1>7, <1>8 DEF Method, RecordInvocation

\* The steps of what a test sets and reads
LEMMA TestHolds ==
  ASSUME HoldInv, NEW t \in Threads, Set(t) \/ Read(t), Moves(t)
  PROVE  Holds(t)
  <1>0. /\ Types /\ Types' /\ Own(t) /\ Methods' = Methods /\ Mutexes' = Mutexes
        /\ \A l \in Mutexes : Sound(l) /\ Tenure(t, l)
    BY DEF HoldInv, DoubleInv, Moves, Methods, Mutexes
  <1>m. PICK m \in Methods : m = op[t].method
    BY <1>0 DEF Own, Set, Read, OfMethod, Writing
  <1>1. m \in Mutexes /\ t # NoThread
    BY <1>m, DoubleAssumption DEF Mutexes
  <1>2. pc \in [Threads -> Places] /\ op \in [Threads -> Ops]
    BY <1>0 DEF Types
  <1> USE DEF AsWriter, AsReader, AsksFor, Writing, Sole, Recording
  <1>3. CASE pc[t] = "Set"
    <2>1. Lock(t, m) /\ pc'[t] = "Set.locked" /\ op' = op
      BY <1>2, <1>3, <1>m DEF Set, Read, Goes
    <2>2. Others(t) /\ \A k \in Mutexes : /\ mutex'[k].r = mutex[k].r /\ mutex'[k].q = mutex[k].q
                                          /\ mutex'[k].w = IF k = m THEN t ELSE mutex[k].w
      BY <1>0, <1>1, <2>1, LockEnters
    <2>3. ASSUME NEW l \in Mutexes PROVE Tenure(t, l)'
      BY <1>0, <1>2, <1>3, <1>m, <2>1, <2>2 DEF Tenure
    <2> QED
      BY <2>1, <2>2, <2>3 DEF Holds, Asked
  <1>4. CASE pc[t] = "Set.locked"
    <2>1. Unlock(m) /\ pc'[t] = "idle"
      BY <1>2, <1>4, <1>m DEF Set, Read, Ends, Goes
    <2>2. /\ Others(t) /\ \A k \in Mutexes \ {m} : mutex'[k] = mutex[k]
          /\ mutex'[m] = [w |-> NoThread, r |-> mutex[m].r \cup mutex[m].q, q |-> {}]
      BY <1>0, <1>1, <2>1, UnlockEnters
    <2>3. mutex'[m].w = NoThread /\ mutex'[m].r = mutex[m].r \cup mutex[m].q /\ mutex'[m].q = {}
      BY <2>2
    <2>4. ASSUME NEW l \in Mutexes PROVE Tenure(t, l)'
      <3>1. CASE l = m
        BY <1>0, <1>1, <1>2, <1>4, <1>m, <2>1, <2>3, <3>1 DEF Tenure
      <3>2. CASE l # m
        BY <1>0, <1>2, <1>4, <1>m, <2>1, <2>2, <3>2 DEF Tenure
      <3> QED
        BY <3>1, <3>2
    <2> QED
      BY <2>1, <2>2, <2>4 DEF Holds, Asked
  <1>5. CASE pc[t] = "Read"
    <2>1. RLock(t, m) /\ pc'[t] = "Read.locked" /\ op' = op
      BY <1>2, <1>5, <1>m DEF Set, Read, Goes
    <2>2. t \notin mutex[m].r \cup mutex[m].q
      BY <1>0, <1>1, <1>5 DEF Tenure
    <2>3. /\ Others(t) /\ \A k \in Mutexes \ {m} : mutex'[k] = mutex[k]
          /\ mutex'[m].w = mutex[m].w /\ t \in mutex'[m].r \cup mutex'[m].q
      BY <1>0, <1>1, <2>1, <2>2, RLockEnters
    <2>4. ASSUME NEW l \in Mutexes PROVE Tenure(t, l)'
      BY <1>0, <1>2, <1>5, <1>m, <2>1, <2>3 DEF Tenure
    <2> QED
      BY <1>m, <2>1, <2>3, <2>4 DEF Holds, Asked
  <1>6. CASE pc[t] = "Read.locked"
    <2>1. RLocked(t, m) /\ RUnlock(t, m) /\ pc'[t] = "idle"
      BY <1>2, <1>6, <1>m DEF Set, Read, Ends, Goes
    <2>2. Others(t) /\ \A k \in Mutexes : /\ mutex'[k].w = mutex[k].w /\ mutex'[k].q = mutex[k].q
                                          /\ mutex'[k].r = IF k = m THEN mutex[k].r \ {t} ELSE mutex[k].r
      BY <1>0, <1>1, <2>1, RUnlockEnters
    <2>3. ASSUME NEW l \in Mutexes PROVE Tenure(t, l)'
      BY <1>0, <1>1, <1>6, <1>m, <2>1, <2>2 DEF Tenure, RLocked, Sound
    <2> QED
      BY <2>1, <2>2, <2>3 DEF Holds, Asked
  <1> QED
    BY <1>3, <1>4, <1>5, <1>6 DEF Set, Read

\* A set of numbers up to n has a greatest element, unless it is empty.
LEMMA GreatestElement ==
  ASSUME NEW n \in Nat, NEW S \in SUBSET (0..n), S # {}
  PROVE  \E x \in S : \A y \in S : y =< x
  <1> DEFINE T == {n - y : y \in S}
  <1>1. T \in SUBSET Nat /\ T # {}
    <2>1. ASSUME NEW y \in S PROVE n - y \in Nat
      <3>1. y \in 0..n
        OBVIOUS
      <3> QED
        BY <3>1, SMT
    <2>2. \E y \in S : n - y \in T
      OBVIOUS
    <2> QED
      BY <2>1, <2>2
  <1>2. PICK z \in T : \A y \in T : ~(<<y, z>> \in OpToRel(<, Nat))
    BY <1>1, NatLessThanWellFounded, WFMin, Zenon
  <1>3. \A y, z1 \in Nat : <<y, z1>> \in OpToRel(<, Nat) <=> y < z1
    BY DEF OpToRel
  <1>4. PICK x \in S : z = n - x
    OBVIOUS
  <1>5. ASSUME NEW y \in S PROVE y =< x
    <2>1. n - y \in T /\ n - y \in Nat /\ z \in Nat
      BY <1>1
    <2>2. ~(n - y < z)
      BY <1>2, <1>3, <2>1
    <2> QED
      BY <1>4, <2>2
  <1> QED
    BY <1>5

\* The steps of Invocations
LEMMA InvocationsHolds ==
  ASSUME HoldInv, NEW t \in Threads, CopyInvocations(t) \/ ReleaseAll(t), Moves(t)
  PROVE  Holds(t)
  <1>0. /\ Types /\ Types' /\ Own(t) /\ Methods' = Methods /\ Mutexes' = Mutexes
        /\ \A l \in Mutexes : Sound(l) /\ Tenure(t, l)
    BY DEF HoldInv, DoubleInv, Moves, Methods, Mutexes
  <1>1. PICK n \in Nat : Mutexes = 0..n
    BY <1>0, Numbered DEF Types
  <1>2. PICK i \in Nat : i = op[t].i
    BY <1>0 DEF Types, Ops
  <1>3. pc \in [Threads -> Places] /\ op \in [Threads -> Ops] /\ t # NoThread
    BY <1>0, DoubleAssumption DEF Types
  <1> USE DEF AsWriter, AsReader, AsksFor, Writing, Sole, Recording
  <1>4. ASSUME pc[t] = "Invocations", i \in Mutexes, RLock(t, i), UNCHANGED pc,
               op' = [op EXCEPT ![t].i = i + 1]
        PROVE  Holds(t)
    <2>1. t \notin mutex[i].r \cup mutex[i].q
      BY <1>0, <1>2, <1>4 DEF Tenure
    <2>2. /\ Others(t) /\ \A k \in Mutexes \ {i} : mutex'[k] = mutex[k]
          /\ mutex'[i].w = mutex[i].w /\ t \in mutex'[i].r \cup mutex'[i].q
      BY <1>0, <1>4, <2>1, RLockEnters
    <2>3. op'[t].i = i + 1
      <3>1. op[t] \in Ops
        BY <1>3
      <3> QED
        BY <1>3, <1>4, <3>1 DEF Ops
    <2>4. ASSUME NEW l \in Mutexes PROVE Tenure(t, l)'
      <3>1. CASE l = i
        BY <1>0, <1>1, <1>2, <1>4, <2>2, <2>3, <3>1 DEF Tenure
      <3>2. CASE l # i
        <4>1. l < i => l < i + 1
          BY <1>1
        <4> QED
          BY <1>0, <1>2, <1>4, <2>2, <2>3, <3>2, <4>1 DEF Tenure
      <3> QED
        BY <3>1, <3>2
    <2>5. i + 1 - 1 = i
      OBVIOUS
    <2> QED
      BY <1>4, <2>2, <2>3, <2>4, <2>5 DEF Holds, Asked
  <1>5. ASSUME pc[t] = "Invocations", i \notin Mutexes, i > 0 => RLocked(t, i - 1), mutex' = mutex,
               pc'[t] = "Invocations.copied"
        PROVE  Holds(t)
    <2>1. Others(t)
      BY <1>0, <1>5 DEF Others, Sound
    <2>2. \A l \in Mutexes : l < i => t \in mutex[l].r
      BY <1>0, <1>2, <1>5, CopyHoldsAll
    <2>3. ASSUME NEW l \in Mutexes PROVE Tenure(t, l)'
      BY <1>0, <1>2, <1>3, <1>5, <2>2 DEF Tenure, Sound
    <2> QED
      BY <1>5, <2>1, <2>3 DEF Holds, Asked
  <1>6. CASE ReleaseAll(t)
    <2> DEFINE held == {l \in Mutexes : t \in mutex[l].r}
    <2>l. PICK l : l = CHOOSE k \in held : \A j \in held : j =< k
      OBVIOUS
    <2>1. /\ pc[t] = "Invocations.copied" /\ RUnlock(t, l)
          /\ IF l = inv THEN Ends(t) ELSE UNCHANGED <<pc, op>>
      BY <1>6, <2>l DEF ReleaseAll
    <2>2. Others(t) /\ \A k \in Mutexes : /\ mutex'[k].w = mutex[k].w /\ mutex'[k].q = mutex[k].q
                                          /\ mutex'[k].r = IF k = l THEN mutex[k].r \ {t} ELSE mutex[k].r
      BY <1>0, <2>1, RUnlockEnters
    <2>3. CASE l # inv
      <3>1. ASSUME NEW k \in Mutexes PROVE Tenure(t, k)'
        BY <1>0, <2>1, <2>2, <2>3 DEF Tenure
      <3> QED
        BY <2>1, <2>2, <2>3, <3>1 DEF Holds, Asked
    <2>4. CASE l = inv
      <3>1. ASSUME NEW k \in Mutexes, t \in mutex[k].r PROVE k = inv
        <4>1. PICK x \in held : \A y \in held : y =< x
          BY <1>1, <3>1, GreatestElement
        <4>2. l \in held /\ \A y \in held : y =< l
          BY <2>l, <4>1
        <4>3. k =< 0 /\ k \in 0..n
          BY <1>1, <2>4, <3>1, <4>2 DEF inv
        <4> QED
          BY <4>3 DEF inv
      <3>2. pc'[t] = "idle"
        BY <1>3, <2>1, <2>4 DEF Ends, Goes
      <3>3. ASSUME NEW k \in Mutexes PROVE Tenure(t, k)'
        BY <1>0, <1>3, <2>1, <2>2, <2>4, <3>1, <3>2 DEF Tenure
      <3> QED
        BY <2>2, <3>2, <3>3 DEF Holds, Asked
    <2> QED
      BY <2>3, <2>4
  <1>7. CASE CopyInvocations(t)
    BY <1>2, <1>3, <1>4, <1>5, <1>7 DEF CopyInvocations, Goes
  <1> QED
    BY <1>6, <1>7

\* The beginning and the end of an operation
LEMMA BeginHolds ==
  ASSUME HoldInv, NEW t \in Threads, Begin(t) \/ Return(t), Moves(t)
  PROVE  Holds(t)
  <1>0. /\ Types /\ Types' /\ Methods' = Methods /\ Mutexes' = Mutexes
        /\ \A l \in Mutexes : Sound(l) /\ Tenure(t, l)
    BY DEF HoldInv, DoubleInv, Moves, Methods, Mutexes
  <1>1. pc \in [Threads -> Places] /\ op \in [Threads -> Ops] /\ t # NoThread
    BY <1>0, DoubleAssumption DEF Types
  <1>2. mutex' = mutex /\ pc[t] \in {"idle", "return"}
    BY DEF Begin, Return
  <1>3. /\ pc'[t] \in {"idle", "Set", "Read", "Method", "Invocations"}
        /\ pc'[t] = "Invocations" => op'[t].i = 0
    <2>1. CASE Return(t)
      BY <1>1, <2>1 DEF Return, Ends, Goes
    <2>2. CASE Begin(t)
      <3>1. PICK o \in {o \in Operations : Sensible(o)} \cup {Invocations} :
              /\ op' = [op EXCEPT ![t] = o]
              /\ \/ o.kind \in Setters /\ Goes(t, "Set")
                 \/ o.kind \in Readers /\ Goes(t, "Read")
                 \/ o.kind \in {"Method", "Invocations"} /\ Goes(t, o.kind)
        BY <2>2 DEF Begin
      <3>2. o.kind = "Invocations" => o.i = 0
        BY DEF Operations, Invocations, Setters, Readers
      <3> QED
        BY <1>1, <3>1, <3>2 DEF Goes, Setters, Readers
    <2> QED
      BY <2>1, <2>2
  <1>4. Others(t)
    BY <1>0, <1>2 DEF Others, Sound
  <1>5. ASSUME NEW l \in Mutexes PROVE Tenure(t, l)'
    BY <1>0, <1>2 DEF Tenure, AsWriter, AsReader, AsksFor, Writing, Sole, Recording
  <1>6. Asked(t)'
    <2>1. ~(0 > 0)
      OBVIOUS
    <2> QED
      BY <1>3, <2>1 DEF Asked
  <1> QED
    BY <1>0, <1>4, <1>5, <1>6 DEF Holds

\* Every step keeps HoldInv.
LEMMA HoldStep ==
  ASSUME HoldInv, [Next]_vars
  PROVE  HoldInv'
  <1>0. DoubleInv /\ DoubleInv'
    BY DoubleStep DEF HoldInv
  <1>1. CASE UNCHANGED vars
    <2>1. UNCHANGED <<double, mutex, pc, op>>
      BY <1>1 DEF vars
    <2>2. Methods' = Methods /\ Mutexes' = Mutexes
      BY <2>1 DEF Methods, Mutexes
    <2>3. \A u \in Threads : Asked(u)'
      BY <2>1 DEF HoldInv, Asked
    <2>4. \A l \in Mutexes' : Sound(l)' /\ \A u \in Threads : Tenure(u, l)'
      BY <2>1, <2>2 DEF HoldInv, Sound, Tenure, AsWriter, AsReader, AsksFor
    <2> QED
      BY <1>0, <2>3, <2>4 DEF HoldInv
  <1>2. CASE Next
    <2>1. PICK t \in Threads : Moves(t) /\ (Begin(t) \/ Step(t))
      BY <1>0, <1>2, NextMoves
    <2>2. Holds(t)
      BY <2>1, MethodHolds, TestHolds, InvocationsHolds, BeginHolds DEF Step
    <2>3. /\ Types /\ Alone(t) /\ Mutexes' = Mutexes /\ Methods \subseteq Mutexes
          /\ \A u \in Threads : Own(u) /\ Asked(u) /\ \A l \in Mutexes : Tenure(u, l)
      BY <1>0, <2>1 DEF HoldInv, DoubleInv, Moves, Mutexes, Methods
    <2>4. ASSUME NEW l \in Mutexes, NEW u \in Threads PROVE Tenure(u, l)'
      <3>1. CASE u = t
        BY <2>2, <3>1 DEF Holds
      <3>2. CASE u # t
        <4>1. pc'[u] = pc[u] /\ op'[u] = op[u] /\ u # NoThread
          BY <2>3, <3>2, DoubleAssumption DEF Alone
        <4>2. /\ mutex'[l].w = u => mutex[l].w = u
              /\ u \in mutex'[l].r => u \in mutex[l].r \cup mutex[l].q
              /\ u \in mutex'[l].q => u \in mutex[l].q
          BY <2>2, <3>2, <4>1 DEF Holds, Others
        <4> QED
          BY <2>3, <4>1, <4>2 DEF Tenure, AsWriter, AsReader, AsksFor
      <3> QED
        BY <3>1, <3>2
    <2>5. ASSUME NEW u \in Threads PROVE Asked(u)'
      <3>1. CASE u = t
        BY <2>2, <3>1 DEF Holds
      <3>2. CASE u # t
        <4>1. pc'[u] = pc[u] /\ op'[u] = op[u]
          BY <2>3, <3>2 DEF Alone
        <4>2. \A l \in Mutexes : u \in mutex[l].r \cup mutex[l].q => u \in mutex'[l].r \cup mutex'[l].q
          BY <2>2, <3>2 DEF Holds, Others
        <4>3. pc[u] \in {"stub.count", "Read.locked"} => op[u].method \in Mutexes
          BY <2>3 DEF Own, OfMethod
        <4>4. pc[u] = "Invocations" /\ op[u].i > 0 => op[u].i - 1 \in Mutexes
          <5>1. ~(0 > 0)
            OBVIOUS
          <5> QED
            BY <2>3, <5>1 DEF Own
        <4> QED
          BY <2>3, <4>1, <4>2, <4>3, <4>4 DEF Asked
      <3> QED
        BY <3>1, <3>2
    <2> QED
      BY <1>0, <2>2, <2>3, <2>4, <2>5 DEF HoldInv, Holds, Others
  <1> QED
    BY <1>1, <1>2

\* At first nobody is entered anywhere.
LEMMA HoldInit == Init => HoldInv
  <1> SUFFICES ASSUME Init PROVE HoldInv
    OBVIOUS
  <1>1. \A l \in Mutexes : mutex[l].w = NoThread /\ mutex[l].r = {} /\ mutex[l].q = {}
    BY DEF Init
  <1>2. \A u \in Threads : pc[u] = "idle" /\ u # NoThread
    BY DoubleAssumption DEF Init
  <1> QED
    BY <1>1, <1>2, DoubleInit DEF HoldInv, Asked, Sound, Tenure


-----------------------------------------------------------------------------
(* Who waits for whom                                                      *)

Stuck == (\E t \in Threads : Busy(t)) /\ (\A t \in Threads : Busy(t) => Waits(t))

\* The calls of Invocations that have invocationsMutex
Collecting == {u \in Threads : pc[u] = "Invocations" /\ RLocked(u, inv)}

\* When everyone waits, a reader is an Invocations that waits further on.
LEMMA ReadersCollect ==
  ASSUME HoldInv, Stuck, NEW l \in Mutexes, NEW x \in mutex[l].r
  PROVE  x \in Collecting /\ l + 1 < op[x].i
  <1>1. Types /\ l \in Nat /\ inv \in Mutexes
    <2>1. Types
      BY DEF HoldInv, DoubleInv
    <2>2. PICK n \in Nat : Mutexes = 0..n
      BY <2>1, Numbered DEF Types
    <2> QED
      BY <2>1, <2>2 DEF inv
  <1>2. x \in Threads /\ op[x].i \in Nat
    BY <1>1 DEF Types, RWMutex, Ops
  <1>3. AsReader(x, l) /\ Own(x)
    BY <1>2 DEF HoldInv, DoubleInv, Tenure
  <1>4. pc[x] # "idle" => Waits(x)
    BY <1>2 DEF Stuck, Busy
  <1>5. AsksFor(x, l)
    BY <1>3, <1>4 DEF AsReader, Waits
  <1>6. pc[x] = "Invocations" /\ l < op[x].i
    BY <1>4, <1>5 DEF AsksFor, Waits, RLocked
  <1>7. op[x].i - 1 # l
    BY <1>1, <1>2, <1>4, <1>6 DEF Waits, RLocked
  <1>8. l + 1 < op[x].i /\ 0 + 1 < op[x].i
    BY <1>1, <1>2, <1>6, <1>7
  <1> QED
    BY <1>1, <1>2, <1>3, <1>6, <1>8 DEF Own, Collecting, RLocked, inv

\* When everyone waits, the writer of a mutex waits for its readers, or is a
\* method that waits for invocationsMutex.
LEMMA WritersWait ==
  ASSUME HoldInv, Stuck, NEW l \in Mutexes, mutex[l].w # NoThread
  PROVE  \/ mutex[l].r # {}
         \/ /\ l # inv
            /\ \E v \in Threads : pc[v] \in {"record", "record.locked"} /\ op[v].method = l
  <1>1. mutex[l].w \in Threads
    BY DEF HoldInv, DoubleInv, Types, RWMutex
  <1>2. PICK v \in Threads : v = mutex[l].w
    BY <1>1
  <1>3. AsWriter(v, l) /\ Own(v)
    BY <1>2 DEF HoldInv, DoubleInv, Tenure
  <1>4. pc[v] # "idle" => Waits(v)
    BY DEF Stuck, Busy
  <1>5. CASE pc[v] = "record.locked" /\ l = inv
    BY <1>4, <1>5 DEF Waits, Locked
  <1>6. CASE pc[v] \in Writing /\ op[v].method = l
    <2>1. l \in Methods
      BY <1>3, <1>6 DEF Own, OfMethod
    <2>2. l # inv
      <3>1. PICK n \in Nat : Methods = 1..n
        BY Numbered DEF HoldInv, DoubleInv, Types
      <3> QED
        BY <2>1, <3>1 DEF inv
    <2>3. CASE pc[v] \in {"Method.locked", "Set.locked"}
      BY <1>4, <1>6, <2>3 DEF Waits, Locked
    <2>4. CASE pc[v] = "unlock"
      BY <1>4, <2>4 DEF Waits
    <2> QED
      BY <1>6, <2>2, <2>3, <2>4 DEF Writing, Sole, Recording
  <1> QED
    BY <1>3, <1>5, <1>6 DEF AsWriter

\* When everyone waits, there is an Invocations that has invocationsMutex: with
\* no reader anywhere a writer could go on, and with no writer everyone.
LEMMA SomeoneCollects ==
  ASSUME HoldInv, Stuck
  PROVE  Collecting # {}
  <1> SUFFICES ASSUME Collecting = {} PROVE FALSE
    OBVIOUS
  <1>0. Types /\ inv \in Mutexes /\ Methods \subseteq Mutexes
    BY DEF HoldInv, DoubleInv, Mutexes
  <1>1. \A l \in Mutexes : mutex[l].r = {}
    BY ReadersCollect
  <1>2. mutex[inv].w = NoThread
    BY <1>0, <1>1, WritersWait
  <1>3. ASSUME NEW l \in Mutexes PROVE mutex[l].w = NoThread
    <2> SUFFICES ASSUME mutex[l].w # NoThread PROVE FALSE
      OBVIOUS
    <2>1. PICK v \in Threads : pc[v] \in {"record", "record.locked"}
      BY <1>1, WritersWait
    <2>2. Waits(v)
      BY <2>1 DEF Stuck, Busy
    <2> QED
      BY <1>0, <1>1, <1>2, <2>1, <2>2 DEF Waits, Locked
  <1>4. \A l \in Mutexes : mutex[l].q = {}
    BY <1>3 DEF HoldInv, Sound
  <1>5. PICK t \in Threads : Busy(t) /\ Waits(t)
    BY DEF Stuck
  <1>6. Own(t) /\ Asked(t)
    BY DEF HoldInv, DoubleInv
  <1>7. CASE pc[t] \in OfMethod
    <2>1. op[t].method \in Mutexes
      BY <1>0, <1>6, <1>7 DEF Own
    <2>2. pc[t] \notin {"stub.count", "Read.locked"}
      BY <1>1, <1>4, <1>6, <2>1 DEF Asked
    <2>3. pc[t] # "Invocations"
      BY <1>7 DEF OfMethod, Writing, Sole, Recording
    <2> QED
      BY <1>0, <1>1, <1>3, <1>5, <2>1, <2>2, <2>3 DEF Waits, Locked
  <1>8. CASE pc[t] = "Invocations"
    <2>1. op[t].i > 0
      BY <1>5, <1>8 DEF Waits
    <2>2. op[t].i # 0
      BY <2>1
    <2>3. op[t].i - 1 \in Mutexes
      BY <1>6, <1>8, <2>2 DEF Own
    <2> QED
      BY <1>1, <1>4, <1>6, <1>8, <2>1, <2>3 DEF Asked
  <1>9. CASE pc[t] = "Invocations.copied"
    BY <1>5, <1>9 DEF Waits
  <1> QED
    BY <1>0, <1>5, <1>7, <1>8, <1>9 DEF Types, Places, Busy

\* The Invocations that has got furthest waits for a method that cannot be waiting
\* for readers, as those would have got further still.
LEMMA FurthestWaitsForMethod == HoldInv => OnlyInvocationsBlocks
  <1> SUFFICES ASSUME HoldInv, Stuck
               PROVE  \E t, u \in Threads :
                        /\ pc[t] = "Invocations" /\ RLocked(t, inv)
                        /\ pc[u] \in {"record", "record.locked"} /\ op[u].method = op[t].i - 1
    BY DEF OnlyInvocationsBlocks, Stuck
  <1>0. Types /\ inv \in Mutexes
    BY DEF HoldInv, DoubleInv, Mutexes
  <1>1. PICK n \in Nat : Mutexes = 0..n
    BY <1>0, Numbered DEF Types
  <1> DEFINE S == {op[u].i : u \in Collecting}
  <1>2. S \in SUBSET (0..(n + 1))
    <2>1. ASSUME NEW u \in Collecting PROVE op[u].i \in 0..(n + 1)
      <3>1. u \in Threads /\ Own(u) /\ pc[u] = "Invocations"
        BY DEF Collecting, HoldInv, DoubleInv
      <3>2. op[u].i \in Nat
        BY <1>0, <3>1 DEF Types, Ops
      <3>3. op[u].i = 0 \/ op[u].i - 1 \in 0..n
        BY <1>1, <3>1 DEF Own
      <3> QED
        BY <3>2, <3>3
    <2> QED
      BY <2>1
  <1>3. S # {}
    BY SomeoneCollects
  <1>4. PICK x \in S : \A y \in S : y =< x
    <2> HIDE DEF S
    <2>1. n + 1 \in Nat
      OBVIOUS
    <2> QED
      BY <1>2, <1>3, <2>1, GreatestElement
  <1>5. PICK t \in Collecting : x = op[t].i
    OBVIOUS
  <1>6. t \in Threads /\ pc[t] = "Invocations" /\ t \in mutex[inv].r
    BY DEF Collecting, RLocked
  <1>7. /\ Own(t) /\ Asked(t) /\ Waits(t) /\ op[t].i \in Nat
    BY <1>0, <1>6 DEF HoldInv, DoubleInv, Stuck, Busy, Types, Ops
  <1>8. op[t].i > 0 /\ t \notin mutex[op[t].i - 1].r
    BY <1>6, <1>7 DEF Waits, RLocked
  <1>9. PICK k \in Mutexes : k = op[t].i - 1
    BY <1>6, <1>7, <1>8 DEF Own
  <1>10. k \in Nat /\ k + 1 = op[t].i
    BY <1>1, <1>7, <1>9
  <1>11. t \in mutex[k].q
    BY <1>6, <1>7, <1>8, <1>9 DEF Asked
  <1>12. mutex[k].w # NoThread
    BY <1>11 DEF HoldInv, Sound
  <1>13. ASSUME NEW y \in mutex[k].r PROVE FALSE
    <2>1. y \in Collecting /\ k + 1 < op[y].i
      BY ReadersCollect
    <2>2. op[y].i \in S /\ op[y].i \in Nat
      BY <1>2, <2>1
    <2> QED
      BY <1>4, <1>5, <1>10, <2>1, <2>2
  <1>14. PICK v \in Threads : pc[v] \in {"record", "record.locked"} /\ op[v].method = k
    BY <1>12, <1>13, WritersWait
  <1> QED
    BY <1>6, <1>9, <1>14 DEF RLocked

\* Goroutines that use a double block each other only when one of them is in
\* Invocations with invocationsMutex, and another in the method whose mutex it
\* has come to: no other operation, nor a stub that asks the double, can do it.
THEOREM BlockedByInvocations == Spec => []OnlyInvocationsBlocks
  <1>1. HoldInv /\ [Next]_vars => HoldInv'
    BY HoldStep
  <1> QED
    BY <1>1, HoldInit, FurthestWaitsForMethod, PTL DEF Spec
=============================================================================

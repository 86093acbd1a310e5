------------------------ MODULE PortAllocatorProofs ------------------------
(***************************************************************************)
(* Theorems about PortAllocator, for any number of processes, handles and  *)
(* ports and any mix of faults.                                            *)
(***************************************************************************)
EXTENDS PortAllocator, TLAPS

-----------------------------------------------------------------------------
(* The operators                                                           *)

\* The remainder that stands for uint16 arithmetic leaves small numbers alone.
LEMMA SmallIsUnchanged ==
  \A w \in Nat \ {0} : \A n \in 0..(w - 1) : n % w = n
OBVIOUS

\* There are finitely many uint16 values, and at least one.
LEMMA WordIsNat == Word16 \in Nat \ {0}
BY DEF Word16

\* The uint16 arithmetic does not wrap for a range that ends below 65536: the
\* candidates of AcquireOne are exactly the ports that InRange accepts.
LEMMA RangeIsExact ==
  /\ \A i \in 0..(Capacity - 1) : CandidatePort(i) = StartPort + i
  /\ Ports = StartPort..(StartPort + Capacity - 1)
  /\ \A n \in 1..(Word16 - 1) : InRange(n) <=> n \in Ports
<1>0. StartPort \in Nat /\ Capacity \in Nat /\ StartPort + Capacity < Word16
  BY ConstAssumption
<1>1. ASSUME NEW i \in 0..(Capacity - 1) PROVE CandidatePort(i) = StartPort + i
  <2>1. StartPort + i \in 0..(Word16 - 1)
    BY <1>0, <1>1, WordIsNat
  <2> QED
    BY <2>1, SmallIsUnchanged, WordIsNat DEF CandidatePort
<1>2. Ports = StartPort..(StartPort + Capacity - 1)
  <2>1. ASSUME NEW n \in Ports PROVE n \in StartPort..(StartPort + Capacity - 1)
    <3>1. PICK i \in 0..(Capacity - 1) : n = CandidatePort(i)
      BY <2>1 DEF Ports
    <3> QED
      BY <3>1, <1>1, ConstAssumption
  <2>2. ASSUME NEW n \in StartPort..(StartPort + Capacity - 1) PROVE n \in Ports
    <3>1. n - StartPort \in 0..(Capacity - 1)
      BY ConstAssumption
    <3>2. CandidatePort(n - StartPort) = n
      BY <3>1, <1>1, ConstAssumption
    <3> QED
      BY <3>1, <3>2 DEF Ports
  <2> QED
    BY <2>1, <2>2
<1>3. ASSUME NEW n \in 1..(Word16 - 1) PROVE InRange(n) <=> n \in Ports
  <2>1. (StartPort + Capacity) % Word16 = StartPort + Capacity
    <3>1. StartPort + Capacity \in 0..(Word16 - 1)
      BY <1>0, WordIsNat
    <3> QED
      BY <3>1, SmallIsUnchanged, WordIsNat
  <2>2. n \in Nat /\ StartPort \in Nat /\ Capacity \in Nat
    BY <1>0, WordIsNat
  <2>3. n \in Ports <=> n >= StartPort /\ n < StartPort + Capacity
    BY <1>2, <2>2
  <2> QED
    BY <2>1, <2>3 DEF InRange
<1> QED
  BY <1>1, <1>2, <1>3

\* The lists that MarshalJSON writes never name a port twice.
LEMMA MarshalIsDisjoint ==
  ASSUME NEW q \in Pools
  PROVE  Marshal(q) \in Lists /\ Disjoint(Marshal(q))
BY DEF Marshal, Lists, Disjoint, Pools

\* Decoding lists that name no port twice and encoding the result gives the
\* lists back: MarshalJSON and UnmarshalJSON lose nothing.
LEMMA RoundTrip ==
  ASSUME NEW lists \in Lists, Disjoint(lists),
         NEW q \in Pools, Unmarshals(lists, q)
  PROVE  Marshal(q) = lists
<1>1. ASSUME NEW h \in Handles PROVE Marshal(q)[h] = lists[h]
  <2>1. ASSUME NEW n \in Ports, q[n] = h PROVE n \in lists[h]
    BY <2>1, ConstAssumption DEF Unmarshals
  <2>2. ASSUME NEW n \in lists[h] PROVE q[n] = h
    <3>1. n \in Ports
      BY <2>2 DEF Lists
    <3>2. q[n] # NoHandle
      BY <3>1, <2>2 DEF Unmarshals
    <3>3. q[n] \in Handles /\ n \in lists[q[n]]
      BY <3>1, <3>2 DEF Unmarshals, Pools
    <3> QED
      BY <3>3, <2>2 DEF Disjoint
  <2>3. lists[h] \subseteq Ports
    BY DEF Lists
  <2> QED
    BY <2>1, <2>2, <2>3 DEF Marshal
<1> QED
  BY <1>1 DEF Marshal, Lists

\* Recording a free port in the Pool adds it to the handle's list.
LEMMA AcquireAddsPort ==
  ASSUME NEW q \in Pools, NEW n \in Ports, q[n] = NoHandle, NEW h \in Handles
  PROVE  /\ [q EXCEPT ![n] = h] \in Pools
         /\ \A g \in Handles : n \notin Marshal(q)[g]
         /\ Marshal([q EXCEPT ![n] = h]) = [Marshal(q) EXCEPT ![h] = @ \cup {n}]
<1>1. [q EXCEPT ![n] = h] \in Pools
  BY DEF Pools
<1>2. \A g \in Handles : n \notin Marshal(q)[g]
  BY ConstAssumption DEF Marshal
<1>3. ASSUME NEW g \in Handles
      PROVE  Marshal([q EXCEPT ![n] = h])[g]
               = [Marshal(q) EXCEPT ![h] = @ \cup {n}][g]
  BY ConstAssumption DEF Marshal, Pools
<1> QED
  BY <1>1, <1>2, <1>3 DEF Marshal

\* ReleaseAll empties the list of its handle and no other list.
LEMMA ReleaseEmptiesList ==
  ASSUME NEW q \in Pools, NEW h \in Handles
  PROVE  /\ ReleaseAll(q, h) \in Pools
         /\ Marshal(ReleaseAll(q, h)) = [Marshal(q) EXCEPT ![h] = {}]
<1>1. ReleaseAll(q, h) \in Pools
  BY DEF ReleaseAll, Pools
<1>2. ASSUME NEW g \in Handles
      PROVE  Marshal(ReleaseAll(q, h))[g] = [Marshal(q) EXCEPT ![h] = {}][g]
  BY ConstAssumption DEF Marshal, ReleaseAll, Pools
<1> QED
  BY <1>1, <1>2 DEF Marshal

-----------------------------------------------------------------------------
(* Types                                                                   *)

\* The lists of an empty state file are lists.
LEMMA NoPortsIsLists == NoPorts \in Lists
BY DEF NoPorts, Lists

\* The initial state is typed.
LEMMA TypesInit == Init => TypeOK
<1> SUFFICES ASSUME Init PROVE TypeOK
  OBVIOUS
<1>1. file \in [whole : BOOLEAN, lists : Lists]
  BY NoPortsIsLists DEF Init
<1>2. told \in [Handles -> SUBSET (Ports \cup HostPorts \cup {0})]
  BY DEF Init, NoPorts
<1>3. pool \in [Procs -> Pools]
  BY DEF Init, EmptyPool, Pools
<1>4. call \in [Procs -> [op : {"allocate", "release"},
                         handle : Handles \cup {NoHandle},
                         port : Ports \cup {0}, ok : BOOLEAN]]
  BY DEF Init, NoCall, NewCall
<1> QED
  BY <1>1, <1>2, <1>3, <1>4 DEF Init, TypeOK

\* Returning to the caller keeps the locals typed.
LEMMA TypesReturn ==
  ASSUME TypeOK, NEW p \in Procs, Return(p)
  PROVE  /\ pc' \in [Procs -> {"idle", "open"} \cup Locked]
         /\ call' \in [Procs -> [op : {"allocate", "release"},
                                 handle : Handles \cup {NoHandle},
                                 port : Ports \cup {0}, ok : BOOLEAN]]
         /\ pool' \in [Procs -> Pools]
BY DEF TypeOK, Return, NoCall, NewCall, EmptyPool, Pools

\* Every step keeps the variables typed.
LEMMA TypesNext == TypeOK /\ [Next]_vars => TypeOK'
<1> SUFFICES ASSUME TypeOK, [Next]_vars PROVE TypeOK'
  OBVIOUS
<1>1. CASE UNCHANGED vars
  BY <1>1 DEF TypeOK, vars
<1>2. ASSUME NEW p \in Procs, BeginAllocate(p) PROVE TypeOK'
  BY <1>2 DEF BeginAllocate, MayCall, NewCall, TypeOK
<1>3. ASSUME NEW p \in Procs, AllocateGiven(p) PROVE TypeOK'
  BY <1>3 DEF AllocateGiven, MayCall, TypeOK
<1>4. ASSUME NEW p \in Procs, BeginRelease(p) PROVE TypeOK'
  BY <1>4 DEF BeginRelease, MayCall, NewCall, TypeOK
<1>5. ASSUME NEW p \in Procs, Open(p) PROVE TypeOK'
  BY <1>5 DEF Open, TypeOK, Locked
<1>6. ASSUME NEW p \in Procs, OpenFails(p) PROVE TypeOK'
  BY <1>6, TypesReturn DEF OpenFails, TypeOK
<1>7. ASSUME NEW p \in Procs, DecodeAll(p) PROVE TypeOK'
  BY <1>7 DEF DecodeAll, TypeOK, Locked
<1>8. ASSUME NEW p \in Procs,
             DecodeFails(p) \/ PoolExhausted(p) \/ TruncateFails(p)
      PROVE  TypeOK'
  BY <1>8 DEF DecodeFails, PoolExhausted, TruncateFails, TypeOK, Locked
<1>9. ASSUME NEW p \in Procs, AcquireOne(p) PROVE TypeOK'
  <2>1. PICK i \in 0..(Capacity - 1) :
          /\ pool' = [pool EXCEPT ![p][CandidatePort(i)] = call[p].handle]
          /\ call' = [call EXCEPT ![p].port = CandidatePort(i)]
    BY <1>9 DEF AcquireOne
  <2>2. CandidatePort(i) \in Ports
    BY DEF Ports
  <2>3. pool' \in [Procs -> Pools]
    BY <2>1, <2>2 DEF TypeOK, Pools
  <2> QED
    BY <1>9, <2>1, <2>2, <2>3 DEF AcquireOne, TypeOK, Locked
<1>10. ASSUME NEW p \in Procs, ReleaseHandle(p) PROVE TypeOK'
  <2>1. pool' \in [Procs -> Pools]
    BY <1>10 DEF ReleaseHandle, ReleaseAll, TypeOK, Pools
  <2> QED
    BY <1>10, <2>1 DEF ReleaseHandle, TypeOK, Locked
<1>11. ASSUME NEW p \in Procs, Truncate(p) PROVE TypeOK'
  BY <1>11 DEF Truncate, NoPorts, Lists, TypeOK, Locked
<1>12. ASSUME NEW p \in Procs, Encode(p) PROVE TypeOK'
  <2>1. Marshal(pool[p]) \in Lists
    BY MarshalIsDisjoint DEF TypeOK
  <2> QED
    BY <1>12, <2>1 DEF Encode, TypeOK, Locked
<1>13. ASSUME NEW p \in Procs, EncodeFails(p) PROVE TypeOK'
  BY <1>13 DEF EncodeFails, CutFile, NoPorts, Lists, TypeOK, Locked
<1>14. ASSUME NEW p \in Procs, Close(p) PROVE TypeOK'
  <2>1. told' \in [Handles -> SUBSET (Ports \cup HostPorts \cup {0})]
    <3>1. call[p].port \in Ports \cup {0}
      BY DEF TypeOK
    <3>2. told \in [Handles -> SUBSET (Ports \cup HostPorts \cup {0})]
      BY DEF TypeOK
    <3>3. \/ told' = told
          \/ told' = [told EXCEPT ![call[p].handle] = @ \cup {call[p].port}]
      BY <1>14 DEF Close
    <3> QED
      BY <3>1, <3>2, <3>3
  <2> QED
    BY <1>14, <2>1, TypesReturn DEF Close, TypeOK
<1>15. ASSUME NEW p \in Procs, Crash(p) PROVE TypeOK'
  <2>1. file' \in [whole : BOOLEAN, lists : Lists] /\ lost' \in BOOLEAN
    <3>1. \/ UNCHANGED <<file, lost>>
          \/ lost' = TRUE /\ \E w \in BOOLEAN :
                                file' = [whole |-> w, lists |-> NoPorts]
      BY <1>15 DEF Crash, CutFile
    <3>2. CASE UNCHANGED <<file, lost>>
      BY <3>2 DEF TypeOK
    <3>3. ASSUME NEW w \in BOOLEAN, file' = [whole |-> w, lists |-> NoPorts]
          PROVE  file' \in [whole : BOOLEAN, lists : Lists]
      BY <3>3, NoPortsIsLists
    <3> QED
      BY <3>1, <3>2, <3>3
  <2> QED
    BY <1>15, <2>1, TypesReturn DEF Crash, TypeOK
<1> QED
  BY <1>1, <1>2, <1>3, <1>4, <1>5, <1>6, <1>7, <1>8, <1>9, <1>10, <1>11,
     <1>12, <1>13, <1>14, <1>15 DEF Next, Step

\* The variables keep their types on every behaviour: only ports of the
\* Tracker's range reach a Pool or the state file.
THEOREM AllocatorTypes == Spec => []TypeOK
BY TypesInit, TypesNext, PTL DEF Spec

-----------------------------------------------------------------------------
(* The inductive invariant                                                 *)

\* Every step keeps the file locked by exactly the process between Open and
\* Close.
LEMMA LockNext ==
  ASSUME TypeOK, LockMatchesPc, [Next]_vars
  PROVE  LockMatchesPc'
<1> USE DEF LockMatchesPc, TypeOK, Locked
<1>1. CASE UNCHANGED vars
  BY <1>1 DEF vars
<1>2. ASSUME NEW p \in Procs,
             BeginAllocate(p) \/ AllocateGiven(p) \/ BeginRelease(p)
      PROVE  LockMatchesPc'
  BY <1>2 DEF BeginAllocate, AllocateGiven, BeginRelease, MayCall
<1>3. ASSUME NEW p \in Procs, Open(p) PROVE LockMatchesPc'
  BY <1>3, ConstAssumption DEF Open
<1>4. ASSUME NEW p \in Procs, OpenFails(p) PROVE LockMatchesPc'
  BY <1>4 DEF OpenFails, Return
<1>5. ASSUME NEW p \in Procs,
             \/ DecodeAll(p) \/ DecodeFails(p) \/ AcquireOne(p)
             \/ PoolExhausted(p) \/ ReleaseHandle(p) \/ Truncate(p)
             \/ TruncateFails(p) \/ Encode(p) \/ EncodeFails(p)
      PROVE  LockMatchesPc'
  <2>1. /\ pc[p] \in Locked
        /\ \E l \in Locked : pc' = [pc EXCEPT ![p] = l]
        /\ holder' = holder
    BY <1>5 DEF DecodeAll, DecodeFails, AcquireOne, PoolExhausted,
                ReleaseHandle, Truncate, TruncateFails, Encode, EncodeFails
  <2> QED
    BY <2>1
<1>6. ASSUME NEW p \in Procs, Close(p) PROVE LockMatchesPc'
  BY <1>6, ConstAssumption DEF Close, Return
<1>7. ASSUME NEW p \in Procs, Crash(p) PROVE LockMatchesPc'
  BY <1>7, ConstAssumption DEF Crash, Return
<1> QED
  BY <1>1, <1>2, <1>3, <1>4, <1>5, <1>6, <1>7 DEF Next, Step

\* Every step keeps calls in progress sane.
LEMMA CallsNext ==
  ASSUME TypeOK, CallsAreSane, [Next]_vars
  PROVE  CallsAreSane'
<1> USE DEF CallsAreSane, TypeOK
<1>1. CASE UNCHANGED vars
  BY <1>1 DEF vars
<1>2. ASSUME NEW p \in Procs,
             BeginAllocate(p) \/ AllocateGiven(p) \/ BeginRelease(p)
      PROVE  CallsAreSane'
  BY <1>2 DEF BeginAllocate, AllocateGiven, BeginRelease, MayCall, NewCall
<1>3. ASSUME NEW p \in Procs, OpenFails(p) \/ Close(p) \/ Crash(p)
      PROVE  CallsAreSane'
  BY <1>3 DEF OpenFails, Close, Crash, Return, NoCall, NewCall
<1>4. ASSUME NEW p \in Procs,
             \/ Open(p) \/ DecodeAll(p) \/ DecodeFails(p) \/ PoolExhausted(p)
             \/ ReleaseHandle(p) \/ Truncate(p) \/ TruncateFails(p)
             \/ EncodeFails(p)
      PROVE  CallsAreSane'
  <2>1. pc[p] \notin {"idle", "close"} /\ call' = call
    BY <1>4 DEF Open, DecodeAll, DecodeFails, PoolExhausted, ReleaseHandle,
                Truncate, TruncateFails, EncodeFails
  <2>2. \A q \in Procs \ {p} : pc'[q] = pc[q]
    BY <1>4 DEF Open, DecodeAll, DecodeFails, PoolExhausted, ReleaseHandle,
                Truncate, TruncateFails, EncodeFails
  <2> QED
    BY <2>1, <2>2
<1>5. ASSUME NEW p \in Procs, AcquireOne(p) PROVE CallsAreSane'
  BY <1>5 DEF AcquireOne
<1>6. ASSUME NEW p \in Procs, Encode(p) PROVE CallsAreSane'
  BY <1>6 DEF Encode
<1> QED
  BY <1>1, <1>2, <1>3, <1>4, <1>5, <1>6 DEF Next, Step

\* Every step keeps the calls in progress on different handles.
LEMMA HandlesNext ==
  ASSUME TypeOK, CallsAreSane, HandlesAreApart, [Next]_vars
  PROVE  HandlesAreApart'
<1> SUFFICES ASSUME OnePerHandle PROVE HandlesAreApart'
  BY DEF HandlesAreApart
<1>0. \A q \in Procs : pc[q] # "idle" =>
        /\ \A r \in Procs \ {q} : pc[r] # "idle" => call[r].handle # call[q].handle
        /\ call[q].op = "release" => told[call[q].handle] = {}
  BY DEF HandlesAreApart
<1>1. CASE UNCHANGED vars
  BY <1>0, <1>1 DEF HandlesAreApart, vars
<1>2. ASSUME NEW p \in Procs, BeginAllocate(p) PROVE HandlesAreApart'
  BY <1>0, <1>2 DEF BeginAllocate, MayCall, NewCall, HandlesAreApart, TypeOK
<1>3. ASSUME NEW p \in Procs, AllocateGiven(p) PROVE HandlesAreApart'
  <2>1. PICK h \in Handles :
          /\ \A q \in Procs : pc[q] # "idle" => call[q].handle # h
          /\ \E n \in HostPorts : told' = [told EXCEPT ![h] = @ \cup {n}]
          /\ UNCHANGED <<pc, call>>
    BY <1>3 DEF AllocateGiven, MayCall
  <2>2. \A q \in Procs : pc[q] # "idle" =>
          told'[call[q].handle] = told[call[q].handle]
    BY <2>1 DEF CallsAreSane, TypeOK
  <2> QED
    BY <1>0, <2>1, <2>2 DEF HandlesAreApart
<1>4. ASSUME NEW p \in Procs, BeginRelease(p) PROVE HandlesAreApart'
  BY <1>0, <1>4 DEF BeginRelease, MayCall, NewCall, HandlesAreApart, TypeOK
<1>5. ASSUME NEW p \in Procs, OpenFails(p) \/ Crash(p) PROVE HandlesAreApart'
  BY <1>0, <1>5 DEF OpenFails, Crash, Return, HandlesAreApart, TypeOK
<1>6. ASSUME NEW p \in Procs, Close(p) PROVE HandlesAreApart'
  <2>1. pc'[p] = "idle"
    BY <1>6 DEF Close, Return, TypeOK
  <2>2. \A q \in Procs \ {p} : pc'[q] = pc[q] /\ call'[q] = call[q]
    BY <1>6 DEF Close, Return, TypeOK
  <2>3. \A q \in Procs \ {p} : pc[q] # "idle" =>
          told'[call[q].handle] = told[call[q].handle]
    BY <1>0, <1>6 DEF Close, CallsAreSane, TypeOK
  <2> QED
    BY <1>0, <2>1, <2>2, <2>3 DEF HandlesAreApart
<1>7. ASSUME NEW p \in Procs,
             \/ Open(p) \/ DecodeAll(p) \/ DecodeFails(p) \/ AcquireOne(p)
             \/ PoolExhausted(p) \/ ReleaseHandle(p) \/ Truncate(p)
             \/ TruncateFails(p) \/ Encode(p) \/ EncodeFails(p)
      PROVE  HandlesAreApart'
  <2>1. /\ pc[p] # "idle" /\ told' = told
        /\ \A q \in Procs \ {p} : pc'[q] = pc[q]
    BY <1>7 DEF Open, DecodeAll, DecodeFails, AcquireOne, PoolExhausted,
                ReleaseHandle, Truncate, TruncateFails, Encode, EncodeFails,
                TypeOK
  <2>2. \A q \in Procs : /\ call'[q].handle = call[q].handle
                         /\ call'[q].op = call[q].op
    BY <1>7 DEF Open, DecodeAll, DecodeFails, AcquireOne, PoolExhausted,
                ReleaseHandle, Truncate, TruncateFails, Encode, EncodeFails,
                TypeOK
  <2> QED
    BY <1>0, <2>1, <2>2 DEF HandlesAreApart
<1> QED
  BY <1>1, <1>2, <1>3, <1>4, <1>5, <1>6, <1>7 DEF Next, Step

\* While one process has the lock, no other is between Open and Close.
LEMMA OthersAreOutside ==
  ASSUME LockMatchesPc, NEW p \in Procs, pc[p] \in Locked
  PROVE  holder = p /\ \A q \in Procs \ {p} : pc[q] \notin Locked
BY DEF LockMatchesPc

\* A step that leaves the file and a process's locals alone keeps them in step.
LEMMA FollowsFrame ==
  ASSUME PoolFollowsFile, UNCHANGED file, NEW q \in Procs,
         pc'[q] = pc[q], call'[q] = call[q], pool'[q] = pool[q]
  PROVE  PoolFollows(q)'
<1>1. PoolFollows(q)
  BY DEF PoolFollowsFile
<1> QED
  BY <1>1 DEF PoolFollows

\* Every step keeps the decoded Pools in step with the file and the lists of
\* the file disjoint.
LEMMA PoolNext ==
  ASSUME TypeOK, LockMatchesPc, CallsAreSane, PoolFollowsFile,
         Disjoint(file.lists), [Next]_vars
  PROVE  PoolFollowsFile' /\ Disjoint(file.lists)'
<1>1. CASE UNCHANGED vars
  <2>1. \A q \in Procs : PoolFollows(q)'
    BY <1>1, FollowsFrame DEF vars
  <2> QED
    BY <1>1, <2>1 DEF PoolFollowsFile, Disjoint, vars
<1>2. ASSUME NEW p \in Procs, pc'[p] \in {"idle", "open", "decode"},
             UNCHANGED file,
             \A q \in Procs \ {p} : /\ pc'[q] = pc[q]
                                    /\ call'[q] = call[q]
                                    /\ pool'[q] = pool[q]
      PROVE  PoolFollowsFile' /\ Disjoint(file.lists)'
  <2>1. \A q \in Procs \ {p} : PoolFollows(q)'
    BY <1>2, FollowsFrame
  <2>2. PoolFollows(p)'
    BY <1>2 DEF PoolFollows
  <2> QED
    BY <1>2, <2>1, <2>2 DEF PoolFollowsFile, Disjoint
<1>3. ASSUME NEW p \in Procs,
             \/ BeginAllocate(p) \/ AllocateGiven(p) \/ BeginRelease(p)
             \/ Open(p) \/ OpenFails(p) \/ Close(p)
      PROVE  PoolFollowsFile' /\ Disjoint(file.lists)'
  <2>1. CASE AllocateGiven(p)
    <3>1. \A q \in Procs : PoolFollows(q)'
      BY <2>1, FollowsFrame DEF AllocateGiven
    <3> QED
      BY <2>1, <3>1 DEF PoolFollowsFile, Disjoint, AllocateGiven
  <2>2. CASE ~AllocateGiven(p)
    <3>1. /\ pc'[p] \in {"idle", "open", "decode"}
          /\ UNCHANGED file
      BY <1>3, <2>2
      DEF BeginAllocate, BeginRelease, Open, OpenFails, Close, Return, TypeOK
    <3>2. \A q \in Procs \ {p} : /\ pc'[q] = pc[q]
                                 /\ call'[q] = call[q]
                                 /\ pool'[q] = pool[q]
      BY <1>3, <2>2
      DEF BeginAllocate, BeginRelease, Open, OpenFails, Close, Return, TypeOK
    <3> QED
      BY <3>1, <3>2, <1>2
  <2> QED
    BY <2>1, <2>2
<1>4. ASSUME NEW p \in Procs, pc[p] \in Locked,
             \A q \in Procs \ {p} : pc'[q] = pc[q],
             PoolFollows(p)', Disjoint(file.lists)'
      PROVE  PoolFollowsFile' /\ Disjoint(file.lists)'
  <2>1. \A q \in Procs \ {p} : pc'[q] \notin Locked
    BY <1>4, OthersAreOutside
  <2>2. \A q \in Procs \ {p} : PoolFollows(q)'
    BY <2>1 DEF PoolFollows, Locked
  <2> QED
    BY <1>4, <2>2 DEF PoolFollowsFile
<1>5. ASSUME NEW p \in Procs, DecodeAll(p)
      PROVE  PoolFollowsFile' /\ Disjoint(file.lists)'
  <2>1. PICK q \in Pools : /\ Unmarshals(file.lists, q)
                           /\ pool' = [pool EXCEPT ![p] = q]
    BY <1>5 DEF DecodeAll
  <2>2. Marshal(q) = file.lists
    BY <2>1, RoundTrip DEF TypeOK
  <2>3. pool'[p] = q /\ pc'[p] = "track" /\ file' = file /\ file.whole
    BY <1>5, <2>1 DEF DecodeAll, TypeOK
  <2>4. PoolFollows(p)'
    BY <2>2, <2>3 DEF PoolFollows, Marshal
  <2>5. Disjoint(file.lists)'
    BY <2>3 DEF Disjoint
  <2>6. pc[p] \in Locked /\ \A r \in Procs \ {p} : pc'[r] = pc[r]
    BY <1>5 DEF DecodeAll, TypeOK, Locked
  <2> QED
    BY <2>4, <2>5, <2>6, <1>4
<1>6. ASSUME NEW p \in Procs,
             DecodeFails(p) \/ PoolExhausted(p) \/ TruncateFails(p)
      PROVE  PoolFollowsFile' /\ Disjoint(file.lists)'
  <2>1. pc[p] # "close" /\ pc[p] \in Locked
    BY <1>6 DEF DecodeFails, PoolExhausted, TruncateFails, Locked
  <2>2. pc'[p] = "close" /\ call' = call /\ file' = file
    BY <1>6 DEF DecodeFails, PoolExhausted, TruncateFails, TypeOK
  <2>3. PoolFollows(p)'
    BY <2>1, <2>2 DEF PoolFollows, CallsAreSane
  <2>4. Disjoint(file.lists)'
    BY <2>2 DEF Disjoint
  <2>5. \A q \in Procs \ {p} : pc'[q] = pc[q]
    BY <1>6 DEF DecodeFails, PoolExhausted, TruncateFails, TypeOK
  <2> QED
    BY <2>1, <2>3, <2>4, <2>5, <1>4
<1>7. ASSUME NEW p \in Procs, AcquireOne(p)
      PROVE  PoolFollowsFile' /\ Disjoint(file.lists)'
  <2> DEFINE h == call[p].handle
  <2>1. PICK i \in 0..(Capacity - 1) :
          /\ pool[p][CandidatePort(i)] = NoHandle
          /\ pool' = [pool EXCEPT ![p][CandidatePort(i)] = h]
          /\ call' = [call EXCEPT ![p].port = CandidatePort(i)]
    BY <1>7 DEF AcquireOne, FirstFree
  <2> DEFINE n == CandidatePort(i)
  <2>2. n \in Ports /\ h \in Handles /\ pool[p] \in Pools
    BY <1>7 DEF Ports, CallsAreSane, AcquireOne, TypeOK
  <2>3. pool'[p] = [pool[p] EXCEPT ![n] = h]
    BY <2>1 DEF TypeOK
  <2>4. /\ \A g \in Handles : n \notin Marshal(pool[p])[g]
        /\ Marshal(pool'[p]) = [Marshal(pool[p]) EXCEPT ![h] = @ \cup {n}]
    BY <2>1, <2>2, <2>3, AcquireAddsPort
  <2>5. Marshal(pool[p]) = file.lists /\ file.whole
    BY <1>7 DEF AcquireOne, PoolFollowsFile, PoolFollows
  <2>6. /\ call'[p].handle = h /\ call'[p].port = n
        /\ call'[p].op = "allocate"
        /\ pc'[p] = "truncate" /\ file' = file
    BY <1>7, <2>1 DEF AcquireOne, TypeOK
  <2>7. PoolFollows(p)'
    BY <2>4, <2>5, <2>6 DEF PoolFollows, Marshal
  <2>8. Disjoint(file.lists)'
    BY <2>6 DEF Disjoint
  <2>9. pc[p] \in Locked /\ \A q \in Procs \ {p} : pc'[q] = pc[q]
    BY <1>7 DEF AcquireOne, TypeOK, Locked
  <2> QED
    BY <2>7, <2>8, <2>9, <1>4
<1>8. ASSUME NEW p \in Procs, ReleaseHandle(p)
      PROVE  PoolFollowsFile' /\ Disjoint(file.lists)'
  <2> DEFINE h == call[p].handle
  <2>1. h \in Handles /\ pool[p] \in Pools
    BY <1>8 DEF CallsAreSane, ReleaseHandle, TypeOK
  <2>2. pool'[p] = ReleaseAll(pool[p], h)
    BY <1>8 DEF ReleaseHandle, TypeOK
  <2>3. Marshal(pool'[p]) = [Marshal(pool[p]) EXCEPT ![h] = {}]
    BY <2>1, <2>2, ReleaseEmptiesList
  <2>4. Marshal(pool[p]) = file.lists /\ file.whole
    BY <1>8 DEF ReleaseHandle, PoolFollowsFile, PoolFollows
  <2>5. call' = call /\ call[p].op = "release" /\ pc'[p] = "truncate"
        /\ file' = file
    BY <1>8 DEF ReleaseHandle, TypeOK
  <2>6. PoolFollows(p)'
    BY <2>3, <2>4, <2>5 DEF PoolFollows, Marshal
  <2>7. Disjoint(file.lists)'
    BY <2>5 DEF Disjoint
  <2>8. pc[p] \in Locked /\ \A q \in Procs \ {p} : pc'[q] = pc[q]
    BY <1>8 DEF ReleaseHandle, TypeOK, Locked
  <2> QED
    BY <2>6, <2>7, <2>8, <1>4
<1>9. ASSUME NEW p \in Procs, Truncate(p)
      PROVE  PoolFollowsFile' /\ Disjoint(file.lists)'
  <2> DEFINE h == call[p].handle
  <2>1. file'.lists = NoPorts /\ file'.whole /\ pc'[p] = "encode"
        /\ call' = call /\ pool' = pool /\ pc[p] = "truncate"
    BY <1>9 DEF Truncate, TypeOK
  <2>2. h \in Handles /\ file.lists \in Lists
    BY <2>1 DEF CallsAreSane, TypeOK
  <2>3. PoolFollows(p)
    BY DEF PoolFollowsFile
  <2>4. IF call[p].op = "allocate" THEN call[p].port \in Marshal(pool[p])[h]
                                   ELSE Marshal(pool[p])[h] = {}
    BY <2>1, <2>2, <2>3 DEF PoolFollows, Lists
  <2>5. PoolFollows(p)'
    BY <2>1, <2>4 DEF PoolFollows, Marshal
  <2>6. Disjoint(file.lists)'
    BY <2>1 DEF Disjoint, NoPorts
  <2>7. pc[p] \in Locked /\ \A q \in Procs \ {p} : pc'[q] = pc[q]
    BY <1>9 DEF Truncate, TypeOK, Locked
  <2> QED
    BY <2>5, <2>6, <2>7, <1>4
<1>10. ASSUME NEW p \in Procs, Encode(p)
       PROVE  PoolFollowsFile' /\ Disjoint(file.lists)'
  <2>1. file'.lists = Marshal(pool[p]) /\ pc'[p] = "close"
        /\ call'[p].op = call[p].op /\ call'[p].handle = call[p].handle
        /\ call'[p].port = call[p].port /\ pc[p] = "encode"
    BY <1>10 DEF Encode, TypeOK
  <2>2. PoolFollows(p)
    BY DEF PoolFollowsFile
  <2>3. PoolFollows(p)'
    BY <2>1, <2>2 DEF PoolFollows
  <2>4. Disjoint(Marshal(pool[p]))
    BY MarshalIsDisjoint DEF TypeOK
  <2>5. Disjoint(file.lists)'
    BY <2>1, <2>4 DEF Disjoint
  <2>6. pc[p] \in Locked /\ \A q \in Procs \ {p} : pc'[q] = pc[q]
    BY <1>10 DEF Encode, TypeOK, Locked
  <2> QED
    BY <2>3, <2>5, <2>6, <1>4
<1>11. ASSUME NEW p \in Procs, EncodeFails(p)
       PROVE  PoolFollowsFile' /\ Disjoint(file.lists)'
  <2>1. file'.lists = NoPorts /\ pc'[p] = "close" /\ call' = call
        /\ pc[p] = "encode"
    BY <1>11 DEF EncodeFails, CutFile, TypeOK
  <2>2. PoolFollows(p)'
    BY <2>1 DEF PoolFollows, CallsAreSane
  <2>3. Disjoint(file.lists)'
    BY <2>1 DEF Disjoint, NoPorts
  <2>4. pc[p] \in Locked /\ \A q \in Procs \ {p} : pc'[q] = pc[q]
    BY <1>11 DEF EncodeFails, TypeOK, Locked
  <2> QED
    BY <2>2, <2>3, <2>4, <1>4
<1>12. ASSUME NEW p \in Procs, Crash(p)
       PROVE  PoolFollowsFile' /\ Disjoint(file.lists)'
  <2>1. pc'[p] = "idle"
    BY <1>12 DEF Crash, Return, TypeOK
  <2>2. \A q \in Procs \ {p} : /\ pc'[q] = pc[q] /\ call'[q] = call[q]
                               /\ pool'[q] = pool[q]
    BY <1>12 DEF Crash, Return, TypeOK
  <2>3. CASE pc[p] = "encode"
    <3>1. file'.lists = NoPorts
      BY <1>12, <2>3 DEF Crash, CutFile
    <3>2. PoolFollows(p)'
      BY <2>1 DEF PoolFollows
    <3>3. Disjoint(file.lists)'
      BY <3>1 DEF Disjoint, NoPorts
    <3>4. pc[p] \in Locked
      BY <2>3 DEF Locked
    <3> QED
      BY <3>2, <3>3, <3>4, <2>2, <1>4
  <2>4. CASE pc[p] # "encode"
    <3>1. UNCHANGED file
      BY <1>12, <2>4 DEF Crash
    <3> QED
      BY <3>1, <2>1, <2>2, <1>2
  <2> QED
    BY <2>3, <2>4
<1> QED
  BY <1>1, <1>3, <1>5, <1>6, <1>7, <1>8, <1>9, <1>10, <1>11, <1>12
  DEF Next, Step

\* A step by p that neither starts nor ends a rewrite of the file leaves the
\* pool, as the next call will find it, as it is.
LEMMA AcquiredFrame ==
  ASSUME NEW p \in Procs, UNCHANGED file,
         pc[p] # "encode", pc'[p] # "encode",
         \A q \in Procs \ {p} : pc'[q] = pc[q] /\ pool'[q] = pool[q],
         holder \in Procs \cup {NoProc},
         holder' = holder \/ {holder, holder'} \subseteq {p, NoProc}
  PROVE  Acquired' = Acquired
<1>1. CASE holder \in Procs \ {p}
  <2>1. holder' = holder
    BY <1>1, ConstAssumption
  <2> QED
    BY <1>1, <2>1 DEF Acquired, Marshal
<1>2. CASE holder \in {p, NoProc}
  <2>1. holder' \in {p, NoProc}
    BY <1>2
  <2> QED
    BY <1>2, <2>1 DEF Acquired
<1> QED
  BY <1>1, <1>2

\* Only Truncate, a failing Encode and a crash during it change the pool as
\* the next call will find it.
LEMMA AcquiredSame ==
  ASSUME TypeOK, PoolInv, NEW p \in Procs,
         \/ BeginAllocate(p) \/ AllocateGiven(p) \/ BeginRelease(p)
         \/ Open(p) \/ OpenFails(p) \/ DecodeAll(p) \/ DecodeFails(p)
         \/ AcquireOne(p) \/ PoolExhausted(p) \/ ReleaseHandle(p)
         \/ TruncateFails(p) \/ Encode(p) \/ Close(p)
         \/ (Crash(p) /\ pc[p] # "encode")
  PROVE  Acquired' = Acquired
<1>1. CASE   \/ BeginAllocate(p) \/ AllocateGiven(p) \/ BeginRelease(p)
             \/ OpenFails(p) \/ DecodeAll(p) \/ DecodeFails(p)
             \/ AcquireOne(p) \/ PoolExhausted(p) \/ ReleaseHandle(p)
             \/ TruncateFails(p)
  <2>1. /\ UNCHANGED <<file, holder>>
        /\ pc[p] # "encode" /\ pc'[p] # "encode"
    BY <1>1 DEF BeginAllocate, AllocateGiven, BeginRelease, MayCall, OpenFails,
      Return, DecodeAll, DecodeFails, AcquireOne, PoolExhausted, ReleaseHandle,
      TruncateFails, TypeOK
  <2>2. \A q \in Procs \ {p} : pc'[q] = pc[q] /\ pool'[q] = pool[q]
    BY <1>1 DEF BeginAllocate, AllocateGiven, BeginRelease, MayCall, OpenFails,
      Return, DecodeAll, DecodeFails, AcquireOne, PoolExhausted, ReleaseHandle,
      TruncateFails, TypeOK
  <2> QED
    BY <2>1, <2>2, AcquiredFrame DEF TypeOK
<1>2. CASE Open(p) \/ Close(p) \/ (Crash(p) /\ pc[p] # "encode")
  <2>1. /\ UNCHANGED file
        /\ pc[p] # "encode" /\ pc'[p] # "encode"
        /\ \A q \in Procs \ {p} : pc'[q] = pc[q] /\ pool'[q] = pool[q]
    BY <1>2 DEF Open, Close, Crash, Return, TypeOK
  <2>2. pc[p] = "close" => holder = p
    BY DEF PoolInv, LockMatchesPc, Locked
  <2>3. holder' = holder \/ {holder, holder'} \subseteq {p, NoProc}
    BY <1>2, <2>2 DEF Open, Close, Crash
  <2> QED
    BY <2>1, <2>3, AcquiredFrame DEF TypeOK
<1>3. CASE Encode(p)
  <2>1. holder = p /\ holder' = p /\ p # NoProc
    BY <1>3, ConstAssumption DEF Encode, PoolInv, LockMatchesPc, Locked
  <2>2. pc[p] = "encode" /\ pc'[p] = "close" /\ file'.lists = Marshal(pool[p])
    BY <1>3 DEF Encode, TypeOK
  <2> QED
    BY <2>1, <2>2 DEF Acquired
<1> QED
  BY <1>1, <1>2, <1>3

\* Truncate is the step at which a call takes effect.
LEMMA TruncateTakesEffect ==
  ASSUME TypeOK, PoolInv, NEW p \in Procs, Truncate(p)
  PROVE  Acquired = file.lists /\ Acquired' = Marshal(pool[p])
<1>1. holder = p /\ holder' = p /\ p # NoProc
  BY ConstAssumption DEF Truncate, PoolInv, LockMatchesPc, Locked
<1>2. pc[p] = "truncate" /\ pc'[p] = "encode" /\ pool' = pool
  BY DEF Truncate, TypeOK
<1> QED
  BY <1>1, <1>2 DEF Acquired

\* Every step keeps the ports callers rely on recorded as theirs.
LEMMA ToldNext ==
  ASSUME TypeOK, PoolInv, [Next]_vars
  PROVE  ToldPortsAreOwned'
<1> SUFFICES ASSUME OnePerHandle, ~lost', NEW g \in Handles
             PROVE  told'[g] \cap Ports \subseteq Acquired'[g]
  BY DEF ToldPortsAreOwned
<1>1. lost' = lost \/ lost'
  BY DEF Next, Step, BeginAllocate, AllocateGiven, BeginRelease, Open, OpenFails,
    DecodeAll, DecodeFails, AcquireOne, PoolExhausted, ReleaseHandle, Truncate,
    TruncateFails, Encode, EncodeFails, Close, Crash, vars
<1>2. told[g] \cap Ports \subseteq Acquired[g]
  BY <1>1 DEF PoolInv, ToldPortsAreOwned
<1>3. CASE UNCHANGED vars
  BY <1>2, <1>3 DEF vars, Acquired, Marshal
<1>4. ASSUME NEW p \in Procs,
             \/ BeginAllocate(p) \/ Open(p) \/ OpenFails(p) \/ DecodeAll(p)
             \/ DecodeFails(p) \/ AcquireOne(p) \/ PoolExhausted(p)
             \/ ReleaseHandle(p) \/ TruncateFails(p) \/ Encode(p)
             \/ (Crash(p) /\ pc[p] # "encode")
      PROVE  told'[g] \cap Ports \subseteq Acquired'[g]
  <2>1. told' = told
    BY <1>4 DEF BeginAllocate, Open, OpenFails, DecodeAll, DecodeFails,
      AcquireOne, PoolExhausted, ReleaseHandle, TruncateFails, Encode, Crash
  <2>2. Acquired' = Acquired
    BY <1>4, AcquiredSame
  <2> QED
    BY <1>2, <2>1, <2>2
<1>5. ASSUME NEW p \in Procs, AllocateGiven(p)
      PROVE  told'[g] \cap Ports \subseteq Acquired'[g]
  <2>1. PICK h \in Handles, n \in HostPorts :
          ~InRange(n) /\ told' = [told EXCEPT ![h] = @ \cup {n}]
    BY <1>5 DEF AllocateGiven
  <2>2. n \notin Ports
    BY <2>1, RangeIsExact, ConstAssumption
  <2>3. told'[g] \cap Ports = told[g] \cap Ports
    BY <2>1, <2>2 DEF TypeOK
  <2>4. Acquired' = Acquired
    BY <1>5, AcquiredSame
  <2> QED
    BY <1>2, <2>3, <2>4
<1>6. ASSUME NEW p \in Procs, BeginRelease(p)
      PROVE  told'[g] \cap Ports \subseteq Acquired'[g]
  <2>1. told'[g] \subseteq told[g]
    BY <1>6 DEF BeginRelease, TypeOK
  <2>2. Acquired' = Acquired
    BY <1>6, AcquiredSame
  <2> QED
    BY <1>2, <2>1, <2>2
<1>7. ASSUME NEW p \in Procs, Truncate(p)
      PROVE  told'[g] \cap Ports \subseteq Acquired'[g]
  <2>1. pc[p] = "truncate" /\ told' = told
    BY <1>7 DEF Truncate
  <2>2. Acquired = file.lists /\ Acquired' = Marshal(pool[p])
    BY <1>7, TruncateTakesEffect
  <2>3. PoolFollows(p) /\ call[p].handle \in Handles /\ file.lists \in Lists
    BY <2>1 DEF PoolInv, PoolFollowsFile, CallsAreSane, TypeOK
  <2>4. CASE call[p].op = "allocate"
    <3>1. Marshal(pool[p])
            = [file.lists EXCEPT ![call[p].handle] = @ \cup {call[p].port}]
      BY <2>1, <2>3, <2>4 DEF PoolFollows
    <3>2. file.lists[g] \subseteq Marshal(pool[p])[g]
      BY <3>1, <2>3 DEF Lists
    <3> QED
      BY <1>2, <2>1, <2>2, <3>2
  <2>5. CASE call[p].op # "allocate"
    <3>1. Marshal(pool[p]) = [file.lists EXCEPT ![call[p].handle] = {}]
      BY <2>1, <2>3, <2>5 DEF PoolFollows
    <3>2. g = call[p].handle => told[g] = {}
      BY <2>1, <2>5 DEF PoolInv, HandlesAreApart, TypeOK
    <3>3. g # call[p].handle => Marshal(pool[p])[g] = file.lists[g]
      BY <3>1, <2>3 DEF Lists
    <3> QED
      BY <1>2, <2>1, <2>2, <3>2, <3>3
  <2> QED
    BY <2>4, <2>5
<1>8. ASSUME NEW p \in Procs, Close(p)
      PROVE  told'[g] \cap Ports \subseteq Acquired'[g]
  <2>1. Acquired' = Acquired
    BY <1>8, AcquiredSame
  <2>2. Acquired = file.lists
    BY <1>8 DEF Close, PoolInv, LockMatchesPc, Locked, Acquired
  <2>3. \/ told'[g] = told[g]
        \/ /\ call[p].op = "allocate" /\ call[p].ok
           /\ g = call[p].handle
           /\ told'[g] = told[g] \cup {call[p].port}
    <3>1. CASE call[p].op = "allocate" /\ call[p].ok
      <4>1. told' = [told EXCEPT ![call[p].handle] = @ \cup {call[p].port}]
        BY <1>8, <3>1 DEF Close
      <4> QED
        BY <4>1, <3>1 DEF TypeOK
    <3>2. CASE ~(call[p].op = "allocate" /\ call[p].ok)
      BY <1>8, <3>2 DEF Close
    <3> QED
      BY <3>1, <3>2
  <2>4. call[p].op = "allocate" /\ call[p].ok
          => call[p].port \in file.lists[call[p].handle]
    BY <1>8 DEF Close, PoolInv, PoolFollowsFile, PoolFollows
  <2> QED
    BY <1>2, <2>1, <2>2, <2>3, <2>4
<1>9. ASSUME NEW p \in Procs, EncodeFails(p) \/ (Crash(p) /\ pc[p] = "encode")
      PROVE  FALSE
  BY <1>9 DEF EncodeFails, Crash
<1>10. ASSUME NEW p \in Procs, Crash(p)
       PROVE  told'[g] \cap Ports \subseteq Acquired'[g]
  BY <1>10, <1>4, <1>9
<1> QED
  BY <1>3, <1>4, <1>5, <1>6, <1>7, <1>8, <1>9, <1>10 DEF Next, Step

\* The inductive invariant holds initially.
LEMMA PoolInvInit == Init => PoolInv
BY ConstAssumption
   DEF Init, PoolInv, LockMatchesPc, CallsAreSane, HandlesAreApart,
       PoolFollowsFile, PoolFollows, Disjoint, ToldPortsAreOwned, NoPorts,
       NoCall, NewCall, Locked

\* Every step preserves the inductive invariant.
LEMMA PoolInvNext == TypeOK /\ PoolInv /\ [Next]_vars => PoolInv'
<1> SUFFICES ASSUME TypeOK, PoolInv, [Next]_vars PROVE PoolInv'
  OBVIOUS
<1>1. LockMatchesPc'
  BY LockNext DEF PoolInv
<1>2. CallsAreSane'
  BY CallsNext DEF PoolInv
<1>3. HandlesAreApart'
  BY HandlesNext DEF PoolInv
<1>4. PoolFollowsFile' /\ Disjoint(file.lists)'
  BY PoolNext DEF PoolInv
<1>5. ToldPortsAreOwned'
  BY ToldNext
<1> QED
  BY <1>1, <1>2, <1>3, <1>4, <1>5 DEF PoolInv

-----------------------------------------------------------------------------
(* The theorems                                                            *)

\* The lock discipline of AllocatePort and ReleaseAllPorts keeps file, lock,
\* decoded pools and callers' ports consistent in every reachable state.
THEOREM AllocatorInvariant == Spec => [](TypeOK /\ PoolInv)
BY TypesInit, TypesNext, PoolInvInit, PoolInvNext, PTL DEF Spec

\* A port AllocatePort returned stays recorded as its handle's until it is
\* released, for any number of processes and any errors and crashes that do
\* not cut a rewrite of the file short.
THEOREM AllocatorKeepsPorts == Spec => []ToldPortsAreOwned
<1>1. PoolInv => ToldPortsAreOwned
  BY DEF PoolInv
<1> QED
  BY <1>1, AllocatorInvariant, PTL

\* Under the same conditions no two handles are given the same pool port.
THEOREM AllocatorUniqueness == Spec => []NoPortToldTwice
<1>1. TypeOK /\ PoolInv => NoPortToldTwice
  <2> SUFFICES ASSUME TypeOK, PoolInv, OnePerHandle, ~lost,
                      NEW g \in Handles, NEW h \in Handles, g # h
               PROVE  told[g] \cap told[h] \cap Ports = {}
    BY DEF NoPortToldTwice
  <2>1. Disjoint(Acquired)
    <3>1. CASE holder # NoProc /\ pc[holder] = "encode"
      <4>1. pool[holder] \in Pools
        BY <3>1 DEF TypeOK
      <4> QED
        BY <3>1, <4>1, MarshalIsDisjoint DEF Acquired
    <3>2. CASE ~(holder # NoProc /\ pc[holder] = "encode")
      BY <3>2 DEF Acquired, PoolInv
    <3> QED
      BY <3>1, <3>2
  <2>2. /\ told[g] \cap Ports \subseteq Acquired[g]
        /\ told[h] \cap Ports \subseteq Acquired[h]
    BY DEF PoolInv, ToldPortsAreOwned
  <2> QED
    BY <2>1, <2>2 DEF Disjoint
<1> QED
  BY <1>1, AllocatorInvariant, PTL

\* A call that reports success leaves a file that agrees with its answer.
THEOREM AllocatorReplies == Spec => ReplyIsRecorded
<1>1. PoolInv => [\A p \in Procs :
                    pc[p] = "close" /\ pc'[p] = "idle" /\ call[p].ok =>
                      IF call[p].op = "allocate"
                        THEN call[p].port \in file.lists[call[p].handle]
                        ELSE file.lists[call[p].handle] = {}]_vars
  BY DEF PoolInv, PoolFollowsFile, PoolFollows
<1> QED
  BY <1>1, AllocatorInvariant, PTL DEF ReplyIsRecorded

\* The initial state is an initial state of the abstract pool.
LEMMA PoolRefinedInit == Init => Abstract!Init
BY ConstAssumption DEF Init, Acquired, NoPorts, Abstract!Init, Abstract!Nothing

\* Every step is a step of the abstract pool or leaves it alone.
LEMMA PoolRefinedNext ==
  ASSUME TypeOK, PoolInv, [Next]_vars
  PROVE  [Abstract!Next]_(Abstract!vars)
<1>1. CASE UNCHANGED vars
  BY <1>1 DEF vars, Acquired, Marshal, Abstract!vars
<1>2. ASSUME NEW p \in Procs,
             \/ BeginAllocate(p) \/ AllocateGiven(p) \/ BeginRelease(p)
             \/ Open(p) \/ OpenFails(p) \/ DecodeAll(p) \/ DecodeFails(p)
             \/ AcquireOne(p) \/ PoolExhausted(p) \/ ReleaseHandle(p)
             \/ TruncateFails(p) \/ Close(p)
             \/ (Crash(p) /\ pc[p] # "encode")
      PROVE  UNCHANGED Abstract!vars
  <2>1. file' = file
    BY <1>2 DEF BeginAllocate, AllocateGiven, BeginRelease, Open, OpenFails,
      DecodeAll, DecodeFails, AcquireOne, PoolExhausted, ReleaseHandle,
      TruncateFails, Close, Crash
  <2>2. Acquired' = Acquired
    BY <1>2, AcquiredSame
  <2> QED
    BY <2>1, <2>2 DEF Abstract!vars
<1>3. ASSUME NEW p \in Procs, Encode(p) PROVE UNCHANGED Abstract!vars
  <2>1. PoolFollows(p) /\ pc[p] = "encode"
    BY <1>3 DEF Encode, PoolInv, PoolFollowsFile
  <2>2. file.whole = TRUE /\ file'.whole = TRUE
    BY <1>3, <2>1 DEF Encode, PoolFollows, TypeOK
  <2>3. Acquired' = Acquired
    BY <1>3, AcquiredSame
  <2> QED
    BY <2>2, <2>3 DEF Abstract!vars
<1>4. ASSUME NEW p \in Procs, Truncate(p) PROVE Abstract!Next
  <2> DEFINE h == call[p].handle
  <2>1. Acquired = file.lists /\ Acquired' = Marshal(pool[p])
    BY <1>4, TruncateTakesEffect
  <2>2. pc[p] = "truncate" /\ PoolFollows(p) /\ h \in Handles
    BY <1>4 DEF Truncate, PoolInv, PoolFollowsFile, CallsAreSane
  <2>3. file.whole = TRUE /\ file'.whole = TRUE
    BY <1>4, <2>2 DEF Truncate, PoolFollows, TypeOK
  <2>4. CASE call[p].op = "allocate"
    <3> DEFINE n == call[p].port
    <3>1. /\ \A g \in Handles : n \notin file.lists[g]
          /\ Marshal(pool[p]) = [file.lists EXCEPT ![h] = @ \cup {n}]
      BY <2>2, <2>4 DEF PoolFollows
    <3>2. n \in Ports
      <4>1. Marshal(pool[p]) \in Lists /\ file.lists \in Lists
        BY MarshalIsDisjoint DEF TypeOK
      <4> QED
        BY <2>2, <3>1, <4>1 DEF Lists
    <3>3. Abstract!Acquire(h)
      BY <2>1, <2>3, <3>1, <3>2 DEF Abstract!Acquire
    <3> QED
      BY <2>2, <3>3 DEF Abstract!Next
  <2>5. CASE call[p].op # "allocate"
    <3>1. Marshal(pool[p]) = [file.lists EXCEPT ![h] = {}]
      BY <2>2, <2>5 DEF PoolFollows
    <3>2. Abstract!Release(h)
      BY <2>1, <2>3, <3>1 DEF Abstract!Release
    <3> QED
      BY <2>2, <3>2 DEF Abstract!Next
  <2> QED
    BY <2>4, <2>5
<1>5. ASSUME NEW p \in Procs, EncodeFails(p) \/ (Crash(p) /\ pc[p] = "encode")
      PROVE  Abstract!Next
  <2>1. Faults # {} /\ pc[p] = "encode" /\ CutFile
    BY <1>5 DEF EncodeFails, Crash
  <2>2. holder = p /\ PoolFollows(p)
    BY <2>1 DEF PoolInv, LockMatchesPc, Locked, PoolFollowsFile
  <2>3. file.whole = TRUE
    BY <2>1, <2>2 DEF PoolFollows, TypeOK
  <2>4. file'.lists = NoPorts /\ file'.whole \in BOOLEAN
    BY <2>1 DEF CutFile
  <2>5. Acquired' = file'.lists
    <3>1. holder' \in {p, NoProc} /\ pc'[p] # "encode"
      BY <1>5, <2>2 DEF EncodeFails, Crash, Return, TypeOK
    <3> QED
      BY <3>1 DEF Acquired
  <2>6. Abstract!Lose
    BY <2>1, <2>3, <2>4, <2>5 DEF Abstract!Lose, Abstract!Nothing, NoPorts
  <2> QED
    BY <2>6 DEF Abstract!Next
<1>6. ASSUME NEW p \in Procs, Crash(p) PROVE [Abstract!Next]_(Abstract!vars)
  BY <1>2, <1>5, <1>6
<1> QED
  BY <1>1, <1>2, <1>3, <1>4, <1>5, <1>6 DEF Next, Step

\* The allocator implements the one-step pool: each call takes effect at once,
\* when it truncates the file, and an acquired port is forgotten only if a
\* failing write or a crash cuts the rewrite short.
THEOREM AllocatorImplementsPool == Spec => PoolSpec
<1>1. Init => Abstract!Init
  BY PoolRefinedInit
<1>2. TypeOK /\ PoolInv /\ [Next]_vars => [Abstract!Next]_(Abstract!vars)
  BY PoolRefinedNext
<1> QED
  BY <1>1, <1>2, AllocatorInvariant, PTL DEF Spec, PoolSpec, Abstract!Spec
=============================================================================

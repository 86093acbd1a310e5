--------------------------- MODULE PortAllocator ---------------------------
(***************************************************************************)
(* network/port_allocator: the host ports of the NAT rules.                *)
(*                                                                         *)
(* Every winc-network process that sets up or tears down a container's     *)
(* network runs AllocatePort or ReleaseAllPorts.  The processes share one  *)
(* JSON state file.  A call locks the file, decodes it into a Pool, lets   *)
(* the Tracker change the Pool, truncates the file, encodes the Pool into  *)
(* it and, in the deferred Close, releases the lock.                       *)
(*                                                                         *)
(* One element of Procs is the slot of one winc-network process; a slot is *)
(* used again once its call has returned or its process has been killed.   *)
(***************************************************************************)
EXTENDS Integers

CONSTANTS
  Procs,         \* slots for concurrent winc-network processes
  Handles,       \* container handles
  NoHandle,      \* marks a port that is not a key of the Pool map
  NoProc,        \* marks an unlocked state file
  StartPort,     \* Tracker.StartPort, 40000 in cmd/winc-network
  Capacity,      \* Tracker.Capacity, 5000 in cmd/winc-network
  HostPorts,     \* the non-zero ports that callers ask AllocatePort for
  Faults,        \* what may go wrong, a subset of {"crash", "io"}
  OnePerHandle   \* TRUE: callers run one call per handle at a time

Word16 == 65536

ASSUME ConstAssumption ==
  /\ NoHandle \notin Handles
  /\ NoProc \notin Procs
  /\ StartPort \in Nat \ {0}
  /\ Capacity \in Nat
  /\ StartPort + Capacity < Word16
  /\ HostPorts \subseteq 1..(Word16 - 1)
  /\ OnePerHandle \in BOOLEAN

VARIABLES
  file,    \* the state file: does it parse, and which ports it lists per handle
  holder,  \* the process that has the state file locked, or NoProc
  pc,      \* where each process is in its call
  call,    \* each process's call: operation, handle, port answered, success
  pool,    \* each process's decoded Pool, a map from ports to handles
  told,    \* history: ports that AllocatePort returned for a handle and that
           \* no ReleaseAllPorts for that handle has been asked for since
  lost     \* history: a rewrite of the state file was cut short

vars == <<file, holder, pc, call, pool, told, lost>>

-----------------------------------------------------------------------------
(* The Tracker's uint16 arithmetic, and the two forms of a Pool.           *)

CandidatePort(i) == (StartPort + i) % Word16

InRange(port) == port >= StartPort /\ port < (StartPort + Capacity) % Word16

Ports == {CandidatePort(i) : i \in 0..(Capacity - 1)}

Pools == [Ports -> Handles \cup {NoHandle}]

Lists == [Handles -> SUBSET Ports]

NoPorts == [h \in Handles |-> {}]

\* Pool.MarshalJSON turns the map from ports to handles into lists per handle.
Marshal(q) == [h \in Handles |-> {n \in Ports : q[n] = h}]

\* Pool.UnmarshalJSON: q is a map that inserting the lists one after the other
\* may leave; a port in two lists belongs to whichever came last.
Unmarshals(lists, q) ==
  \A n \in Ports :
    IF q[n] = NoHandle THEN \A h \in Handles : n \notin lists[h]
                       ELSE n \in lists[q[n]]

\* Faulty variant: the ports stay keys of the map, with an empty handle.
ReleaseAllBlank(q, h) == [n \in Ports |-> IF q[n] = h THEN "" ELSE q[n]]

\* Tracker.ReleaseAll
ReleaseAll(q, h) == [n \in Ports |-> IF q[n] = h THEN NoHandle ELSE q[n]]

\* Tracker.AcquireOne takes the first candidate that is not a key of the map.
FirstFree(q, i) ==
  /\ q[CandidatePort(i)] = NoHandle
  /\ \A j \in 0..(i - 1) : q[CandidatePort(j)] # NoHandle

-----------------------------------------------------------------------------
Locked == {"decode", "track", "truncate", "encode", "close"}

NewCall(op, h) == [op |-> op, handle |-> h, port |-> 0, ok |-> FALSE]

NoCall == NewCall("release", NoHandle)

EmptyPool == [n \in Ports |-> NoHandle]

Init ==
  /\ file = [whole |-> TRUE, lists |-> NoPorts]
  /\ holder = NoProc
  /\ pc = [p \in Procs |-> "idle"]
  /\ call = [p \in Procs |-> NoCall]
  /\ pool = [p \in Procs |-> EmptyPool]
  /\ told = NoPorts
  /\ lost = FALSE

\* The call is over: control returns to the caller, the locals are gone.
Return(p) ==
  /\ pc' = [pc EXCEPT ![p] = "idle"]
  /\ call' = [call EXCEPT ![p] = NoCall]
  /\ pool' = [pool EXCEPT ![p] = EmptyPool]

\* garden runs one network action per container at a time
MayCall(p, h) ==
  /\ pc[p] = "idle"
  /\ OnePerHandle => \A q \in Procs : pc[q] # "idle" => call[q].handle # h

\* AllocatePort(handle, 0), up to Locker.Open
BeginAllocate(p) ==
  \E h \in Handles :
    /\ MayCall(p, h)
    /\ pc' = [pc EXCEPT ![p] = "open"]
    /\ call' = [call EXCEPT ![p] = NewCall("allocate", h)]
    /\ UNCHANGED <<file, holder, pool, told, lost>>

\* AllocatePort(handle, port) with a non-zero port answers without the file.
AllocateGiven(p) ==
  \E h \in Handles, port \in HostPorts :
    /\ MayCall(p, h)
    /\ ~InRange(port)
    /\ told' = [told EXCEPT ![h] = @ \cup {port}]
    /\ UNCHANGED <<file, holder, pc, call, pool, lost>>

\* ReleaseAllPorts(handle), up to Locker.Open
BeginRelease(p) ==
  \E h \in Handles :
    /\ MayCall(p, h)
    /\ pc' = [pc EXCEPT ![p] = "open"]
    /\ call' = [call EXCEPT ![p] = NewCall("release", h)]
    /\ told' = [told EXCEPT ![h] = {}]
    /\ UNCHANGED <<file, holder, pool, lost>>

\* Locker.Open blocks until it has the file's exclusive lock.
Open(p) ==
  /\ pc[p] = "open"
  /\ holder = NoProc
  /\ holder' = p
  /\ pc' = [pc EXCEPT ![p] = "decode"]
  /\ UNCHANGED <<file, call, pool, told, lost>>

\* Locker.Open fails: the call returns the error without a deferred Close.
OpenFails(p) ==
  /\ "io" \in Faults
  /\ pc[p] = "open"
  /\ Return(p)
  /\ UNCHANGED <<file, holder, told, lost>>

\* Faulty variant: what the file lists does not reach the Pool.
DecodeAllNothing(p) ==
  /\ pc[p] = "decode"
  /\ file.whole
  /\ pool' = [pool EXCEPT ![p] = EmptyPool]
  /\ pc' = [pc EXCEPT ![p] = "track"]
  /\ UNCHANGED <<file, holder, call, told, lost>>

\* Serializer.DecodeAll of a file that parses; an empty file is an empty pool.
DecodeAll(p) ==
  /\ pc[p] = "decode"
  /\ file.whole
  /\ \E q \in Pools :
       /\ Unmarshals(file.lists, q)
       /\ pool' = [pool EXCEPT ![p] = q]
  /\ pc' = [pc EXCEPT ![p] = "track"]
  /\ UNCHANGED <<file, holder, call, told, lost>>

\* Faulty variant: the early return on a decoding error leaves the file open.
DecodeFailsStaysOpen(p) ==
  /\ pc[p] = "decode"
  /\ ~file.whole \/ "io" \in Faults
  /\ Return(p)
  /\ UNCHANGED <<file, holder, told, lost>>

\* Serializer.DecodeAll of a file that was cut off, or a failing read
DecodeFails(p) ==
  /\ pc[p] = "decode"
  /\ ~file.whole \/ "io" \in Faults
  /\ pc' = [pc EXCEPT ![p] = "close"]
  /\ UNCHANGED <<file, holder, call, pool, told, lost>>

\* Faulty variant: the port found is not recorded in the Pool.
AcquireOneUnrecorded(p) ==
  /\ pc[p] = "track"
  /\ call[p].op = "allocate"
  /\ \E i \in 0..(Capacity - 1) :
       /\ FirstFree(pool[p], i)
       /\ call' = [call EXCEPT ![p].port = CandidatePort(i)]
       /\ UNCHANGED pool
  /\ pc' = [pc EXCEPT ![p] = "truncate"]
  /\ UNCHANGED <<file, holder, told, lost>>

AcquireOne(p) ==
  /\ pc[p] = "track"
  /\ call[p].op = "allocate"
  /\ \E i \in 0..(Capacity - 1) :
       /\ FirstFree(pool[p], i)
       /\ pool' = [pool EXCEPT ![p][CandidatePort(i)] = call[p].handle]
       /\ call' = [call EXCEPT ![p].port = CandidatePort(i)]
  /\ pc' = [pc EXCEPT ![p] = "truncate"]
  /\ UNCHANGED <<file, holder, told, lost>>

\* ErrorPortPoolExhausted
PoolExhausted(p) ==
  /\ pc[p] = "track"
  /\ call[p].op = "allocate"
  /\ \A i \in 0..(Capacity - 1) : pool[p][CandidatePort(i)] # NoHandle
  /\ pc' = [pc EXCEPT ![p] = "close"]
  /\ UNCHANGED <<file, holder, call, pool, told, lost>>

ReleaseHandle(p) ==
  /\ pc[p] = "track"
  /\ call[p].op = "release"
  /\ pool' = [pool EXCEPT ![p] = ReleaseAll(@, call[p].handle)]
  /\ pc' = [pc EXCEPT ![p] = "truncate"]
  /\ UNCHANGED <<file, holder, call, told, lost>>

\* EncodeAndOverwrite, first half: Seek and Truncate(0)
Truncate(p) ==
  /\ pc[p] = "truncate"
  /\ file' = [whole |-> TRUE, lists |-> NoPorts]
  /\ pc' = [pc EXCEPT ![p] = "encode"]
  /\ UNCHANGED <<holder, call, pool, told, lost>>

TruncateFails(p) ==
  /\ "io" \in Faults
  /\ pc[p] = "truncate"
  /\ pc' = [pc EXCEPT ![p] = "close"]
  /\ UNCHANGED <<file, holder, call, pool, told, lost>>

\* EncodeAndOverwrite, second half: one Write of the encoded Pool
Encode(p) ==
  /\ pc[p] = "encode"
  /\ file' = [whole |-> TRUE, lists |-> Marshal(pool[p])]
  /\ call' = [call EXCEPT ![p].ok = TRUE]
  /\ pc' = [pc EXCEPT ![p] = "close"]
  /\ UNCHANGED <<holder, pool, told, lost>>

\* The file has been truncated and nothing, or only a part, was written.
CutFile == \E w \in BOOLEAN : file' = [whole |-> w, lists |-> NoPorts]

EncodeFails(p) ==
  /\ "io" \in Faults
  /\ pc[p] = "encode"
  /\ CutFile
  /\ lost' = TRUE
  /\ pc' = [pc EXCEPT ![p] = "close"]
  /\ UNCHANGED <<holder, call, pool, told>>

\* The deferred Close releases the lock and the call returns to its caller.
Close(p) ==
  /\ pc[p] = "close"
  /\ holder' = NoProc
  /\ Return(p)
  /\ told' = IF call[p].op = "allocate" /\ call[p].ok
               THEN [told EXCEPT ![call[p].handle] = @ \cup {call[p].port}]
               ELSE told
  /\ UNCHANGED <<file, lost>>

\* The process is killed; Windows drops its lock.  Between Truncate and the
\* end of the Write the file is left cut.
Crash(p) ==
  /\ "crash" \in Faults
  /\ pc[p] # "idle"
  /\ IF pc[p] = "encode" THEN CutFile /\ lost' = TRUE
                         ELSE UNCHANGED <<file, lost>>
  /\ holder' = IF holder = p THEN NoProc ELSE holder
  /\ Return(p)
  /\ UNCHANGED told

Step(p) ==
  \/ Open(p) \/ OpenFails(p)
  \/ DecodeAll(p) \/ DecodeFails(p)
  \/ AcquireOne(p) \/ PoolExhausted(p) \/ ReleaseHandle(p)
  \/ Truncate(p) \/ TruncateFails(p)
  \/ Encode(p) \/ EncodeFails(p)
  \/ Close(p)

Next ==
  \E p \in Procs :
    \/ BeginAllocate(p) \/ AllocateGiven(p) \/ BeginRelease(p)
    \/ Step(p)
    \/ Crash(p)

Spec == Init /\ [][Next]_vars

\* A process that is not waiting for the lock is not kept from its next step.
FairSpec == Spec /\ \A p \in Procs : WF_vars(Step(p))

-----------------------------------------------------------------------------
(* Properties                                                              *)

\* The variables keep the shapes that the Go types and the file format give
\* them; only ports of the Tracker's range reach a Pool or the state file.
TypeOK ==
  /\ file \in [whole : BOOLEAN, lists : Lists]
  /\ holder \in Procs \cup {NoProc}
  /\ pc \in [Procs -> {"idle", "open"} \cup Locked]
  /\ call \in [Procs -> [op : {"allocate", "release"},
                         handle : Handles \cup {NoHandle},
                         port : Ports \cup {0}, ok : BOOLEAN]]
  /\ pool \in [Procs -> Pools]
  /\ told \in [Handles -> SUBSET (Ports \cup HostPorts \cup {0})]
  /\ lost \in BOOLEAN

\* The pool as the next call to lock the file will find it, unless the write
\* in progress is cut short.
Acquired ==
  IF holder # NoProc /\ pc[holder] = "encode" THEN Marshal(pool[holder])
                                              ELSE file.lists

\* A pool port that AllocatePort returned for a handle stays recorded as that
\* handle's until ReleaseAllPorts is asked to release it, whatever other
\* processes allocate, release, fail or crash meanwhile, as long as no rewrite
\* of the state file was cut short.  (A port the caller names itself is never
\* a pool port.)
ToldPortsAreOwned ==
  OnePerHandle /\ ~lost =>
    \A h \in Handles : told[h] \cap Ports \subseteq Acquired[h]

\* Two containers never hold the same host port of the pool, as long as no
\* rewrite of the state file was cut short: AllocatePort gives unique ports.
NoPortToldTwice ==
  OnePerHandle /\ ~lost =>
    \A g, h \in Handles : g # h => told[g] \cap told[h] \cap Ports = {}

\* When a call returns success, the state file agrees: the port answered is
\* listed for the handle, a released handle has no port left.
ReplyIsRecorded ==
  [][\A p \in Procs :
       pc[p] = "close" /\ pc'[p] = "idle" /\ call[p].ok =>
         IF call[p].op = "allocate"
           THEN call[p].port \in file.lists[call[p].handle]
           ELSE file.lists[call[p].handle] = {}]_vars

\* Whatever becomes of a call, its process gives the state file's lock back.
LockIsReleased == \A p \in Procs : holder = p ~> holder # p

-----------------------------------------------------------------------------
(* The inductive invariant behind ToldPortsAreOwned and NoPortToldTwice.   *)

Disjoint(lists) ==
  \A g, h \in Handles : g # h => lists[g] \cap lists[h] = {}

\* Exactly the process between Open and Close has the file locked.
LockMatchesPc == \A p \in Procs : pc[p] \in Locked <=> holder = p

\* A call in progress is for a handle and has not succeeded before it wrote.
CallsAreSane ==
  \A p \in Procs : /\ pc[p] # "idle" => call[p].handle \in Handles
                   /\ pc[p] # "close" => ~call[p].ok

\* No two calls in progress are for the same handle, and a handle that is being
\* released has no port its caller still relies on.
HandlesAreApart ==
  OnePerHandle =>
    \A p \in Procs : pc[p] # "idle" =>
      /\ \A q \in Procs \ {p} : pc[q] # "idle" => call[q].handle # call[p].handle
      /\ call[p].op = "release" => told[call[p].handle] = {}

\* The lock keeps a process's decoded Pool in step with the file.
PoolFollows(p) ==
  LET h == call[p].handle
      n == call[p].port
      allocating == call[p].op = "allocate"
      written == Marshal(pool[p])
  IN  /\ pc[p] \in {"track", "truncate", "encode"} => file.whole
      /\ pc[p] = "track" => written = file.lists
      /\ pc[p] = "truncate" /\ allocating =>
           /\ \A g \in Handles : n \notin file.lists[g]
           /\ written = [file.lists EXCEPT ![h] = @ \cup {n}]
      /\ pc[p] = "truncate" /\ ~allocating =>
           written = [file.lists EXCEPT ![h] = {}]
      /\ pc[p] = "encode" =>
           IF allocating THEN n \in written[h] ELSE written[h] = {}
      /\ pc[p] = "close" /\ call[p].ok =>
           IF allocating THEN n \in file.lists[h] ELSE file.lists[h] = {}

PoolFollowsFile == \A p \in Procs : PoolFollows(p)

\* The conjunction that every step preserves: the lock, the calls, the decoded
\* pools and the file fit together, so that no port the callers rely on is
\* missing from the file.
PoolInv ==
  /\ LockMatchesPc
  /\ CallsAreSane
  /\ HandlesAreApart
  /\ PoolFollowsFile
  /\ Disjoint(file.lists)
  /\ ToldPortsAreOwned

-----------------------------------------------------------------------------
\* The allocator implements the one-step pool: the effect of a call takes
\* place when it truncates the file.
Abstract ==
  INSTANCE PortPool WITH acquired <- Acquired, readable <- file.whole,
                         MayLose <- Faults # {}

PoolSpec == Abstract!Spec
=============================================================================

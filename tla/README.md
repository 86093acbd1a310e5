# A verification project for winc

winc is the OCI runtime for Windows containers of Cloud Foundry. Garden calls
two programs of this repository: `winc` (create, run, start, exec, state,
events, delete) and `winc-network` (create, delete, up, down). Neither is a daemon:
every call is a process of its own that finds its state in files and in Windows
services, changes it in many small steps and ends. Several such processes run
at the same time, each may be killed anywhere, and nothing ties their steps
together except the lock on one file. That is what the modules here model.

## Inventory

| part | state it keeps | operations | works with |
|---|---|---|---|
| port allocator (`network/port_allocator`) | the JSON file of acquired ports, its lock | AllocatePort, ReleaseAllPorts | called by the applier |
| net rule applier (`network/netrules`) | none | In, Out, OpenPort, Cleanup; IPRangeToCIDRs | port allocator, netsh, HNS policies |
| endpoint manager (`network/endpoint`) | HNS endpoints, found by name | Create, ApplyPolicies, Delete | HNS through `hcs.Client` |
| network manager (`network/network.go`) | the HNS NAT network | CreateHostNATNetwork, DeleteHostNATNetwork, Up, Down | all of the above, MTU setter |
| state manager (`runtime/state`) | `state.json` of each container | Initialize, SetSuccess, SetFailure, State, Delete | HCS, the Windows process table |
| container manager (`runtime/container`) | HCS compute systems | Spec, Create, Exec, Delete, Stats | HCS |
| mounter (`runtime/mount`) | `c:\proc\<pid>\root` mount points | Mount, Unmount | Windows volumes |
| runtime (`runtime/runtime.go`) | none | Create, Run, Start, Exec, State, Delete, Events | the three managers |
| process wrapper (`runtime/hcsprocess`) | goroutines, a signal handler | WritePIDFile, AttachIO, SetInterrupt | an HCS process |
| MTU setter, network interfaces (`network/mtu`, `network/netinterface`) | the MTU of each interface | SetContainer, SetNat; GetMTU, SetMTU, ByIP | called by the network manager |
| firewall applier and DLL (`network/netrules/firewallapplier`, `network/firewall`) | rules of the Windows firewall, found by name | In, Out, OpenPort, Cleanup; CreateRule, DeleteRule | port allocator, netsh, COM |
| test doubles (`*/fakes`) | recorded calls and results to give, behind mutexes | the doubled methods, `Returns`, `ReturnsOnCall`, `Calls`, `CallCount`, `ArgsForCall`, `Invocations` | the tests and the code under test |
| configuration, command line | none of their own | see `components` in PROJECT.json | |

What is hard here: a process killed between two steps of a file rewrite, of a
start, of an up; process ids that Windows reuses while `state.json` still names
them; status checks that are stale when they are acted on; cleanups whose own
calls fail; the order in which an endpoint and its ports are given back; retries
that take a half-made network for a finished one; exit code 259; the end of the
address space; a copying goroutine that never ends, and output still on its way
when the grace period runs out; a loop that ends only when a lookup fails in the
right way; mutexes taken in two orders. `hazards` in PROJECT.json lists each with its line and with the
properties aimed at it.

What makes each part correct, in short: a port belongs to one container at a
time; a failed or killed command leaves something that the next delete or down
can find and remove; success means that the effect is there; `state.json`
never describes somebody else's process and "running" is true; one container's
commands never damage another's network; an attached command comes back when
its process has exited, with its output.

## Modules

| module | models | notes |
|---|---|---|
| `PortPool` | what the port allocator promises | acquire, release, lose in one step each |
| `PortAllocator` | `port_allocator.go`, `pool.go`, `file_serializer.go` | refines `PortPool` |
| `PortAllocatorProofs` | | TLAPS proofs about `PortAllocator` |
| `WincHost` | HCS, process table, state and mount directories | external behaviour, shared variables, control |
| `StateManager`, `ContainerManager`, `Mounter` | the packages of those names | operations with continuations |
| `Runtime` | `runtime.go` and the commands of `cmd/winc` | composes the three |
| `ContainerLifecycle` | what winc promises of the life of one container | what `winc state` would answer, and who is at work |
| `RuntimeLifecycle` | | the mapping by which `Runtime` keeps those promises |
| `EndpointManager` | `endpoint.go`, `hcs/client.go` | over a table of HNS endpoints |
| `Mtu` | `mtu.go`, `net_interface.go` | over the interfaces of the NAT network and the endpoints |
| `NetworkManager` | `network.go`, `applier.go`, netsh, `cmd/winc-network` | composes `EndpointManager`, `Mtu` and `PortPool` |
| `AttachedProcess` | what `Runtime` takes AttachIO for | one step after the exit |
| `ProcessIO` | `process.go`: AttachIO, waitWithTimeout, SetInterrupt | refines `AttachedProcess` |
| `FirewallApplier` | `firewall_applier.go`, `firewall.go`, `firewall.c` | composes `PortPool` |
| `TestDouble` | the pattern of the generated doubles, with `sync.RWMutex` | |
| `Doubles` | the methods of each of the 28 doubles | used by `MCTestDouble` |
| `NetRules` | `IPRangeToCIDRs` | the loop, on words of `Width` bits |
| `RuntimeProofs`, `LifecycleProofs`, `NetworkProofs`, `ProcessIOProofs`, `NetRulesProofs`, `FirewallProofs`, `TestDoubleProofs` | | TLAPS proofs; `LifecycleProofs` is about `Runtime` too |
| `MCPortAllocator`, `MCRuntime`, `MCNetworkManager`, `MCProcessIO`, `MCFirewallApplier`, `MCTestDouble` | | command sets, instances, symmetry |

### Reading the modules

An element of `Procs` is the slot of one operating system process; `pc[p]` is
where it is. A step is one call that other processes can see: one file
operation, one HCS, HNS or Windows call. Code between two such calls is part of
the step before it. A component's operation takes the continuations of its
caller as parameters (`To(l)`: go on at l; `Err(l)`: go on at l with an error on
record), as the Go code does with `if err != nil`. So `DeleteContainer(p, force,
done, failed)` of `Runtime` can be read next to `deleteContainer` of
`runtime.go`. Every call that can fail has its failing alternative, switched on
by an element of `Faults`. Definitions whose comment begins with "Faulty
variant" are not part of any specification: each is a plausible mistake in the
definition that follows it, and the `mutants` list in PROJECT.json says which
property notices it.

`PortAllocator`: `file` is the state file (`whole`: it parses; `lists`: ports
per handle, as `Pool.MarshalJSON` writes them), `holder` the owner of its lock,
`pool[p]` the decoded map. A rewrite is `Truncate` and `Encode`. `told` and
`lost` are history: the ports callers rely on, and whether a rewrite was cut.

`Runtime`: `cs` is the state of each compute system, `win` the process table
with start times and open handles (`held`), `dir` the state directories, `mnt`
the mount directories. A process id is free again once its process has exited
and nobody holds it (`ProcessReaped`); the host takes ids too (`HostProcess`).
`clock` gives start times. `loc`, `seen`, `status` are what a winc process
remembers and may find outdated; `errs[p]` is the set of errors it has met, told
apart by what they keep a command from releasing (`Keeps`: the state directory, the
mount, the container).

`ContainerLifecycle` says what the commands promise of one container, in two
variables: `life`, what `winc state` would answer if nothing failed ("unknown"
where it would answer with an error of the record), and `work`, what a command is
doing that may change it. A container is created; a start goes ahead only with a
container that it found as it was created; a record is unreadable only while it
is written, or from then until it is written again or deleted; what has stopped
never runs again; only delete takes away a container that has not stopped.
`Create` may find the record that a container of the same name has left, since
HCS may forget a container that winc has not deleted: until `state.json` is
written, the new container has the life of the old record. A command may give up
anywhere. `RuntimeLifecycle` maps `Runtime` to it: `Status(c)` is the answer of
`Manager.State` to the compute system, `state.json` and the process table as they
are, and `Work(c)` is read off the places of the commands of c, so that both
change in steps that were written down for neither. The promise is per container,
about the steps of commands that do not overlap on one.

`NetworkManager`: `nat` is the NAT network, `eps` the endpoints with their
policies, `acquired` and `readable` the abstract pool. NAT policies are sets of
external ports, ACLs are told apart by action and direction, MTUs by where the
value comes from (HNS, the host, the configuration). An interface is there as
long as its network, or its attached endpoint, is. The texts of HNS
errors are represented because the retry loops compare them. Creates and deletes of
the NAT network overlap as they like, with each other too: `net[p]` is the id of the
network that p has looked up or made, and a delete removes the network of that id,
if it is still there. Detach does what the vendored hcsshim does: it succeeds when the
endpoint is not attached, and fails when the container is gone. `doomed` and `early`
are history: the networks that a delete has looked up, and the containers whose up read
the MTU of the network before a create had set it.

`ProcessIO`: `at[g]` is where goroutine g is (main, the copiers, the waiter of
`waitWithTimeout`, the receiver of interrupts), `wg` the wait group, `wgEmpty`
and `timer` the two cases of the `select`. A pipe is a number of chunks that fit
into it, `open` the ends that winc has not closed. The program, a child that
inherits its pipes, winc's own input and outputs and the user are the
environment. When AttachIO has returned winc ends, and its goroutines with it.

`FirewallApplier`: `fw[h]` counts the rules named after container h per
direction. `DeleteRule` is the loop of the DLL: as long as the lookup does not
say "not found", remove one. `MaxFails` bounds how often calls fail. At this
commit the package's `OpenPort(uint16)` does not fit the interface that
`network.go` wants, so nothing calls it; the caller modelled is the order of
calls in `network.go`.

`TestDouble`: a double is a sequence of methods; `mutex` has the state of each
method's mutex and of `invocationsMutex` (`w` the writer that holds it or waits
for the readers to leave, `r` readers, `q` readers that queue behind it: a
waiting writer keeps new readers out, as in Go). A call and an entry of its record are the
pair of the goroutine and a count. All doubles are generated from one template; `Doubles`
says which methods the struct of each double declares, and the run takes from there the
combinations of neighbouring methods.

`NetRules`: `start`, `end` and the result of `IPRangeToCIDRs`; `first`, `last`
and `bitMask` by arithmetic modulo 2^Width.

## Runs

Passing runs (TLC, two workers; each below five minutes):

| run | shows | bounds |
|---|---|---|
| `ports` | no port in use is forgotten or given twice, unless a rewrite was cut; replies are recorded; every lock is given back; the allocator refines `PortPool` | 2 processes, 2 handles, 2 ports: the pool runs full, calls queue on the lock |
| `runtime_crash` | success of start and delete is true, volumes can be found again, and a container is taken down after its sidecars, with processes killed anywhere | 2 processes, a container and its sidecar, 2 process ids, 2 starts: an id is used a second time |
| `runtime_faults` | a container lives the life that `ContainerLifecycle` promises (`LifecycleKept`), a delete releases whatever it met no error with (`DeleteReleasesResources`), a failed create takes down what it made, and a container whose recorded process runs is not started again, with every kind of failure, containers that vanish by themselves, attached runs, and `state` and `events` in between | 1 process, 2 process ids, 3 starts |
| `runtime_overlap` | `state.json` describes no foreign process, and "running" is true, with run, start, exec and delete overlapping on one container and programs that exit with code 259 | 2 processes, 1 process id, 3 starts: the id is reused by winc and by the host while commands are under way |
| `network_live` | a live container's network is not damaged; failed ups clean up | 2 processes, 2 containers, 2 ports, 3 endpoint ids: both want the last port |
| `network_down` | a successful down leaves nothing after killed ups, cut port files, deleted networks and outputs that could not be printed; a create has the network that was asked for until a delete looks that one up, although creates and deletes overlap; up gives the endpoint the policies of its inputs and the MTU of the network | 2 processes, 1 container, 1 port, every kind of input, 2 networks, 2 subnets |
| `cidrs` | the blocks are exactly the range and as few as can be, and the loop ends | all pairs of 5-bit addresses |
| `attach` | AttachIO comes back after the exit; output is complete unless the timer ended the wait; the program is never left blocked; an interrupt ends the call; all of it is one step to `Runtime` | all streams or stdout alone, pipes of one chunk, 1 and 2 chunks of output, 2 interrupts |
| `firewall` | a cleanup ends, leaves no rule and no port, and touches no other container | 2 processes, 2 containers, 2 ports, up to 4 rules of one name, 2 failing calls |
| `doubles` | the two records of a double agree, a snapshot is one moment, operations return, and goroutines that all wait for each other wait because of an Invocations | a test with 2 operations, 2 goroutines with one call each, 2 methods |

The largest runs (`runtime_overlap`, 3.9 million states; `network_down`, 2.2;
`network_live`, 1.5; `runtime_faults`, 1.1) bound what can be added to one instance.

Two processes are enough to put any step of one between any two steps of the
other, and every claim is about at most two containers. A process id is
used again as soon as there is a second start, by winc or by the host. A pool of two ports is exhausted by one
container with two rules. Pipes of one chunk block a writer that is not
served; one chunk more than fits is enough for that. Two failing calls can hit a
lookup and a Remove of one loop. Methods of a double share only
`invocationsMutex`, so two of them show every order of mutexes. Five bits give every mask length between 0 and the
word, aligned and unaligned ranges and the last address. Symmetry is used for
processes, process ids, handles and endpoint ids in runs that check safety
only. Deadlock checking is off for `Runtime`, where the bound on starts may
leave an attached run with nothing to do, for `NetRules` and `ProcessIO`, which
end, and for `TestDouble`, where a call of Invocations may block for ever
(`OnlyInvocationsBlocks` says exactly when).

Assumptions about callers are constants: `OnePerHandle` (Garden runs one
network command per container at a time), `UpOnce` (a down comes between two
ups), `Overlap` (whether two winc commands may work on one container).
The refinement of `PortPool` is proved without `OnePerHandle`;
`runtime_overlap` does without the restriction on overlap. `runtime_faults` has
one process because commands that do not overlap on its one container come one
after the other.

Fairness: `LockIsReleased` assumes weak fairness of each process's own steps,
that is, that Windows keeps scheduling it and its file operations return; a
crash counts as giving the lock back because Windows drops the locks of a dead
process. `Terminates` assumes that the loop's steps are taken. `ProcessIO`
assumes that Go schedules every goroutine that can run, that time passes, and
that a program goes on that can write or that has met the end of its input. It
assumes nothing of the child, of winc's own input and outputs, of the user, and
nothing that makes Wait fail while the process runs. `CleanupEnds` assumes that
Windows schedules the process and its calls return; that they do not fail for
ever is the bound `MaxFails`. `OperationsReturn` assumes scheduling and that
Go's mutexes do not starve anyone, which their documentation promises. All of it is
weak fairness. No other property needs fairness.

### Disagreements between the code and its tests, comments and help texts

Two runs state what a text of the repository says, and TLC shows a behaviour of the
model that contradicts it; `findings` in PROJECT.json quotes the texts.

- `runtime_reuse`: after a mount that failed on a reused process id, delete unmounts
  another container's volume, where `delete.go:9` says "delete a container and the
  resources it holds".
- `network_netin`: a comment in ApplyPolicies says "make sure everything's blocked if no
  netout rules present" (`endpoint.go:108`), but the code tests whether there are any
  access rules, and NetIn rules are some: an up with NetIn rules and no NetOut rules
  leaves an endpoint that blocks nothing. `PoliciesFitInputs` says nothing of the access
  rules in that case.

The following were met in the same way while modelling. No run is kept for
them; a property that holds only outside such a case says so.

- A process killed between Truncate and Write leaves an empty port file, which
  DecodeAll takes for an empty pool (`file_serializer.go:30`): the next
  allocation gives a port in use, where `pool_test.go:37` says "gives unique
  ports". `lost` and the abstract `Lose` stand for it.
- A delete that cannot compute the status (an error of OpenProcess, say) skips
  the unmount and deletes `state.json` all the same (`runtime.go:416`), so that
  nothing knows of the mounted volume any more, where `delete.go:9` says "delete
  a container and the resources it holds". `DeleteReleasesResources` excuses it.
- createEndpoint retries only an error whose text is "HNS failed with error :
  Unspecified error" (`endpoint.go:190`); the vendored hcsshim says "hns failed
  with error" (`hnsfuncs.go:37`), so there is no retry, unlike in
  `endpoint_test.go:102`. The same holds of `hcs/client.go:76`.
- A container that stops, and that HCS then forgets, keeps its state directory
  and its mount; a create of the same name overwrites `state.json`, and the mount
  is recorded nowhere.
- A second interrupt after a Kill that failed has no receiver
  (`process.go:93`); `InterruptEndsCall` excuses it.
- DeleteRule of the firewall DLL takes a lookup that fails for a rule that is
  there, so that it loops as long as the lookup fails, and the test for -1 after
  its loop is never true (`firewall.c:134`).
- A double's Invocations takes the mutexes in the other order than its methods
  do and can block against a call; no test calls it.
- A program that exited with code 259 is reported as running while somebody has
  a handle to it (`state.go:193`); `RunningIsTrue` allows for it.
- Two overlapping starts that both saw "created" both start an init process
  (`runtime.go:311`), and so does a start after one that was killed between Exec
  and SetSuccess; `RunningIsNotStarted` speaks of recorded processes and of
  commands that do not overlap. `runtime_overlap` has such starts in it: whichever
  writes last, `state.json` describes a process of the container.
- A sidecar that is created after delete has read the list of containers is not on
  that list and is not taken down (`runtime.go:139`). `SidecarsGoFirst` is about
  commands that do not overlap.
- `run --detach` calls Exec without pipes, so no handle keeps the process id
  from being reused before `OpenProcess`, unlike what the comment at
  `state.go:88` says; `RecordedInitIsOwn` is about the other commands, and no
  run uses `run --detach`.
- `delete --force` fails when the container goes away after the status query,
  because the error of OpenContainer is no `hcs.NotFoundError`
  (`container.go:330`).
- A create that follows one whose SetNat failed reports success and sets no MTU
  (`network.go:110`); neither does one after a create that was killed. An up that
  reads the MTU then, or while a create is still under way, gives the endpoint HNS's
  default. `MtuFollowsNetwork` allows the default for those ups and no others.
- A HostPort of the pool's range is mapped without being acquired, because the
  applier calls AllocatePort only for port 0 (`applier.go:40`);
  `LiveNetworksLast` and `LivePortsApart` are checked with host ports outside the range.

## Proofs

Eight modules hold theorems. Each one holds for every value of the constants that
satisfies the module's assumption (`HostAssumption`, `NetworkAssumption` and so on:
the markers are no members of the sets they mark the absence of, sets of commands
have commands in them) and the hypotheses in the theorem's own statement. Every
safety invariant, every action property and every refinement that a passing run
checks is proved. A hypothesis that restricts callers or
failures is the restriction the run is made with.

A proof about a component with many steps has two layers. The lower one says, once,
what a step of each operation may change and where it may go on (`StepFrame`,
`Moves`, and the operators `Acting`, `Works`, `Starts`, `Ends` that they are stated
with); it follows the operations of the component's module with their continuations.
The upper one has, per property, an invariant of one process, `...Of(p)` or
`...Inv(p)`, and uses only what the lower one says.

### `PortAllocatorProofs`

For every set of processes and handles, every port range that fits 16 bits and
every choice of faults:

- `AllocatorTypes`: `Spec => []TypeOK`;
- `AllocatorInvariant`: `Spec => []PoolInv`;
- `AllocatorKeepsPorts`, `AllocatorUniqueness`: from it, that ports told to
  callers stay owned and are never told twice;
- `AllocatorReplies`: the action property `ReplyIsRecorded`;
- `AllocatorImplementsPool`: `Spec => PoolSpec`, the refinement of `PortPool`.

The assumption is `ConstAssumption`; it says of the range that `StartPort + Capacity`
does not overflow 16 bits (40000 and 5000 in `cmd/winc-network`).

`ToldPortsAreOwned` alone is not inductive: nothing in it says that the pool a
process is about to write is the file it read plus its own change. `PoolInv`
adds that exactly the process between Open and Close holds the lock
(`LockMatchesPc`), that therefore its decoded pool follows the file step by step
(`PoolFollowsFile`), that no port is listed for two handles (without which
`UnmarshalJSON`, which inserts list after list, would not give back what
`MarshalJSON` was given), and that a handle being released is one no caller
relies on (`HandlesAreApart`). Uniqueness then follows from ownership and
disjoint lists. For the refinement the effect of a call takes place at Truncate:
from there on `Acquired` is what the write will leave, and a write that is cut
short is the abstract `Lose`.

### `RuntimeProofs`

For any commands, overlapping or not, and any failures and crashes:

- `Typing`: `Spec => []TypeOK`. `TypeInv` adds `Control`, which ties the place of
  a command to what it has found by then;
- `RecordsAreOwn`: `RecordedInitIsOwn`, a `state.json` describes no foreign process
  (the property itself leaves `run --detach` out);
- `RunningIsAlive`: the action property `RunningIsTrue`, without `run --detach`.

The invariant is `RecordInv`. All start times lie before `clock` (`StartsPast`), so
that a reused process id never has a recorded start time; from Exec to OpenProcess
the starter holds its process, which belongs to its container (`HoldsInit`); and
what holds of the files holds of the copies that SetSuccess and SetFailure have read
and are about to write (`Owns`, over the places in `UsesCopy`).

### `LifecycleProofs`

All of it for commands of which no two that write work on one container at a time
(`~Overlap`). `ExclusiveInv` carries that restriction from where a command begins to
every later step.

| theorem | property | further hypotheses | invariant |
|---|---|---|---|
| `StartsNothingTwice` | `RunningIsNotStarted` | (the property has `~Overlap` in it) | `StartInv`: from the status query to Exec `state.json` is what start has read, and names no process |
| `FailedCreateCleansUp` | `FailedCreateLeavesNothing` | | `CreateInv`: at which step of a create its container exists, and that a failed one ends with it down or with an error of taking it down on record |
| `DeleteReleases` | `DeleteReleasesResources` | | `DeleteInvar`: what a delete has passed is released or an error is on record |
| `SidecarsAreDownFirst` | `SidecarsGoFirst` | no container is its own sidecar | `SidecarInv`: the sidecars that the loop has passed are down |
| `MountsStayRecorded` | `MountsAreRecorded` | `OnlyCrashes` | `Mounted`, `MountOf`: while `state.json` is written or removed the volume is not mounted |
| `DeletedIsGone` | `DeletedMeansGone` | `OnlyCrashes` | `DeleteInvar` and the two before, with `DeletedInv` |
| `StartRecords` | `StartIsRecorded` | | `StartedInv`: what SetSuccess has written stays |
| `StartRecordsAndMounts` | `StartedMeansRecorded` | `OneContainer` | the same |
| `LifecycleImplemented` | `LifecycleKept` | (the property has `~Overlap` in it) | `LifeInv`, see below |

`OnlyCrashes` says that processes are killed and exit with any code, but that no call
fails; the runs of the two properties have the same faults. A call that fails may
leave a mount behind that no file names, which the section on disagreements describes.
`OneContainer` was met in a proof attempt: with two containers the mounted volume of a
start that reports success may be gone again, because a delete of the other container,
whose `state.json` still names the process id that Windows has given out again, may
unmount it. It has the cause of `runtime_reuse`. (In `runtime_crash` nothing is started in the
second container, so that its delete unmounts nothing.) `StartRecords` says what holds with any number
of containers; it is stated in `LifecycleProofs` and no run checks it by itself.

`LifecycleImplemented` is a refinement: `Runtime` implements `ContainerLifecycle` for
every container, with any number of processes and containers. What a command is
about to do to the record must fit what State would answer at that moment, however
that came about. `Knows(p)` says it for a command at each place: from the moment that
start has found the container created, or that run has created it, until the record is
rewritten, it is blank; between Truncate and Write it is unreadable; the copy that is
about to be written as a failure has its flag, and the one of a success a process id
and in the end a start time. `Dated` says that a record names only processes started
before now, so that no process started later can make a stopped one answer
"running": that is where the comparison of start times in `userProgramStatus` is
needed. The proof has one lemma per component operation (`FillLife`, `CreateLife`,
`ExecLife`, `DeleteStateLife` and so on), each saying what `Status` and `Work` of its
container do; `StatusMoves` and `WorkIsStage` reduce the other containers and the
other processes to a stutter, since at most one writer works on a container
(`OneWriter`); `EnvironmentLife` does the same for exits, reaped ids, and processes
of the host.

### `NetworkProofs`

| theorem | property | hypotheses | invariant |
|---|---|---|---|
| `NetworkTypes` | `TypeOK` | | `TypeInv` |
| `CreatedIsConfigured` | `CreatedAsConfigured` | | `NatInv`: past the check or the creation, the network that a create has looked up or made is there, with the subnet asked for, unless a delete has looked it up |
| `DownIsClean` | `DownMeansClean` | `UpOnce` | `CleanInv` |
| `FailedUpCleansUp` | `FailedUpLeavesNothing` | `UpOnce` | `CleanInv` |
| `LivePortsStayApart` | `LivePortsApart` | `UpOnce`, `~MayLose`, `OutsidePool` | `PortsInv` |
| `PoliciesFit` | `PoliciesFitInputs` | `UpOnce`, `OutsidePool`, `DistinctHostPorts`, `FewIfLossy` | `FitInv` |
| `LiveNetworksStay` | `LiveNetworksLast` | `UpOnce`, `~MayLose`, `OutsidePool` | `LiveInv` |
| `MtuFollows` | `MtuFollowsNetwork` | `UpOnce` | `MtuInv` |

`CleanInv` says that a container has at most one endpoint (the lookup by name finds no
second one, so a second would stay for ever), that a container that is down and has no
up under way has neither endpoint nor port, and what a cleanup has passed. `PortsInv`
adds that no port is acquired for two handles and that the pool ports an endpoint maps,
and those an up has collected, are acquired for its handle; uniqueness follows from the
two, as in the port allocator. `FitInv` counts the mappings collected so far; `LiveInv`
says that an up that has applied policies, and a live container, still have the endpoint;
`MtuInv` says that endpoints belong to the network that is there, and that the MTU an
up is about to set, or has set, is still that network's, or HNS's default if the up read
it early.

`UpOnce` is a rule for the caller (two ups in a row create two endpoints of one name).
`~MayLose` leaves out the cut rewrite of the port file, `OutsidePool` host ports of the
pool's range; both are described among the disagreements, and without either the
property is false. `DistinctHostPorts` keeps one up from naming a host port twice,
which maps it twice. `FewIfLossy` (a port file that may be lost and two ports for one
container may give it one port twice) is implied by `~MayLose`.

### `ProcessIOProofs`

`OutputComplete`: `OutputIsComplete`, for any amount of output and any pipe size;
`AttachImplements`: the refinement of `AttachedProcess`. `IOInv` conserves chunks
(`Conserved`: what was written is what was passed on plus what is in the pipe, unless
the copy has broken off), says that the wait group counts the copiers that have not called
Done (`Counted`), and ties `wgEmpty` to it (`Awaited`). The abstract specification has
no fairness, so the refinement is all of what `AttachIsOneStep` says.

### `NetRulesProofs`

`RangeIsCovered`: `CoversExactly` for addresses of every width. `RangeInv` says that the
blocks so far are disjoint and cover exactly the addresses below `start`, that each
was the largest possible where it stands (`Largest`), and that no block around `start`
that begins earlier in the range would fit (`Greedy`), which makes the next one the
largest too. That `first`, `last` and `bitMask` find the longest
block is a statement about the least of a set of lengths; the induction it needs is
replaced by `LeastElement`, from the library's theorems that `<` on the naturals is
well founded and that a well-founded relation has minimal elements. The provers know
nothing of `^`; `PowerAssumption` of `NetRules` states the one fact of arithmetic that
the proof uses, `2^k = 2 * 2^(k - 1)` for `k` in `1..Width`. It is true of every `Width`
and restricts nothing; TLC evaluates it in the run `cidrs`.

### `FirewallProofs`

`CleanupIsClean`: `CleanupMeansClean`; `LiveRulesStay`: `LiveRulesLast`; both for any
number of rules of one name and of failing calls. `CleanInv` says what a cleanup has
passed; `CountInv` says that between two steps of an up there are exactly the rules and
ports of the part of its inputs that it has worked off (`Zeros`, `InMade`, `OutMade`).

### `TestDoubleProofs`

For doubles of any number of methods and any number of goroutines and calls.
`ListsAgree`: `RecordsAgree`; `SnapshotsAreConsistent`: `SnapshotIsConsistent`.
`DoubleInv` says who holds which mutex at which place, hence that a writer is alone, and
that the two records of a method differ only while a call is between the two.

`BlockedByInvocations`: `OnlyInvocationsBlocks`. `Waits(t)` says at which places, and
for whom, an operation waits; TLC confirms on the instance of the run that a busy
goroutine waits exactly when its next step is not enabled. `HoldInv` says that a
goroutine is entered in a mutex only where its place says so (`Tenure`), that one
that has asked to read is a reader or queues (`Asked`), and that readers queue only
behind a writer (`Sound`). When everyone waits, every reader of a mutex is an
Invocations that waits further on (`ReadersCollect`), and a writer waits for readers
or is a method that waits for `invocationsMutex` (`WritersWait`); so some Invocations
has `invocationsMutex` (`SomeoneCollects`). The one of them that has come furthest
(`GreatestElement`, from the well-foundedness of `<`) queues behind a writer that
waits for no readers, since those would have come further still: a call of a method
that waits for `invocationsMutex`.

### What the attempts changed

A `CASE` in `Return` of `NetworkManager` was ambiguous in its nesting, so that the
provers and a reader could take one alternative for part of another; it is written with
alternatives of its own now. Types that were sets of records written out in `TypeOK` are
named value sets (`StateDirs`, `Networks`, `Endpoints`) that the proofs use too. No
behaviour that TLC explores has changed.

`OnlyInvocationsBlocks` was stated with ENABLED, which hid from a reader whom a
blocked goroutine waits for. It says so now: it names the call that
waits for `invocationsMutex` and the Invocations that waits for that call's method, and
its proof needs both.

The refinement made two promises more precise than they look at first: what `Create`
may find (the record of an earlier container that HCS has forgotten), and how long a
record may stay unreadable (after a process killed in `os.WriteFile`, until the next
delete or create of the name).

### Only model-checked

- Liveness: `LockIsReleased`, `Terminates`, `ReturnsAfterExit`, `ProgramIsServed`,
  `InterruptEndsCall`, `CleanupEnds`, `OperationsReturn`. Fairness is beyond this prover.
- That `Waits` means not ENABLED.
- The violations that `runtime_reuse` and `network_netin` show.

## Not modelled

- Contents of the OCI specification and of the configuration, and what their
  validation checks: it passes or fails.
- What Stats and Events print; that they may fail, and change nothing, is part of
  `Runtime`.
- Command line parsing, logging and wiring of both programs: a process that they
  refuse has done nothing to the host. RuleExists of the firewall, which nothing but
  tests calls.
- The arguments and results of doubled methods beyond which call they belong
  to, and the copies that doubles make of slices.
- Integration tests and their helpers.
- HCS, HNS, the file lock, netsh and Windows are represented by what the code
  relies on and marked external in the map.

## Plan

Done: all components but those under "Not modelled"; proofs of every safety invariant,
action property and refinement. What is left:

1. Model: what ValidateBundle and ValidateProcess check; the merging of NetOut
   rules.
2. Compose: `NetworkManager` on `PortAllocator` itself instead of `PortPool`. The
   refinement `AllocatorImplementsPool` is what such a composition would use.
3. Prove: `StartedMeansRecorded` for several containers whose `state.json` files name
   different process ids.

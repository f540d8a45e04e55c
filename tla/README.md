# Verification of streamblocks-partitioning

StreamBlocks programs are networks of dataflow actors.  This repository holds
what is needed to decide where each actor should run: a C runtime that executes
a network on several CPU threads and profiles it (`src/profiling/software`), a
benchmark of the transfers between host and accelerator
(`src/profiling/hardware`), and the partitioning itself, which turns the
profiles into constraints for a MILP solver (`src/partitioning`).

The TLA+ modules here model the program as its source is written.  TLC checks
them on small instances, TLAPS proves the theorems for every value of the
constants.  `PROJECT.json` maps each definition to the lines it models, lists
the hazards and the properties that cover them, the runs, and for every property
a plausible bug that the property detects.

    tlc -config exec_bench.cfg MCSoftwareBenchmark  model-check one run
    tlapm ExecuteNetworkProofs.tla                  check the proofs of one module
    tlapm FiringTraceProofs.tla
    tlapm FifoProofs.tla
    tlapm LoopbackProofs.tla
    tlapm ReportProofs.tla
    tlapm FoldFacts.tla
    tlapm PartitioningProofs.tla
    tlapm NetworkSetupProofs.tla

## 1. Inventory

Paths are relative to `src/profiling/software/lib/art-runtime` unless they begin
with `partitioning`, `hardware` or `software`.

| Component | State | Operations | Interacts with |
|---|---|---|---|
| CPU thread loop, `include/actors_execute_network.h` | cached availability and local counts of the ports of its actors; `has_affected`, `old_sleep`, `quiescent`; the shared `sleepers`, `curr_sleep_event`, `terminate`, `numActiveActors`, `*cpu.sleep`, `cpu.sem`, mutex | a round: prefire, fire, postfire, wake others, or lock, scan, sleep, end | other CPU threads through shared counts, semaphores and the mutex; the actors by calls |
| Scheduler macros and ports, `include/actors-rts.h` | `LocalContext` (position, count, availability), `SharedContext` (count) | `ART_ACTION_SCHEDULER_ENTER`/`EXIT` | generated actor code |
| FIFO operations, `include/actors-fifo.h` | ring position from -capacity to -1 | read, write, peek, consume, one or several tokens | actor code |
| Threads, semaphores, `include/actors-thread.h` | semaphore counts | wait, try_wait, post, create, join; three platforms | thread loop |
| Network construction, `src/actors-rts.c` | instances, ports, capacities, placement | create, connect, set parameters, index, check, allocate | everything that runs |
| Configuration, `src/xmlParser.c`, `src/actors-rts.c` | affinities, connections from an XML file | parse, sort instances, set affinity and FIFO size | network construction |
| `executeNetwork`, `src/actors-rts.c` | options | the whole life of a run | all of the above |
| Termination report, `src/termination-report.c` | array used as stack and as output, leaders | find cycles of blocked actors, report | network after its end, actors by calls |
| Traces, statistics, `src/xmlTrace.c`, `src/jsonTrace.c` | the step counter of all firings and its mutex, files per CPU, numbers of ports and actions | declare the network, record a firing, close | thread loop, action schedulers |
| Software benchmark, `software/src` | words of a message, loops left, sum of the times | action schedulers of `TimedSource` and `PassThrough`, the destructor that writes the measurement | runtime; the partitioning reads the file |
| Device port, `hardware/bandwidth/art-plink` | host and device ring, events and their info | transfers split at the end of the ring, reads of the meta buffer, callbacks | OpenCL |
| Loopback tester, `hardware/bandwidth/bandwidth.cpp` | ports, kernel events, call index | one test call: write, run, poll, read, release | device ports |
| Cost model, `partitioning/.../models/PerformanceModel.java` | decision variables | ticks of a connection, solutions | databases |
| Multicore, pinned and heterogeneous models | solver model | constraints, solve | solver (external) |
| Partitioning phase | settings, databases | run the models per number of cores, number unique hardware partitions, dump | models |
| Profile databases and parsers | tables | fill, look up, interpolate | models |

What is hard here is concurrency in the thread loop: counts are cached and
published in batches, a CPU sleeps on a semaphore that others post according to
a private note of whom they have affected, and the last one to fall asleep
decides that the network has ended.  The correctness of each component:

* thread loop: an actor never acts on tokens or space that is not there; no
  wake-up is lost; the network ends when, and only when, no actor can fire; all
  threads return; the result does not depend on the schedule.
* FIFO: what is read is what was written, in order, also across the end of the
  ring and the wrap of the counts.
* traces: merged by step they are an execution of the network, with every firing once.
* benchmark: the time it writes is that of its round trips.
* construction: exactly the declared connections, capacities in one unit, every
  actor on one CPU.
* termination report: the groups reported are the strongly connected components
  of the waits-for graph, and it can be asked for in every terminated network.
* device port and tester: each index interval transferred once, no event reused
  while active.
* partitioning models: constraints admit one labelling of every partition the
  model means to admit and nothing else.

The section "hazards" of `PROJECT.json` lists, line by line, what could go wrong
and which property covers it.

## 2. Plan

Order of work, the most important behaviour first.

| Module | Models | Status |
|---|---|---|
| `Network` | the static network, as constants with assumptions | done |
| `Dataflow` | abstract specification: sequential execution of a network | done |
| `ExecuteNetwork` | the thread loop; implements `Dataflow` | done |
| `ExecuteNetworkProofs` | `TypeCorrect`, `SleepCorrect`, `AffectedCorrect`, `ActiveCorrect`; `ViewsCorrect`: `ViewsSafe` for every network; `FiringCorrect`: `RefinesFiring` for every network; `FiringBounded`; on two CPUs, the end of the network: `TerminationCorrect`, `ExecutionCorrect`, `WakeupCorrect`, `OutcomeLeast`, `OutcomeCorrect` | done |
| `Channel` | abstract specification: a FIFO with several readers | done |
| `ArtFifo` | the ring, contexts, counts modulo 2^w; implements `Channel` | done |
| `TerminationReport` | `visit` and `deadlock_report` against a definition of strongly connected components | done |
| `DevicePort`, `LoopbackTest` | split transfers, asynchronous commands and their events, one test call after the other | done |
| `LoopbackProofs` | `TransfersExact`, `ReleaseCorrect`, `AssertionsHold`, `TypeCorrect`, `ConflictFree`; `EchoCorrect`: the host reads back what it has sent; `StatisticsRight` | done |
| `ReportProofs` | `ArrayCorrect`, `SearchCorrect`, `ReportRight`, `VisitsAll` | done |
| `NetworkSetup` | from the calls of a main to the network that the threads execute, configuration files parsed and written; its results satisfy `ShapeAssumption` | done |
| `SoftwareBenchmark` | the words that the two actors of the benchmark exchange, their clock, the report and the measurement; adds to `ExecuteNetwork` | done |
| `FiringTrace` | the numbered records of all firings, and what a reader makes of them; adds to `ExecuteNetwork` | done |
| `FiringTraceProofs` | `TracingHarmless`, `ReplayCorrect`, `CompleteCorrect` | done |
| `FifoProofs` | `PeekDirect`, `AccessRight`, `TypeCorrect`, `SlotsApart`, `DeliveryCorrect` | done |
| `PartitioningModel` | the multicore, the heterogeneous and the pinned model: their constraints and times over all assignments of a network, the rounding of buffer sizes | done |
| `PartitioningPhase` | a compilation: what it reads, reports, solves and writes, several of them in one directory | done |
| `FoldFacts` | induction over sets of naturals, and what sums, maxima and folds of the community modules are, for the proofs | done |
| `NetworkSetupProofs` | `SetupTypes`, `WiringIsDeclared`, `CapacityIsAsked`, `PlacementIsAsked`; `NetworkHasShape`: what `ExecuteNetwork` assumes of a network is true of what is built | done |
| `PartitioningProofs` | `TypesAreRight`, `HardwareIsNumbered`, `PartitionsAreFoundOnce`, `PinnedModelAgrees`, `ConfigurationsAreClosed`, `CostsAreRight` | done |

Not proved: `Reproduced`, which relates two executions, and `Measured`, which rests on
powers of two and the rounding of floating point numbers.

## 3. Modules

### Network, MCNetworks

`Network` declares an actor network as `allocate_network` hands it to the
threads: the actors of each CPU in list order (`ActorsOn`), their ports (`Ins`,
`Outs`), the owner of each FIFO (`Writer`) and its capacity.  The code of the
actors is generated by the StreamBlocks compiler and external; all that the
runtime sees of it is how many tokens a call takes and gives.  `Taken` and
`Given` are these numbers as totals over the first n firings, so rates may differ
from firing to firing.  `Horizon` bounds the firings of an actor: for a source it
is the length of its input.  `ShapeAssumption` and `RateAssumption` are the
assumptions of the proofs, and TLC evaluates them on each network it checks.
`MCNetworks` defines five networks and computes the constants from them.

### Dataflow

What executing a network promises, with no threads: `fires`, the number of
firings of each actor.  A firing consumes what was written and does not take a
FIFO above its capacity.  `Spec` lets the execution end only when no actor can
fire; `FiringSpec` makes no promise on the end.  `Outcome` are the firing counts
of one sequential execution, which is long enough for any network when it has as many
steps as there are `Firings` at all.

### ExecuteNetwork

One process per CPU thread, with the program counter `pc`:

| pc | lines of actors_execute_network.h | actions |
|---|---|---|
| prefire | 68-92 | `PrefirePort`, `PrefireSkip` |
| fire, decrement | 98-112 | `Fire`, `Decrement`, `FireSkip` |
| postfire | 118-151 | `PostfirePort`, `PostfireSkip` |
| wake, post | 154-183 | `Wake`, `Post` |
| lock, scan, decide | 185-279 | `Lock`, `Scan`, `StayAwake`, `GoToSleep` |
| asleep, wait, woken, relock | 282-297 | `CheckTerminate`, `Wait`, `WakeUp` |
| drain | 304-310 | `Drain` |
| done, exit | 315-328 | `Done` |

`Arrive` is the world outside: an active actor gets an event and some thread
posts the semaphore of its CPU, through `actor->cpu`.

The variables have the names of the code: `wcount`, `rcount` are the shared
counts, `inCount`, `outCount` and `availIn`, `availOut` the local ones,
`affected` is `has_affected`, `sleep[c]` is `*cpu[c].sleep`.  The state of the
actors is `fires`.

Granularity.  A step touches shared memory once: the read of the two counts of an
input, the publication of one port, one iteration of the loops over the CPUs.
Between the test of `*cpu[i].sleep` and the post of the semaphore lies a step, and
so does between load and store of `numActiveActors--`.  Exceptions: the counts of
all readers of an output port are read in one step; in the mutex one iteration of
the scan, and the bookkeeping from line 243 to 279, are one step each, since what
they write is written only by owners of the mutex, or only while its owner sleeps
(`AffectedUnshared`).  When a CPU is woken, the note in `affected` and `old_sleep`
is made in the step that decides, and the semaphore is posted in the next; only
the CPU itself looks at both while it is awake.

Abstractions.  Memory is sequentially consistent.  Token values, timing
statistics, traces and constructors are left out.  The shared counts are
unbounded (on the machine they wrap).  A call of an action scheduler fires as
often as its tokens, space and `loopmax` allow and returns; an actor that would
do less is outside the model.

### ArtFifo, Channel, MCArtFifo

`ExecuteNetwork` counts tokens; `ArtFifo` looks at one FIFO and the tokens
themselves.  `buffer` is the ring as the CPU of the writer sees it, `memory` as the
others do: a store reaches them at any time (`Propagate`) and at the latest at the
`WRITE_BARRIER`.  `local` and `context` are the two copies of position and
availability, between which `Enter` and `Exit` (the macros
`ART_ACTION_SCHEDULER_ENTER` and `_EXIT`) copy; `Prefire` and `Postfire` are the
parts of the thread loop that concern a port.  `Single` and `Repeat` say which
slots a function of `actors-fifo.h` touches and where it leaves `pos`, `PeekSlot`
where the peeking functions look.  `Write` and `Read` are the functions on an
output and an input port, where a reader may read, or peek and then consume
(`Ways`, `ReadWays`).
Shared counts are ints of `Width` bits and wrap.  Tokens are numbered, so that the
sequences `got` show what was read.

`Channel` is the promise: every reader gets what was written, once and in order,
and the writer is never more than the capacity ahead.

Abstractions.  An actor may do any operation for which it has tokens and space.
Loads are not reordered.  Overflow of an int is undefined in C; the builds wrap.

### SoftwareBenchmark, MCSoftwareBenchmark

The benchmark on the two threads of `ExecuteNetwork`, word by word.  A step `Fire` of
`ExecuteNetwork` says how many tokens move; in conjunction with it, `sendAction`,
`recvAction` and `pass` are the bodies of the two action schedulers: what is stored in
`ring`, the local buffers, `repeat`, `state` and `totalTicks`.  `BufferReport` and
`RunDestructors` are the main thread after it has joined the others, with the destructor
of `TimedSource`, whose result is `dump`.  The invariants and the refinement of
`ExecuteNetwork` are checked on the composition.

`getticks` reads one counter that runs forward on all CPUs; its values are inputs
(`Readings`).  A value takes two words, which a message may have on both sides of the end of
the ring.  `Double` is the conversion of a 64-bit counter to `double`, whose mantissa is
shorter: `elapsed` converts both arguments first, so the error grows with the counter and
not with the time between its readings.  Nobody sets the `traceTurnusFile` that
`run_destructors` tests (`actors-rts.c:1032`), so `RunDestructors` may also crash.

Abstractions.  Words have `WordWidth` bits, the mantissa `Mantissa`.  The benchmark is run
without traces: with them `timed_source.cc:122-124` gives the runtime action descriptions
without token numbers, which `xmlTrace.c:170` dereferences.

### FiringTrace, MCFiringTrace

The traces of firings (`--trace`, `--turnus-trace`).  `ART_ACTION_EXIT` takes the next
number of a counter that all threads share and prints a record to the file of the CPU.  A
call of an action scheduler is one step of `ExecuteNetwork`; after it the thread can
do nothing until `TraceFiring` has traced the firings of that call one by one, which
interleaves with the other threads.  A record names the action: in the XML format by an
`id`, counted through all actors in the order of the CPUs (`FirstActionIndex`), in the
TURNUS format by the name of the actor and the number of the action.  `recorded` counts the lines of all files by record.  `XmlEffect` and
`TurnusEffect` are what a reader who only has the files can compute from them, so that
`replayed` is the content of each FIFO after the records up to now, in the order of their
numbers.  `Close` is an iteration of `run_destructors`.

Abstractions.  What a thread does within the mutex (`step++`) is one step, and the record
is made there: it goes to a file of the thread's own.  The network has no active actors (they
access shared memory once more in a call) and one actor of a class: a TURNUS
record cuts the name of an instance at the `/` before its index (`jsonTrace.c:85`), so that
two instances of a class cannot be told apart.

### TerminationReport, MCTerminationReport

`deadlock_report` after an execution.  `answer` is what each action scheduler
returns when `getExitCode` asks it; whether the readers of an output have the
space required is part of it (`lacking`).  The recursion of `visit` is the sequence
`frames`; what a call has still to visit, `todo`, is a set of pairs of a port in its answer
and a reader of that port, visited in the order of the two loops (`Before`); `stack`, `leader`, `depth` and `rpoIndex` are the fields of
`ComponentInfo`.  `VisitNext` and `VisitNeighbor` are calls of `visit`, `Finish` its
end with the pop of a group, `Report` an iteration of the report loop.  `cyclic` and
`artificial` are what is printed.  What they are compared with is defined without a search:
two actors wait for each other, directly or not, when no set of actors that wait for nobody outside it
(`Closed`) has only one of them (`Component`).

### DevicePort, LoopbackTest, MCLoopbackTest

`DevicePort` is `device-port.cc`.  Its variables hold the fields of all ports and
what the driver knows: `queue`, the commands that have been enqueued and have not
completed.  The OpenCL queue is out of order, so any command whose wait list is
done (`Ready`) may complete next (`LoopbackTest!Complete`), and a transfer moves its
data when it does.  `Split` cuts an interval of the ring as
`writeToDeviceBuffer` and `readFromDeviceBuffer` do, `Transfer` enqueues the parts,
`EnqueueReadMeta` the read of an index, `ReleaseEvents` is `releaseEvents` of all
ports with the statistics taken from `profile`.  An event is named by the member that
holds it and the call that made it, so a wait list that refers to the event of an
earlier call is told from one that refers to this call's.

`LoopbackTest` is `bandwidth.cpp`, with the place in `test()` as `pc`:

| pc | lines of bandwidth.cpp | actions |
|---|---|---|
| construct | 40-130 | `NewTester` |
| write | 176-200 | `WriteInput`, one port at a time |
| task | 202-218 | `EnqueueTask` |
| meta | 220-229 | `ReadMeta`, one port at a time |
| kernel, output | 232, 247 | `WaitUntil` |
| read | 236-244 | `ReadOutput`, one port at a time |
| release | 250-261 | `Release` |
| end | 407-430, the loops of `main` | `NextCall` |

The kernel is external, `RunKernel`: on each input it takes some of the tokens and puts
them on the output of the same number.  `MCLoopbackTest` gives the command lines.

Abstractions.  A token is the call in which the host wrote it and the slot it was in,
which tells a stale or a misplaced token from the right one.  A busy wait is a guard:
it looks at one event after the other, and an event that has completed stays so.  The
callback, whose counter serves its own message, timing information and text are left
out.  `OCL_ASSERT` leads to `failed`, where the program stops.

### NetworkSetup, MCNetworkSetup

The life of a program up to the start of its threads: `Calls` is what the `main` that
the compiler generates calls (`main.cc` is one), each call an action of the
same name, then `executeNetwork` with a step for each function it calls:

| pc | code | actions |
|---|---|---|
| main | `main.cc` | `createActorInstance`, `setParameter`, `createInputPort`, `createOutputPort`, `connectPorts`, `ParseOptions` |
| index, config, check | `index_nodes`, `set_config`, `check_network` | of the same names |
| allocate | `allocate_network` | of the same name |
| run | `generate_config`, and another process | `Rerun` |

The variables are the fields of `ActorInstance_1_t`, `InputPort_1_t` and
`OutputPort_1_t`, and of the structures that `allocate_network` fills.  The field
`index`, which `createActorInstance` does not set, has any value of `Fresh`.
`Built` reads the result as a network in the sense of module `Network`, so
`ShapeHolds` says that `ExecuteNetwork` assumes of a network what is true of it.

A configuration file is its root and the elements below it with their attributes, any
of which may be missing.  `Entries` and `Connects` are the two arrays that the parser fills
from it, in the order of the file and no longer than `MaxActors` and `MaxConnects`; a
connection that lacks an attribute gives its place to the next one.  `ParserResult` says
whether the parser returns, and with what.
`Generated` is the file that `generate_config` writes.  When the first process has traced
for TURNUS, the names of the actors that fired are cut (`Written`), since
`jsonTrace.c` tokenises the name in place.

`ProgramOK` says what a program is: at least one instance, an input with exactly one connection, an
output with at least one, and one type of tokens for the two ports of a connection, since they share a
buffer; an affinity is that of a CPU (below `CpuSetSize`, which is `CPU_SETSIZE`) or -1.  The compiler makes sure of
these, the runtime does not look.  `FileOK` says that the partitions of a
file have such ids too, and that sizes are not negative; `GeneratedFile` proves it of
what `generate_config` writes.  Everything else may be wrong in a file.

Abstractions.  Names are pairs of class and index; libxml2 is external.  The layout of the
allocated block is left out, and so are the parameters other than the affinity, and
text.  Every output has a reader, as the compiler provides, and a main is
either right or has one fault: a port created twice or not at all, or a connection
left out.

### PartitioningModel, PartitioningPhase, MCPartitioning

`PartitioningModel` says which assignments of the instances to partitions satisfy the
constraints that the two Java models give to the solver, and what time an
assignment has.  The decision variables `d` of an instance, of which one is 1, are the
partition it is on; the variables `a` of the multicore model, which break the symmetry
of the cores, are kept apart from them, since the solution is read from `a` and the time
computed from `d`.  `NextProfiled`, `FifoSize` and `PCIeSize` find the size of buffer whose
measurements stand for a connection's, with the width of the Java integers.  A buffer
of no bytes has no time: the transfer times are divided by its size, and the solver is not
given a coefficient that is no number (`HeterogeneousThrows`).  Of
`PinnedHardwareModel`, which nothing constructs, `PinnedAssignments` and `PinnedTimes` are
the assignments of the software beside given hardware, and their communication times.

`PartitioningPhase` is `PartitioningAnalysisPhase`:

| status | code | actions |
|---|---|---|
| start | `setConfig`, `checkProfileData`, the parsers | `setConfig`, `setConfigThrows` |
| solving | the loop of `execute` over the numbers of cores, `solveModel` and the dumps of its solutions | `solveMulticore`, `solveHeterogeneous`, `solveThrows` |
| solving | the end of `execute`: `hardware.json` and the files in `unique/` | `endMulticore`, `endHeterogeneous`, `endHeterogeneousThrows` |
| done, thrown | the next compilation into the same directory | `compileAgain` |

`profile` is what the databases hold, `inputs` what is in the files they are read from,
`numbering` the list of hardware partitions with its counter and map, `files` the target
directory as a function from names to contents.

Abstractions.  The solver is external: it throws, or returns any feasible assignments, at
most `PoolSize` of them, in the order of their times.  A parser yields all of a file,
nothing when it is missing, and any of its entries when there is an error in it.  A name is the sequence of the parts that underscores
separate.  The name of a port of the PLink puts four names together, so two connections with
underscores in their names may share one (`a_b` with `c`, `a` with `b_c`); the networks of the run are
without such pairs, and the theorem on configurations has it as a hypothesis.  The
times of the solver are doubles; here they are integers in units of 1/`Unit`, rounded
down.  A step writes all files of one number of cores.  The order of the
instances and connections in a file is left out.

`TaskOK` says what a task is: instances have different names, none of which is the PLink's, and an input
port has one connection, which is what the CAL compiler makes sure of before it calls the
phase; the profiles hold counts, of instances that there are (`MulticoreProfileParser.java:87-99`), and
at sizes that are positive.  `PartitioningAssumption` has counts for the periods of the
clocks and an int of two bits or more; that the power of 2 which bounds it is positive is said there, since the provers know of powers only that they
are integers.  TLC evaluates both.

## 4. Runs

`exec_bench` uses `MCSoftwareBenchmark`, `exec_fan` `MCFiringTrace`, the other `exec` runs
`MCExecuteNetwork`, the `fifo` runs `MCArtFifo`, the `report`
runs `MCTerminationReport`, the run `loopback` `MCLoopbackTest`, the `setup` runs `MCNetworkSetup`,
`partition` `MCPartitioning`.

| Run | Network | Shows |
|---|---|---|
| `exec_bench` | `TimedSource` and `PassThrough` on two CPUs, in a cycle, two messages of four words | `TypeOK`, `ViewsSafe`; `RefinesDataflow`: the threads execute the network sequentially and end in starvation; `Measured`: what the program writes is half the mean time of a round trip, up to rounding, and no token is left behind; `EventuallyJoined`: all threads return |
| `exec_fan` | a FIFO with one reader on its own and one on another CPU, several firings per call, an actor that terminates | `OutcomeUnique`, `TerminationSound`, `AffectedUnshared`, `RefinesFiring`: every call is a legal sequence of firings; with traces in both formats `TraceReplays`: the records, merged by number, replay as a legal execution; `TraceComplete`: when the files are closed every firing is in them once |
| `exec_third` | two CPUs with a FIFO of one token between them, and a third with an active actor, woken from outside | `SleepBookkeeping`, `NoLostWakeup`, `ActiveCounted` |
| `exec_pipe_termination` | three CPUs in a row, FIFOs of one token | violation of `TerminationSound` |
| `exec_actives` | two active sources on two CPUs | violation of `ActiveCounted` |
| `fifo_multicast` | a ring of four scalars or two structures of two bytes, counts of 4 bits, a reader on the writer's CPU and one on another | `TypeOK`, `NoSharedSlot`, `RefinesChannel` |
| `report_groups` | four actors that wait for each other and themselves through inputs and a multicast output | `ArrayShared`: stack and complete groups do not meet in the array they share; `GroupsCorrect`: with the groups in topological order, `ReportCorrect`, `Ends` |
| `report_bench` | the benchmark, starved | violation of `NoFireable` |
| `loopback` | one or two ports each way, rings of one to four tokens, one to three calls, rings started anywhere or at zero | `TypeOK`; `NoConflict`: commands that touch the same memory are ordered; `Echoed`: the host reads back what it has sent; `ReleasedComplete`, `StatsComplete`, `NoAssertionFails`; `Exits` |
| `setup` | the benchmark, and four instances with two of one class, tokens with one and several bytes, larger than a FIFO too; affinities, files that are right, damaged, incomplete or too long, one fault of main | `TypeOK`, `ShapeHolds`; `WiredAsDeclared`: the connections of main, no others, and only if all were made; `CapacityRight`: what the readers ask for, in one unit; `PlacedAsAsked`; `Reproduced`: a generated file is accepted and makes the same network again, unless it exceeds the arrays of the parser or the first process has cut a name in it |
| `setup_capacities` | the benchmark with a file that only sets a capacity | violation of `CapacitiesOnly` |
| `partition` | a chain, a diamond, two instances without a connection; profiles that are complete or lack something, every fault of a configuration, two compilations in a row | `TypeOK`; `EveryPartitionOnce`: the multicore model has every partition of the instances once; `PinnedAgrees`: the model with pinned hardware has, of the assignments with that hardware of the model that chooses it, those with the first software actor beside the PLink, each once and at the same price; `ConfigClosed`: what the runtime is given covers the network, with an input port of its own for every connection, a port of the PLink for each one across the border of the accelerator, and no more outputs behind these ports than the solver's limit; `CostMatchesConfig`: what the solver minimised is what that file costs; `HardwareNumbered`: `hardware.json` leads to the right file |

Bounds of the other runs.  `Total` in `ArtFifo` is how much is written: twice
around the ring and beyond the largest shared count, so both wrap in every
relative position; both token sizes are initial states of the one run.
`TerminationReport` has no bound but the network: four actors, two of which wait for
any two others, are enough for a cycle entered from outside, for two cycles and for
a group completed while another is open.

`loopback` has the command lines as its only bound: two ports let commands of one overtake
those of the other, rings of three tokens have all ways to cut an interval
(nothing, one part, one part up to the end, two parts), rings of one token transfer
nothing, a second call meets the events of the first, and a third call those that
were used again.  The kernel moves any number of tokens it has, up to a full input.

`setup` has no bound but its constants.  Two instances of one class are the
least for indices to matter, two readers of one FIFO with different
requests for a maximum; a default FIFO of seven tokens leaves a remainder for
tokens of two and three units and is smaller than one of nine; the files have gaps in
the numbering of CPUs, reorder the instances, size a port twice, name an instance twice
or miss one, lack the number of a partition, a name, a size or the root.  The parser's arrays
have four and three places, so that a network fills the first and a file overflows either.

Of `exec_bench`, messages of four words in a ring of five put the two
words of the second stamp on both sides of its end; with words of three bits, stamps differ in
both words, and with a mantissa of five bits one of the two clocks is rounded.  Two round trips
are enough for the sum and for a second message to meet what the first has left in the rings
and buffers.

`partition` bounds the network to four instances, which is the least for a fan-out to the
accelerator and back, the cores to three, and the solutions of one call to two, so that
a hardware partition can come again within a call and in the next one.  `PortLimit` is 2 in
the place of 15, so that it excludes assignments of the diamond, in which an output with three
readers still has more ports in a file, and an int has 8 bits, so that
a product of depth and width, and the rounding of another, overflow.  Two compilations are
enough for one to meet what a longer or a shorter one has left.  Files with errors
are compiled with the least number of cores.

Bounds of `exec` runs.  The only bound is `Horizon`, 1 to 5 firings per actor, and it makes every
run finite: semaphore counts and sleep counters are bounded because each sleep
but finitely many needs a firing or a post.  Capacities of one to three tokens, or one message,
make every FIFO both full and empty within a run; two firings of a source are
enough for a CPU to sleep, be woken and sleep again; three CPUs are the least for
a wake-up to race with a third party.  Two-CPU networks are small enough for
temporal properties; on three CPUs only invariants are checked.

Fairness.  `WF` of every thread, since the operating system schedules every
runnable thread, and of `Arrive`, since external events are assumed to come.  A
thread that waits for the mutex or its semaphore is not runnable; there is no
strong fairness, and none is needed because a thread releases the mutex for good
unless there is work or a post.

`Ends` needs only that `deadlock_report`, which runs alone, runs on.  `Exits` assumes
`WF` of the host, the only thread of its program, and of the driver: a
command that is ready completes some time.

Deadlock is checked in all passing runs: in `exec` runs a state in which no thread can move
and not all are joined would be one.  `CHECK_DEADLOCK FALSE` stands in the run
`exec_actives`, whose finding makes the threads wait for ever.

### What the violations say

* `exec_pipe_termination`.  The network may end too early.  A CPU that gave
  tokens to another, was asleep before that one was and is then woken to no
  purpose, posts the other's semaphore in its scan and, being quiescent, ends the
  network in the same critical section: the comment at line 251 says that a pending
  wake-up must prevent this.  Two CPUs are not enough: there the end in starvation is
  a theorem (`TerminationCorrect`), which is why the promise of `Dataflow!Spec` is checked
  in `exec_bench` and `FiringSpec` elsewhere.
* `exec_actives`.  `numActiveActors--` is neither atomic nor in the mutex.  With
  two active actors a decrement can be lost; the network then never ends.
* `report_bench`.  `TimedSource` and `PassThrough` return `EXIT_CODE_YIELD` whenever
  they cannot fire; with `--termination-report` `getExitCode` takes this for a
  fireable actor and ends the program with an internal error.
* `setup_capacities`.  `set_config` returns no array unless the file has exactly one
  entry per instance, and `executeNetwork` passes it on to `check_network`; so a file
  that only sets FIFO capacities, which the usage text allows, ends in a fault.

## 5. Proofs

### The thread loop

`ExecuteNetworkProofs` proves from `NetworkShape`, `NetworkRates`, `NobodyAssumption` and
`TryWaitAssumption`, so for any number of CPUs, actors and FIFOs unless a hypothesis
says otherwise:

* `TypeCorrect`: `Spec => []TypeOK`.  `TypeOK` is inductive.  Its content is that
  the loop variables stay within what they index, in all phases, and that no call
  takes an actor beyond its horizon.  There is a lemma for each family of steps
  and `TypeStep` puts them together.
* `SleepCorrect`: `Spec => []SleepBookkeeping`.  `SleepBookkeeping` is inductive
  together with `TypeOK`.  A step changes the membership of at most one CPU in the
  set of sleepers (`StatusKept`, `FallAsleep`, `Awaken`), and cardinality follows
  from the library's facts on finite sets.
* `AffectedCorrect`: `Spec => AffectedUnshared`, an action property.  Another CPU writes
  `has_affected` only in its scan, and only of a CPU it has seen asleep under the mutex;
  `SleepBookkeeping` says that this one is asleep still.
* `ActiveCorrect`: `OneActiveCpu => (Spec => []ActiveCounted)`.  `CountInv` follows the value
  that a thread has loaded and not stored yet.  `exec_actives` shows that the hypothesis is
  needed: with active actors on two CPUs a decrement is lost.

* `ViewsCorrect`: `Spec => []ViewsSafe`.  `ViewsSafe` is not inductive: that
  `availIn` and `availOut` do not exceed what is there says nothing of the next
  prefire, which recomputes them from shared counts.  The invariant `ViewsInv`
  says where every token is counted at each point of a round.  What a writer has
  written is the shared count plus `outCount`, which is zero once the port is
  published (`WritesCounted`); what a reader has read is the shared count, plus
  `inCount` while the port is `Due` in a round in which the actor fired, since the
  code does not reset the count of an input (`ReadsCounted`); `fired` is reset
  before an actor is called (`FiredReset`).  A reader that runs after the writer on
  the same CPU may be ahead of the published count of the writer, any other may
  not (`ReadsBehind`): this is what makes `availIn` safe when the prefire of the
  next round reads the count.  `PrefireViews`, `CallViews`, `PostfireViews` and
  `IdleViews` are the four kinds of steps.  The proofs use the order of the actors
  within a CPU (`Pos`), and that no actor has two input ports or two output ports
  at one FIFO (`PortsDiffer`), both from `ShapeAssumption`.
* `FiringCorrect`: `Spec => RefinesFiring`.  The refinement mapping is the identity on
  `fires`.  `Fire` is a `Fire` of `Dataflow`, since what the actor has cached is there
  (`ViewsInv`, `CallSupplied`), `GoToSleep` may be its `Stop`, every other step stutters
  (`OthersStutter`).
* `FiringBounded`: no interleaving fires an actor more often than an execution that comes to
  an end.  Of the counts `g` of such an execution and the present ones, the first actor
  to pass `g` would have what it needs in `g` too (`SuppliedMonotone`).

The theorems about the end of the network have the hypothesis `SmallNetwork`: at most two CPUs, no active
actors, and a call that gives tokens to an unconnected output gives no more than its FIFO
holds.  The first is what the code needs, as `exec_pipe_termination` shows.  The second: a post
from outside wakes a CPU to no purpose as a third CPU would, and with two CPUs and an active
actor TLC finds the same early end.  The third excludes networks in which an actor can never
fire although nothing that the runtime looks at keeps it from it.

* `TerminationCorrect`: `Spec => []TerminationSound`.  The proof follows a publication to
  the CPU it matters to.  `Stale(d)`: `d` has fired nothing in this round and has cached a
  count that is no longer the shared one.  `RoundInv`: a CPU that fired nothing has
  called all of its actors in vain, so one that is neither `Stale` nor has anything to do
  cannot go on (`NotReady`).  `ProtocolInv` is about two CPUs c and d, d being
  `Stale`.  `StaleKnown`: while d is awake, it will look again, or it is in
  `has_affected` of c, which has not been asleep since d scanned it.  `StaleWoken`: if d
  waits and nobody has posted, c is about to.  `StaleCounted`: c has not been quiescent
  since, or d sleeps since before the latest sleep event.  `PostsWanted`: a semaphore
  is posted only for a CPU that waits for it, so no wake-up is for nothing, which is where a
  third CPU breaks the proof.  When a CPU sets `terminate`, no CPU is `Stale`
  (`NoneStale`), so no actor can fire.
* `ExecutionCorrect`: `Spec => RefinesDataflow`, from `FiringStep` and the above.
* `WakeupCorrect`: `Spec => []NoLostWakeup`, from `StaleWoken`.
* `OutcomeLeast`: when all threads are joined, the firings are those of an execution that has
  come to an end, and the least such.
* `OutcomeCorrect`: `Spec => []OutcomeUnique`.  The sequential execution of `Dataflow` stays below
  every final vector of counts, adds one firing in each step until it can fire no more,
  and has as many steps as the horizon allows firings, so it ends in a final vector
  (`OutcomeFinal`); of two final vectors, each is below the other.  The induction over its steps
  is on sets of naturals (`LeastNatural`, `Induction` of `FoldFacts`).

### The traces of firings

`FiringTraceProofs` proves from `TraceDescriptions` and the assumptions on the network, so for any
number of CPUs, actors and actions, both formats, and every interleaving of the threads with the
tracing of their firings:

* `TracingHarmless`: `TracedSpec => Spec`.  A traced execution is one of the thread loop, so the
  theorems above hold for it.
* `ReplayCorrect`: `TracedSpec => []TraceReplays`.  That the tokens replayed lie between zero and
  the capacity is not inductive: a thread that traces a firing has fired it some time ago, and
  others have gone on meanwhile.  `ReplayInv` puts the trace between what is published
  and what is there.  The trace shows of each FIFO at least what its writer and its readers have
  published (`wcount`, `rcount`), because a call is traced before postfire publishes it; a
  reader, having fired, has read no more than the trace shows to be written, since it
  relies on published counts or on a writer of its own CPU, whose call is over; and a writer has
  written no more than the trace shows room for, since it relies on published
  space only (`Room`).  `RoomStep` and `ReplayThread` are the steps of the thread loop, `ReplayTrace`
  that of the trace.
* `CompleteCorrect`: `TracedSpec => []TraceComplete`.  A record stands for one action of one
  actor (`RecordOnce`).  In the XML format this is arithmetic: the numbers of an actor are an interval,
  which ends before those of the next begin (`BeforeGrows`, `NumberedOnce`).  `CountedInv`:
  each record has been written as often as the action has fired among the firings traced.  `EndedInv`: when the threads are
  joined no firing is left to trace, since a thread ends outside a call.
* What a reader computes from the files is what the actions did: `XmlEffectIs` and `TurnusEffectIs` go through the ports
  with a rate (`Rated`), the numbers of the inputs and the search for a record.

### The FIFO

`FifoProofs` proves from `FifoAssumption`, so for any capacity, token size, width of the
counts in which the capacity fits, number and placement of readers:

* `PeekDirect`: the loop of `pinPeek_bytes` ends where the calculation that its comment
  asks for would.
* `AccessRight`: every function, in each of its branches, touches the slots of the tokens it is about in their
  order, and leaves `pos` behind them.
* `TypeCorrect`, `SlotsApart` (`Spec => []NoSharedSlot`) and `DeliveryCorrect` (`Spec =>
  RefinesChannel`) from the invariant `Delivers`.  A port goes through the stages rest,
  ready, acting and left in a round (`Stage`), and the invariant says for each what the two copies of
  its state are good for.  `Placed`: a position is that of the number of
  units used.  `SharedCounts`: a shared count is, wrapped, the number of units published; the
  difference of two wrapped counts is the difference of the counts, since it is at most the
  capacity (`WrappedDifference`).  `Granted`: no port is told of more than there is, where a reader on the
  writer's CPU may have been told of units that are not published (`Readable`).
  `Stored`: the ring holds the last `Cap` units written, and memory those of them that are
  published, which is what the barrier is for.  `InOrder` follows.  There is a lemma for each action;
  `WriteStep` and `ReadStep` use `AccessRight`.

### The loopback test

`LoopbackProofs` proves, from `OptionsAssumption`, so for any number of ports and
calls and any sizes of rings, and for a kernel that moves whatever it likes:

* `TransfersExact`: the parts that `Split` cuts an interval into lie within the ring,
  are not empty, are disjoint, and cover the interval exactly.
* `ReleaseCorrect`: `Spec => []ReleasedComplete`, and `AssertionsHold`: `Spec =>
  []NoAssertionFails`.  Neither is inductive: that an event has completed follows from
  commands that were ordered long before.  The invariant `Inv` of both has four parts.
  `HostTyped` bounds the loop counters.  `AheadReleased` says that the events `test()` is
  still going to use in this call are not in use, which is what the
  assertions ask.  `Latest` says that every command in the queue is the latest of its event
  and that the event is active, so that polling active events misses no command.  `Chain`
  follows the wait lists: the kernel's contains every active event of an input, that of
  each read of an index contains the kernel's; hence while the kernel is in the queue so are
  all reads of indices, and once it has left no write is there either.  There
  is a lemma for each action, and `TransferStarts` and `Enqueued` say what enqueueing does.
  TLC has evaluated `Inv` in all states of `loopback`.
* `TypeCorrect`: `Spec => []TypeOK`, and `ConflictFree`: `Spec => []NoConflict`, from `Inv` and
  `Rings`: what the host computes stays in the rings, and the transfers of a port that are in the
  queue together are disjoint (`Apart`).
* `EchoCorrect`: `Spec => []Echoed`.  `Echo` follows the tokens of a call: an interval of an input is
  in the queue or on the device (`InputsWritten`), the kernel, which waits for it, puts a part of it
  on the output, from the index on at which the host is going to read (`OutputsStarted`,
  `Looped`), the host knows how far when the read of the index has completed (`SizesRead`), and what it then
  reads is in the queue or in its ring (`OutputsRead`).
* `StatisticsRight`: `Spec => []StatsComplete`, from all three invariants.  An entry of the
  log is made when an event is released, long after the transfer was enqueued, and one call
  makes one or two entries for a port.  `MovedInv` says that the active transfers of a port move
  together what the host has sent or is going to read back, `LogInv` that each call which has
  released its events is in the log with all its tokens and that no entry is for a later call;
  `TransferTotals` and `TotalAppend` carry the one into the other.

### The termination report

`ReportProofs` proves from `ReportAssumption`, so for any number of actors and any graph of
what they wait for, actors that wait for themselves included:

* `ArrayCorrect`: `Spec => []ArrayShared`, `SearchCorrect`: `Spec => []GroupsCorrect`,
  `ReportRight`: `Spec => []ReportCorrect`.  None is inductive; the invariant of all three, `Whole`,
  has `Search` for the search and `Finished`, `Told` for the report loop.
* In `Search`, `Apart` says that the two lists do not meet and name no actor twice; that
  there is room for one more on the stack is a matter of counting (`Room`).  `Calls` says that the open calls of
  `visit` are a path in the graph and share the stack between them (`Within`).
  `Tied`: what a returned call has left on the stack is in a cycle with its caller.
  `Reached`: the actor at `minIndex` is reached from that of the call.  `Lowest`: no
  edge visited so far ends below `minIndex`, so when `minIndex` is the index of the call, nothing in its part of
  the stack waits for anything below, and that part is a group.  `Groups`
  keeps what is true of complete groups: contiguous, strongly connected (`Connected`), and not
  waited for by a later one (`Sorted`).  `Asked`: nobody is asked twice, and nobody is left out.
* "a waits for b, directly or not" is a least fixed point.  `Reaches` says it without
  recursion, by the sets of actors that wait for nobody outside (`Closed`): b is in each of them that
  has a.  Such sets only become fewer as actors answer (`ReachesMore`).
* There is a lemma for each step of the search: `PushSearch` for a call that pushes
  its actor, `SeenSearch` for one that has seen it, `KeepSearch` and `PopSearch` for the two
  ends of a call.  `AllPlaced` then counts: the stack is empty and all actors are in the list of groups.
  `AfterGroup` gives the converse of `Connected`, that actors of different groups do not wait for each
  other: what comes after a group is closed.
* `ReportStep` uses `NextGroup`: what the loop takes for the group of `i` is the component of
  its actor, and the loop goes on behind it.
* `VisitsAll`: the search leaves nobody out, so the internal error in lines 169-175 never
  occurs.

### The partitioning

`PartitioningProofs` proves from `PartitioningAssumption` and `PhaseAssumption`, so for any number of
tasks, networks, profiles, cores and compilations in a row, and for a solver that returns what it likes of
what is feasible.  The models are sums, maxima and numberings of sets; `FoldFacts` has what
there is to know of them: a set of naturals that is not empty has a least element (`LeastNatural`), from
which follow induction over the subsets of a finite set (`SetInduction`), the existence of
functions defined by recursion over them (`FoldExists`, `LeftFoldExists`), and that a sum may
begin with any element, splits over disjoint sets and over the fibers of a map (`SumTake`,
`SumUnion`, `SumFibers`).

* `TypesAreRight`: `Spec => []TypeOK`, and `HardwareIsNumbered`: `Spec => []HardwareNumbered`, from the
  invariant `IInv`.  What a compilation has numbered so far is of this
  compilation (`NumberedInv`): its domain are the solutions in the `solutions.csv` of the numbers of
  cores done, whose `xcf` files are there and have this hardware, whatever an
  earlier compilation has left in the directory.  `NumberSolutionFacts` is a call of
  `numberSolution`: the list of hardware stays without repetition, an entry of the map leads to its
  hardware, old entries stay.  `SavedNumbered` then reads `hardware.json` and the files in `unique/` as
  they are written.
* `PartitionsAreFoundOnce`: `Spec => []EveryPartitionOnce`.  Restricted growth (`Grown`) is
  label by label: the instances before one have all labels up to some number, and it has one of them or
  the next.  Two such numberings with the same classes are equal (`GrownUnique`), by induction over the
  position in the network; every partition has one, which numbers its classes by their first
  instances (`RenumberedGrown`); and every label up to the last one is used (`GrownOnto`).  That the
  profile has the entries for all local connections (`LocalFits`) is what makes
  a multicore solution feasible.
* `PinnedModelAgrees`: `Spec => []PinnedAgrees`.  `PinnedAsChosen` compares the two models: an assignment of
  the software beside given hardware is one of the whole network when the PLink is a partition of its
  own, and its communication is the sum of the same connections, cut in two
  (`PinnedLocal`, `PinnedGlobal`).
* `ConfigurationsAreClosed`: `NamesApart => (Spec => []ConfigClosed)`.  `ConfigClosed` speaks of
  files, which stay when the network that they were made of is compiled again, so the invariant `Configs` says of each configuration which
  partitions it was made from.  `NamesApart` says that the names of the ports of the
  PLink, each four names put together, differ from one connection to another; nothing in
  the code makes sure of it.  `PLinkPortsOfElements` counts the ports of the PLink in a file, one for each
  connection across the border of the accelerator; that the outputs behind them are no more than the limit
  is `Fits` (`FitsPorts`).
* `CostsAreRight`: `Spec => []CostMatchesConfig`.  The solver minimises sums over an assignment, and the
  property computes the cost from the file alone.  `Layout` and `Placed` say how a file lies over an
  assignment; then the connections inside a partition are those that the model charges as local to it
  (`InsideIs`), those across are charged as global or to the PLink (`AcrossIs`), the loads have
  the same maximum (`BusiestIs`), so the costs agree (`PlacedCost`).  The
  property is about the files of the last call of the solver (`JustWritten`), which later steps leave as they are
  (`CostKept`, `CostMoved`).

### Network construction

`NetworkSetupProofs` proves from `SetupAssumption`, so for any classes, programs and configuration
files, any sizes of the parser's arrays, and whatever `malloc` leaves in `index`:

* `SetupTypes`, `WiringIsDeclared`, `CapacityIsAsked`, `PlacementIsAsked`: `Spec => []TypeOK` and the same of
  `WiredAsDeclared`, `CapacityRight` and `PlacedAsAsked`.  None is inductive, since each compares the
  network at the end with what main or the file asked for at the beginning.  `IInv` follows one to
  the other.  `ControlInv`, `InstancesInv`: what main has still to call creates each remaining
  instance once and sets parameters and creates ports of instances there are (`Script`), also when main has a fault.
  `PortsInv`: an input is not connected, or as the program declares.  `CallsInv`: a port
  created has the capacity and the number of readers of its declaration, and an affinity that was not set is
  still to be set or is not given.  `CapacityInv` goes on after the file: the
  capacity is what the last element for the port says, of those there is room for.
  `NamesInv`: after `index_nodes` no two instances have one name (`NumberedApart`), whatever the first of
  a class had for an index.  `PlaceInv`: the affinities are those asked for.  `CheckedInv`: in a network that has been accepted every
  port is created once and every input connected, so all are as declared.  `RunInv` is about the network allocated.
* A file is parsed into arrays that are cut at their sizes, in which entries are
  flagged one after the other.  `EntryFacts`: two instances have different entries, each with the name of its instance; there being as
  many entries as instances, the order of the file is a permutation of the instances (`Permuted`).
  `FirstListed`: the entry is in the first partition that lists the
  name, `LastSize`: the size is that of the last connection for the port.
* `SlotFacts`: a reader of an output is stored in the part of the array that is the output's, which begins after the room for
  the outputs before it (`RoomFacts`), in the order of its rank among the readers
  (`RankFacts`), so no two inputs have one place.  `WiredStep` follows.
* `MaximalFacts`: the capacity is the request of one reader and not below that of any other;
  `Quotient` and `Multiple` are what there is of arithmetic in tokens and bytes.
* `UsedFacts`: the CPUs are numbered in the order of affinities, each with an actor; `PlacedStep` follows.
* `NetworkHasShape`: `Spec => []ShapeHolds` for programs with `ReadsOnce`, in which no instance has two
  inputs from one output.  `Network` assumes that (`OneToOne` of `ShapeAssumption`), the proofs about the threads use it
  (`PortsDiffer`), and the code does not look at it, so it is a hypothesis.
  With it, what `NetworkShape` assumes in the proofs of the thread loop is
  what the construction delivers.
* The lemmas rest on two facts of selections: `PickedFacts`, what is in `Picked(s, P)` and in which
  order, and `PickRank`, where.

### What only TLC checks

`NoLostWakeup`, `TerminationSound`, `OutcomeUnique` and `RefinesDataflow` on networks beyond the
hypotheses above; `Measured`, which rounds to multiples of a power of two (`Double`), and
what powers are is known to the provers by induction only; `Reproduced`, which
compares what two processes make of one program, the second with a file that nests the lists of the
first.  `EventuallyJoined`, `Ends`
and `Exits` are liveness under fairness, which is beyond the prover.

## 6. Not modelled

`PROJECT.json` says for each component what is left out.  For good: the OpenCL helpers of the
vendor (`xcl2.cc`), the vendored cycle counters (`cycle.h`), statistics, timers and plots
(output only), build scripts, the MILP solver, libxml2, the CAL source of the loopback
hardware, generated actor code, and `TimedSink`, which `main.cc` does not use.  Of the
traces: conditions, the status of a CPU, time stamps, the lists of state variables and the
operation counters; nothing in the repository reads them.  A trace file that cannot be opened is
not modelled.  Of `PinnedHardwareModel`: the time of the PLink, which is a constant of the
model, and `getPlinkKernelCost2`, which nothing calls.  The Windows semaphore is not modelled:
that branch defines no `art_semaphore_try_wait` and does not build with this loop.  On macOS
`art_semaphore_try_wait` is `semaphore_wait`, with which the drain loop waits for
ever; `TryWaitBlocks` of `ExecuteNetwork` models it, and the runs set it to `FALSE`.

Of the partitioning, nothing is claimed of buffers above a quarter
of the range of an int: depth times width overflows, and they are charged as the smallest one
profiled.  The solver's limit of 15 is on outputs read or written across the border of the accelerator, all
readers of one counted once (`HeterogeneousModel.java:719-722`), while a configuration gives the PLink
a port for each reader (`PerformanceModel.java:316-318`, `:325-327`), and may so name more than 15;
`ConfigClosed` says which count is limited.  `HeterogeneousModel` requires an instance on every core, also on that of the
PLink, which its comment (line 140) exempts; the model has the constraint.  The restricted
growth of `PinnedHardwareModel` takes the cores for alike although the PLink is on the first,
and so has no assignment whose first software actor is on another; `PinnedAgrees` is about
the others.  When a
compilation throws after it has written files, `hardware.json` is that of an earlier one, or
missing; `HardwareNumbered` is about compilations that end.  With no cores to solve for, the settings
of connections are first looked up after `hardware.json` is written, and the compilation throws there when one
lacks them (`endHeterogeneousThrows`).  An error
in the execution profile of the accelerator is not reported (`DeviceProfileParser.java:62`), and the
actors after it stay in software.

Weak points of the code that no property is about:

* `run_destructors` closes a `traceTurnusFile` that nobody has set (`actors-rts.c:1032`; line
  940 clears `traceFile` only); `RunDestructors` goes on or crashes.
* A file generated after a run with `--turnus-trace` may name an instance by its class only
  and is then refused, since `jsonTrace.c:85` cuts the name in place; `Reproduced`
  excepts it.  The loops over state variables run to `numOutputs` (`jsonTrace.c:173`, `:205`).
* With `--trace` the benchmark dereferences descriptions that it does not give
  (`timed_source.cc:122`, `xmlTrace.c:170`), its scheduler leaves `sendAction` under the index
  1 and enters it under 0 (`timed_source.cc:39`), and ids of state variables are not
  unique, since `firstStateVariableIndex` never advances (`actors-rts.c:151-164`).
* `pass_through.cc:30` stores into `buffer[2]` also when the buffer has two words;
  `NUM_LOOPS` 0 divides by zero.  `BenchmarkAssumption` excludes both.
* `pinPeek` asserts `available >= offset` where one more is needed (`actors-fifo.h:127`).
* `blocking_report` lists the readers of the first output whatever output is blocked
  (`termination-report.c:292`).
* The option loop exits on `--affinityN=` before the loop that would handle it
  (`actors-rts.c:1319`, modelled by `ParseOptions`).
* An output without readers gets capacity zero (`actors-rts.c:784`); the compiler connects
  all outputs, and so do the programs of `setup`.
* The callback of an event may still count up the event info when the event has
  been polled and released (`device-port.cc:40`), which only its own message shows.

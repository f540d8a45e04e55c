------------------------- MODULE PartitioningModel -------------------------
(***************************************************************************)
(* The models that MulticorePerformanceModel, its PinnedHardwareModel, and *)
(* HeterogeneousModel hand to the solver: which assignments of the         *)
(* instances to partitions satisfy their constraints, and the time they    *)
(* give an assignment.                                                     *)
(*                                                                         *)
(* A core is its index, the accelerator of a model with k cores is k.  The *)
(* decision variables d of an instance have the sum 1, so they are the one *)
(* partition the instance is on.  A name is the sequence of its parts that *)
(* underscores separate.  Bad... are plausible bugs: in the place of the   *)
(* definition that follows, they must break a property.                    *)
(***************************************************************************)
EXTENDS Integers, Sequences, FiniteSets, FiniteSetsExt, Functions

CONSTANTS
  IntWidth,            \* bits of an int, half of those of a long
  PortLimit,           \* of the outputs read or written by the PLink, 15 in the code
  SwPeriod, HwPeriod,  \* clock periods of cores and accelerator
  Unit                 \* times are in 1/Unit of the unit of the periods

\* Of powers, the provers know only that they are integers.
ASSUME PartitioningAssumption ==
  /\ IntWidth \in Nat \ {0, 1} /\ 2^IntWidth > 0 /\ PortLimit \in Nat
  /\ SwPeriod \in Nat /\ HwPeriod \in Nat /\ Unit \in Nat \ {0}

VARIABLES
  network,  \* [instances, a sequence, and connections, a set]
  profile   \* what the databases hold, from each key with an entry

Names == {network.instances[n] : n \in DOMAIN network.instances}
Connections == network.connections
Settings(c) == profile.settings[c]

-----------------------------------------------------------------------------
(* The cost of a connection.                                               *)

Wrap(x, w) == LET m == x % 2^w IN IF m < 2^(w - 1) THEN m ELSE m - 2^w

HighestOneBit(x, w) ==
  IF x < 0 THEN -(2^(w - 1))
           ELSE Max({0} \union {2^b : b \in {b \in 0 .. w - 2 : 2^b <= x}})

\* The size whose measurements stand for a buffer of the size given, of those
\* profiled: the next power of two, and no less than the smallest.
NextProfiled(size, w, sizes) ==
  LET high == HighestOneBit(size, w)
  IN Max({IF high = size THEN size ELSE Wrap(2 * high, w), Min(sizes)})

ConnectionBytes(c) == Wrap(Settings(c).depth * Settings(c).width, IntWidth)
BytesExchanged(c) == Settings(c).tokens * Settings(c).width

FifoSize(c) == NextProfiled(ConnectionBytes(c), IntWidth, DOMAIN profile.fifo)
PCIeSize(c) ==
  NextProfiled(Min({ConnectionBytes(c), BytesExchanged(c)}), 2 * IntWidth, DOMAIN profile.pcie)

\* Without these a get of a database throws.
HasFifoTicks(c) ==
  c \in DOMAIN profile.settings /\ profile.fifo # <<>> /\ FifoSize(c) \in DOMAIN profile.fifo
HasPCIeTicks(c) == profile.pcie # <<>> /\ PCIeSize(c) \in DOMAIN profile.pcie

\* kind is "Local" or "Global".
CommunicationTime(c, kind) ==
  (Unit * SwPeriod * BytesExchanged(c) * profile.fifo[FifoSize(c)][kind]) \div FifoSize(c)

\* Of a transfer, in the direction "read" or "write"; the kernel counts half,
\* and the parser sets the ticks of a size read to 0 and repeats to 1.
PCIeTime(c, direction) ==
  LET ticks == profile.pcie[PCIeSize(c)]
      time == Unit * (ticks.kernel + 2 * ticks[direction]) * BytesExchanged(c)
      size == ConnectionBytes(c)
  IN IF size > 0 THEN time \div (2 * size) ELSE -(time \div (-2 * size))

Communication(connections, kind) ==
  SumFunction([c \in connections |-> CommunicationTime(c, kind)])

InstanceTicks(ticks, i) == IF i \in DOMAIN ticks THEN ticks[i] ELSE 0

-----------------------------------------------------------------------------
(* An assignment on puts instance i on partition on[i].                    *)

Cores(k) == 0 .. k - 1
On(on, p) == {i \in Names : on[i] = p}
Between(on, p, q) == {c \in Connections : on[c.source] = p /\ on[c.target] = q}
Total(times) == times.exec + times.local + times.global

PartitionTime(on, p) ==
  Unit * SwPeriod * SumFunction([i \in On(on, p) |-> InstanceTicks(profile.software, i)])

LocalTime(on, p) == Communication(Between(on, p, p), "Local")

CoreToCoreTime(on, k) ==
  Communication({c \in Connections : /\ on[c.source] \in Cores(k) /\ on[c.target] \in Cores(k)
                                     /\ on[c.source] # on[c.target]}, "Global")

-----------------------------------------------------------------------------
(* MulticorePerformanceModel, on cores only.                               *)

Position(i) == CHOOSE n \in DOMAIN network.instances : network.instances[n] = i

\* Of the software, the instances that the list has before i, and the first one.
Before(i, software) == {j \in software : Position(j) < Position(i)}
FirstActor(software) == CHOOSE i \in software : Before(i, software) = {}

BadRestrictedGrowth(number, k) ==
  LET actors == DOMAIN number
  IN /\ \A i \in actors \ {FirstActor(actors)} :
          number[i] <= Max({number[j] : j \in Before(i, actors)}) + 1
     /\ Max({number[i] : i \in actors}) = k - 1

\* The first instance is on core 0, each other on a core used before it or
\* the next one, and all cores are used.
RestrictedGrowth(number, k) ==
  LET actors == DOMAIN number
  IN /\ number[FirstActor(actors)] = 0
     /\ \A i \in actors \ {FirstActor(actors)} :
          number[i] <= Max({number[j] : j \in Before(i, actors)}) + 1
     /\ Max({number[i] : i \in actors}) = k - 1

\* Where d says p, the variable a is p.
SymmetryBreaking(number, on) == \A i \in DOMAIN number : number[i] = on[i]

\* Values of the variables a and d of these instances.
CoreAssignments(software, k) ==
  IF Cardinality(software) < k THEN {}
  ELSE {x \in {[number |-> a, on |-> d] :
                  a \in {a \in [software -> Cores(k)] : RestrictedGrowth(a, k)},
                  d \in [software -> Cores(k)]} :
          SymmetryBreaking(x.number, x.on)}

MulticoreTimes(on, k) ==
  [exec |-> Max({PartitionTime(on, p) : p \in Cores(k)}),
   local |-> Max({LocalTime(on, p) : p \in Cores(k)}),
   global |-> CoreToCoreTime(on, k)]

MulticoreAssignments(k) ==
  {x \in CoreAssignments(Names, k) :
     MulticoreTimes(x.on, k).local <= Communication(Connections, "Local")}

\* createSolution: the instances of each partition, by the variables a.
MulticoreSolution(x, k) ==
  [partitions |-> [p \in Cores(k) |-> On(x.number, p)], times |-> MulticoreTimes(x.on, k)]

\* The upper bounds throw for a network without connections.
MulticoreThrows == Connections = {} \/ \E c \in Connections : ~HasFifoTicks(c)

-----------------------------------------------------------------------------
(* HeterogeneousModel, on k cores and the accelerator k; the PLink, which  *)
(* moves data to the accelerator and back, is on core 0.                   *)

\* Connections that the PLink reads from the accelerator, or writes to it.
PLinkReads(on, k) == {c \in Connections : on[c.source] = k /\ on[c.target] # k}
PLinkWrites(on, k) == {c \in Connections : on[c.source] # k /\ on[c.target] = k}

\* A port counts once, however many readers it has.
Ports(connections) == {<<c.source, c.sourcePort>> : c \in connections}

ReadTime(on, k) ==
  SumFunction([c \in PLinkReads(on, k) |-> PCIeTime(c, "read")])
WriteTime(on, k) ==
  SumFunction([c \in PLinkWrites(on, k) |-> PCIeTime(c, "write")])

KernelTime(on, k) ==
  Max({IF on[i] = k THEN Unit * HwPeriod * InstanceTicks(profile.accel, i) ELSE 0 : i \in Names})

PLinkTime(on, k) == ReadTime(on, k) + KernelTime(on, k) + WriteTime(on, k)

PLinkLocalTime(on, k) == Communication(Between(on, 0, k) \union Between(on, k, 0), "Local")

BadPLinkGlobalTime(on, k) ==
  Communication({c \in PLinkWrites(on, k) : on[c.source] # 0}, "Global")

\* Between the PLink and instances on other cores.
PLinkGlobalTime(on, k) ==
  Communication({c \in PLinkWrites(on, k) : on[c.source] # 0} \union
                {c \in PLinkReads(on, k) : on[c.target] # 0}, "Global")

HeterogeneousTimes(on, k) ==
  [exec |-> Max({PartitionTime(on, p) : p \in Cores(k)} \union {PLinkTime(on, k)}),
   local |-> Max({LocalTime(on, p) + (IF p = 0 THEN PLinkLocalTime(on, k) ELSE 0) : p \in Cores(k)}),
   global |-> CoreToCoreTime(on, k) + PLinkGlobalTime(on, k)]

\* An instance without a profile of the accelerator is in software, and one
\* without a profile of the software on the accelerator.
Pinned(on, k) ==
  /\ \A i \in Names \ DOMAIN profile.accel : on[i] # k
  /\ \A i \in Names \ DOMAIN profile.software : on[i] = k

BadFits(on, k) == Cardinality(Ports(PLinkReads(on, k))) <= PortLimit

Fits(on, k) ==
  Cardinality(Ports(PLinkReads(on, k))) + Cardinality(Ports(PLinkWrites(on, k))) <= PortLimit

\* Nothing keeps one of the assignments that differ in the order of the cores
\* only, and the variables a are free: a solution may come more than once.
HeterogeneousAssignments(k) ==
  {on \in [Names -> 0 .. k] :
     /\ \A p \in 0 .. k : On(on, p) # {}
     /\ Pinned(on, k) /\ Fits(on, k)
     /\ ReadTime(on, k) >= 0 /\ WriteTime(on, k) >= 0}

HeterogeneousSolution(on, k) ==
  [partitions |-> [p \in 0 .. k |-> On(on, p)], times |-> HeterogeneousTimes(on, k)]

\* The time of a transfer is divided by the size of the buffer: with a size of zero it
\* is no number that the solver accepts.
HeterogeneousThrows ==
  \E c \in Connections : ~HasFifoTicks(c) \/ ~HasPCIeTicks(c) \/ ConnectionBytes(c) = 0

-----------------------------------------------------------------------------
(* PinnedHardwareModel, for which attributes of the program say what is on *)
(* the accelerator; the PLink is again on core 0.  The phase refuses its   *)
(* mode.  The time of the PLink and of the accelerator, the same for every *)
(* assignment, is left out.                                                *)

\* The hardware is beside an assignment of the software.
Beside(on, hardware, k) == [i \in Names |-> IF i \in hardware THEN k ELSE on[i]]

HardwareSoftware(on, k) == {c \in Connections : on[c.source] = k /\ on[c.target] \in Cores(k)}
SoftwareHardware(on, k) == {c \in Connections : on[c.source] \in Cores(k) /\ on[c.target] = k}

\* Between the PLink and the software on core p.
ToPLinkTime(on, k, p, kind) ==
  Communication({c \in HardwareSoftware(on, k) : on[c.target] = p}, kind) +
  Communication({c \in SoftwareHardware(on, k) : on[c.source] = p}, kind)

BadPartitionToPLinkTime(on, k) ==
  SumFunction([p \in Cores(k) |-> ToPLinkTime(on, k, p, "Global")])

\* From the cores that the PLink is not on.
PartitionToPLinkTime(on, k) ==
  SumFunction([p \in Cores(k) \ {0} |-> ToPLinkTime(on, k, p, "Global")])

PinnedTimes(on, k) ==
  [local |-> Max({LocalTime(on, p) + (IF p = 0 THEN ToPLinkTime(on, k, 0, "Local") ELSE 0) :
                    p \in Cores(k)}),
   global |-> CoreToCoreTime(on, k) + PartitionToPLinkTime(on, k)]

PinnedAssignments(hardware, k) ==
  {x \in CoreAssignments(Names \ hardware, k) :
     PinnedTimes(Beside(x.on, hardware, k), k).local <= Communication(Connections, "Local")}
=============================================================================

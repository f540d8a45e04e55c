------------------------- MODULE PartitioningPhase -------------------------
(***************************************************************************)
(* PartitioningAnalysisPhase: what a compilation reads, solves and writes. *)
(* The solver is external: it throws, or returns at most PoolSize feasible *)
(* assignments in the order of their times (none, when it runs into its    *)
(* time limit).  A compilation may be followed by another one in the same  *)
(* target directory, whose files stay.                                     *)
(***************************************************************************)
EXTENDS PartitioningModel, SequencesExt

CONSTANTS
  Tasks,     \* [network, inputs], the inputs are the contents of the profiles
  Scripts,   \* compilations that follow each other, by what parseConfig returns
  PoolSize   \* most solutions of one call of the solver

PLink == <<"system", "plink", "0">>

\* The names of a network are different, and an input port has one connection; the
\* profiles hold counts, of its instances or at sizes that are positive.
TaskOK(t) ==
  LET names == ToSet(t.network.instances)
      wires == t.network.connections
      inp == t.inputs
  IN /\ t.network.instances \in Seq(names) /\ IsInjective(t.network.instances)
     /\ PLink \notin names
     /\ IsFiniteSet(wires)
     /\ \A c \in wires : {c.source, c.target} \subseteq names
     /\ \A c, d \in wires : c.target = d.target /\ c.targetPort = d.targetPort => c = d
     /\ inp.software \in [DOMAIN inp.software -> Nat] /\ DOMAIN inp.software \subseteq names
     /\ inp.settings \in [DOMAIN inp.settings -> [depth : Nat, width : Nat, tokens : Nat]]
     /\ inp.fifo \in [DOMAIN inp.fifo -> [Local : Nat, Global : Nat]]
     /\ inp.accel \in [DOMAIN inp.accel -> Nat]
     /\ inp.pcie \in [DOMAIN inp.pcie -> [read : Nat, write : Nat, kernel : Nat]]
     /\ DOMAIN inp.fifo \union DOMAIN inp.pcie \subseteq Nat \ {0}

ASSUME PhaseAssumption ==
  /\ PoolSize \in Nat
  /\ \A t \in Tasks : TaskOK(t)
  /\ \A s \in Scripts : s \in Seq(ToSet(s)) /\ s # <<>> /\ \A n \in DOMAIN s : s[n].cores \in Int

VARIABLES
  inputs,
  config,     \* of this compilation
  pending,    \* of those to come
  status,     \* "start", "solving", "done", or "thrown"
  reported,   \* the errors reported
  cores,      \* of the next call of solveModel
  numbering,  \* uniqueHardwarePartitions, solutionCount, solutionToUniqueHwMap
  files       \* from names to what is in the file

phaseVars == <<config, pending, status, reported, cores, numbering, files>>
vars == <<network, inputs, profile, phaseVars>>

NoProfile == [software |-> <<>>, settings |-> <<>>, fifo |-> <<>>, accel |-> <<>>, pcie |-> <<>>]
NoHardware == [unique |-> <<>>, count |-> 0, map |-> <<>>]

Heterogeneous == config.mode = "heterogeneous"

Init ==
  /\ \E t \in Tasks : network = t.network /\ inputs = t.inputs
  /\ \E s \in Scripts : config = Head(s) /\ pending = Tail(s)
  /\ status = "start"
  /\ profile = NoProfile /\ reported = {} /\ cores = 0
  /\ numbering = NoHardware /\ files = <<>>

-----------------------------------------------------------------------------
(* setConfig.  A profile in the configuration is "ok", "absent", lacks its *)
(* frequency ("noFreq") or path ("noPath"), names no file ("noFile"), or    *)
(* one that cannot be parsed to its end ("broken").                        *)

Needed ==
  {"bandwidth", "software"} \union (IF Heterogeneous THEN {"systemc", "opencl"} ELSE {})

\* A null is dereferenced: for lack of a configuration (which is a mode "null"
\* too), after the error for a mode or a profile that is not defined, for a
\* path, for a frequency that is used, and in printStatistics when no database
\* was read.
NullDereferenced ==
  \/ config.mode \notin {"homogeneous", "heterogeneous"}
  \/ \E s \in Needed : config[s] \in {"absent", "noPath"}
  \/ \E s \in Needed \ {"bandwidth", "opencl"} : config[s] = "noFreq"

\* The profiles that checkProfileData reports an error for.
CheckProfileData == {s \in Needed : config[s] \in {"noFreq", "noFile"}}

\* Of the parsers, that of the accelerator's execution profile says nothing.
ParseErrors == {s \in Needed \ {"systemc"} : config[s] \in {"noFile", "broken"}}

\* What parsing leaves in a database: the entries before the first error.
Parsed(s, part) ==
  CASE s \notin Needed \/ config[s] = "noFile" -> {<<>>}
    [] s \in Needed /\ config[s] = "broken" ->
         {Restrict(inputs[part], keys) : keys \in SUBSET DOMAIN inputs[part]}
    [] OTHER -> {inputs[part]}

\* The instances come before the connections.
Readings ==
  {r \in [software : Parsed("software", "software"), settings : Parsed("software", "settings"),
          fifo : Parsed("bandwidth", "fifo"),
          accel : Parsed("systemc", "accel"), pcie : Parsed("opencl", "pcie")] :
     r.software = inputs.software \/ r.settings = <<>>}

setConfig ==
  /\ status = "start" /\ ~NullDereferenced
  /\ reported' = CheckProfileData \union ParseErrors \union (IF config.cores = 0 THEN {"cores"} ELSE {})
  /\ profile' \in Readings
  /\ cores' = IF Heterogeneous THEN 1 ELSE 2
  /\ status' = "solving"
  /\ UNCHANGED <<network, inputs, config, pending, numbering, files>>

setConfigThrows ==
  /\ status = "start" /\ NullDereferenced
  /\ status' = "thrown"
  /\ UNCHANGED <<network, inputs, profile, config, pending, reported, cores, numbering, files>>

-----------------------------------------------------------------------------
(* The files.                                                              *)

File(dir, kind, k, n) == [dir |-> dir, kind |-> kind, cores |-> k, index |-> n]
HardwareJson == File("heterogeneous", "hardware.json", 0, 0)
Unique(n) == File("unique", "xcf", 0, n)

BadConnectionElement(c, available) ==
  [source |-> IF c.source \in available THEN c.source ELSE PLink,
   sourcePort |-> c.sourcePort,
   target |-> IF c.target \in available THEN c.target ELSE PLink,
   targetPort |-> c.targetPort,
   size |-> Settings(c).depth]

\* An end on the accelerator becomes a port of the PLink, named after both ends.
ConnectionElement(c, available) ==
  LET joined == c.source \o c.sourcePort \o c.target \o c.targetPort
  IN [source |-> IF c.source \in available THEN c.source ELSE PLink,
      sourcePort |-> IF c.source \in available THEN c.sourcePort ELSE joined,
      target |-> IF c.target \in available THEN c.target ELSE PLink,
      targetPort |-> IF c.target \in available THEN c.targetPort ELSE joined,
      size |-> Settings(c).depth]

\* dumpMulticoreConfig; instances is a function from core to names.
ConfigFile(instances) ==
  LET used == {p \in DOMAIN instances : instances[p] # {}}
      available == UNION {instances[p] : p \in used}
  IN [partitions |-> [p \in used |-> instances[p]],
      connections |-> {ConnectionElement(c, available) :
                         c \in {c \in Connections : c.source \in available \/ c.target \in available}}]

\* dumpXcfConfig writes the instances only.
XcfFile(software, hardware) == [software |-> software, hardware |-> hardware]

\* Written later, an entry replaces one of the same name.
Over(new, old) ==
  [x \in DOMAIN new \union DOMAIN old |-> IF x \in DOMAIN new THEN new[x] ELSE old[x]]

Write(new) == files' = Over(new, files)

-----------------------------------------------------------------------------
(* One call of solveModel, and what execute does with its solutions.       *)

Pools(solutions) ==
  {s \in SeqOf(solutions, PoolSize) :
     \A n \in 1 .. Len(s) - 1 : Total(s[n].times) <= Total(s[n + 1].times)}

SolutionsFile(dir, pool) ==
  [f \in {File(dir, "solutions.csv", cores, 0)} |-> [n \in 0 .. Len(pool) - 1 |-> pool[n + 1].times]]

MulticoreFiles(pool) ==
  Over([f \in {File("homogeneous", "config", cores, n) : n \in 0 .. Len(pool) - 1} |->
          ConfigFile(pool[f.index + 1].partitions)],
       SolutionsFile("homogeneous", pool))

\* The software partitions, with the PLink on the first.
SoftwareSide(solution) ==
  [p \in Cores(cores) |-> solution.partitions[p] \union (IF p = 0 THEN {PLink} ELSE {})]

HeterogeneousXcf(solution) ==
  XcfFile(UNION {solution.partitions[p] : p \in Cores(cores)}, solution.partitions[cores])

HeterogeneousFiles(pool) ==
  Over([f \in {File("heterogeneous", kind, cores, n) :
                  kind \in {"config", "xcf"}, n \in 0 .. Len(pool) - 1} |->
          IF f.kind = "config" THEN ConfigFile(SoftwareSide(pool[f.index + 1]))
                               ELSE HeterogeneousXcf(pool[f.index + 1])],
       SolutionsFile("heterogeneous", pool))

BadNumberSolution(acc, s) ==
  LET known == {n \in DOMAIN acc.unique : acc.unique[n] = s.hardware}
  IN [unique |-> IF known = {} THEN Append(acc.unique, s.hardware) ELSE acc.unique,
      count |-> IF known = {} THEN acc.count + 1 ELSE acc.count,
      map |-> Over([id \in {s.id} |-> IF known = {} THEN acc.count ELSE -2], acc.map)]

\* The index of a set of instances on the accelerator: solutionCount when the
\* set is new, and its place in uniqueHardwarePartitions otherwise.
NumberSolution(acc, s) ==
  LET known == {n \in DOMAIN acc.unique : acc.unique[n] = s.hardware}
      hashIndex == IF known = {} THEN acc.count ELSE Min(known) - 1
  IN [unique |-> IF known = {} THEN Append(acc.unique, s.hardware) ELSE acc.unique,
      count |-> IF known = {} THEN acc.count + 1 ELSE acc.count,
      map |-> Over([id \in {s.id} |-> hashIndex], acc.map)]

BadNumberHardware(pool) ==
  FoldLeft(NumberSolution, [numbering EXCEPT !.map = <<>>],
           [n \in DOMAIN pool |-> [id |-> <<cores, n - 1>>, hardware |-> pool[n].partitions[cores]]])

NumberHardware(pool) ==
  FoldLeft(NumberSolution, numbering,
           [n \in DOMAIN pool |-> [id |-> <<cores, n - 1>>, hardware |-> pool[n].partitions[cores]]])

MaxCores ==
  IF Heterogeneous THEN config.cores ELSE Min({Len(network.instances), config.cores})

solveMulticore ==
  /\ status = "solving" /\ ~Heterogeneous /\ cores <= MaxCores /\ ~MulticoreThrows
  /\ \E pool \in Pools({MulticoreSolution(x, cores) : x \in MulticoreAssignments(cores)}) :
       Write(MulticoreFiles(pool))
  /\ cores' = cores + 1
  /\ UNCHANGED <<network, inputs, profile, config, pending, status, reported, numbering>>

solveHeterogeneous ==
  /\ status = "solving" /\ Heterogeneous /\ cores <= MaxCores /\ ~HeterogeneousThrows
  /\ \E pool \in Pools({HeterogeneousSolution(on, cores) : on \in HeterogeneousAssignments(cores)}) :
       /\ Write(HeterogeneousFiles(pool))
       /\ numbering' = NumberHardware(pool)
  /\ cores' = cores + 1
  /\ UNCHANGED <<network, inputs, profile, config, pending, status, reported>>

\* A CompilationException, for what a database lacks or an error of the solver.
solveThrows ==
  /\ status = "solving" /\ cores <= MaxCores
  /\ status' = "thrown"
  /\ UNCHANGED <<network, inputs, profile, config, pending, reported, cores, numbering, files>>

\* unique_<i>.xcf for each set of instances on the accelerator.
UniqueFiles ==
  LET Index(hardware) == Min({n \in DOMAIN numbering.unique : numbering.unique[n] = hardware}) - 1
  IN [f \in {Unique(Index(h)) : h \in ToSet(numbering.unique)} |->
        LET h == CHOOSE h \in ToSet(numbering.unique) : f = Unique(Index(h))
        IN XcfFile(Names \ h, Names \cap h)]

\* The depths of all buffers are looked up between hardware.json and the files in
\* unique/; a lookup that fails is first met here when there were no cores to solve for.
DepthsKnown == Connections \subseteq DOMAIN profile.settings

\* The end of execute; hardware.json may fail to be written.
endHeterogeneous ==
  /\ status = "solving" /\ Heterogeneous /\ cores > MaxCores /\ DepthsKnown
  /\ \E saved \in BOOLEAN :
       /\ Write(IF saved THEN Over([f \in {HardwareJson} |-> numbering.map], UniqueFiles) ELSE UniqueFiles)
       /\ reported' = IF saved THEN reported ELSE reported \union {"hardware.json"}
  /\ status' = "done"
  /\ UNCHANGED <<network, inputs, profile, config, pending, cores, numbering>>

endHeterogeneousThrows ==
  /\ status = "solving" /\ Heterogeneous /\ cores > MaxCores /\ ~DepthsKnown
  /\ \E saved \in BOOLEAN :
       /\ IF saved THEN Write([f \in {HardwareJson} |-> numbering.map]) ELSE UNCHANGED files
       /\ reported' = IF saved THEN reported ELSE reported \union {"hardware.json"}
  /\ status' = "thrown"
  /\ UNCHANGED <<network, inputs, profile, config, pending, cores, numbering>>

endMulticore ==
  /\ status = "solving" /\ ~Heterogeneous /\ cores > MaxCores
  /\ status' = "done"
  /\ UNCHANGED <<network, inputs, profile, config, pending, reported, cores, numbering, files>>

\* Another compilation, into the same directory.
compileAgain ==
  /\ status \in {"done", "thrown"} /\ pending # <<>>
  /\ config' = Head(pending) /\ pending' = Tail(pending) /\ status' = "start"
  /\ profile' = NoProfile /\ reported' = {} /\ cores' = 0 /\ numbering' = NoHardware
  /\ UNCHANGED <<network, inputs, files>>

ended == status \in {"done", "thrown"} /\ pending = <<>> /\ UNCHANGED vars

Next ==
  \/ setConfig \/ setConfigThrows
  \/ solveMulticore \/ solveHeterogeneous \/ solveThrows
  \/ endMulticore \/ endHeterogeneous \/ endHeterogeneousThrows
  \/ compileAgain \/ ended

Spec == Init /\ [][Next]_vars
-----------------------------------------------------------------------------
(* Properties.                                                             *)

\* Every variable has its type: the index of a hardware partition is one of
\* the list (the -2 of line 276 never stays), and no file is left without a
\* name that a reader can form.
TypeOK ==
  /\ \E t \in Tasks : network = t.network /\ inputs = t.inputs
  /\ \E s \in Scripts : IsSuffix(<<config>> \o pending, s)
  /\ status \in {"start", "solving", "done", "thrown"}
  /\ \A part \in DOMAIN profile : profile[part] = Restrict(inputs[part], DOMAIN profile[part])
  /\ reported \subseteq {"systemc", "opencl", "bandwidth", "software", "cores", "hardware.json"}
  /\ cores \in 0 .. Max({2, MaxCores + 1})
  /\ numbering.count = Len(numbering.unique)
  /\ \A h \in ToSet(numbering.unique) : h # {} /\ h \subseteq Names
  /\ \A id \in DOMAIN numbering.map : numbering.map[id] \in 0 .. numbering.count - 1
  /\ \A f \in DOMAIN files :
       f.dir \in {"homogeneous", "heterogeneous", "unique"} /\ f.cores \in Nat /\ f.index \in Nat

\* A call of the solver of the multicore model is about to be made.
CallsMulticore ==
  status = "solving" /\ ~Heterogeneous /\ cores <= MaxCores /\ ~MulticoreThrows

\* All partitions of the instances into k sets that are not empty.
SetPartitions(k) ==
  {{On(f, p) : p \in Cores(k)} : f \in {f \in [Names -> Cores(k)] : Range(f) = Cores(k)}}

\* The constraints of the multicore model leave exactly one solution for every
\* way of putting the instances on all cores, the order of the cores apart.
EveryPartitionOnce ==
  CallsMulticore =>
    LET found == {MulticoreSolution(x, cores) : x \in MulticoreAssignments(cores)}
    IN /\ {Range(s.partitions) : s \in found} = SetPartitions(cores)
       /\ Cardinality(found) = Cardinality(SetPartitions(cores))

\* Which instances are with the PLink, and which are together on another core.
Shape(on, k) == <<On(on, 0), {On(on, p) : p \in 1 .. k - 1}>>

\* The model in which the hardware is pinned and the one that chooses it agree.  Of
\* the assignments that the latter allows with that hardware, the former has those
\* in which the first instance of the software is on the core of the PLink, each of
\* them once, the order of the other cores apart; both charge every connection the
\* same.  (The other assignments are lost: restrictedGrowthConstraint takes the
\* cores for alike, but the PLink is on the first.)
PinnedAgrees ==
  status = "solving" /\ Heterogeneous /\ cores <= MaxCores /\ ~HeterogeneousThrows =>
    \A hardware \in SUBSET Names :
      LET chosen == {on \in HeterogeneousAssignments(cores) :
                       /\ On(on, cores) = hardware
                       /\ on[FirstActor(Names \ hardware)] = 0}
          pinned == {Beside(x.on, hardware, cores) : x \in PinnedAssignments(hardware, cores)}
      IN chosen # {} =>
           /\ {Shape(on, cores) : on \in pinned} = {Shape(on, cores) : on \in chosen}
           /\ Cardinality({Shape(on, cores) : on \in pinned}) = Cardinality(pinned)
           /\ \A on \in pinned :
                /\ PinnedTimes(on, cores).local = HeterogeneousTimes(on, cores).local
                /\ PinnedTimes(on, cores).global = HeterogeneousTimes(on, cores).global

Configured == {f \in DOMAIN files : f.kind = "config"}
Listed(file) == UNION Range(file.partitions)
Sibling(f) == [f EXCEPT !.kind = "xcf"]
Place(file, name) == CHOOSE p \in DOMAIN file.partitions : name \in file.partitions[p]

\* The ports of the PLink that the connections of a file name.
PLinkPorts(file) ==
  {e.sourcePort : e \in {e \in file.connections : e.source = PLink}} \union
  {e.targetPort : e \in {e \in file.connections : e.target = PLink}}

\* A configuration for the runtime is one it can build: every instance in one
\* partition, and every connection that is not inside the accelerator between
\* two instances listed, with an input port of its own.  Each connection to or from
\* the accelerator has a port of the PLink of its own, so that their number is not
\* what the solver limits: that is the number of outputs, of the network, that these
\* ports stand for, where all readers of an output count as one.  With the .xcf file of
\* the same number, written for the compiler, the configuration covers the network.
ConfigClosed ==
  \A f \in Configured :
    LET file == files[f]
        hardware == IF f.dir = "heterogeneous" THEN files[Sibling(f)].hardware ELSE {}
        crossing == {c \in Connections : (c.source \in hardware) # (c.target \in hardware)}
    IN /\ \A p, q \in DOMAIN file.partitions :
            p # q => file.partitions[p] \cap file.partitions[q] = {}
       /\ Listed(file) \ {PLink} = Names \ hardware
       /\ f.dir = "heterogeneous" =>
            PLink \in file.partitions[0] /\ files[Sibling(f)].software = Names \ hardware
       /\ \A e \in file.connections : {e.source, e.target} \subseteq Listed(file)
       /\ Cardinality({<<e.target, e.targetPort>> : e \in file.connections}) =
            Cardinality({c \in Connections : ~({c.source, c.target} \subseteq hardware)})
       /\ Cardinality(PLinkPorts(file)) = Cardinality(crossing)
       /\ Cardinality(Ports(crossing)) <= PortLimit

\* Configurations that the last call of solveModel wrote, with their times.
JustWritten ==
  {f \in Configured : /\ status = "solving" /\ f.dir = config.mode /\ f.cores = cores - 1
                      /\ f.index \in DOMAIN files[File(f.dir, "solutions.csv", f.cores, 0)]}
Times(f) == files[File(f.dir, "solutions.csv", f.cores, 0)][f.index]

\* What the solver was told to minimise is what the configuration costs: each
\* connection it lists once, as local when the partitions it lists put both
\* ends, of which one may be the PLink, on one core, and as global otherwise.
CostMatchesConfig ==
  \A f \in JustWritten :
    LET file == files[f]
        End(c, i) == IF i \in Listed(file) THEN i ELSE PLink
        From(c) == Place(file, End(c, c.source))
        To(c) == Place(file, End(c, c.target))
        there == {c \in Connections : ConnectionElement(c, Listed(file)) \in file.connections}
        Busy(p) == Unit * SwPeriod * SumFunction([i \in file.partitions[p] |-> InstanceTicks(profile.software, i)])
        busy == Max({Busy(p) : p \in DOMAIN file.partitions})
    IN /\ Times(f).local =
            Max({Communication({c \in there : From(c) = p /\ To(c) = p}, "Local") : p \in Cores(f.cores)})
       /\ Times(f).global = Communication({c \in there : From(c) # To(c)}, "Global")
       /\ Times(f).exec >= busy
       /\ f.dir = "homogeneous" => Times(f).exec = busy

\* When a compilation ends, hardware.json has an entry for each solution it
\* found, for any number of cores, and the file in unique/ with the index of
\* the entry has the two sides of that solution, whatever earlier compilations
\* left there; different entries have the same index only for the same sides.
HardwareNumbered ==
  status = "done" /\ Heterogeneous /\ "hardware.json" \notin reported =>
    LET json == files[HardwareJson]
        Rows(k) == DOMAIN files[File("heterogeneous", "solutions.csv", k, 0)]
        Sides(id) == files[File("heterogeneous", "xcf", id[1], id[2])]
    IN /\ DOMAIN json = UNION {{k} \X Rows(k) : k \in 1 .. MaxCores}
       /\ \A id \in DOMAIN json : files[Unique(json[id])] = Sides(id)
       /\ \A id, other \in DOMAIN json : json[id] = json[other] <=> Sides(id) = Sides(other)
=============================================================================

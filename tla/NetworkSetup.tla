---------------------------- MODULE NetworkSetup ----------------------------
(***************************************************************************)
(* From the calls of a generated main (actors-config.h) to the network     *)
(* that the CPU threads execute: actors-rts.c from createActorInstance to  *)
(* allocate_network, and executeNetwork around them.  A first process may  *)
(* read a configuration file; when it has run, generate_config writes one, *)
(* and a second process of the same program reads that.                    *)
(*                                                                         *)
(* An instance is its place in the array that main passes, a port is       *)
(* <<instance, "in" or "out", number>>, the name of an instance the pair   *)
(* of its class and index.  A file is its root and the elements below it,  *)
(* in their order; an attribute that an element lacks is no field of it.   *)
(* The layout of the memory is left out.  Bad... are plausible bugs: in    *)
(* the place of the definition that follows, they must break a property.   *)
(***************************************************************************)
EXTENDS Integers, Sequences, FiniteSets, SequencesExt

CONSTANTS
  Classes,   \* class -> [ins, outs, active]; a port is [isBytes, tokenSize]
  Programs,  \* [classes, wires, affinity], the latter -1 if it is not set
  Files,     \* [root, elements], what --cfile may name
  Fresh,     \* what an int may hold that malloc has returned
  FifoSize,  \* DEFAULT_FIFO_LENGTH
  CpuSetSize,  \* CPU_SETSIZE, a CPU is below it
  MaxActors, MaxConnects  \* MAX_ACTOR_NUM and MAX_CONNECTS

VARIABLES
  program, calls,  \* the program, and what main has still to call
  process, pc, options,
  file,            \* configuration file, or NoFile
  instances,       \* the array of instances
  index, affinity, \* fields of an instance
  created, capacity, numberOfReaders, output,  \* fields of ports
  cpus,            \* physical ids of the CPUs used
  actors,          \* actors of each of them
  readers,         \* output -> number of readers
  reader,          \* the array that the reader fields point into
  firstReader,     \* output -> where its readers begin
  numActiveActors,
  first            \* what the first process has executed

instanceVars == <<instances, index, affinity>>
portVars == <<created, capacity, numberOfReaders, output>>
networkVars == <<cpus, actors, readers, reader, firstReader, numActiveActors>>
vars == <<program, calls, process, pc, options, file, instanceVars, portVars,
          networkVars, first>>

NoFile == [root |-> "no file", elements |-> <<>>]
NoPort == <<>>
NoName == <<>>

\* What a program consists of.
InputsOf(prog, i) == {<<i, "in", j>> : j \in 1 .. Len(Classes[prog.classes[i]].ins)}
OutputsOf(prog, i) == {<<i, "out", j>> : j \in 1 .. Len(Classes[prog.classes[i]].outs)}
InputsIn(prog) == UNION {InputsOf(prog, i) : i \in DOMAIN prog.classes}
OutputsIn(prog) == UNION {OutputsOf(prog, i) : i \in DOMAIN prog.classes}

DescIn(prog, p) ==
  LET class == Classes[prog.classes[p[1]]]
  IN  IF p[2] = "in" THEN class.ins[p[3]] ELSE class.outs[p[3]]

Complete(e) == {"dst", "port", "size"} \subseteq DOMAIN e

\* Every input has one connection, and every output one at least; the ports of a
\* connection have tokens of one type, for they share a buffer.
ProgramOK(prog) ==
  /\ prog.classes \in Seq(DOMAIN Classes) /\ prog.classes # <<>>
  /\ prog.affinity \in [DOMAIN prog.classes -> -1 .. CpuSetSize - 1]
  /\ prog.wires \in Seq([from : OutputsIn(prog), to : InputsIn(prog), size : Nat])
  /\ \A p \in InputsIn(prog) : \E n \in DOMAIN prog.wires : prog.wires[n].to = p
  /\ \A m, n \in DOMAIN prog.wires : prog.wires[m].to = prog.wires[n].to => m = n
  /\ \A p \in OutputsIn(prog) : \E n \in DOMAIN prog.wires : prog.wires[n].from = p
  /\ \A n \in DOMAIN prog.wires : DescIn(prog, prog.wires[n].from) = DescIn(prog, prog.wires[n].to)

\* The numbers in a file, where it has them.
FileOK(f) ==
  /\ f.elements \in Seq(ToSet(f.elements))
  /\ \A e \in ToSet(f.elements) :
       /\ e.tag = "Partition" =>
            e.names \in Seq(ToSet(e.names)) /\ ("id" \in DOMAIN e => e.id \in -1 .. CpuSetSize - 1)
       /\ e.tag = "Connection" /\ Complete(e) => e.size \in Nat

ASSUME SetupAssumption ==
  /\ FifoSize \in Nat /\ CpuSetSize \in Nat \ {0} /\ MaxActors \in Nat /\ MaxConnects \in Nat
  /\ Fresh \subseteq Int
  /\ \A c \in DOMAIN Classes :
       LET Descs == Seq([isBytes : BOOLEAN, tokenSize : Nat \ {0}])
       IN  Classes[c] \in [ins : Descs, outs : Descs, active : BOOLEAN]
  /\ \A prog \in Programs : ProgramOK(prog)
  /\ \A f \in Files : FileOK(f)

Insts == 1 .. Len(program.classes)
Class(i) == Classes[program.classes[i]]
Inputs == InputsIn(program)
Outputs == OutputsIn(program)
Desc(p) == DescIn(program, p)
Name(i) == <<program.classes[i], index[i]>>
Feeding(p) == CHOOSE n \in DOMAIN program.wires : program.wires[n].to = p
Fed(p) == {n \in DOMAIN program.wires : program.wires[n].from = p}

\* The elements of s at the positions in P, in their order.
Picked(s, P) == FlattenSeq([n \in DOMAIN s |-> IF n \in P THEN <<s[n]>> ELSE <<>>])

\* f, and v for the elements of S.
With(f, S, v) == [x \in DOMAIN f \union S |-> IF x \in S THEN v ELSE f[x]]

Init ==
  /\ program \in Programs
  /\ calls = <<>> /\ process = 1 /\ pc = "start"
  /\ options \in SUBSET {"affinity", "generate", "with", "turnus"}
  /\ file \in Files \union {NoFile}
  /\ instances = <<>> /\ index = <<>> /\ affinity = <<>>
  /\ created = <<>> /\ capacity = <<>> /\ numberOfReaders = <<>> /\ output = <<>>
  /\ cpus = <<>> /\ actors = <<>> /\ numActiveActors = 0
  /\ readers = <<>> /\ reader = <<>> /\ firstReader = <<>>
  /\ first = <<>>

-----------------------------------------------------------------------------
(* main                                                                    *)

Create(p) ==
  [op |-> "createPort", port |-> p,
   argument |-> IF p[2] = "in" THEN program.wires[Feeding(p)].size ELSE Cardinality(Fed(p))]
Connect(w) == [op |-> "connectPorts", from |-> w.from, to |-> w.to]

PortsOf(i) ==
  [j \in 1 .. Len(Class(i).ins) |-> <<i, "in", j>>] \o
  [j \in 1 .. Len(Class(i).outs) |-> <<i, "out", j>>]

\* Create an instance, set its affinity, create its ports, each so many times.
InstanceCalls(i, times) ==
  <<[op |-> "createActorInstance", instance |-> i]>> \o
  (IF program.affinity[i] = -1 THEN <<>>
   ELSE <<[op |-> "setParameter", instance |-> i, value |-> program.affinity[i]]>>) \o
  FlattenSeq([n \in DOMAIN PortsOf(i) |-> [x \in 1 .. times[PortsOf(i)[n]] |-> Create(PortsOf(i)[n])]])

\* All instances, and then the connections, those with a number in links.
CallsWith(times, links) ==
  FlattenSeq([i \in Insts |-> InstanceCalls(i, times)]) \o
  Picked([n \in DOMAIN program.wires |-> Connect(program.wires[n])], links)

Once == [p \in Inputs \union Outputs |-> 1]
Wires == DOMAIN program.wires
Calls == CallsWith(Once, Wires)

\* A port is created twice, a connection is forgotten, or a port is.
FaultyCalls ==
  {CallsWith([Once EXCEPT ![p] = 2], Wires) : p \in Inputs \union Outputs} \union
  {CallsWith(Once, Wires \ {n}) : n \in Wires} \union
  {CallsWith([Once EXCEPT ![p] = 0],
             {n \in Wires : p \notin {program.wires[n].from, program.wires[n].to}}) :
     p \in Inputs \union Outputs}

Start ==
  /\ pc = "start"
  /\ calls' \in IF process = 1 THEN {Calls} \union FaultyCalls ELSE {Calls}
  /\ pc' = "main"
  /\ UNCHANGED <<program, process, options, file, instanceVars, portVars, networkVars, first>>

\* The next call of main is op.
Call(op) ==
  /\ pc = "main" /\ calls # <<>> /\ Head(calls).op = op
  /\ calls' = Tail(calls)
  /\ UNCHANGED <<program, process, pc, options, file, networkVars, first>>

createActorInstance ==
  LET i == Head(calls).instance
      ins == InputsOf(program, i)
      outs == OutputsOf(program, i) IN
  /\ Call("createActorInstance")
  /\ instances' = Append(instances, i)
  /\ \E n \in Fresh : index' = With(index, {i}, n)
  /\ affinity' = With(affinity, {i}, -1)
  /\ created' = With(created, ins \union outs, 0)
  /\ capacity' = With(capacity, ins \union outs, 0)
  /\ numberOfReaders' = With(numberOfReaders, outs, 0)
  /\ output' = With(output, ins, NoPort)

\* The affinity is the only parameter; the mode that "activeMode" sets is in Classes.
setParameter ==
  /\ Call("setParameter")
  /\ affinity' = [affinity EXCEPT ![Head(calls).instance] = Head(calls).value]
  /\ UNCHANGED <<instances, index, portVars>>

createInputPort ==
  LET p == Head(calls).port IN
  /\ Call("createPort") /\ p \in Inputs
  /\ created' = [created EXCEPT ![p] = @ + 1]
  /\ capacity' = [capacity EXCEPT ![p] = Head(calls).argument]
  /\ UNCHANGED <<instanceVars, numberOfReaders, output>>

createOutputPort ==
  LET p == Head(calls).port IN
  /\ Call("createPort") /\ p \in Outputs
  /\ created' = [created EXCEPT ![p] = @ + 1]
  /\ numberOfReaders' = [numberOfReaders EXCEPT ![p] = Head(calls).argument]
  /\ UNCHANGED <<instanceVars, capacity, output>>

connectPorts ==
  /\ Call("connectPorts")
  /\ output' = [output EXCEPT ![Head(calls).to] = Head(calls).from]
  /\ UNCHANGED <<instanceVars, created, capacity, numberOfReaders>>

-----------------------------------------------------------------------------
(* executeNetwork                                                          *)

\* No option --affinityN is known to the loop that reads the options.
ParseOptions ==
  /\ pc = "main" /\ calls = <<>>
  /\ pc' = IF "affinity" \in options \/ ("with" \in options /\ "generate" \notin options)
           THEN "exit" ELSE "index"
  /\ UNCHANGED <<program, calls, process, options, file, instanceVars, portVars, networkVars, first>>

\* Instances of its class before it in the array, which is still in the order of main.
SameClass(i) == {j \in Insts : j < i /\ program.classes[j] = program.classes[i]}

\* Each has one more than the one before it of its class, the first keeps what it had.
index_nodes ==
  /\ pc = "index"
  /\ index' = [i \in Insts |-> index[Min(SameClass(i) \union {i})] + Cardinality(SameClass(i))]
  /\ pc' = "config"
  /\ UNCHANGED <<program, calls, process, options, file, instances, affinity, portVars,
                 networkVars, first>>

-----------------------------------------------------------------------------
(* The configuration file                                                  *)

BadListed(part) == SubSeq(part.names, 1, 1)

\* The names in a partition, in the order of the file.
Listed(part) == part.names

\* instanceAfinity: an instance, and the partition that it is in.
Entries ==
  LET all == FlattenSeq([x \in DOMAIN file.elements |->
               LET part == file.elements[x]
               IN  IF part.tag # "Partition" THEN <<>>
                   ELSE [y \in DOMAIN Listed(part) |-> [name |-> Listed(part)[y], part |-> part]]])
  IN  SubSeq(all, 1, Min({MaxActors, Len(all)}))

\* connects: one that is not complete leaves its place to the next.
Connects ==
  LET all == Picked(file.elements,
               {x \in DOMAIN file.elements : /\ file.elements[x].tag = "Connection"
                                             /\ Complete(file.elements[x])})
  IN  SubSeq(all, 1, Min({MaxConnects, Len(all)}))

\* What xmlParser does of a file: atoi of an attribute that is missing is a fault,
\* as is strcmp with a name that is.  It fails unless there is one entry for each
\* instance; set_config then returns no array, with which executeNetwork goes on.
ParserResult ==
  IF file.root # "Configuration" THEN "failure"
  ELSE IF \E x \in DOMAIN Entries : "id" \notin DOMAIN Entries[x].part THEN "fault"
  ELSE IF Len(Entries) # Len(instances) THEN "failure"
  ELSE IF \E x \in DOMAIN Entries : Entries[x].name = NoName THEN "fault"
  ELSE "parsed"

\* The entry that set_instance_affinity finds for instances[n], or 0: the first
\* one with its name that is not flagged.
Entry ==
  LET entry[n \in 1 .. Len(instances)] ==
        LET free == {x \in DOMAIN Entries :
                       /\ Entries[x].name = Name(instances[n])
                       /\ \A l \in 1 .. n - 1 : entry[l] # x}
        IN  IF free = {} THEN 0 ELSE Min(free)
  IN  entry

\* set_instance_fifo for all connections; the last one for a port counts.
Sized(p) ==
  LET sizes == {x \in DOMAIN Connects : /\ Connects[x].dst = Name(p[1])
                                        /\ p[2] = "in" /\ Connects[x].port = p[3]}
  IN  IF sizes = {} THEN capacity[p] ELSE Connects[Max(sizes)].size

set_config ==
  /\ pc = "config"
  /\ IF file = NoFile
     THEN pc' = "check" /\ UNCHANGED <<instances, affinity, capacity>>
     ELSE IF ParserResult # "parsed"
     THEN pc' = "crash" /\ UNCHANGED <<instances, affinity, capacity>>
     ELSE IF \E n \in DOMAIN instances : Entry[n] = 0
     THEN pc' = "exit" /\ UNCHANGED <<instances, affinity, capacity>>
     ELSE /\ affinity' = [i \in Insts |->
               Entries[Entry[CHOOSE n \in DOMAIN instances : instances[n] = i]].part.id]
          /\ instances' = [x \in DOMAIN instances |->
               instances[CHOOSE n \in DOMAIN instances : Entry[n] = x]]
          /\ capacity' = [p \in Inputs \union Outputs |-> Sized(p)]
          /\ pc' = "check"
  /\ UNCHANGED <<program, calls, process, options, file, index, created, numberOfReaders, output,
                 networkVars, first>>

-----------------------------------------------------------------------------
(* check_network                                                           *)

BadWellFormed(p) == created[p] > 0 /\ (p \in Inputs => output[p] # NoPort)
WellFormed(p) == created[p] = 1 /\ (p \in Inputs => output[p] # NoPort)

BadForced == \A i \in Insts : affinity[i] = -1

\* Without an affinity for every instance, all run on one CPU.
Forced == \E i \in Insts : affinity[i] = -1

check_network ==
  /\ pc = "check"
  /\ affinity' = [i \in Insts |-> IF Forced THEN 0 ELSE affinity[i]]
  /\ pc' = IF \A p \in Inputs \union Outputs : WellFormed(p) THEN "allocate" ELSE "exit"
  /\ UNCHANGED <<program, calls, process, options, file, instances, index, portVars,
                 networkVars, first>>

-----------------------------------------------------------------------------
(* allocate_network                                                        *)

BadDefault(d) == (FifoSize \div d.tokenSize) * (IF d.isBytes THEN d.tokenSize ELSE 1)

\* The capacity if none is given, in bytes for structured tokens.
Default(d) ==
  LET n == IF d.tokenSize < FifoSize THEN FifoSize \div d.tokenSize ELSE 1
  IN  IF d.isBytes THEN n * d.tokenSize ELSE n

BadScaled(p) == capacity[p]

\* Capacities are given in tokens.
Scaled(p) == IF Desc(p).isBytes THEN capacity[p] * Desc(p).tokenSize ELSE capacity[p]

Requested(p) == IF Scaled(p) = 0 THEN Default(Desc(p)) ELSE Scaled(p)

\* The capacity of an output is the largest that one of its readers requests.
Maximal(out) == Max({Scaled(out)} \union {Requested(p) : p \in {q \in Inputs : output[q] = out}})

\* All ports of a kind, in the order of the array.
InOrder(kind) ==
  FlattenSeq([n \in DOMAIN instances |->
    [j \in 1 .. Len(Class(instances[n])[kind]) |->
       <<instances[n], IF kind = "ins" THEN "in" ELSE "out", j>>]])

Place(seq, x) == CHOOSE n \in DOMAIN seq : seq[n] = x

\* Room for the readers of an output follows that for the outputs before it.
RoomBefore(out) ==
  LET outs == InOrder("outs")
  IN  SumFunctionOnSet([n \in DOMAIN outs |-> numberOfReaders[outs[n]]], 1 .. Place(outs, out) - 1)

BadSlot(p, outs) == outs[output[p]]

\* Where an input is stored: after the inputs before it that read the same output.
Slot(p, outs) ==
  LET ins == InOrder("ins")
  IN  outs[output[p]] +
      Cardinality({n \in 1 .. Place(ins, p) - 1 : output[ins[n]] = output[p]})

InUse(n) == \E i \in Insts : affinity[i] = n

BadUsed ==
  Picked([n \in 1 .. CpuSetSize |-> CpuSetSize - n], {n \in 1 .. CpuSetSize : InUse(CpuSetSize - n)})

\* The CPUs used, in the order of their numbers.
Used == Picked([n \in 1 .. CpuSetSize |-> n - 1], {n \in 1 .. CpuSetSize : InUse(n - 1)})

allocate_network ==
  LET ins == InOrder("ins")
      start == [out \in Outputs |-> RoomBefore(out)] IN
  /\ pc = "allocate"
  /\ capacity' = [p \in Inputs \union Outputs |->
                    Maximal(IF p \in Inputs THEN output[p] ELSE p)]
  /\ firstReader' = start
  /\ reader' = [s \in 0 .. Len(ins) - 1 |->
       LET stored == {n \in DOMAIN ins : Slot(ins[n], start) = s}
       IN  IF stored = {} THEN NoPort ELSE ins[Max(stored)]]
  /\ readers' = [out \in Outputs |-> Cardinality({p \in Inputs : output[p] = out})]
  /\ cpus' = Used
  /\ actors' = [c \in DOMAIN Used |->
       Picked(instances, {n \in DOMAIN instances : affinity[instances[n]] = Used[c]})]
  /\ numActiveActors' = Cardinality({i \in Insts : Class(i).active})
  /\ pc' = "run"
  /\ UNCHANGED <<program, calls, process, options, file, instanceVars, created,
                 numberOfReaders, output, first>>

-----------------------------------------------------------------------------
(* generate_config, and the program is run again with what it writes.      *)

BadTokens(p) == capacity[p]

\* Files have capacities in tokens.
TokensOf(p) ==
  LET d == Desc(output[p]) IN IF d.isBytes THEN capacity[p] \div d.tokenSize ELSE capacity[p]

ReaderSlots(out) == firstReader[out] .. firstReader[out] + readers[out] - 1

\* The name of an instance when the file is written, for the trace of TURNUS cuts
\* the name of an instance that fires at the "/" before its index.
Written(i, cut) == IF i \in cut THEN <<program.classes[i]>> ELSE Name(i)

\* The readers of all outputs of the actors of all CPUs, in this order.
Generated(cut) ==
  LET running == FlattenSeq(actors)
      outs == FlattenSeq([n \in DOMAIN running |->
                [j \in 1 .. Len(Class(running[n]).outs) |-> <<running[n], "out", j>>]])
      ins == FlattenSeq([n \in DOMAIN outs |->
               [r \in 1 .. readers[outs[n]] |-> reader[firstReader[outs[n]] + r - 1]]])
  IN  [root |-> "Configuration",
       elements |->
         [c \in DOMAIN actors |->
            [tag |-> "Partition", id |-> c - 1,
             names |-> [n \in DOMAIN actors[c] |-> Written(actors[c][n], cut)]]] \o
         [n \in DOMAIN ins |->
            [tag |-> "Connection", dst |-> Written(ins[n][1], cut), port |-> ins[n][3],
             size |-> TokensOf(ins[n])]]]

Rerun ==
  /\ pc = "run" /\ process = 1 /\ "generate" \in options
  /\ \E cut \in {{}} \union (IF "turnus" \in options THEN {{i} : i \in Insts} ELSE {}) :
       /\ file' = Generated(cut)
       /\ first' = [actors |-> actors, capacity |-> capacity, index |-> index, cut |-> cut]
  /\ process' = 2 /\ pc' = "start"
  /\ instances' = <<>> /\ index' = <<>> /\ affinity' = <<>>
  /\ created' = <<>> /\ capacity' = <<>> /\ numberOfReaders' = <<>> /\ output' = <<>>
  /\ cpus' = <<>> /\ actors' = <<>> /\ numActiveActors' = 0
  /\ readers' = <<>> /\ reader' = <<>> /\ firstReader' = <<>>
  /\ UNCHANGED <<program, calls, options>>

Ended ==
  /\ \/ pc \in {"exit", "crash"}
     \/ pc = "run" /\ (process = 2 \/ "generate" \notin options)
  /\ UNCHANGED vars

Next ==
  \/ Start
  \/ createActorInstance \/ setParameter \/ createInputPort \/ createOutputPort
  \/ connectPorts
  \/ ParseOptions \/ index_nodes \/ set_config \/ check_network \/ allocate_network
  \/ Rerun \/ Ended

Spec == Init /\ [][Next]_vars

-----------------------------------------------------------------------------
(* Properties.                                                             *)

TypeOK ==
  /\ program \in Programs /\ process \in {1, 2}
  /\ pc \in {"start", "main", "index", "config", "check", "allocate", "run", "exit", "crash"}
  /\ \A n \in DOMAIN instances : instances[n] \in Insts
  /\ DOMAIN index = ToSet(instances) /\ DOMAIN affinity = ToSet(instances)
  /\ \A i \in DOMAIN index : index[i] \in Int /\ affinity[i] \in -1 .. CpuSetSize - 1
  /\ pc \in {"allocate", "run"} => \A i \in Insts : affinity[i] # -1
  /\ \A p \in DOMAIN created : created[p] \in Nat /\ capacity[p] \in Nat
  /\ \A p \in DOMAIN output : output[p] \in Outputs \union {NoPort}
  /\ \A s \in DOMAIN reader : reader[s] \in Inputs \union {NoPort}

RunsOn(i) == CHOOSE c \in DOMAIN actors : i \in ToSet(actors[c])

Built == INSTANCE Network WITH
  N <- Len(cpus), Actor <- Insts, Chan <- Outputs,
  ActorsOn <- [c \in 0 .. Len(cpus) - 1 |-> actors[c + 1]],
  CpuOf <- [i \in Insts |-> RunsOn(i) - 1],
  Ins <- [i \in Insts |-> [j \in 1 .. Len(Class(i).ins) |-> output[<<i, "in", j>>]]],
  Outs <- [i \in Insts |-> [j \in 1 .. Len(Class(i).outs) |-> <<i, "out", j>>]],
  Writer <- [out \in Outputs |-> out[1]],
  Cap <- [out \in Outputs |-> capacity[out]],
  Taken <- <<>>, Given <- <<>>, Horizon <- <<>>, Loops <- <<>>,
  Terminating <- {}, Active <- {}

\* What the CPU threads are given is a network as ExecuteNetwork assumes it:
\* every actor on exactly one CPU, no CPU without actors, no FIFO without room.
ShapeHolds == pc = "run" => Built!ShapeAssumption

\* A network runs only if main has created every port once and made every
\* connection it should; it has these connections and no others, and the readers
\* of an output are stored in its own part of the array (lines 891 and 908).
WiredAsDeclared ==
  pc = "run" =>
    /\ \A p \in Inputs \union Outputs : created[p] = 1
    /\ \A p \in Inputs : output[p] = program.wires[Feeding(p)].from
    /\ \A out \in Outputs :
         /\ {reader[s] : s \in ReaderSlots(out)} = {program.wires[n].to : n \in Fed(out)}
         /\ \A o \in Outputs \ {out} : ReaderSlots(o) \intersect ReaderSlots(out) = {}

\* Where the file sets the size of p, of the connections that there is room for.
Sizes(p) ==
  {n \in DOMAIN file.elements :
     LET e == file.elements[n]
         before == {l \in 1 .. n - 1 : /\ file.elements[l].tag = "Connection"
                                       /\ Complete(file.elements[l])}
     IN  /\ e.tag = "Connection" /\ Complete(e) /\ Cardinality(before) < MaxConnects
         /\ e.dst = Name(p[1]) /\ e.port = p[3]}

\* Tokens for which the file, or else the program, asks at an input.
Asked(p) ==
  IF Sizes(p) = {} THEN program.wires[Feeding(p)].size ELSE file.elements[Max(Sizes(p))].size

\* The capacity of a FIFO, in tokens: as much as each of its readers asks for, at
\* least one, and no more than some reader asks for or the default; for structured
\* tokens the bytes are a whole number of tokens (lines 737 to 800).
CapacityRight ==
  pc = "run" =>
    \A p \in Inputs :
      /\ capacity[p] = capacity[output[p]]
      /\ Desc(p).isBytes => capacity[p] % Desc(p).tokenSize = 0
      /\ TokensOf(p) >= Asked(p) /\ TokensOf(p) >= 1
      /\ \E q \in Inputs : /\ output[q] = output[p]
                           /\ TokensOf(p) = IF Asked(q) = 0 THEN Max({1, FifoSize \div Desc(q).tokenSize})
                                            ELSE Asked(q)

\* The affinity that a file, or else the program, gives an instance.
AskedCpu(i) ==
  LET parts == {x \in DOMAIN file.elements :
                  /\ file.elements[x].tag = "Partition"
                  /\ Name(i) \in ToSet(file.elements[x].names)}
  IN  IF file = NoFile THEN program.affinity[i] ELSE file.elements[Min(parts)].id

\* If every instance has an affinity, two run on one CPU when they have the same,
\* and CPUs are numbered in the order of affinities; otherwise there is one CPU.
PlacedAsAsked ==
  pc = "run" =>
    IF \A i \in Insts : AskedCpu(i) # -1
    THEN \A i, j \in Insts : RunsOn(i) <= RunsOn(j) <=> AskedCpu(i) <= AskedCpu(j)
    ELSE Len(actors) = 1

NamesOn(lists, indices) ==
  [c \in DOMAIN lists |-> [n \in DOMAIN lists[c] |->
     <<program.classes[lists[c][n]], indices[lists[c][n]]>>]]

\* The file that is generated from a network makes the same network of the program:
\* the same instances, in the same order, on as many CPUs, and, if the parser has
\* room for the connections, the same capacities.  It is accepted, provided that it
\* has room for the instances, that createActorInstance finds the same in the memory
\* of the index, which it does not set, and that no trace has cut a name.
Reproduced ==
  process = 2 =>
    /\ pc = "run" =>
         /\ NamesOn(actors, index) = NamesOn(first.actors, first.index)
         /\ Len(program.wires) <= MaxConnects => capacity = first.capacity
    /\ index = first.index /\ first.cut = {} /\ Len(program.classes) <= MaxActors
         => pc \notin {"exit", "crash"}

\* "--cfile=FILE Sets affinity and/or FIFO capacities as specified in the
\* configuration file" (lines 1228 and 1229): a file that only sets capacities of
\* inputs that there are leads to a network that runs.
CapacitiesOnly ==
  (\A n \in DOMAIN file.elements : file.elements[n].tag = "Connection") => pc # "crash"
=============================================================================

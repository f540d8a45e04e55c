--------------------------- MODULE MCPartitioning ---------------------------
(* PartitioningPhase for a chain, a diamond with a fan-out, and networks     *)
(* whose profiles lack something.                                            *)
EXTENDS PartitioningPhase

Source == <<"source">>
Left == <<"left">>
Right == <<"right", "0">>
Sink == <<"sink">>
Out == <<"OUT">>
In == <<"IN">>

Wire(from, to, port) == [source |-> from, sourcePort |-> Out, target |-> to, targetPort |-> port]
Sized(depth, width, tokens) == [depth |-> depth, width |-> width, tokens |-> tokens]

\* The first wires of a network, in the sizes given.
Inputs(software, accel, wires, sizes) ==
  [software |-> software, accel |-> accel,
   settings |-> [c \in {wires[n] : n \in DOMAIN wires \cap DOMAIN sizes} |->
                   sizes[CHOOSE n \in DOMAIN sizes : wires[n] = c]],
   fifo |-> [s \in {4, 8, 16} |-> [Local |-> s, Global |-> 3 * s + 4]],
   pcie |-> [s \in {8, 16} |-> [read |-> s + 8, write |-> s, kernel |-> 4]]]

Task(instances, wires, inp) ==
  [network |-> [instances |-> instances, connections |-> {wires[n] : n \in DOMAIN wires}],
   inputs |-> inp]

Ticks(names, n) == [i \in names |-> n + Len(i)]

Chain == <<Wire(Source, Left, In), Wire(Left, Right, In)>>
ChainNames == {Source, Left, Right}
\* An output with three readers, which are more than PortLimit.
Diamond == <<Wire(Source, Left, In), Wire(Source, Right, In), Wire(Left, Sink, In),
             Wire(Right, Sink, <<"IN", "1">>), Wire(Source, Sink, <<"IN", "2">>)>>
DiamondNames == {Source, Left, Right, Sink}
Sizes == <<Sized(3, 4, 6), Sized(2, 4, 5), Sized(1, 2, 3), Sized(8, 2, 3), Sized(2, 4, 6)>>

ChainTask(software, accel, sizes) == Task(<<Left, Right, Source>>, Chain, Inputs(software, accel, Chain, sizes))
DiamondTask(software, accel, sizes) ==
  Task(<<Source, Left, Right, Sink>>, Diamond, Inputs(software, accel, Diamond, sizes))

MCTasks ==
  {ChainTask(Ticks(ChainNames, 20), Ticks({Left, Right}, 5), Sizes),
   \* A negative product, and a buffer above the sizes profiled.
   ChainTask(Ticks(ChainNames, 1), Ticks(ChainNames, 5), <<Sized(20, 8, 6), Sized(70, 1, 5)>>),
   ChainTask(Ticks(ChainNames, 1), Ticks(ChainNames, 5), <<Sized(20, 1, 6), Sized(1, 1, 5)>>),
   DiamondTask(Ticks(DiamondNames \ {Right}, 10), Ticks({Left, Right, Sink}, 30), Sizes),
   \* Without the settings of some connections, and without connections.
   DiamondTask(Ticks({Source}, 10), Ticks(DiamondNames, 30), SubSeq(Sizes, 1, 3)),
   Task(<<Left, Right>>, <<>>, Inputs(Ticks({Left, Right}, 3), Ticks({Left}, 2), <<>>, <<>>))}

Config(mode, k) ==
  [mode |-> mode, cores |-> k, systemc |-> "ok", opencl |-> "ok", bandwidth |-> "ok", software |-> "ok"]

Profiles == {"systemc", "opencl", "bandwidth", "software"}
Faulty == {[Config(mode, 2) EXCEPT ![s] = fault] :
             mode \in {"homogeneous", "heterogeneous"}, s \in Profiles,
             fault \in {"absent", "noFreq", "noPath", "noFile"}}

\* The choice of what is read of a broken file multiplies what follows.
Broken == {[Config(mode, IF mode = "homogeneous" THEN 2 ELSE 1) EXCEPT ![s] = "broken"] :
             mode \in {"homogeneous", "heterogeneous"}, s \in Profiles}

Accelerated(k) == Config("heterogeneous", k)

MCScripts ==
  {<<c>> : c \in Faulty \union Broken \union {Config("null", 2), Config("pinned_heterogeneous", 2), Config("homogeneous", 3)}}
    \union {<<Accelerated(2), Accelerated(1)>>, <<Accelerated(1), Accelerated(2)>>, <<Accelerated(1), Accelerated(0)>>}
=============================================================================

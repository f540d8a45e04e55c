--------------------------- MODULE MCNetworkSetup ---------------------------
(* NetworkSetup for the benchmark of main.cc, and for an actor with an output *)
(* of each kind of tokens, of which one has two readers of the same class.    *)
EXTENDS NetworkSetup

Scalar == [isBytes |-> FALSE, tokenSize |-> 2]
Struct == [isBytes |-> TRUE, tokenSize |-> 3]
Large == [isBytes |-> TRUE, tokenSize |-> 9]

MCClasses ==
  [TimedSource |-> [ins |-> <<Scalar>>, outs |-> <<Scalar>>, active |-> FALSE],
   PassThrough |-> [ins |-> <<Scalar>>, outs |-> <<Scalar>>, active |-> FALSE],
   Split |-> [ins |-> <<>>, outs |-> <<Struct, Large>>, active |-> TRUE],
   Sink |-> [ins |-> <<Struct>>, outs |-> <<>>, active |-> FALSE],
   Other |-> [ins |-> <<Large>>, outs |-> <<>>, active |-> FALSE]]

Wire(i, j, n, l, size) == [from |-> <<i, "out", j>>, to |-> <<n, "in", l>>, size |-> size]

Bench(size) == <<Wire(1, 1, 2, 1, size), Wire(2, 1, 1, 1, size)>>
Fan(size) == <<Wire(2, 1, 1, 1, size), Wire(2, 1, 3, 1, 1), Wire(2, 2, 4, 1, 0)>>

Program(classes, wires, on) == [classes |-> classes, wires |-> wires, affinity |-> on]

MCPrograms ==
  {Program(<<"TimedSource", "PassThrough">>, Bench(size), on) :
     size \in {0, 3}, on \in {<<-1, -1>>, <<3, 1>>, <<-1, 2>>}} \union
  {Program(<<"Sink", "Split", "Sink", "Other">>, Fan(size), on) :
     size \in {0, 2}, on \in {<<-1, -1, -1, -1>>, <<5, 2, 5, 0>>}}

Part(id, names) == [tag |-> "Partition", id |-> id, names |-> names]
NoId(names) == [tag |-> "Partition", names |-> names]
Size(dst, port, size) == [tag |-> "Connection", dst |-> dst, port |-> port, size |-> size]
NoSize(dst, port) == [tag |-> "Connection", dst |-> dst, port |-> port]
Unknown == [tag |-> "Mapping"]
File(elements) == [root |-> "Configuration", elements |-> elements]

S0 == <<"Sink", 0>>
S1 == <<"Sink", 1>>
M0 == <<"Split", 0>>
O0 == <<"Other", 0>>
T0 == <<"TimedSource", 0>>
P0 == <<"PassThrough", 0>>

MCFiles ==
  {File(<<Part(4, <<P0, T0>>), Size(P0, 1, 0)>>),
   File(<<Size(P0, 1, 3), Part(1, <<P0>>), Unknown, Part(0, <<T0>>), NoSize(P0, 1), Size(P0, 1, 5)>>),
   File(<<Part(1, <<S1, O0>>), Size(S1, 1, 4), Part(0, <<M0, S0>>), Size(O0, 1, 2), Size(S1, 1, 3),
          Size(S0, 1, 9)>>),
   File(<<Part(2, <<M0>>), Part(-1, <<S1, S0, O0, P0>>), Size(S0, 1, 1)>>),
   File(<<Part(0, <<S1, M0, S1, O0>>)>>),
   File(<<Part(0, <<T0>>)>>),
   File(<<Part(0, <<NoName, T0>>)>>),
   File(<<Part(0, <<T0>>), NoId(<<P0>>)>>),
   [root |-> "Network", elements |-> <<Part(0, <<P0, T0>>)>>]}

MCFresh == {0, 1}

\* A file without partitions.
CapacityFiles == {File(<<Size(P0, 1, 5)>>)}
BenchOnly == {Program(<<"TimedSource", "PassThrough">>, Bench(0), <<-1, -1>>)}
=============================================================================

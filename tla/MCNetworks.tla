----------------------------- MODULE MCNetworks ------------------------------
(***************************************************************************)
(* The actor networks on which the executions are model-checked.  A cfg    *)
(* chooses one by its name, and the constants of Network are its fields.   *)
(***************************************************************************)
EXTENDS Integers, Sequences, FiniteSets, FiniteSetsExt

CONSTANT NetName

\* Total of the first n rates of an actor that cycles through rates.
Total(rates, n) == MapThenSumSet(LAMBDA k : rates[((k - 1) % Len(rates)) + 1], 1 .. n)

Range1(s) == {s[k] : k \in DOMAIN s}

(***************************************************************************)
(* on     the actors of CPU 0, 1, ...                                      *)
(* chans  per FIFO: writer, the tokens it writes per firing, readers with  *)
(*        the tokens they read per firing, capacity                        *)
(* limit  firings of an actor, a bound that only sources reach             *)
(***************************************************************************)
Chn(w, gives, rds, cap) == [w |-> w, gives |-> gives, readers |-> rds, cap |-> cap]

Net ==
  CASE NetName = "bench" ->       \* the bandwidth benchmark, NUM_LOOPS = 2
         [on |-> <<<<"src">>, <<"pass">>>>,
          chans |-> [out  |-> Chn("src", <<4, 0>>, [pass |-> <<4>>], 5),
                     back |-> Chn("pass", <<4>>, [src |-> <<0, 4>>], 4)],
          limit |-> [src |-> 4, pass |-> 3],
          loops |-> [src |-> 1, pass |-> 1], ends |-> {}, active |-> {}]
    [] NetName = "pipe" ->        \* three CPUs in a row, FIFOs of one token
         [on |-> <<<<"a">>, <<"b">>, <<"c">>>>,
          chans |-> [x |-> Chn("a", <<1>>, [b |-> <<1>>], 1),
                     y |-> Chn("b", <<1>>, [c |-> <<1>>], 1)],
          limit |-> [a |-> 1, b |-> 2, c |-> 2],
          loops |-> [a |-> 1, b |-> 1, c |-> 1], ends |-> {}, active |-> {}]
    [] NetName = "third" ->       \* as two of these, and an active actor beside
         [on |-> <<<<"a">>, <<"b">>, <<"c">>>>,
          chans |-> [x |-> Chn("a", <<1>>, [b |-> <<1>>], 1)],
          limit |-> [a |-> 1, b |-> 2, c |-> 1],
          loops |-> [a |-> 1, b |-> 1, c |-> 1], ends |-> {"c"}, active |-> {"c"}]
    [] NetName = "fan" ->         \* multicast to the own and to another CPU
         [on |-> <<<<"s", "l", "m">>, <<"r">>>>,
          chans |-> [x |-> Chn("s", <<1>>, [l |-> <<1>>, r |-> <<2>>], 2),
                     y |-> Chn("l", <<1>>, [m |-> <<1>>], 3),
                     z |-> Chn("r", <<1>>, [m |-> <<1, 0>>], 1)],
          limit |-> [s |-> 4, l |-> 5, m |-> 5, r |-> 3],
          loops |-> [s |-> 2, l |-> 2, m |-> 2, r |-> 1],
          ends |-> {"s"}, active |-> {}]
    [] NetName = "actives" ->     \* two active sources on two CPUs
         [on |-> <<<<"e", "k">>, <<"f">>>>,
          chans |-> [x |-> Chn("e", <<1>>, [k |-> <<1>>], 1),
                     y |-> Chn("f", <<1>>, [k |-> <<1>>], 1)],
          limit |-> [e |-> 1, f |-> 1, k |-> 2],
          loops |-> [e |-> 1, f |-> 1, k |-> 1], ends |-> {"e", "f"}, active |-> {"e", "f"}]

NetN == Len(Net.on)
NetActor == DOMAIN Net.limit
NetChan == DOMAIN Net.chans
NetActorsOn == [c \in 0 .. NetN - 1 |-> Net.on[c + 1]]
NetCpuOf == [a \in NetActor |->
  CHOOSE c \in 0 .. NetN - 1 : a \in Range1(NetActorsOn[c])]

\* The elements of S in some order.
Listed(S) == CHOOSE s \in [1 .. Cardinality(S) -> S] : Range1(s) = S

NetIns == [a \in NetActor |->
  Listed({ch \in NetChan : a \in DOMAIN Net.chans[ch].readers})]
NetOuts == [a \in NetActor |-> Listed({ch \in NetChan : Net.chans[ch].w = a})]
NetWriter == [ch \in NetChan |-> Net.chans[ch].w]
NetCap == [ch \in NetChan |-> Net.chans[ch].cap]
NetTaken == [ch \in NetChan |-> [a \in DOMAIN Net.chans[ch].readers |->
  [n \in 0 .. Net.limit[a] |-> Total(Net.chans[ch].readers[a], n)]]]
NetGiven == [ch \in NetChan |->
  [n \in 0 .. Net.limit[NetWriter[ch]] |-> Total(Net.chans[ch].gives, n)]]
NetHorizon == Net.limit

\* The rates of the ports of a repeat after CycleOf(a) firings, each firing of
\* the cycle is an action.
RatesIn(ch, a) == Net.chans[ch].readers[a]
CycleOf(a) == Max({1} \union {Len(RatesIn(NetIns[a][x], a)) : x \in DOMAIN NetIns[a]}
                     \union {Len(Net.chans[NetOuts[a][x]].gives) : x \in DOMAIN NetOuts[a]})
RateOf(rates, k) == rates[(k % Len(rates)) + 1]
NetNumActions == [a \in NetActor |-> CycleOf(a)]
NetActionAt == [a \in NetActor |-> [n \in 1 .. Net.limit[a] |-> (n - 1) % CycleOf(a)]]
NetConsumption == [a \in NetActor |-> [k \in 0 .. CycleOf(a) - 1 |->
  [x \in DOMAIN NetIns[a] |-> RateOf(RatesIn(NetIns[a][x], a), k)]]]
NetProduction == [a \in NetActor |-> [k \in 0 .. CycleOf(a) - 1 |->
  [x \in DOMAIN NetOuts[a] |-> RateOf(Net.chans[NetOuts[a][x]].gives, k)]]]
NetClass == [a \in NetActor |-> a]
NetLoops == Net.loops
NetTerminating == Net.ends
NetActive == Net.active
=============================================================================

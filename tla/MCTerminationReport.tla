------------------------ MODULE MCTerminationReport -------------------------
(* TerminationReport on all answers of the actors of some networks.        *)
EXTENDS TerminationReport

CONSTANT NetName

Same(x, S) == [a \in S |-> x]

(***************************************************************************)
(* all    every actor reads from every actor, the only output of x is      *)
(*        multicast to all.  x and y may wait for any two actors, z and t  *)
(*        for any one or for some two: graphs with all shapes of groups    *)
(* bench  TimedSource and PassThrough at the end of the benchmark          *)
(***************************************************************************)
MCOrder ==
  CASE NetName = "all" -> <<"x", "y", "z", "t">>
    [] NetName = "bench" -> <<"source", "pass">>

MCProducer ==
  CASE NetName = "all" -> Same(MCOrder, ToSet(MCOrder))
    [] NetName = "bench" -> [source |-> <<"pass">>, pass |-> <<"source">>]

MCConsumers ==
  CASE NetName = "all" -> [x |-> <<MCOrder>>, y |-> <<>>, z |-> <<>>, t |-> <<>>]
    [] NetName = "bench" -> [source |-> <<<<"pass">>>>, pass |-> <<<<"source">>>>]

Answer(kind, ports) == [kind |-> kind, ports |-> ports]
In(k) == [index |-> k, lacking |-> {}]
Out(k, S) == [index |-> k, lacking |-> S]

\* One blocked port, or two in ascending order, as the exit code lists them.
One(ports) == {Answer("blocked", <<p>>) : p \in ports}
Two(first, second) ==
  {Answer("blocked", <<p, q>>) :
     <<p, q>> \in {pq \in first \X second : pq[1].index < pq[2].index}}

AllIn == {In(k) : k \in 0 .. 3}
SomeOut == {Out(4, S) : S \in {{"x"}, {"y", "z"}, {"x", "y", "z", "t"}}}
Idle == Answer("idle", <<>>)

MCAnswers ==
  CASE NetName = "all" ->
         [x |-> {Idle, Answer("terminated", <<>>)} \union One(AllIn \union SomeOut)
                  \union Two(AllIn, AllIn \union SomeOut),
          y |-> {Idle} \union One(AllIn) \union Two(AllIn, AllIn),
          z |-> {Idle} \union One(AllIn) \union Two({In(0)}, AllIn),
          t |-> {Idle} \union One(AllIn) \union Two({In(1)}, AllIn)]
    [] NetName = "bench" -> Same({Answer("fireable", <<>>)}, ToSet(MCOrder))
=============================================================================

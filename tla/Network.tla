------------------------------- MODULE Network -------------------------------
(***************************************************************************)
(* The static actor network that art-runtime executes, as allocate_network *)
(* (actors-rts.c) hands it to the CPU threads: the actors of each CPU in   *)
(* list order, their ports, and the FIFO behind each output port.          *)
(*                                                                         *)
(* Actor code is generated and lies outside the runtime; what the runtime  *)
(* sees of it is how many tokens each call of an action scheduler takes    *)
(* and gives.  An actor is therefore described by two cumulative           *)
(* functions: Taken[ch][a][n] (Given[ch][n]) is the number of tokens actor *)
(* a (the writer of ch) has read from (written to) ch in its first n       *)
(* firings.  This covers actors whose rates change from firing to firing,  *)
(* as those of the TimedSource do.                                         *)
(***************************************************************************)
EXTENDS Integers, Sequences, FiniteSets

CONSTANTS
  N,           \* cpu_count
  Actor,       \* the actor instances
  Chan,        \* the FIFOs, one per output port
  ActorsOn,    \* cpu -> its list of actors
  CpuOf,       \* actor -> its cpu_index
  Ins,         \* actor -> the FIFOs behind its input ports, in port order
  Outs,        \* actor -> the FIFOs of its output ports, in port order
  Writer,      \* FIFO -> the actor that owns the output port
  Cap,         \* FIFO -> capacity, in tokens
  Taken, Given,
  Horizon,     \* actor -> number of firings after which its input is used up
  Loops,       \* actor -> most firings in one call of its action scheduler
  Terminating, \* actors that return EXITCODE_TERMINATE when used up
  Active       \* actors of a class with actorExecMode = 1

Cpu == 0 .. N - 1

\* actor[i]->input[j] and its writer, for every connected input port.
InPort == {p \in Chan \X Actor : \E k \in 1 .. Len(Ins[p[2]]) : Ins[p[2]][k] = p[1]}

\* output->reader[0 .. readers-1]
Readers(ch) == {a \in Actor : <<ch, a>> \in InPort}

\* All ports of an actor: the inputs, then the outputs.
Ports(a) == Ins[a] \o Outs[a]

IsInput(a, k) == k <= Len(Ins[a])

OneToOne(s) == \A k, l \in DOMAIN s : s[k] = s[l] => k = l

ShapeAssumption ==
  /\ N \in Nat \ {0}
  /\ IsFiniteSet(Actor)
  /\ ActorsOn \in [Cpu -> Seq(Actor)]
  /\ CpuOf \in [Actor -> Cpu]
  /\ \A c \in Cpu : /\ ActorsOn[c] # <<>>   \* used_cpus are the affinities of actors
                    /\ OneToOne(ActorsOn[c])
                    /\ \A k \in 1 .. Len(ActorsOn[c]) : CpuOf[ActorsOn[c][k]] = c
  /\ \A a \in Actor : \E k \in 1 .. Len(ActorsOn[CpuOf[a]]) : ActorsOn[CpuOf[a]][k] = a
  /\ Ins \in [Actor -> Seq(Chan)]
  /\ Outs \in [Actor -> Seq(Chan)]
  /\ Writer \in [Chan -> Actor]
  /\ \A a \in Actor : /\ OneToOne(Ins[a])
                      /\ OneToOne(Outs[a])
                      /\ \A k \in 1 .. Len(Outs[a]) : Writer[Outs[a][k]] = a
  /\ \A ch \in Chan : \E k \in 1 .. Len(Outs[Writer[ch]]) : Outs[Writer[ch]][k] = ch
  /\ Cap \in [Chan -> Nat \ {0}]

RateAssumption ==
  /\ Horizon \in [Actor -> Nat]
  /\ Loops \in [Actor -> Nat \ {0}]
  /\ Terminating \subseteq Actor
  /\ Active \subseteq Actor
  /\ \A p \in InPort :
       /\ Taken[p[1]][p[2]][0] = 0
       /\ \A n \in 0 .. Horizon[p[2]] :
            /\ Taken[p[1]][p[2]][n] \in Nat
            /\ \A m \in 0 .. n : Taken[p[1]][p[2]][m] <= Taken[p[1]][p[2]][n]
  /\ \A ch \in Chan :
       /\ Given[ch][0] = 0
       /\ \A n \in 0 .. Horizon[Writer[ch]] :
            /\ Given[ch][n] \in Nat
            /\ \A m \in 0 .. n : Given[ch][m] <= Given[ch][n]

ASSUME NetworkShape == ShapeAssumption
ASSUME NetworkRates == RateAssumption

=============================================================================

------------------------ MODULE ExecuteNetworkProofs -------------------------
(***************************************************************************)
(* Proofs about EXECUTE_NETWORK, for every network, every assignment of    *)
(* its actors to CPUs and every rate.  No CPU reads has_affected of another *)
(* while that changes it, and with one CPU that has active actors they are *)
(* counted right.  ViewsSafe: no actor ever acts on more tokens, or more   *)
(* space, than there is.  The counts a CPU caches in prefire are old when  *)
(* an actor uses them, local counts are not published yet or published and *)
(* not reset, and a reader on the writer's CPU counts tokens that no       *)
(* shared count shows; the inductive invariant ViewsInv says where every   *)
(* token is counted at every point of a round.  From it, the CPU threads   *)
(* execute the network as Dataflow says: whatever the interleaving, every  *)
(* call of an action scheduler is a legal sequence of firings, and no      *)
(* actor ever fires more often than in any execution of the network that   *)
(* goes to its end.                                                        *)
(*                                                                         *)
(* The second half is termination detection on at most two CPUs, without   *)
(* active actors (SmallNetwork): when terminate is set the network is      *)
(* starved (TerminationCorrect), so that the threads implement all of      *)
(* Dataflow, its end included (ExecutionCorrect), every run ends with the  *)
(* least outcome there is (OutcomeLeast), that of executing one actor      *)
(* after the other (OutcomeCorrect), and no CPU sleeps while it could work *)
(* (WakeupCorrect).  TLC refutes TerminationSound with three CPUs, and     *)
(* with two and active actors: a semaphore that was posted for nothing     *)
(* wakes a CPU later, and the pair of it and the CPU it then goes to sleep *)
(* with is taken for quiescent.                                            *)
(***************************************************************************)
EXTENDS ExecuteNetwork, FoldFacts

-----------------------------------------------------------------------------
(* The network: what the assumptions of Network give.                      *)

LEMMA CpuFacts ==
  /\ N \in Nat \ {0} /\ Cpu \subseteq Nat /\ IsFiniteSet(Cpu)
  /\ \A c \in Cpu : /\ ActorsOn[c] \in Seq(Actor) /\ 1 \in 1 .. Len(ActorsOn[c])
                    /\ \A k \in 1 .. Len(ActorsOn[c]) : /\ ActorsOn[c][k] \in Actor
                                                     /\ CpuOf[ActorsOn[c][k]] = c
<1>1. N \in Nat \ {0} /\ ActorsOn \in [Cpu -> Seq(Actor)]
  BY NetworkShape DEF ShapeAssumption
<1>2. Cpu \subseteq Nat /\ IsFiniteSet(Cpu)
  BY <1>1, FS_Interval DEF Cpu
<1>3. ASSUME NEW c \in Cpu PROVE ActorsOn[c] \in Seq(Actor) /\ 1 \in 1 .. Len(ActorsOn[c])
  <2>1. ActorsOn[c] \in Seq(Actor) /\ ActorsOn[c] # <<>>
    BY <1>1, NetworkShape DEF ShapeAssumption
  <2> QED BY <2>1
<1>4. \A c \in Cpu : \A k \in 1 .. Len(ActorsOn[c]) : CpuOf[ActorsOn[c][k]] = c
  BY NetworkShape DEF ShapeAssumption
<1>5. \A c \in Cpu : \A k \in 1 .. Len(ActorsOn[c]) : ActorsOn[c][k] \in Actor
  BY <1>3
<1> QED BY <1>1, <1>2, <1>3, <1>4, <1>5

LEMMA PortFacts ==
  ASSUME NEW a \in Actor, NEW k \in 1 .. Len(Ports(a))
  PROVE  /\ Ports(a)[k] \in Chan
         /\ IsInput(a, k) => <<Ports(a)[k], a>> \in InPort
         /\ ~IsInput(a, k) => Writer[Ports(a)[k]] = a
<1> DEFINE ins == Len(Ins[a])
           outs == Len(Outs[a])
<1>1. Ins[a] \in Seq(Chan) /\ Outs[a] \in Seq(Chan)
  BY NetworkShape DEF ShapeAssumption
<1>2. \A l \in 1 .. outs : Outs[a][l] \in Chan /\ Writer[Outs[a][l]] = a
  <2>1. \A l \in 1 .. outs : Writer[Outs[a][l]] = a
    BY NetworkShape DEF ShapeAssumption
  <2>2. \A l \in 1 .. outs : Outs[a][l] \in Chan
    BY <1>1
  <2> QED BY <2>1, <2>2
<1>3. ins \in Nat /\ outs \in Nat
  BY <1>1
<1>4. /\ Len(Ports(a)) = ins + outs
      /\ \A l \in 1 .. ins + outs : Ports(a)[l] = IF l <= ins THEN Ins[a][l] ELSE Outs[a][l - ins]
  BY <1>1, ConcatProperties, Zenon DEF Ports
<1>5. k \in 1 .. ins + outs
  BY <1>3, <1>4
<1>6. CASE IsInput(a, k)
  <2>1. Ports(a)[k] = Ins[a][k]
    BY <1>4, <1>5, <1>6 DEF IsInput
  <2>2. k \in 1 .. ins
    BY <1>3, <1>5, <1>6 DEF IsInput
  <2> QED BY <1>1, <1>6, <2>1, <2>2 DEF InPort
<1>7. CASE ~IsInput(a, k)
  <2>1. Ports(a)[k] = Outs[a][k - ins]
    BY <1>4, <1>5, <1>7 DEF IsInput
  <2> HIDE DEF ins, outs
  <2>2. k - ins \in 1 .. outs
    BY <1>3, <1>5, <1>7 DEF IsInput, ins
  <2> QED BY <1>2, <1>7, <2>1, <2>2
<1> QED BY <1>6, <1>7

LEMMA FirstPort ==
  ASSUME NEW a \in Actor, Ports(a) # <<>>
  PROVE  1 \in 1 .. Len(Ports(a))
<1>1. Ports(a) \in Seq(Chan)
  BY NetworkShape DEF ShapeAssumption, Ports
<1> QED BY <1>1

LEMMA RateFacts ==
  /\ \A a \in Actor : Horizon[a] \in Nat /\ Loops[a] \in Nat \ {0}
  /\ \A ch \in Chan : Writer[ch] \in Actor /\ Cap[ch] \in Nat \ {0}
  /\ \A a \in Actor : CpuOf[a] \in Cpu
  /\ \A p \in InPort : p[1] \in Chan /\ p[2] \in Actor /\ p = <<p[1], p[2]>>
BY NetworkShape, NetworkRates DEF ShapeAssumption, RateAssumption, InPort

LEMMA TakenFacts ==
  ASSUME NEW ch \in Chan, NEW a \in Actor, <<ch, a>> \in InPort,
         NEW m \in 0 .. Horizon[a], NEW n \in 0 .. m
  PROVE  /\ Taken[ch][a][m] \in Nat /\ Taken[ch][a][n] \in Nat
         /\ Taken[ch][a][n] <= Taken[ch][a][m] /\ Taken[ch][a][0] = 0
<1>1. Horizon[a] \in Nat
  BY RateFacts
<1>2. n \in 0 .. Horizon[a]
  BY <1>1
<1> QED BY <1>1, <1>2, NetworkRates DEF RateAssumption

LEMMA GivenFacts ==
  ASSUME NEW ch \in Chan, NEW m \in 0 .. Horizon[Writer[ch]], NEW n \in 0 .. m
  PROVE  /\ Given[ch][m] \in Nat /\ Given[ch][n] \in Nat
         /\ Given[ch][n] <= Given[ch][m] /\ Given[ch][0] = 0
<1>1. Horizon[Writer[ch]] \in Nat
  BY RateFacts
<1>2. n \in 0 .. Horizon[Writer[ch]]
  BY <1>1
<1> QED BY <1>1, <1>2, NetworkRates DEF RateAssumption

-----------------------------------------------------------------------------
(* Types.                                                                  *)

ActorLoops == {"prefire", "fire", "decrement", "postfire"}
CpuLoops == {"wake", "post", "scan"}

LEMMA GotoPlaces ==
  ASSUME PlacesTyped, NEW c \in Cpu, NEW label \in Label, NEW first \in Nat,
         Goto(c, label, first),
         label \in ActorLoops => first \in 1 .. Len(ActorsOn[c]),
         label \in CpuLoops => first \in Cpu
  PROVE  PlacesTyped'
<1>1. /\ pc' \in [Cpu -> Label] /\ i' \in [Cpu -> Nat] /\ j' \in [Cpu -> Nat \ {0}]
      /\ pc'[c] = label /\ i'[c] = first /\ j'[c] = 1
      /\ \A d \in Cpu \ {c} : pc'[d] = pc[d] /\ i'[d] = i[d] /\ j'[d] = j[d]
  BY DEF PlacesTyped, Goto
<1>2. ASSUME NEW d \in Cpu
      PROVE  /\ pc'[d] \in ActorLoops => i'[d] \in 1 .. Len(ActorsOn[d])
             /\ pc'[d] \in {"prefire", "postfire"} =>
                  j'[d] = 1 \/ j'[d] \in 1 .. Len(Ports(ActorsOn[d][i'[d]]))
             /\ pc'[d] \in CpuLoops => i'[d] \in Cpu
  <2>1. CASE d = c
    BY <1>1, <2>1
  <2>2. CASE d # c
    BY <1>1, <2>2 DEF PlacesTyped, This, ActorLoops, CpuLoops
  <2> QED BY <2>1, <2>2
<1> QED BY <1>1, <1>2 DEF PlacesTyped, This, ActorLoops, CpuLoops

LEMMA NextActorPlaces ==
  ASSUME PlacesTyped, NEW c \in Cpu, pc[c] \in {"prefire", "fire", "postfire"},
         NEW label \in Label, NextActor(c, label),
         label \in {"fire", "postfire"} \/ i[c] < Len(ActorsOn[c])
  PROVE  PlacesTyped'
<1>1. /\ i[c] \in 1 .. Len(ActorsOn[c]) /\ Len(ActorsOn[c]) \in Nat
      /\ 1 \in 1 .. Len(ActorsOn[c]) /\ pc[c] \in Label
  BY CpuFacts DEF PlacesTyped, Label
<1>2. CASE i[c] < Len(ActorsOn[c])
  <2>1. Goto(c, pc[c], i[c] + 1) /\ i[c] + 1 \in 1 .. Len(ActorsOn[c])
    BY <1>1, <1>2 DEF NextActor
  <2> QED BY <1>1, <2>1, GotoPlaces DEF CpuLoops
<1>3. CASE ~(i[c] < Len(ActorsOn[c]))
  BY <1>1, <1>3, GotoPlaces DEF NextActor, CpuLoops
<1> QED BY <1>2, <1>3

LEMMA ThisPort ==
  ASSUME PlacesTyped, NEW c \in Cpu, pc[c] \in {"prefire", "postfire"}, Ports(This(c)) # <<>>
  PROVE  /\ This(c) \in Actor /\ CpuOf[This(c)] = c
         /\ j[c] \in 1 .. Len(Ports(This(c))) /\ Len(Ports(This(c))) \in Nat
<1>1. This(c) \in Actor /\ CpuOf[This(c)] = c
  BY CpuFacts DEF PlacesTyped, This
<1>2. Ports(This(c)) \in Seq(Chan)
  BY <1>1, NetworkShape DEF ShapeAssumption, Ports
<1>3. Len(Ports(This(c))) \in Nat
  BY <1>2
<1> QED BY <1>1, <1>3, FirstPort DEF PlacesTyped

LEMMA NextPortPlaces ==
  ASSUME PlacesTyped, NEW c \in Cpu, pc[c] \in {"prefire", "postfire"},
         NEW label \in Label, NextPort(c, label),
         Ports(This(c)) # <<>>,
         label \in {"fire", "postfire"} \/ i[c] < Len(ActorsOn[c]) \/ ~LastPort(c)
  PROVE  PlacesTyped'
<1>1. j[c] \in 1 .. Len(Ports(This(c))) /\ Len(Ports(This(c))) \in Nat
  BY ThisPort
<1>2. CASE j[c] < Len(Ports(This(c)))
  <2>1. j' = [j EXCEPT ![c] = @ + 1] /\ UNCHANGED <<pc, i>>
    BY <1>2 DEF NextPort
  <2>2. j'[c] \in 1 .. Len(Ports(This(c)))
    BY <1>1, <1>2, <2>1 DEF PlacesTyped
  <2>3. /\ j' \in [Cpu -> Nat \ {0}]
        /\ \A d \in Cpu \ {c} : j'[d] = j[d]
    BY <1>1, <2>1 DEF PlacesTyped
  <2> QED BY <2>1, <2>2, <2>3 DEF PlacesTyped, This
<1>3. CASE ~(j[c] < Len(Ports(This(c))))
  <2>1. LastPort(c)
    BY <1>1, <1>3 DEF LastPort
  <2> QED BY <1>3, <2>1, NextActorPlaces DEF NextPort
<1> QED BY <1>2, <1>3

LEMMA TypeInit == Init => TypeOK
<1> SUFFICES ASSUME Init PROVE TypeOK
  OBVIOUS
<1>1. PortsTyped /\ ActorsTyped
  BY RateFacts DEF Init, PortsTyped, ActorsTyped
<1>2. PlacesTyped
  BY CpuFacts DEF Init, PlacesTyped, Label
<1>3. Cardinality(Active) \in Nat
  <2>1. Active \subseteq Actor /\ IsFiniteSet(Actor)
    BY NetworkShape, NetworkRates DEF ShapeAssumption, RateAssumption
  <2> QED BY <2>1, FS_Subset, FS_CardinalityType
<1>4. oldSleep \in [Cpu -> [Cpu -> Nat]] /\ affected \in [Cpu -> SUBSET Cpu]
  BY DEF Init
<1>5. quiescent \in [Cpu -> BOOLEAN] /\ stay \in [Cpu -> BOOLEAN] /\ terminate \in BOOLEAN
  BY DEF Init
<1>6. /\ sleep \in [Cpu -> Nat] /\ quiescentAt \in [Cpu -> Nat] /\ sem \in [Cpu -> Nat]
      /\ sleepers \in Int /\ currSleepEvent \in Nat
      /\ loaded \in [Cpu -> Int] /\ numActiveActors \in Int
  BY <1>3 DEF Init
<1>7. mutex \in Cpu \union {Nobody}
  BY DEF Init
<1> QED BY <1>1, <1>2, <1>4, <1>5, <1>6, <1>7 DEF TypeOK, SyncTyped

LEMMA PrefireTypes ==
  ASSUME TypeOK, NEW c \in Cpu, PrefirePort(c) \/ PrefireSkip(c)
  PROVE  TypeOK'
<1>1. PlacesTyped'
  <2>1. CASE PrefirePort(c)
    BY <2>1, NextPortPlaces DEF PrefirePort, At, TypeOK, Label
  <2>2. CASE PrefireSkip(c)
    BY <2>2, NextActorPlaces DEF PrefireSkip, At, TypeOK, Label
  <2> QED BY <2>1, <2>2
<1>2. PortsTyped'
  <2>1. CASE PrefirePort(c)
    <3> DEFINE a == This(c)
               ch == Ports(a)[j[c]]
    <3>1. /\ a \in Actor /\ ch \in Chan
          /\ IsInput(a, j[c]) => <<ch, a>> \in InPort
      BY <2>1, ThisPort, PortFacts DEF PrefirePort, At, TypeOK
    <3>2. CASE IsInput(a, j[c]) /\ ReadIn(<<ch, a>>)
      BY <3>1, <3>2, RateFacts DEF ReadIn, TypeOK, PortsTyped
    <3>3. CASE ReadOut(ch)
      <4>1. PICK most \in {0} \union {Unconsumed(ch, r) : r \in Readers(ch)} :
              availOut' = [availOut EXCEPT ![ch] = Cap[ch] - most]
        BY <3>3 DEF ReadOut
      <4>2. most \in Int
        <5>1. ASSUME NEW r \in Readers(ch) PROVE Unconsumed(ch, r) \in Int
          <6> HIDE DEF ch
          <6>1. <<ch, r>> \in InPort
            BY DEF Readers
          <6> QED BY <3>1, <6>1 DEF Unconsumed, TypeOK, PortsTyped
        <5> QED BY <4>1, <5>1
      <4> QED BY <3>1, <3>3, <4>1, <4>2, RateFacts DEF ReadOut, TypeOK, PortsTyped
    <3> QED BY <2>1, <3>2, <3>3 DEF PrefirePort
  <2>2. CASE PrefireSkip(c)
    BY <2>2 DEF PrefireSkip, portVars, TypeOK, PortsTyped
  <2> QED BY <2>1, <2>2
<1>3. ActorsTyped' /\ SyncTyped'
  <2>1. ActorsTyped'
    BY DEF PrefirePort, PrefireSkip, TypeOK, ActorsTyped
  <2>2. SyncTyped'
    BY DEF PrefirePort, PrefireSkip, syncVars, localVars, sleepVars, TypeOK, SyncTyped
  <2> QED BY <2>1, <2>2
<1> QED BY <1>1, <1>2, <1>3 DEF TypeOK

LEMMA CallTypes ==
  ASSUME TypeOK, NEW a \in Actor, NEW m \in fires[a] .. fires[a] + Loops[a],
         Reaches(a, m), Call(a, m)
  PROVE  /\ m <= Horizon[a] /\ PortsTyped'
         /\ fires' \in [Actor -> Nat] /\ \A b \in Actor : fires'[b] <= Horizon[b]
         /\ fired' \in [Actor -> BOOLEAN]
<1>1. /\ m \in Nat /\ fires[a] \in Nat /\ fires[a] <= m
      /\ m <= Horizon[a] /\ Horizon[a] \in Nat
  BY RateFacts DEF TypeOK, ActorsTyped, Reaches, Enough
<1>2. ASSUME NEW ch \in Chan, <<ch, a>> \in InPort
      PROVE  TakenBy(a, ch, m) \in Nat /\ Visible(a, ch) \in Int
  <2>1. TakenBy(a, ch, m) \in Nat
    BY <1>1, <1>2, TakenFacts DEF TakenBy
  <2>2. Visible(a, ch) \in Int
    BY <1>2 DEF Visible, TypeOK, PortsTyped
  <2> QED BY <2>1, <2>2
<1>3. ASSUME NEW ch \in Chan, Writer[ch] = a
      PROVE  GivenBy(a, ch, m) \in Nat
  BY <1>1, <1>3, GivenFacts DEF GivenBy
<1>4. availIn' \in [InPort -> Int] /\ inCount' \in [InPort -> Nat]
  <2>1. ASSUME NEW p \in InPort, p[2] = a
        PROVE  TakenBy(a, p[1], m) \in Nat /\ Visible(a, p[1]) \in Int
    BY <1>2, <2>1, RateFacts
  <2> QED BY <2>1 DEF Call, TypeOK, PortsTyped
<1>5. availOut' \in [Chan -> Int] /\ outCount' \in [Chan -> Nat]
  BY <1>3 DEF Call, TypeOK, PortsTyped
<1>6. PortsTyped'
  BY <1>4, <1>5 DEF Call, TypeOK, PortsTyped
<1>7. fires' \in [Actor -> Nat] /\ (\A b \in Actor : fires'[b] <= Horizon[b])
  BY <1>1 DEF Call, TypeOK, ActorsTyped
<1>8. fired' \in [Actor -> BOOLEAN]
  BY DEF Call, TypeOK, ActorsTyped
<1> QED BY <1>1, <1>6, <1>7, <1>8

LEMMA FireTypes ==
  ASSUME TypeOK, NEW c \in Cpu, Fire(c) \/ Decrement(c) \/ FireSkip(c)
  PROVE  TypeOK'
<1>1. This(c) \in Actor /\ i[c] \in 1 .. Len(ActorsOn[c]) /\ Len(ActorsOn[c]) \in Nat
  BY CpuFacts DEF Fire, Decrement, FireSkip, At, This, TypeOK, PlacesTyped
<1>2. CASE Fire(c)
  <2> DEFINE a == This(c)
  <2>1. PICK m \in fires[a] .. fires[a] + Loops[a] :
          /\ Reaches(a, m) /\ Call(a, m)
          /\ terminated' = [terminated EXCEPT ![a] = Ends(a, m)]
          /\ IF Ends(a, m) /\ a \in Active
             THEN /\ Goto(c, "decrement", i[c])
                  /\ loaded' = [loaded EXCEPT ![c] = numActiveActors]
             ELSE NextActor(c, "postfire") /\ UNCHANGED loaded
    BY <1>2 DEF Fire
  <2>2. /\ PortsTyped' /\ fires' \in [Actor -> Nat] /\ \A b \in Actor : fires'[b] <= Horizon[b]
        /\ fired' \in [Actor -> BOOLEAN]
    BY <1>1, <2>1, CallTypes
  <2>3. ActorsTyped'
    <3>1. Ends(a, m) \in BOOLEAN
      BY DEF Ends
    <3>2. terminated' \in [Actor -> BOOLEAN]
      BY <2>1, <3>1 DEF TypeOK, ActorsTyped
    <3> QED BY <1>2, <2>2, <3>2 DEF Fire, TypeOK, ActorsTyped
  <2>4. PlacesTyped'
    <3>1. CASE Goto(c, "decrement", i[c])
      BY <1>1, <3>1, GotoPlaces DEF TypeOK, Label, CpuLoops
    <3>2. CASE NextActor(c, "postfire")
      BY <1>2, <3>2, NextActorPlaces DEF Fire, At, TypeOK, Label
    <3> QED BY <2>1, <3>1, <3>2
  <2>5. SyncTyped'
    <3>1. loaded' \in [Cpu -> Int]
      BY <2>1 DEF TypeOK, SyncTyped
    <3> QED BY <1>2, <3>1 DEF Fire, syncVars, localVars, sleepVars, TypeOK, SyncTyped
  <2> QED BY <2>2, <2>3, <2>4, <2>5 DEF TypeOK
<1>3. CASE Decrement(c)
  <2>1. PlacesTyped'
    BY <1>1, <1>3, CpuFacts, GotoPlaces DEF Decrement, TypeOK, Label, CpuLoops
  <2>2. SyncTyped'
    <3>1. loaded' \in [Cpu -> Int] /\ numActiveActors' \in Int
      BY <1>3 DEF Decrement, Decremented, TypeOK, SyncTyped
    <3> QED BY <1>3, <3>1 DEF Decrement, syncVars, localVars, sleepVars, TypeOK, SyncTyped
  <2>3. PortsTyped' /\ ActorsTyped'
    BY <1>3 DEF Decrement, portVars, actorVars, TypeOK, PortsTyped, ActorsTyped
  <2> QED BY <2>1, <2>2, <2>3 DEF TypeOK
<1>4. CASE FireSkip(c)
  <2>1. PlacesTyped'
    BY <1>4, NextActorPlaces DEF FireSkip, At, TypeOK, Label
  <2>2. PortsTyped' /\ ActorsTyped' /\ SyncTyped'
    BY <1>4 DEF FireSkip, dataVars, portVars, actorVars, syncVars, localVars, sleepVars,
                TypeOK, PortsTyped, ActorsTyped, SyncTyped
  <2> QED BY <2>1, <2>2 DEF TypeOK
<1> QED BY <1>2, <1>3, <1>4

LEMMA PostfireEndPlaces ==
  ASSUME PlacesTyped, NEW c \in Cpu, PostfireEnd(c), quiescent \in [Cpu -> BOOLEAN]
  PROVE  PlacesTyped' /\ quiescent' \in [Cpu -> BOOLEAN]
<1>1. 0 \in Cpu
  BY CpuFacts DEF Cpu
<1> QED BY <1>1, GotoPlaces DEF PostfireEnd, Label, ActorLoops

LEMMA PostfireTypes ==
  ASSUME TypeOK, NEW c \in Cpu, PostfirePort(c) \/ PostfireSkip(c)
  PROVE  TypeOK'
<1>1. /\ This(c) \in Actor /\ i[c] \in 1 .. Len(ActorsOn[c]) /\ Len(ActorsOn[c]) \in Nat
      /\ pc[c] = "postfire" /\ quiescent \in [Cpu -> BOOLEAN]
  BY CpuFacts DEF PostfirePort, PostfireSkip, At, This, TypeOK, PlacesTyped, SyncTyped
<1>2. PlacesTyped' /\ quiescent' \in [Cpu -> BOOLEAN]
  <2>1. CASE PostfireEnd(c)
    BY <1>1, <2>1, PostfireEndPlaces DEF TypeOK
  <2>2. CASE PostfirePort(c) /\ ~(LastActor(c) /\ LastPort(c)) /\ NextPort(c, "wake")
    <3>1. i[c] < Len(ActorsOn[c]) \/ ~LastPort(c)
      BY <1>1, <2>2 DEF LastActor
    <3>2. PlacesTyped'
      BY <1>1, <2>2, <3>1, NextPortPlaces DEF PostfirePort, TypeOK, Label
    <3> QED BY <1>1, <2>2, <3>2 DEF PostfirePort
  <2>3. CASE PostfireSkip(c) /\ ~LastActor(c) /\ NextActor(c, "wake")
    <3>1. i[c] < Len(ActorsOn[c])
      BY <1>1, <2>3 DEF LastActor
    <3>2. PlacesTyped'
      BY <1>1, <2>3, <3>1, NextActorPlaces DEF TypeOK, Label
    <3> QED BY <1>1, <2>3, <3>2 DEF PostfireSkip
  <2> QED BY <2>1, <2>2, <2>3 DEF PostfirePort, PostfireSkip
<1>3. PortsTyped' /\ affected' \in [Cpu -> SUBSET Cpu]
  <2>1. CASE PostfirePort(c)
    <3> DEFINE a == This(c)
               ch == Ports(a)[j[c]]
    <3>1. /\ a \in Actor /\ ch \in Chan
          /\ IsInput(a, j[c]) => <<ch, a>> \in InPort
      BY <1>1, <2>1, ThisPort, PortFacts DEF PostfirePort, TypeOK
    <3>2. CASE IsInput(a, j[c]) /\ PublishIn(c, <<ch, a>>)
      <4>1. CpuOf[Writer[ch]] \in Cpu
        BY <3>1, RateFacts
      <4>2. affected' \in [Cpu -> SUBSET Cpu]
        BY <3>2, <4>1 DEF PublishIn, TypeOK, SyncTyped
      <4>3. rcount' \in [InPort -> Nat]
        BY <3>1, <3>2 DEF PublishIn, TypeOK, PortsTyped
      <4> QED BY <2>1, <3>2, <4>2, <4>3 DEF PublishIn, PostfirePort, TypeOK, PortsTyped
    <3>3. CASE PublishOut(c, ch)
      <4>1. {CpuOf[r] : r \in Readers(ch)} \subseteq Cpu
        BY RateFacts DEF Readers
      <4>2. affected' \in [Cpu -> SUBSET Cpu]
        BY <3>3, <4>1 DEF PublishOut, TypeOK, SyncTyped
      <4>3. wcount' \in [Chan -> Nat] /\ outCount' \in [Chan -> Nat]
        BY <3>1, <3>3 DEF PublishOut, ClearCount, TypeOK, PortsTyped
      <4> QED BY <2>1, <3>3, <4>2, <4>3 DEF PublishOut, PostfirePort, TypeOK, PortsTyped
    <3> QED BY <2>1, <3>2, <3>3 DEF PostfirePort
  <2>2. CASE PostfireSkip(c)
    BY <2>2 DEF PostfireSkip, dataVars, portVars, TypeOK, PortsTyped, SyncTyped
  <2> QED BY <2>1, <2>2
<1>4. ActorsTyped'
  BY DEF PostfirePort, PostfireSkip, dataVars, actorVars, TypeOK, ActorsTyped
<1>5. SyncTyped'
  BY <1>2, <1>3 DEF PostfirePort, PostfireSkip, dataVars, sleepVars, TypeOK, SyncTyped
<1> QED BY <1>2, <1>3, <1>4, <1>5 DEF TypeOK

LEMMA NextCpuPlaces ==
  ASSUME PlacesTyped, NEW c \in Cpu, pc[c] \in CpuLoops,
         NEW label \in Label, NEW first \in Nat, NextCpu(c, label, first),
         label \in ActorLoops => first \in 1 .. Len(ActorsOn[c]), label \notin CpuLoops
  PROVE  PlacesTyped'
<1>1. i[c] \in Cpu /\ pc[c] \in Label
  BY DEF PlacesTyped, CpuLoops
<1>2. CASE i[c] < N - 1
  <2>1. Goto(c, pc[c], i[c] + 1)
    BY <1>2 DEF NextCpu
  <2>2. i[c] + 1 \in Cpu /\ i[c] + 1 \in Nat
    BY <1>1, <1>2, CpuFacts DEF Cpu
  <2> QED BY <1>1, <2>1, <2>2, GotoPlaces DEF ActorLoops, CpuLoops
<1>3. CASE ~(i[c] < N - 1)
  BY <1>3, GotoPlaces DEF NextCpu
<1> QED BY <1>2, <1>3

\* One iteration of the loops over the CPUs.
LEMMA NoteTypes ==
  ASSUME TypeOK, NEW c \in Cpu, NEW d \in Cpu, NoteSleep(c, d)
  PROVE  oldSleep' \in [Cpu -> [Cpu -> Nat]]
BY DEF NoteSleep, TypeOK, SyncTyped

LEMMA WakeTypes ==
  ASSUME TypeOK, NEW c \in Cpu, Wake(c) \/ Post(c)
  PROVE  TypeOK'
<1>1. /\ i[c] \in Cpu /\ i[c] \in Nat /\ 1 \in 1 .. Len(ActorsOn[c])
  BY CpuFacts DEF Wake, Post, At, TypeOK, PlacesTyped
<1>2. PortsTyped' /\ ActorsTyped'
  BY DEF Wake, Post, dataVars, portVars, actorVars, TypeOK, PortsTyped, ActorsTyped
<1>3. PlacesTyped'
  <2>1. CASE Wake(c)
    <3>1. CASE Goto(c, "post", i[c])
      BY <1>1, <3>1, GotoPlaces DEF TypeOK, Label, ActorLoops
    <3>2. CASE NextCpu(c, "prefire", 1)
      BY <1>1, <2>1, <3>2, NextCpuPlaces DEF Wake, At, TypeOK, Label, CpuLoops
    <3> QED BY <2>1, <3>1, <3>2 DEF Wake
  <2>2. CASE Post(c)
    <3>1. CASE i[c] < N - 1 /\ Goto(c, "wake", i[c] + 1)
      <4>1. i[c] + 1 \in Cpu /\ i[c] + 1 \in Nat
        BY <1>1, <3>1, CpuFacts DEF Cpu
      <4> QED BY <3>1, <4>1, GotoPlaces DEF TypeOK, Label, ActorLoops
    <3>2. CASE Goto(c, "prefire", 1)
      BY <1>1, <3>2, GotoPlaces DEF TypeOK, Label, CpuLoops
    <3> QED BY <2>2, <3>1, <3>2 DEF Post
  <2> QED BY <2>1, <2>2
<1>4. SyncTyped'
  <2>1. CASE Wake(c)
    <3>1. oldSleep' \in [Cpu -> [Cpu -> Nat]]
      BY <1>1, <2>1, NoteTypes DEF Wake
    <3>2. affected' \in [Cpu -> SUBSET Cpu]
      BY <2>1 DEF Wake, TypeOK, SyncTyped
    <3> QED BY <2>1, <3>1, <3>2 DEF Wake, dataVars, sleepVars, TypeOK, SyncTyped
  <2>2. CASE Post(c)
    <3>1. sem' \in [Cpu -> Nat]
      <4>1. sem' = [sem EXCEPT ![i[c]] = @ + 1] /\ sem \in [Cpu -> Nat]
        BY <2>2 DEF Post, TypeOK, SyncTyped
      <4> QED BY <1>1, <4>1
    <3> QED BY <2>2, <3>1 DEF Post, dataVars, localVars, sleepVars, TypeOK, SyncTyped
  <2> QED BY <2>1, <2>2
<1> QED BY <1>2, <1>3, <1>4 DEF TypeOK

LEMMA LockTypes ==
  ASSUME TypeOK, NEW c \in Cpu, Lock(c) \/ Scan(c) \/ StayAwake(c) \/ GoToSleep(c)
  PROVE  TypeOK'
<1>1. 0 \in Cpu /\ (At(c, "scan") => i[c] \in Cpu)
  BY CpuFacts DEF At, Cpu, TypeOK, PlacesTyped
<1>2. PortsTyped' /\ ActorsTyped'
  BY DEF Lock, Scan, StayAwake, GoToSleep, dataVars, portVars, actorVars, TypeOK,
         PortsTyped, ActorsTyped
<1>3. PlacesTyped'
  <2>1. CASE Scan(c)
    BY <2>1, NextCpuPlaces DEF Scan, At, TypeOK, Label, ActorLoops, CpuLoops
  <2>2. CASE Lock(c) \/ StayAwake(c) \/ GoToSleep(c)
    BY <1>1, <2>2, GotoPlaces DEF Lock, StayAwake, GoToSleep, TypeOK, Label, ActorLoops, CpuLoops
  <2> QED BY <2>1, <2>2
<1>4. CASE Lock(c)
  <2>1. stay' \in [Cpu -> BOOLEAN] /\ mutex' \in Cpu \union {Nobody}
    BY <1>4 DEF Lock, MutexLock, TypeOK, SyncTyped
  <2>2. SyncTyped'
    BY <1>4, <2>1 DEF Lock, dataVars, sleepVars, TypeOK, SyncTyped
  <2> QED BY <1>2, <1>3, <2>2 DEF TypeOK
<1>5. CASE Scan(c)
  <2>1. oldSleep' \in [Cpu -> [Cpu -> Nat]]
    BY <1>1, <1>5, NoteTypes DEF Scan
  <2>2. affected' \in [Cpu -> SUBSET Cpu] /\ sem' \in [Cpu -> Nat]
    <3> DEFINE d == i[c]
               mine == IF Wakes(c, d) THEN affected[c] \ {d} ELSE affected[c]
    <3>1. d \in Cpu /\ affected \in [Cpu -> SUBSET Cpu] /\ sem \in [Cpu -> Nat]
      BY <1>1, <1>5 DEF Scan, TypeOK, SyncTyped
    <3>2. /\ affected' = [affected EXCEPT ![c] = mine, ![d] = Acknowledged(c, d)]
          /\ sem' = [sem EXCEPT ![d] = IF Wakes(c, d) THEN @ + 1 ELSE @]
      BY <1>5 DEF Scan
    <3>3. mine \in SUBSET Cpu /\ Acknowledged(c, d) \in SUBSET Cpu
      BY <3>1 DEF Acknowledged
    <3> HIDE DEF d, mine
    <3> QED BY <3>1, <3>2, <3>3
  <2>3. stay' \in [Cpu -> BOOLEAN]
    <3>1. DataForUs(c, i[c]) \in BOOLEAN
      BY DEF DataForUs, SeenAsleep, Changed
    <3> QED BY <1>5, <3>1 DEF Scan, TypeOK, SyncTyped
  <2>4. SyncTyped'
    BY <1>5, <2>1, <2>2, <2>3 DEF Scan, dataVars, sleepVars, TypeOK, SyncTyped
  <2> QED BY <1>2, <1>3, <2>4 DEF TypeOK
<1>6. CASE StayAwake(c)
  <2>1. SyncTyped'
    BY <1>6 DEF StayAwake, MutexUnlock, dataVars, localVars, sleepVars, TypeOK, SyncTyped
  <2> QED BY <1>2, <1>3, <2>1 DEF TypeOK
<1>7. CASE GoToSleep(c)
  <2>1. sleepers' \in Int /\ currSleepEvent' \in Nat /\ mutex' \in Cpu \union {Nobody}
    BY <1>7 DEF GoToSleep, MutexUnlock, TypeOK, SyncTyped
  <2>2. quiescent' \in [Cpu -> BOOLEAN] /\ terminate' \in BOOLEAN
    BY <1>7 DEF GoToSleep, TypeOK, SyncTyped
  <2>3. quiescentAt' \in [Cpu -> Nat] /\ sleep' \in [Cpu -> Nat]
    BY <1>7, <2>1 DEF GoToSleep, TypeOK, SyncTyped
  <2>4. sem' \in [Cpu -> Nat]
    BY <1>7 DEF GoToSleep, TypeOK, SyncTyped
  <2>5. SyncTyped'
    BY <1>7, <2>1, <2>2, <2>3, <2>4 DEF GoToSleep, dataVars, TypeOK, SyncTyped
  <2> QED BY <1>2, <1>3, <2>5 DEF TypeOK
<1> QED BY <1>4, <1>5, <1>6, <1>7

LEMMA SleepTypes ==
  ASSUME TypeOK, NEW c \in Cpu,
         \/ CheckTerminate(c, "asleep", "wait") \/ CheckTerminate(c, "woken", "relock")
         \/ Wait(c) \/ WakeUp(c) \/ Drain(c) \/ Done(c)
  PROVE  TypeOK'
<1>1. 1 \in 1 .. Len(ActorsOn[c])
  BY CpuFacts
<1>2. PortsTyped' /\ ActorsTyped'
  BY DEF CheckTerminate, Wait, WakeUp, Drain, Done, dataVars, portVars, actorVars, TypeOK,
         PortsTyped, ActorsTyped
<1>3. PlacesTyped'
  <2>1. CASE Drain(c)
    <3>1. CASE Goto(c, "prefire", 1)
      BY <1>1, <3>1, GotoPlaces DEF TypeOK, Label, CpuLoops
    <3>2. CASE UNCHANGED <<pc, i, j>>
      BY <3>2 DEF TypeOK, PlacesTyped, This
    <3> QED BY <2>1, <3>1, <3>2 DEF Drain
  <2>2. CASE CheckTerminate(c, "asleep", "wait") \/ CheckTerminate(c, "woken", "relock")
    <3>1. PICK label \in {"done", "wait", "relock"} : Goto(c, label, 0)
      BY <2>2 DEF CheckTerminate
    <3> QED BY <3>1, GotoPlaces DEF TypeOK, Label, ActorLoops, CpuLoops
  <2>3. CASE Wait(c) \/ WakeUp(c) \/ Done(c)
    BY <2>3, GotoPlaces DEF Wait, WakeUp, Done, TypeOK, Label, ActorLoops, CpuLoops
  <2> QED BY <2>1, <2>2, <2>3
<1>4. SyncTyped'
  <2>1. sem' \in [Cpu -> Nat]
    BY DEF CheckTerminate, Wait, SemWait, WakeUp, Drain, Done, sleepVars, syncVars, TypeOK,
           SyncTyped
  <2>2. sleep' \in [Cpu -> Nat] /\ sleepers' \in Int
    BY DEF CheckTerminate, Wait, WakeUp, Drain, Done, sleepVars, syncVars, TypeOK, SyncTyped
  <2> QED BY <2>1, <2>2 DEF CheckTerminate, Wait, WakeUp, Drain, Done, dataVars, localVars,
             sleepVars, syncVars, TypeOK, SyncTyped
<1> QED BY <1>2, <1>3, <1>4 DEF TypeOK

LEMMA ArriveTypes ==
  ASSUME TypeOK, NEW a \in Active, Arrive(a)
  PROVE  TypeOK'
<1>1. ActorsTyped' /\ SyncTyped'
  <2>0. a \in Actor /\ CpuOf[a] \in Cpu
    BY RateFacts, NetworkRates DEF RateAssumption
  <2>1. arrived' \in [Actor -> Nat] /\ sem' \in [Cpu -> Nat]
    BY <2>0 DEF Arrive, TypeOK, ActorsTyped, SyncTyped
  <2> QED BY <2>1 DEF Arrive, actorVars, localVars, sleepVars, TypeOK, ActorsTyped, SyncTyped
<1>2. PortsTyped' /\ PlacesTyped'
  BY DEF Arrive, portVars, TypeOK, PortsTyped, PlacesTyped, This
<1> QED BY <1>1, <1>2 DEF TypeOK

LEMMA TypeStep == TypeOK /\ [Next]_vars => TypeOK'
<1> SUFFICES ASSUME TypeOK, [Next]_vars PROVE TypeOK'
  OBVIOUS
<1>1. ASSUME NEW c \in Cpu, Thread(c) PROVE TypeOK'
  BY <1>1, PrefireTypes, FireTypes, PostfireTypes, WakeTypes, LockTypes, SleepTypes DEF Thread
<1>2. CASE UNCHANGED vars
  BY <1>2 DEF vars, dataVars, portVars, actorVars, syncVars, localVars, sleepVars, TypeOK,
              PortsTyped, ActorsTyped, PlacesTyped, SyncTyped, This
<1> QED BY <1>1, <1>2, ArriveTypes DEF Next

\* In every reachable state of every network, all variables have their types,
\* and every index of EXECUTE_NETWORK is within the array it is used on.
THEOREM TypeCorrect == Spec => []TypeOK
BY TypeInit, TypeStep, PTL DEF Spec

-----------------------------------------------------------------------------
(* The mutex and the bookkeeping of sleep.                                 *)

Sleepers == {c \in Cpu : Sleeping(c)}

LEMMA SleepersFinite == IsFiniteSet(Sleepers) /\ Cardinality(Sleepers) \in Nat
BY CpuFacts, FS_Subset, FS_CardinalityType DEF Sleepers

\* A step that moves thread c from one label to another and touches neither
\* the mutex nor the counters.
LEMMA StatusKept ==
  ASSUME TypeOK, SleepBookkeeping, NEW c \in Cpu,
         pc' = [pc EXCEPT ![c] = pc'[c]],
         Sleeping(c)' <=> Sleeping(c), Locked(c)' <=> Locked(c),
         UNCHANGED <<mutex, sleep, sleepers>>
  PROVE  SleepBookkeeping'
<1>1. \A d \in Cpu : (Sleeping(d)' <=> Sleeping(d)) /\ (Locked(d)' <=> Locked(d))
  BY DEF TypeOK, PlacesTyped, Sleeping, Locked
<1>2. {d \in Cpu : Sleeping(d)}' = {d \in Cpu : Sleeping(d)}
  BY <1>1
<1> QED BY <1>1, <1>2 DEF SleepBookkeeping, Odd

\* Threads that are neither asleep nor in the critical section, and move on.
Awake(label) == label \in {"prefire", "fire", "decrement", "postfire", "wake", "post", "lock",
                           "drain"}

LEMMA MovesKept ==
  ASSUME TypeOK, SleepBookkeeping, NEW c \in Cpu, Awake(pc[c]),
         pc' = pc \/ \E label : Awake(label) /\ pc' = [pc EXCEPT ![c] = label],
         UNCHANGED <<mutex, sleep, sleepers>>
  PROVE  SleepBookkeeping'
<1>1. pc' = [pc EXCEPT ![c] = pc'[c]] /\ Awake(pc'[c])
  BY DEF TypeOK, PlacesTyped
<1>2. (Sleeping(c)' <=> Sleeping(c)) /\ (Locked(c)' <=> Locked(c))
  BY <1>1 DEF Awake, Sleeping, Locked
<1> QED BY <1>1, <1>2, StatusKept

LEMMA RoundSleep ==
  ASSUME TypeOK, SleepBookkeeping, NEW c \in Cpu,
         \/ PrefirePort(c) \/ PrefireSkip(c) \/ Fire(c) \/ Decrement(c) \/ FireSkip(c)
         \/ PostfirePort(c) \/ PostfireSkip(c) \/ Wake(c) \/ Post(c) \/ Drain(c)
  PROVE  SleepBookkeeping'
<1>1. Awake(pc[c])
  BY DEF PrefirePort, PrefireSkip, Fire, Decrement, FireSkip, PostfirePort, PostfireSkip,
         Wake, Post, Drain, At, Awake
<1>2. UNCHANGED <<mutex, sleep, sleepers>>
  BY DEF PrefirePort, PrefireSkip, Fire, Decrement, FireSkip, PostfirePort, PostfireSkip,
         Wake, Post, Drain, syncVars, sleepVars
<1>3. pc' = pc \/ \E label : Awake(label) /\ pc' = [pc EXCEPT ![c] = label]
  <2>1. ASSUME NEW label, NEW first, Awake(label), Goto(c, label, first)
        PROVE  \E l : Awake(l) /\ pc' = [pc EXCEPT ![c] = l]
    BY <2>1 DEF Goto
  <2>2. ASSUME NEW label, Awake(label), NextActor(c, label)
        PROVE  \E l : Awake(l) /\ pc' = [pc EXCEPT ![c] = l]
    BY <1>1, <2>1, <2>2 DEF NextActor
  <2>3. ASSUME NEW label, Awake(label), NextPort(c, label)
        PROVE  pc' = pc \/ \E l : Awake(l) /\ pc' = [pc EXCEPT ![c] = l]
    BY <2>2, <2>3 DEF NextPort
  <2>4. ASSUME PostfireEnd(c)
        PROVE  \E l : Awake(l) /\ pc' = [pc EXCEPT ![c] = l]
    BY <2>1, <2>4 DEF PostfireEnd, Awake
  <2>5. CASE PrefirePort(c) \/ PrefireSkip(c) \/ FireSkip(c)
    BY <2>2, <2>3, <2>5 DEF PrefirePort, PrefireSkip, FireSkip, Awake
  <2>6. CASE Fire(c) \/ Decrement(c)
    <3>1. Goto(c, "decrement", i[c]) \/ NextActor(c, "postfire") \/ (\E k : Goto(c, "fire", k))
            \/ Goto(c, "postfire", 1)
      BY <2>6 DEF Fire, Decrement
    <3> QED BY <2>1, <2>2, <3>1 DEF Awake
  <2>7. CASE PostfirePort(c) \/ PostfireSkip(c)
    BY <2>2, <2>3, <2>4, <2>7 DEF PostfirePort, PostfireSkip, Awake
  <2>8. CASE Wake(c) \/ Post(c)
    <3>1. Goto(c, "post", i[c]) \/ NextCpu(c, "prefire", 1) \/ (\E k : Goto(c, "wake", k))
            \/ Goto(c, "prefire", 1)
      BY <2>8 DEF Wake, Post
    <3>2. NextCpu(c, "prefire", 1) => (\E k : Goto(c, pc[c], k)) \/ Goto(c, "prefire", 1)
      BY DEF NextCpu
    <3> QED BY <1>1, <2>1, <3>1, <3>2 DEF Awake
  <2>9. CASE Drain(c)
    BY <2>1, <2>9 DEF Drain, Awake
  <2> QED BY <2>5, <2>6, <2>7, <2>8, <2>9
<1> QED BY <1>1, <1>2, <1>3, MovesKept

LEMMA LockSleep ==
  ASSUME TypeOK, SleepBookkeeping, NEW c \in Cpu, Lock(c) \/ Scan(c) \/ StayAwake(c)
  PROVE  SleepBookkeeping'
<1>1. UNCHANGED <<sleep, sleepers>>
  BY DEF Lock, Scan, StayAwake, sleepVars
<1>2. \A d \in Cpu : Sleeping(d)' <=> Sleeping(d)
  BY DEF Lock, Scan, StayAwake, NextCpu, Goto, At, Sleeping, TypeOK, PlacesTyped
<1>3. ASSUME NEW d \in Cpu PROVE Locked(d)' <=> mutex' = d
  <2>1. CASE Lock(c)
    BY <2>1, NobodyAssumption DEF Lock, MutexLock, Goto, At, Locked, TypeOK, PlacesTyped,
                                  SleepBookkeeping
  <2>2. CASE Scan(c)
    BY <2>2 DEF Scan, NextCpu, Goto, At, Locked, TypeOK, PlacesTyped, SleepBookkeeping
  <2>3. CASE StayAwake(c)
    BY <2>3, NobodyAssumption DEF StayAwake, MutexUnlock, Goto, At, Locked, TypeOK, PlacesTyped,
                                  SleepBookkeeping
  <2> QED BY <2>1, <2>2, <2>3
<1>4. {d \in Cpu : Sleeping(d)}' = {d \in Cpu : Sleeping(d)}
  BY <1>2
<1> QED BY <1>1, <1>2, <1>3, <1>4 DEF SleepBookkeeping, Odd

LEMMA OddStep == \A n \in Nat : Odd(n + 1) <=> ~Odd(n)
BY DEF Odd

LEMMA FallAsleep ==
  ASSUME TypeOK, SleepBookkeeping, NEW c \in Cpu, GoToSleep(c)
  PROVE  SleepBookkeeping'
<1>1. /\ pc[c] = "decide" /\ pc' = [pc EXCEPT ![c] = "asleep"] /\ mutex' = Nobody
      /\ sleep' = [sleep EXCEPT ![c] = @ + 1] /\ sleepers' = sleepers + 1
  BY DEF GoToSleep, MutexUnlock, Goto, At
<1>2. \A d \in Cpu : Locked(d)' <=> mutex' = d
  BY <1>1, NobodyAssumption DEF Locked, TypeOK, PlacesTyped, SleepBookkeeping
<1>3. ASSUME NEW d \in Cpu PROVE Sleeping(d)' <=> Odd(sleep'[d])
  <2>1. CASE d = c
    <3>1. ~Sleeping(c) /\ Sleeping(c)' /\ sleep[c] \in Nat /\ sleep'[c] = sleep[c] + 1
      BY <1>1 DEF Sleeping, TypeOK, PlacesTyped, SyncTyped
    <3> QED BY <2>1, <3>1, OddStep DEF SleepBookkeeping
  <2>2. CASE d # c
    BY <1>1, <2>2 DEF Sleeping, TypeOK, PlacesTyped, SyncTyped, SleepBookkeeping
  <2> QED BY <2>1, <2>2
<1>4. sleepers' = Cardinality(Sleepers')
  <2>1. Sleepers' = Sleepers \union {c} /\ c \notin Sleepers
    BY <1>1 DEF Sleepers, Sleeping, TypeOK, PlacesTyped
  <2> QED BY <1>1, <2>1, SleepersFinite, FS_AddElement DEF SleepBookkeeping, Sleepers
<1> QED BY <1>2, <1>3, <1>4 DEF SleepBookkeeping, Sleepers

LEMMA Awaken ==
  ASSUME TypeOK, SleepBookkeeping, NEW c \in Cpu, WakeUp(c)
  PROVE  SleepBookkeeping'
<1>1. /\ pc[c] = "relock" /\ pc' = [pc EXCEPT ![c] = "drain"] /\ mutex' = mutex
      /\ sleep' = [sleep EXCEPT ![c] = @ + 1] /\ sleepers' = sleepers - 1
  BY DEF WakeUp, Goto, At
<1>2. \A d \in Cpu : Locked(d)' <=> mutex' = d
  BY <1>1 DEF Locked, TypeOK, PlacesTyped, SleepBookkeeping
<1>3. ASSUME NEW d \in Cpu PROVE Sleeping(d)' <=> Odd(sleep'[d])
  <2>1. CASE d = c
    <3>1. Sleeping(c) /\ ~Sleeping(c)' /\ sleep[c] \in Nat /\ sleep'[c] = sleep[c] + 1
      BY <1>1 DEF Sleeping, TypeOK, PlacesTyped, SyncTyped
    <3> QED BY <2>1, <3>1, OddStep DEF SleepBookkeeping
  <2>2. CASE d # c
    BY <1>1, <2>2 DEF Sleeping, TypeOK, PlacesTyped, SyncTyped, SleepBookkeeping
  <2> QED BY <2>1, <2>2
<1>4. sleepers' = Cardinality(Sleepers')
  <2>1. Sleepers' = Sleepers \ {c} /\ c \in Sleepers
    BY <1>1 DEF Sleepers, Sleeping, TypeOK, PlacesTyped
  <2> QED BY <1>1, <2>1, SleepersFinite, FS_RemoveElement DEF SleepBookkeeping, Sleepers
<1> QED BY <1>2, <1>3, <1>4 DEF SleepBookkeeping, Sleepers

LEMMA AsleepKept ==
  ASSUME TypeOK, SleepBookkeeping, NEW c \in Cpu,
         \/ CheckTerminate(c, "asleep", "wait") \/ CheckTerminate(c, "woken", "relock")
         \/ Wait(c) \/ Done(c)
  PROVE  SleepBookkeeping'
<1>1. UNCHANGED <<mutex, sleep, sleepers>> /\ Sleeping(c) /\ ~Locked(c)
  BY DEF CheckTerminate, Wait, Done, sleepVars, syncVars, At, Sleeping, Locked
<1>2. \E label \in {"done", "wait", "relock", "woken", "exit"} : pc' = [pc EXCEPT ![c] = label]
  BY DEF CheckTerminate, Wait, Done, Goto
<1>3. pc' = [pc EXCEPT ![c] = pc'[c]] /\ Sleeping(c)' /\ ~Locked(c)'
  BY <1>2 DEF Sleeping, Locked, TypeOK, PlacesTyped
<1> QED BY <1>1, <1>3, StatusKept

LEMMA SleepStep == TypeOK /\ SleepBookkeeping /\ [Next]_vars => SleepBookkeeping'
<1> SUFFICES ASSUME TypeOK, SleepBookkeeping, [Next]_vars PROVE SleepBookkeeping'
  OBVIOUS
<1>1. ASSUME NEW c \in Cpu, Thread(c) PROVE SleepBookkeeping'
  BY <1>1, RoundSleep, LockSleep, FallAsleep, Awaken, AsleepKept DEF Thread
<1>2. ASSUME UNCHANGED <<pc, mutex, sleep, sleepers>> PROVE SleepBookkeeping'
  BY <1>2 DEF SleepBookkeeping, Sleeping, Locked
<1>3. CASE \E a \in Active : Arrive(a)
  BY <1>2, <1>3 DEF Arrive, sleepVars
<1>4. CASE UNCHANGED vars
  BY <1>2, <1>4 DEF vars, syncVars, sleepVars
<1> QED BY <1>1, <1>3, <1>4 DEF Next

LEMMA SleepInit == Init => SleepBookkeeping
<1> SUFFICES ASSUME Init PROVE SleepBookkeeping
  OBVIOUS
<1>1. \A c \in Cpu : ~Sleeping(c) /\ ~Locked(c) /\ sleep[c] = 0
  BY DEF Init, Sleeping, Locked
<1>2. {c \in Cpu : Sleeping(c)} = {} /\ sleepers = 0 /\ mutex = Nobody /\ ~Odd(0)
  BY <1>1 DEF Init, Odd
<1> QED BY <1>1, <1>2, FS_EmptySet, NobodyAssumption DEF SleepBookkeeping

\* The mutex is exclusive, the parity of *cpu[c].sleep tells whether c sleeps,
\* and sleepers counts the sleeping CPUs, for any number of CPUs.
THEOREM SleepCorrect == Spec => []SleepBookkeeping
BY SleepInit, SleepStep, TypeCorrect, PTL DEF Spec

-----------------------------------------------------------------------------
(* What a step of thread c leaves alone: the places of the others.         *)

OthersKept(c) ==
  \A d \in Cpu : d # c => pc'[d] = pc[d] /\ i'[d] = i[d] /\ j'[d] = j[d]

LEMMA ThreadKept ==
  ASSUME PlacesTyped, NEW c \in Cpu
  PROVE  /\ \A label, first : Goto(c, label, first) => OthersKept(c)
         /\ \A label : NextActor(c, label) => OthersKept(c)
         /\ \A label : NextPort(c, label) => OthersKept(c)
         /\ PostfireEnd(c) => OthersKept(c)
<1>1. ASSUME NEW label, NEW first, Goto(c, label, first) PROVE OthersKept(c)
  BY <1>1 DEF Goto, OthersKept, PlacesTyped
<1>2. ASSUME NEW label, NextActor(c, label) PROVE OthersKept(c)
  BY <1>1, <1>2 DEF NextActor
<1>3. ASSUME NEW label, NextPort(c, label) PROVE OthersKept(c)
  BY <1>2, <1>3 DEF NextPort, OthersKept, PlacesTyped
<1>4. ASSUME PostfireEnd(c) PROVE OthersKept(c)
  BY <1>1, <1>4 DEF PostfireEnd
<1> QED BY <1>1, <1>2, <1>3, <1>4

LEMMA NextCpuKept ==
  ASSUME PlacesTyped, NEW c \in Cpu, NEW label, NEW first, NextCpu(c, label, first)
  PROVE  OthersKept(c)
BY ThreadKept DEF NextCpu

LEMMA OthersStay ==
  ASSUME PlacesTyped, NEW c \in Cpu, Thread(c)
  PROVE  OthersKept(c)
<1>1. CASE UNCHANGED <<pc, i, j>>
  BY <1>1 DEF OthersKept
<1>2. CASE PrefirePort(c) \/ PrefireSkip(c) \/ Fire(c) \/ Decrement(c) \/ FireSkip(c)
  BY <1>2, ThreadKept DEF PrefirePort, PrefireSkip, Fire, Decrement, FireSkip
<1>3. CASE PostfirePort(c) \/ PostfireSkip(c)
  BY <1>3, ThreadKept DEF PostfirePort, PostfireSkip
<1>4. CASE Wake(c) \/ Post(c) \/ Lock(c) \/ Scan(c) \/ StayAwake(c) \/ GoToSleep(c)
  BY <1>4, ThreadKept, NextCpuKept DEF Wake, Post, Lock, Scan, StayAwake, GoToSleep
<1>5. CASE \/ CheckTerminate(c, "asleep", "wait") \/ CheckTerminate(c, "woken", "relock")
           \/ Wait(c) \/ WakeUp(c) \/ Drain(c) \/ Done(c)
  BY <1>1, <1>5, ThreadKept DEF CheckTerminate, Wait, WakeUp, Drain, Done
<1> QED BY <1>2, <1>3, <1>4, <1>5 DEF Thread

-----------------------------------------------------------------------------
(* has_affected.                                                           *)

\* Every step of the loops over ports and CPUs moves its thread.
LEMMA PlaceMoves ==
  ASSUME PlacesTyped, NEW c \in Cpu
  PROVE  /\ \A label, first : NextCpu(c, label, first) /\ label # pc[c] => i'[c] # i[c] \/ pc'[c] # pc[c]
         /\ \A label : NextActor(c, label) /\ label # pc[c] => i'[c] # i[c] \/ pc'[c] # pc[c]
         /\ \A label : NextPort(c, label) /\ label # pc[c] =>
              <<pc[c], i[c], j[c]>>' # <<pc[c], i[c], j[c]>>
<1>1. ASSUME NEW label, NEW first, NextCpu(c, label, first), label # pc[c]
      PROVE  i'[c] # i[c] \/ pc'[c] # pc[c]
  BY <1>1 DEF NextCpu, Goto, PlacesTyped
<1>2. ASSUME NEW label, NextActor(c, label), label # pc[c]
      PROVE  i'[c] # i[c] \/ pc'[c] # pc[c]
  BY <1>2 DEF NextActor, Goto, PlacesTyped
<1>3. ASSUME NEW label, NextPort(c, label), label # pc[c]
      PROVE  <<pc[c], i[c], j[c]>>' # <<pc[c], i[c], j[c]>>
  <2>1. CASE j[c] < Len(Ports(This(c)))
    BY <1>3, <2>1 DEF NextPort, PlacesTyped
  <2>2. CASE ~(j[c] < Len(Ports(This(c))))
    BY <1>2, <1>3, <2>2 DEF NextPort
  <2> QED BY <2>1, <2>2
<1> QED BY <1>1, <1>2, <1>3

LEMMA AffectedStep ==
  ASSUME TypeOK, SleepBookkeeping, [Next]_vars, NEW d \in Cpu, affected'[d] # affected[d],
         ~Sleeping(d)
  PROVE  <<pc[d], i[d], j[d]>>' # <<pc[d], i[d], j[d]>>
<1>1. SyncTyped /\ PlacesTyped
  BY DEF TypeOK
<1>2. PICK c \in Cpu : PostfirePort(c) \/ Wake(c) \/ Scan(c)
  <2>1. affected' # affected
    OBVIOUS
  <2> QED BY <2>1 DEF Next, Thread, PrefirePort, PrefireSkip, Fire, Decrement, FireSkip,
       PostfireSkip, Post, Lock, StayAwake, GoToSleep, CheckTerminate, Wait, WakeUp, Drain, Done,
       Arrive, vars, syncVars
<1>3. CASE PostfirePort(c)
  <2>1. d = c
    BY <1>1, <1>3 DEF PostfirePort, PublishIn, PublishOut, SyncTyped
  <2>2. pc[c] = "postfire" /\ (PostfireEnd(c) \/ NextPort(c, "wake"))
    BY <1>3 DEF PostfirePort, At
  <2>3. CASE PostfireEnd(c)
    BY <1>1, <2>1, <2>2, <2>3 DEF PostfireEnd, Goto, PlacesTyped
  <2> QED BY <1>1, <2>1, <2>2, <2>3, PlaceMoves
<1>4. CASE Wake(c)
  <2>1. d = c
    BY <1>1, <1>4 DEF Wake, SyncTyped
  <2>2. pc[c] = "wake" /\ (Goto(c, "post", i[c]) \/ NextCpu(c, "prefire", 1))
    BY <1>4 DEF Wake, At
  <2> QED BY <1>1, <2>1, <2>2, PlaceMoves DEF Goto, PlacesTyped
<1>5. CASE Scan(c)
  <2> DEFINE x == i[c]
  <2>1. /\ pc[c] = "scan" /\ NextCpu(c, "decide", 0) /\ x \in Cpu
        /\ affected' = [affected EXCEPT ![c] = IF Wakes(c, x) THEN @ \ {x} ELSE @,
                                        ![x] = Acknowledged(c, x)]
    BY <1>1, <1>5 DEF Scan, At, PlacesTyped
  <2> HIDE DEF x
  <2>2. d = c \/ d = x
    BY <1>1, <2>1 DEF SyncTyped
  <2>3. CASE d = c
    BY <1>1, <2>1, <2>3, PlaceMoves
  <2>4. CASE d = x /\ d # c
    <3>1. SeenAsleep(c, d)
      BY <1>1, <2>1, <2>4 DEF Acknowledged, SyncTyped
    <3> QED BY <3>1 DEF SeenAsleep, SleepBookkeeping
  <2> QED BY <2>2, <2>3, <2>4
<1> QED BY <1>2, <1>3, <1>4, <1>5

\* Whatever the number of CPUs, has_affected of a CPU is written by another one
\* only while its owner is asleep (lines 229-236).
THEOREM AffectedCorrect == Spec => AffectedUnshared
<1>1. TypeOK /\ SleepBookkeeping /\ [Next]_vars =>
        [\A c \in Cpu : affected'[c] # affected[c] /\ ~Sleeping(c) =>
           <<pc[c], i[c], j[c]>>' # <<pc[c], i[c], j[c]>>]_vars
  BY AffectedStep
<1> QED BY <1>1, TypeCorrect, SleepCorrect, PTL DEF Spec, AffectedUnshared

-----------------------------------------------------------------------------
(* The active actors.                                                      *)

\* numActiveActors is safe as long as one CPU has all the active actors.
OneActiveCpu == \A a, b \in Active : CpuOf[a] = CpuOf[b]

Left == {a \in Active : ~terminated[a]}

\* At most one thread is between the load and the store of the decrement, and
\* what it has loaded is still there.
CountInv ==
  /\ \A c \in Cpu : At(c, "decrement") =>
       This(c) \in Active /\ loaded[c] = numActiveActors /\ numActiveActors = Cardinality(Left) + 1
  /\ (\A c \in Cpu : ~At(c, "decrement")) => numActiveActors = Cardinality(Left)

LEMMA ActiveFinite == IsFiniteSet(Active) /\ IsFiniteSet(Left)
<1>1. IsFiniteSet(Actor) /\ Active \subseteq Actor
  BY NetworkShape, NetworkRates DEF ShapeAssumption, RateAssumption
<1>2. IsFiniteSet(Active)
  BY <1>1, FS_Subset
<1> QED BY <1>2, FS_Subset DEF Left

\* A step that neither begins nor ends a decrement.
LEMMA CountKept ==
  ASSUME TypeOK, CountInv, NEW c \in Cpu, OthersKept(c), ~At(c, "decrement"), ~At(c, "decrement")',
         UNCHANGED <<loaded, numActiveActors, Left>>
  PROVE  CountInv'
<1>1. \A d \in Cpu : At(d, "decrement")' <=> At(d, "decrement")
  BY DEF OthersKept, At
<1>2. \A d \in Cpu : At(d, "decrement") => This(d)' = This(d)
  BY DEF OthersKept, This
<1> QED BY <1>1, <1>2 DEF CountInv

LEMMA CountStep ==
  ASSUME TypeOK, CountInv, OneActiveCpu, [Next]_vars
  PROVE  CountInv'
<1>1. ASSUME NEW c \in Cpu, Fire(c) PROVE CountInv'
  <2> DEFINE a == This(c)
  <2>1. /\ PlacesTyped /\ OthersKept(c) /\ ~At(c, "decrement") /\ pc[c] = "fire"
        /\ a \in Actor /\ CpuOf[a] = c /\ ~terminated[a]
        /\ terminated \in [Actor -> BOOLEAN]
    BY <1>1, OthersStay, CpuFacts DEF Thread, Fire, At, TypeOK, PlacesTyped, This, ActorsTyped
  <2>2. PICK m \in fires[a] .. fires[a] + Loops[a] :
          /\ terminated' = [terminated EXCEPT ![a] = Ends(a, m)]
          /\ IF Ends(a, m) /\ a \in Active
             THEN /\ Goto(c, "decrement", i[c])
                  /\ loaded' = [loaded EXCEPT ![c] = numActiveActors]
             ELSE /\ NextActor(c, "postfire")
                  /\ UNCHANGED loaded
    BY <1>1 DEF Fire
  <2>3. numActiveActors' = numActiveActors /\ Active \subseteq Actor
    BY <1>1, NetworkRates DEF Fire, RateAssumption
  <2>4. CASE Ends(a, m) /\ a \in Active
    <3>1. Left' = Left \ {a} /\ a \in Left
      BY <2>1, <2>2, <2>3, <2>4 DEF Left
    <3>2. Cardinality(Left) = Cardinality(Left') + 1
      <4>1. Cardinality(Left \ {a}) = Cardinality(Left) - 1 /\ Cardinality(Left) \in Nat
        BY <3>1, ActiveFinite, FS_RemoveElement, FS_CardinalityType
      <4> QED BY <3>1, <4>1
    <3>3. ASSUME NEW d \in Cpu, d # c PROVE ~At(d, "decrement") /\ ~At(d, "decrement")'
      <4>1. CpuOf[This(d)] = d \/ ~At(d, "decrement")
        BY CpuFacts DEF TypeOK, PlacesTyped, At, This
      <4> QED BY <2>1, <2>4, <3>3, <4>1 DEF CountInv, OneActiveCpu, OthersKept, At
    <3>4. numActiveActors = Cardinality(Left)
      BY <2>1, <3>3 DEF CountInv
    <3>5. At(c, "decrement")' /\ This(c)' = a /\ loaded'[c] = numActiveActors
      BY <2>1, <2>2, <2>4 DEF Goto, At, This, TypeOK, PlacesTyped, SyncTyped
    <3> QED BY <2>3, <2>4, <3>2, <3>3, <3>4, <3>5 DEF CountInv
  <2>5. CASE ~(Ends(a, m) /\ a \in Active)
    <3>1. Left' = Left
      BY <2>1, <2>2, <2>3, <2>5 DEF Left
    <3>2. ~At(c, "decrement")'
      BY <2>1, <2>2, <2>5 DEF NextActor, Goto, At, PlacesTyped
    <3> QED BY <2>1, <2>2, <2>3, <2>5, <3>1, <3>2, CountKept
  <2> QED BY <2>4, <2>5
<1>2. ASSUME NEW c \in Cpu, Decrement(c) PROVE CountInv'
  <2>1. /\ At(c, "decrement") /\ pc'[c] \in {"fire", "postfire"} /\ OthersKept(c)
        /\ numActiveActors' = loaded[c] - 1 /\ Left' = Left
        /\ CpuOf[This(c)] = c
    BY <1>2, OthersStay, CpuFacts DEF Thread, Decrement, Decremented, Goto, At, TypeOK, PlacesTyped,
         Left, actorVars, This
  <2>2. This(c) \in Active /\ loaded[c] = Cardinality(Left) + 1
    BY <2>1 DEF CountInv
  <2>3. ASSUME NEW d \in Cpu PROVE ~At(d, "decrement")'
    <3>1. CpuOf[This(d)] = d \/ ~At(d, "decrement")
      BY CpuFacts DEF TypeOK, PlacesTyped, At, This
    <3> QED BY <2>1, <2>2, <3>1 DEF CountInv, OneActiveCpu, OthersKept, At
  <2>4. Cardinality(Left) \in Nat
    BY ActiveFinite, FS_CardinalityType
  <2> QED BY <2>1, <2>2, <2>3, <2>4 DEF CountInv
<1>3. ASSUME NEW c \in Cpu, Thread(c), ~Fire(c), ~Decrement(c) PROVE CountInv'
  <2>1. UNCHANGED <<loaded, numActiveActors, terminated>> /\ OthersKept(c)
    BY <1>3, OthersStay DEF Thread, PrefirePort, PrefireSkip, FireSkip, PostfirePort, PostfireSkip,
       Wake, Post, Lock, Scan, StayAwake, GoToSleep, CheckTerminate, Wait, WakeUp, Drain, Done,
       dataVars, actorVars, TypeOK
  <2>2. ~At(c, "decrement") /\ ~At(c, "decrement")'
    <3>1. CASE PrefirePort(c) \/ PrefireSkip(c) \/ FireSkip(c) \/ PostfirePort(c) \/ PostfireSkip(c)
      BY <3>1 DEF PrefirePort, PrefireSkip, FireSkip, PostfirePort, PostfireSkip, PostfireEnd,
         NextPort, NextActor, Goto, At, TypeOK, PlacesTyped
    <3>2. CASE \/ Wake(c) \/ Post(c) \/ Lock(c) \/ Scan(c) \/ StayAwake(c) \/ GoToSleep(c)
      BY <3>2 DEF Wake, Post, Lock, Scan, StayAwake, GoToSleep, NextCpu, Goto, At, TypeOK, PlacesTyped
    <3>3. CASE \/ CheckTerminate(c, "asleep", "wait") \/ CheckTerminate(c, "woken", "relock")
               \/ Wait(c) \/ WakeUp(c) \/ Drain(c) \/ Done(c)
      BY <3>3 DEF CheckTerminate, Wait, WakeUp, Drain, Done, Goto, At, TypeOK, PlacesTyped
    <3> QED BY <1>3, <3>1, <3>2, <3>3 DEF Thread
  <2> QED BY <2>1, <2>2, CountKept DEF Left
<1>4. CASE (\E a \in Active : Arrive(a)) \/ UNCHANGED vars
  <2>1. UNCHANGED <<pc, i, loaded, numActiveActors, terminated>>
    BY <1>4 DEF Arrive, vars, dataVars, actorVars
  <2> QED BY <2>1 DEF CountInv, At, This, Left
<1> QED BY <1>1, <1>2, <1>3, <1>4 DEF Next

\* As long as all active actors are on one CPU, numActiveActors counts them
\* (lines 107-109); with two CPUs a decrement can be lost.
THEOREM ActiveCorrect == OneActiveCpu => (Spec => []ActiveCounted)
<1> SUFFICES ASSUME OneActiveCpu PROVE Spec => []ActiveCounted
  OBVIOUS
<1>1. Init => CountInv
  <2> SUFFICES ASSUME Init PROVE CountInv
    OBVIOUS
  <2>1. Left = Active
    BY NetworkRates DEF Init, Left, RateAssumption
  <2>2. \A c \in Cpu : ~At(c, "decrement")
    BY DEF Init, At
  <2> QED BY <2>1, <2>2 DEF Init, CountInv
<1>2. TypeOK /\ CountInv /\ [Next]_vars => CountInv'
  BY CountStep
<1>3. CountInv => ActiveCounted
  BY DEF CountInv, ActiveCounted, Left
<1> QED BY <1>1, <1>2, <1>3, TypeCorrect, PTL DEF Spec

-----------------------------------------------------------------------------
(* Where an actor is in the round of its CPU.                              *)

\* a is ActorsOn[CpuOf[a]][Pos(a)].
Pos(a) == CHOOSE k \in 1 .. Len(ActorsOn[CpuOf[a]]) : ActorsOn[CpuOf[a]][k] = a

\* The numbers of the ports of an input and of an output among Ports.
InNo(p) ==
  CHOOSE k \in 1 .. Len(Ports(p[2])) : IsInput(p[2], k) /\ Ports(p[2])[k] = p[1]
OutNo(ch) ==
  CHOOSE k \in 1 .. Len(Ports(Writer[ch])) : ~IsInput(Writer[ch], k) /\ Ports(Writer[ch])[k] = ch

\* The action scheduler of a has been called, or skipped, in this round.
Called(a) ==
  LET c == CpuOf[a] IN
  \/ pc[c] = "fire" /\ Pos(a) < i[c]
  \/ pc[c] = "decrement" /\ Pos(a) <= i[c]
  \/ pc[c] = "postfire"

\* In this round a has been called, and its k-th port is not yet published.
Due(a, k) ==
  /\ Called(a)
  /\ pc[CpuOf[a]] = "postfire" =>
       Pos(a) > i[CpuOf[a]] \/ (Pos(a) = i[CpuOf[a]] /\ k >= j[CpuOf[a]])

\* In this round a->fired has been reset, and a is not yet called.
Fresh(a) ==
  LET c == CpuOf[a] IN
  \/ pc[c] = "prefire" /\ Pos(a) < i[c]
  \/ pc[c] = "fire" /\ Pos(a) >= i[c]
  \/ pc[c] = "decrement" /\ Pos(a) > i[c]

-----------------------------------------------------------------------------
(* The inductive invariant.                                                *)

Written(ch) == Given[ch][fires[Writer[ch]]]
Read(p) == Taken[p[1]][p[2]][fires[p[2]]]

\* What a writer has written is published, or in local->count until it is.
WritesCounted ==
  \A ch \in Chan :
    /\ wcount[ch] + outCount[ch] = Written(ch)
    /\ outCount[ch] # 0 => fired[Writer[ch]] /\ Due(Writer[ch], OutNo(ch))

\* The same for readers; the local->count of an input is not reset when it is
\* published.
ReadsCounted ==
  \A p \in InPort :
    rcount[p] + (IF fired[p[2]] /\ Due(p[2], InNo(p)) THEN inCount[p] ELSE 0) = Read(p)

FiredReset == \A a \in Actor : Fresh(a) => ~fired[a]

\* Only a reader that runs after the writer in the same round of the same CPU
\* can be ahead of the published count of the writer.
MayRunAhead(p) ==
  /\ CpuOf[Writer[p[1]]] = CpuOf[p[2]]
  /\ Pos(Writer[p[1]]) < Pos(p[2])
  /\ Called(p[2])

ReadsBehind ==
  \A p \in InPort :
    \/ MayRunAhead(p)
    \/ Read(p) <= wcount[p[1]] /\ availIn[p] <= wcount[p[1]] - Read(p)

\* The claims of ViewsSafe.
Bounded ==
  \A p \in InPort :
    /\ rcount[p] <= wcount[p[1]]
    /\ availIn[p] <= Written(p[1]) - Read(p)
    /\ availOut[p[1]] <= Cap[p[1]] - (Written(p[1]) - Read(p))
    /\ Read(p) <= Written(p[1]) /\ Written(p[1]) - Read(p) <= Cap[p[1]]

ViewsInv == WritesCounted /\ ReadsCounted /\ FiredReset /\ ReadsBehind /\ Bounded

-----------------------------------------------------------------------------
(* Positions and port numbers.                                             *)

LEMMA PosFacts ==
  /\ \A a \in Actor : /\ CpuOf[a] \in Cpu /\ Pos(a) \in 1 .. Len(ActorsOn[CpuOf[a]])
                      /\ ActorsOn[CpuOf[a]][Pos(a)] = a /\ Pos(a) \in Nat
  /\ \A c \in Cpu : \A k \in 1 .. Len(ActorsOn[c]) : Pos(ActorsOn[c][k]) = k
<1>1. ASSUME NEW a \in Actor
      PROVE  /\ CpuOf[a] \in Cpu /\ Pos(a) \in 1 .. Len(ActorsOn[CpuOf[a]])
             /\ ActorsOn[CpuOf[a]][Pos(a)] = a /\ Pos(a) \in Nat
  <2>1. \E k \in 1 .. Len(ActorsOn[CpuOf[a]]) : ActorsOn[CpuOf[a]][k] = a
    BY NetworkShape DEF ShapeAssumption
  <2> QED BY <2>1, RateFacts DEF Pos
<1>2. ASSUME NEW c \in Cpu, NEW k \in 1 .. Len(ActorsOn[c])
      PROVE  Pos(ActorsOn[c][k]) = k
  <2> DEFINE a == ActorsOn[c][k]
  <2>1. a \in Actor /\ CpuOf[a] = c
    BY CpuFacts
  <2>2. Pos(a) \in 1 .. Len(ActorsOn[c]) /\ ActorsOn[c][Pos(a)] = ActorsOn[c][k]
    BY <1>1, <2>1
  <2>3. OneToOne(ActorsOn[c])
    BY NetworkShape DEF ShapeAssumption
  <2>4. DOMAIN ActorsOn[c] = 1 .. Len(ActorsOn[c])
    BY CpuFacts
  <2> QED BY <2>2, <2>3, <2>4 DEF OneToOne
<1> QED BY <1>1, <1>2

LEMMA ThisPos ==
  ASSUME PlacesTyped, NEW c \in Cpu, pc[c] \in ActorLoops
  PROVE  /\ This(c) \in Actor /\ CpuOf[This(c)] = c /\ Pos(This(c)) = i[c]
         /\ i[c] \in 1 .. Len(ActorsOn[c]) /\ Len(ActorsOn[c]) \in Nat
         /\ \A b \in Actor : CpuOf[b] = c =>
              /\ Pos(b) \in 1 .. Len(ActorsOn[c]) /\ (Pos(b) = i[c] <=> b = This(c))
<1>1. /\ i[c] \in 1 .. Len(ActorsOn[c]) /\ Len(ActorsOn[c]) \in Nat
      /\ This(c) = ActorsOn[c][i[c]] /\ This(c) \in Actor /\ CpuOf[This(c)] = c
  BY CpuFacts DEF PlacesTyped, This, ActorLoops
<1> QED BY <1>1, PosFacts

LEMMA PortsOf ==
  ASSUME NEW a \in Actor
  PROVE  /\ Len(Ins[a]) \in Nat /\ Len(Outs[a]) \in Nat /\ Len(Ports(a)) \in Nat
         /\ \A k \in 1 .. Len(Ins[a]) :
              k \in 1 .. Len(Ports(a)) /\ IsInput(a, k) /\ Ports(a)[k] = Ins[a][k]
         /\ \A k \in 1 .. Len(Outs[a]) :
              /\ Len(Ins[a]) + k \in 1 .. Len(Ports(a))
              /\ ~IsInput(a, Len(Ins[a]) + k) /\ Ports(a)[Len(Ins[a]) + k] = Outs[a][k]
         /\ \A k \in 1 .. Len(Ports(a)) :
              \/ IsInput(a, k) /\ k \in 1 .. Len(Ins[a])
              \/ ~IsInput(a, k) /\ k - Len(Ins[a]) \in 1 .. Len(Outs[a])
<1> DEFINE ins == Len(Ins[a])
           outs == Len(Outs[a])
           both == Len(Ports(a))
<1>1. Ins[a] \in Seq(Chan) /\ Outs[a] \in Seq(Chan)
  BY NetworkShape DEF ShapeAssumption
<1>2. ins \in Nat /\ outs \in Nat
  BY <1>1
<1>3. /\ both = ins + outs
      /\ \A l \in 1 .. ins + outs : Ports(a)[l] = IF l <= ins THEN Ins[a][l] ELSE Outs[a][l - ins]
  BY <1>1, ConcatProperties, Zenon DEF Ports
<1>4. \A k : IsInput(a, k) <=> k <= ins
  BY DEF IsInput
<1> HIDE DEF ins, outs, both
<1>5. \A k \in 1 .. ins : k \in 1 .. both /\ IsInput(a, k) /\ Ports(a)[k] = Ins[a][k]
  <2> SUFFICES ASSUME NEW k \in 1 .. ins
               PROVE  k \in 1 .. both /\ IsInput(a, k) /\ Ports(a)[k] = Ins[a][k]
    OBVIOUS
  <2>1. k \in 1 .. ins + outs /\ k <= ins
    BY <1>2
  <2> QED BY <1>3, <1>4, <2>1
<1>6. ASSUME NEW k \in 1 .. outs
      PROVE  /\ ins + k \in 1 .. both
             /\ ~IsInput(a, ins + k) /\ Ports(a)[ins + k] = Outs[a][k]
  <2>1. ins + k \in 1 .. ins + outs /\ ~(ins + k <= ins) /\ (ins + k) - ins = k
    BY <1>2
  <2> QED BY <1>3, <1>4, <2>1
<1>7. ASSUME NEW k \in 1 .. both
      PROVE  \/ IsInput(a, k) /\ k \in 1 .. ins
             \/ ~IsInput(a, k) /\ k - ins \in 1 .. outs
  <2>1. (k <= ins /\ k \in 1 .. ins) \/ (~(k <= ins) /\ k - ins \in 1 .. outs)
    BY <1>2, <1>3
  <2> QED BY <1>4, <2>1
<1>8. both \in Nat
  BY <1>2, <1>3
<1> QED BY <1>2, <1>5, <1>6, <1>7, <1>8 DEF ins, outs, both

\* No actor has two input ports, or two output ports, at the same FIFO.
LEMMA PortsDiffer ==
  ASSUME NEW a \in Actor, NEW k \in 1 .. Len(Ports(a)), NEW l \in 1 .. Len(Ports(a)),
         Ports(a)[k] = Ports(a)[l], IsInput(a, k) <=> IsInput(a, l)
  PROVE  k = l
<1> DEFINE ins == Len(Ins[a])
<1>1. /\ Ins[a] \in Seq(Chan) /\ Outs[a] \in Seq(Chan)
      /\ OneToOne(Ins[a]) /\ OneToOne(Outs[a]) /\ ins \in Nat
  BY NetworkShape, PortsOf DEF ShapeAssumption
<1>2. CASE IsInput(a, k)
  <2>1. k \in 1 .. Len(Ins[a]) /\ l \in 1 .. Len(Ins[a])
    BY <1>2, PortsOf
  <2>2. Ins[a][k] = Ins[a][l]
    BY <2>1, PortsOf
  <2> QED BY <1>1, <2>1, <2>2 DEF OneToOne
<1>3. CASE ~IsInput(a, k)
  <2> DEFINE m == k - ins
             n == l - ins
  <2>1. m \in 1 .. Len(Outs[a]) /\ n \in 1 .. Len(Outs[a])
    BY <1>3, PortsOf
  <2>2. ins + m = k /\ ins + n = l
    BY <1>1
  <2>3. Outs[a][m] = Outs[a][n]
    <3> HIDE DEF m, n
    <3> QED BY <2>1, <2>2, PortsOf
  <2>4. m = n
    <3> HIDE DEF m, n
    <3> QED BY <1>1, <2>1, <2>3 DEF OneToOne
  <2> QED BY <2>2, <2>4
<1> QED BY <1>2, <1>3

LEMMA InNoFacts ==
  /\ \A p \in InPort : /\ InNo(p) \in 1 .. Len(Ports(p[2]))
                       /\ Ports(p[2])[InNo(p)] = p[1] /\ IsInput(p[2], InNo(p))
  /\ \A a \in Actor : \A k \in 1 .. Len(Ports(a)) :
       IsInput(a, k) => InNo(<<Ports(a)[k], a>>) = k
<1>1. ASSUME NEW p \in InPort
      PROVE  /\ InNo(p) \in 1 .. Len(Ports(p[2]))
             /\ Ports(p[2])[InNo(p)] = p[1] /\ IsInput(p[2], InNo(p))
  <2>1. PICK k \in 1 .. Len(Ins[p[2]]) : Ins[p[2]][k] = p[1]
    BY DEF InPort
  <2>2. k \in 1 .. Len(Ports(p[2])) /\ IsInput(p[2], k) /\ Ports(p[2])[k] = p[1]
    BY <2>1, PortsOf, RateFacts
  <2> QED BY <2>2 DEF InNo
<1>2. ASSUME NEW a \in Actor, NEW k \in 1 .. Len(Ports(a)), IsInput(a, k)
      PROVE  InNo(<<Ports(a)[k], a>>) = k
  <2> DEFINE p == <<Ports(a)[k], a>>
  <2>1. p \in InPort /\ p[1] = Ports(a)[k] /\ p[2] = a
    BY <1>2, PortFacts
  <2> HIDE DEF p
  <2>2. InNo(p) \in 1 .. Len(Ports(a)) /\ Ports(a)[InNo(p)] = Ports(a)[k] /\ IsInput(a, InNo(p))
    BY <1>1, <2>1
  <2>3. InNo(p) = k
    BY <1>2, <2>2, PortsDiffer
  <2> QED BY <2>3 DEF p
<1> QED BY <1>1, <1>2

LEMMA OutNoFacts ==
  /\ \A ch \in Chan : /\ OutNo(ch) \in 1 .. Len(Ports(Writer[ch]))
                      /\ Ports(Writer[ch])[OutNo(ch)] = ch /\ ~IsInput(Writer[ch], OutNo(ch))
  /\ \A a \in Actor : \A k \in 1 .. Len(Ports(a)) :
       ~IsInput(a, k) => OutNo(Ports(a)[k]) = k
<1>1. ASSUME NEW ch \in Chan
      PROVE  /\ OutNo(ch) \in 1 .. Len(Ports(Writer[ch]))
             /\ Ports(Writer[ch])[OutNo(ch)] = ch /\ ~IsInput(Writer[ch], OutNo(ch))
  <2> DEFINE w == Writer[ch]
  <2>1. w \in Actor /\ \E k \in 1 .. Len(Outs[w]) : Outs[w][k] = ch
    BY NetworkShape DEF ShapeAssumption
  <2>2. PICK k \in 1 .. Len(Outs[w]) : Outs[w][k] = ch
    BY <2>1
  <2>3. /\ Len(Ins[w]) + k \in 1 .. Len(Ports(w)) /\ ~IsInput(w, Len(Ins[w]) + k)
        /\ Ports(w)[Len(Ins[w]) + k] = ch
    <3> HIDE DEF w
    <3> QED BY <2>1, <2>2, PortsOf
  <2> QED BY <2>3 DEF OutNo
<1>2. ASSUME NEW a \in Actor, NEW k \in 1 .. Len(Ports(a)), ~IsInput(a, k)
      PROVE  OutNo(Ports(a)[k]) = k
  <2> DEFINE ch == Ports(a)[k]
  <2>1. ch \in Chan /\ Writer[ch] = a
    BY <1>2, PortFacts
  <2>2. /\ OutNo(ch) \in 1 .. Len(Ports(a)) /\ Ports(a)[OutNo(ch)] = Ports(a)[k]
        /\ ~IsInput(a, OutNo(ch))
    <3> HIDE DEF ch
    <3>1. /\ OutNo(ch) \in 1 .. Len(Ports(a)) /\ Ports(a)[OutNo(ch)] = ch
          /\ ~IsInput(a, OutNo(ch))
      BY <1>1, <2>1
    <3> QED BY <3>1 DEF ch
  <2>3. OutNo(ch) = k
    BY <1>2, <2>2, PortsDiffer
  <2> QED BY <2>3
<1> QED BY <1>1, <1>2

-----------------------------------------------------------------------------
(* Control: where the actors are after a step of thread c.                 *)

\* What the actors of the other CPUs see of a step of c, and of Arrive.
Elsewhere(c) ==
  \A b \in Actor : CpuOf[b] # c =>
    /\ Called(b)' <=> Called(b)
    /\ Fresh(b)' <=> Fresh(b)
    /\ \A k \in Nat : Due(b, k)' <=> Due(b, k)

LEMMA ElsewhereKept ==
  ASSUME NEW c \in Cpu, OthersKept(c)
  PROVE  Elsewhere(c)
<1> SUFFICES ASSUME NEW b \in Actor, CpuOf[b] # c
             PROVE  /\ Called(b)' <=> Called(b)
                    /\ Fresh(b)' <=> Fresh(b)
                    /\ \A k \in Nat : Due(b, k)' <=> Due(b, k)
  BY DEF Elsewhere
<1> DEFINE d == CpuOf[b]
<1>1. pc'[d] = pc[d] /\ i'[d] = i[d] /\ j'[d] = j[d]
  BY RateFacts DEF OthersKept
<1> QED BY <1>1 DEF Called, Fresh, Due

\* The step of a loop over the actors: to the next actor, or past the loop.
LEMMA NextActorMoves ==
  ASSUME PlacesTyped, NEW c \in Cpu, pc[c] \in ActorLoops, NEW label, NextActor(c, label)
  PROVE  \/ /\ pc'[c] = pc[c] /\ i'[c] = i[c] + 1 /\ j'[c] = 1
         \/ /\ pc'[c] = label /\ i'[c] = 1 /\ j'[c] = 1
            /\ \A b \in Actor : CpuOf[b] = c => Pos(b) <= i[c]
<1>1. CASE i[c] < Len(ActorsOn[c])
  BY <1>1 DEF NextActor, Goto, PlacesTyped
<1>2. CASE ~(i[c] < Len(ActorsOn[c]))
  BY <1>2, ThisPos DEF NextActor, Goto, PlacesTyped
<1> QED BY <1>1, <1>2

LEMMA PrefireMoves ==
  ASSUME PlacesTyped, NEW c \in Cpu, PrefirePort(c) \/ PrefireSkip(c)
  PROVE  /\ Elsewhere(c)
         /\ \A b \in Actor : CpuOf[b] = c =>
              /\ ~Called(b) /\ ~Called(b)'
              /\ Fresh(b)' => Fresh(b) \/ b = This(c)
<1>1. pc[c] = "prefire"
  BY DEF PrefirePort, PrefireSkip, At
<1>2. Elsewhere(c)
  BY ThreadKept, ElsewhereKept DEF PrefirePort, PrefireSkip
<1>3. \/ pc'[c] = "prefire" /\ i'[c] \in {i[c], i[c] + 1}
      \/ /\ pc'[c] = "fire" /\ i'[c] = 1
         /\ \A b \in Actor : CpuOf[b] = c => Pos(b) <= i[c]
  <2>1. CASE NextActor(c, "fire")
    BY <1>1, <2>1, NextActorMoves DEF ActorLoops
  <2>2. CASE UNCHANGED <<pc, i>>
    BY <1>1, <2>2
  <2> QED BY <2>1, <2>2 DEF PrefirePort, PrefireSkip, NextPort
<1>4. i[c] \in Nat
  BY DEF PlacesTyped
<1>5. ASSUME NEW b \in Actor, CpuOf[b] = c
      PROVE  /\ ~Called(b) /\ ~Called(b)'
             /\ Fresh(b)' => Fresh(b) \/ b = This(c)
  <2>1. Pos(b) \in Nat /\ Pos(b) >= 1 /\ (Pos(b) = i[c] <=> b = This(c))
    BY <1>1, <1>5, ThisPos, PosFacts DEF ActorLoops
  <2>2. ~Called(b) /\ ~Called(b)'
    BY <1>1, <1>3, <1>5, <2>1 DEF Called
  <2>3. Fresh(b) <=> Pos(b) < i[c]
    BY <1>1, <1>5 DEF Fresh
  <2>4. Fresh(b)' => Pos(b) <= i[c]
    BY <1>1, <1>3, <1>4, <1>5, <2>1 DEF Fresh
  <2> QED BY <1>4, <2>1, <2>2, <2>3, <2>4
<1> QED BY <1>2, <1>5

LEMMA FireMoves ==
  ASSUME PlacesTyped, NEW c \in Cpu, Fire(c) \/ FireSkip(c)
  PROVE  /\ Elsewhere(c)
         /\ This(c) \in Actor /\ CpuOf[This(c)] = c /\ Fresh(This(c))
         /\ \A b \in Actor : CpuOf[b] = c =>
              /\ Called(b) <=> Pos(b) < Pos(This(c))
              /\ Called(b)' <=> Called(b) \/ b = This(c)
              /\ Fresh(b)' => Fresh(b) /\ b # This(c)
              /\ \A k \in Nat \ {0} : (Due(b, k) <=> Called(b)) /\ (Due(b, k)' <=> Called(b)')
<1>1. pc[c] = "fire"
  BY DEF Fire, FireSkip, At
<1>2. Elsewhere(c)
  BY ThreadKept, ElsewhereKept DEF Fire, FireSkip
<1>3. \/ pc'[c] = "fire" /\ i'[c] = i[c] + 1
      \/ pc'[c] = "decrement" /\ i'[c] = i[c]
      \/ /\ pc'[c] = "postfire" /\ i'[c] = 1 /\ j'[c] = 1
         /\ \A b \in Actor : CpuOf[b] = c => Pos(b) <= i[c]
  <2>1. CASE NextActor(c, "postfire")
    BY <1>1, <2>1, NextActorMoves DEF ActorLoops
  <2>2. CASE Goto(c, "decrement", i[c])
    BY <2>2 DEF Goto, PlacesTyped
  <2> QED BY <2>1, <2>2 DEF Fire, FireSkip
<1>4. i[c] \in Nat /\ This(c) \in Actor /\ CpuOf[This(c)] = c /\ Pos(This(c)) = i[c]
  BY <1>1, ThisPos DEF PlacesTyped, ActorLoops
<1>5. Fresh(This(c))
  BY <1>1, <1>4 DEF Fresh
<1>6. ASSUME NEW b \in Actor, CpuOf[b] = c
      PROVE  /\ Called(b) <=> Pos(b) < Pos(This(c))
             /\ Called(b)' <=> Called(b) \/ b = This(c)
             /\ Fresh(b)' => Fresh(b) /\ b # This(c)
             /\ \A k \in Nat \ {0} : (Due(b, k) <=> Called(b)) /\ (Due(b, k)' <=> Called(b)')
  <2>1. Pos(b) \in Nat /\ Pos(b) >= 1 /\ (Pos(b) = i[c] <=> b = This(c))
    BY <1>1, <1>6, ThisPos, PosFacts DEF ActorLoops
  <2>2. Called(b) <=> Pos(b) < i[c]
    BY <1>1, <1>6 DEF Called
  <2>3. Called(b)' <=> Pos(b) <= i[c]
    BY <1>3, <1>4, <1>6, <2>1 DEF Called
  <2>4. Fresh(b) <=> Pos(b) >= i[c]
    BY <1>1, <1>6 DEF Fresh
  <2>5. Fresh(b)' => Pos(b) > i[c]
    BY <1>3, <1>4, <1>6, <2>1 DEF Fresh
  <2>6. ASSUME NEW k \in Nat \ {0}
        PROVE  (Due(b, k) <=> Called(b)) /\ (Due(b, k)' <=> Called(b)')
    BY <1>1, <1>3, <1>6, <2>1 DEF Due
  <2> QED BY <1>4, <2>1, <2>2, <2>3, <2>4, <2>5, <2>6
<1> QED BY <1>2, <1>4, <1>5, <1>6

LEMMA DecrementMoves ==
  ASSUME PlacesTyped, NEW c \in Cpu, Decrement(c)
  PROVE  /\ Elsewhere(c)
         /\ \A b \in Actor : CpuOf[b] = c =>
              /\ Called(b)' <=> Called(b)
              /\ Fresh(b)' => Fresh(b)
              /\ \A k \in Nat \ {0} : (Due(b, k) <=> Called(b)) /\ (Due(b, k)' <=> Called(b)')
<1>1. pc[c] = "decrement"
  BY DEF Decrement, At
<1>2. Elsewhere(c)
  BY ThreadKept, ElsewhereKept DEF Decrement
<1>3. \/ pc'[c] = "fire" /\ i'[c] = i[c] + 1
      \/ /\ pc'[c] = "postfire" /\ i'[c] = 1 /\ j'[c] = 1
         /\ \A b \in Actor : CpuOf[b] = c => Pos(b) <= i[c]
  <2>1. CASE i[c] < Len(ActorsOn[c])
    BY <2>1 DEF Decrement, Goto, PlacesTyped
  <2>2. CASE ~(i[c] < Len(ActorsOn[c]))
    BY <1>1, <2>2, ThisPos DEF Decrement, Goto, PlacesTyped, ActorLoops
  <2> QED BY <2>1, <2>2
<1>4. i[c] \in Nat
  BY DEF PlacesTyped
<1>5. ASSUME NEW b \in Actor, CpuOf[b] = c
      PROVE  /\ Called(b)' <=> Called(b)
             /\ Fresh(b)' => Fresh(b)
             /\ \A k \in Nat \ {0} : (Due(b, k) <=> Called(b)) /\ (Due(b, k)' <=> Called(b)')
  <2>1. Pos(b) \in Nat /\ Pos(b) >= 1
    BY <1>5, PosFacts
  <2>2. (Called(b) <=> Pos(b) <= i[c]) /\ (Called(b)' <=> Pos(b) <= i[c])
    BY <1>1, <1>3, <1>4, <1>5, <2>1 DEF Called
  <2>3. Fresh(b)' => Fresh(b)
    BY <1>1, <1>3, <1>4, <1>5, <2>1 DEF Fresh
  <2>4. ASSUME NEW k \in Nat \ {0}
        PROVE  (Due(b, k) <=> Called(b)) /\ (Due(b, k)' <=> Called(b)')
    BY <1>1, <1>3, <1>5, <2>1 DEF Due
  <2> QED BY <2>2, <2>3, <2>4
<1> QED BY <1>2, <1>5

\* Nothing of an actor of c is left to publish.
AllPublished(c) ==
  \A b \in Actor : CpuOf[b] = c => \A k \in 1 .. Len(Ports(b)) : ~Due(b, k)

LEMMA PostfireMoves ==
  ASSUME PlacesTyped, NEW c \in Cpu, PostfirePort(c) \/ PostfireSkip(c)
  PROVE  /\ Elsewhere(c)
         /\ This(c) \in Actor /\ CpuOf[This(c)] = c /\ Called(This(c))
         /\ \A b \in Actor : CpuOf[b] = c => (Called(b)' <=> Called(b)) \/ ~Called(b)'
         /\ AllPublished(c)' \/ \A b \in Actor : CpuOf[b] = c => (Called(b)' <=> Called(b))
         /\ \A b \in Actor : CpuOf[b] = c =>
              /\ ~Fresh(b)'
              /\ Pos(b) < Pos(This(c)) => \A k \in 1 .. Len(Ports(b)) : ~Due(b, k)
              /\ b # This(c) => \A k \in 1 .. Len(Ports(b)) : Due(b, k)' <=> Due(b, k)
              /\ b = This(c) /\ PostfireSkip(c) => \A k \in 1 .. Len(Ports(b)) : ~Due(b, k)'
              /\ b = This(c) /\ PostfirePort(c) =>
                   /\ j[c] \in 1 .. Len(Ports(b)) /\ Due(b, j[c])
                   /\ \A k \in 1 .. Len(Ports(b)) : Due(b, k)' <=> Due(b, k) /\ k # j[c]
<1> DEFINE a == This(c)
           last == Len(Ports(a))
<1>1. pc[c] = "postfire"
  BY DEF PostfirePort, PostfireSkip, At
<1>2. Elsewhere(c)
  BY ThreadKept, ElsewhereKept DEF PostfirePort, PostfireSkip
<1>3. /\ i[c] \in Nat /\ j[c] \in Nat /\ a \in Actor /\ CpuOf[a] = c /\ Pos(a) = i[c]
      /\ i[c] \in 1 .. Len(ActorsOn[c]) /\ Len(ActorsOn[c]) \in Nat /\ last \in Nat
  BY <1>1, ThisPos, PortsOf DEF PlacesTyped, ActorLoops
<1>4. PostfirePort(c) => j[c] \in 1 .. last
  BY <1>1, ThisPort DEF PostfirePort
<1>5. \/ /\ PostfirePort(c) /\ j[c] # last
         /\ pc'[c] = "postfire" /\ i'[c] = i[c] /\ j'[c] = j[c] + 1
      \/ /\ pc'[c] = "postfire" /\ i'[c] = i[c] + 1 /\ j'[c] = 1
         /\ PostfirePort(c) => j[c] = last
      \/ /\ pc'[c] \in {"wake", "lock"} /\ i[c] = Len(ActorsOn[c])
         /\ PostfirePort(c) => j[c] = last
  <2>1. ASSUME PostfireEnd(c) PROVE pc'[c] \in {"wake", "lock"}
    BY <2>1 DEF PostfireEnd, Goto, PlacesTyped
  <2>2. ASSUME NextActor(c, "wake"), ~LastActor(c)
        PROVE  pc'[c] = "postfire" /\ i'[c] = i[c] + 1 /\ j'[c] = 1
    BY <1>1, <1>3, <2>2 DEF NextActor, Goto, PlacesTyped, LastActor
  <2>3. CASE PostfireSkip(c)
    <3>1. ~PostfirePort(c)
      BY <2>3 DEF PostfirePort, PostfireSkip
    <3> QED BY <2>1, <2>2, <2>3, <3>1 DEF PostfireSkip, LastActor
  <2>4. CASE PostfirePort(c)
    <3>1. CASE j[c] < last
      <4>1. ~LastPort(c) /\ NextPort(c, "wake")
        BY <1>3, <2>4, <3>1 DEF PostfirePort, LastPort
      <4>2. j' = [j EXCEPT ![c] = @ + 1] /\ UNCHANGED <<pc, i>>
        BY <3>1, <4>1 DEF NextPort
      <4> QED BY <1>1, <1>3, <2>4, <3>1, <4>2 DEF PlacesTyped
    <3>2. CASE ~(j[c] < last)
      <4>1. j[c] = last /\ LastPort(c)
        BY <1>3, <1>4, <2>4, <3>2 DEF LastPort
      <4>2. \/ LastActor(c) /\ PostfireEnd(c)
            \/ ~LastActor(c) /\ NextActor(c, "wake")
        BY <2>4, <3>2, <4>1 DEF PostfirePort, NextPort
      <4> QED BY <2>1, <2>2, <4>1, <4>2 DEF LastActor
    <3> QED BY <3>1, <3>2
  <2> QED BY <2>3, <2>4
<1> HIDE DEF last
<1>6. ASSUME NEW b \in Actor, CpuOf[b] = c
      PROVE  /\ Pos(b) \in Nat /\ Pos(b) >= 1 /\ (Pos(b) = i[c] <=> b = a)
             /\ Called(b) /\ ~Fresh(b)' /\ (Called(b)' <=> pc'[c] = "postfire")
             /\ Pos(b) <= Len(ActorsOn[c])
  <2>1. Pos(b) \in Nat /\ Pos(b) >= 1 /\ (Pos(b) = i[c] <=> b = a) /\ Pos(b) <= Len(ActorsOn[c])
    BY <1>1, <1>6, ThisPos, PosFacts DEF ActorLoops
  <2>2. Called(b) /\ ~Fresh(b)' /\ (Called(b)' <=> pc'[c] = "postfire")
    BY <1>1, <1>5, <1>6 DEF Called, Fresh
  <2> QED BY <2>1, <2>2
<1>7. ASSUME NEW b \in Actor, CpuOf[b] = c, NEW k \in Nat
      PROVE  /\ Due(b, k) <=> Pos(b) > i[c] \/ (Pos(b) = i[c] /\ k >= j[c])
             /\ Due(b, k)' <=> /\ pc'[c] = "postfire"
                               /\ Pos(b) > i'[c] \/ (Pos(b) = i'[c] /\ k >= j'[c])
  BY <1>1, <1>6, <1>7 DEF Due
<1>8. ASSUME NEW b \in Actor, CpuOf[b] = c, NEW k \in 1 .. Len(Ports(b))
      PROVE  /\ Pos(b) < Pos(a) => ~Due(b, k)
             /\ b # a => (Due(b, k)' <=> Due(b, k))
             /\ PostfireSkip(c) /\ b = a => ~Due(b, k)'
             /\ PostfirePort(c) /\ b = a => (Due(b, k)' <=> Due(b, k) /\ k # j[c])
             /\ pc'[c] # "postfire" => ~Due(b, k)'
  <2>1. k \in Nat /\ k >= 1 /\ (b = a => k <= last)
    BY PortsOf DEF last
  <2>2. PostfireSkip(c) => ~PostfirePort(c)
    BY DEF PostfirePort, PostfireSkip
  <2>3. /\ Pos(b) \in Nat /\ (Pos(b) = i[c] <=> b = a) /\ Pos(b) <= Len(ActorsOn[c])
        /\ Due(b, k) <=> Pos(b) > i[c] \/ (Pos(b) = i[c] /\ k >= j[c])
        /\ Due(b, k)' <=> /\ pc'[c] = "postfire"
                          /\ Pos(b) > i'[c] \/ (Pos(b) = i'[c] /\ k >= j'[c])
    BY <1>6, <1>7, <1>8, <2>1
  <2>4. Pos(b) < Pos(a) => ~Due(b, k)
    BY <1>3, <2>3
  <2>5. b # a => (Due(b, k)' <=> Due(b, k))
    BY <1>3, <1>5, <2>1, <2>3
  <2>6. PostfireSkip(c) /\ b = a => ~Due(b, k)'
    BY <1>3, <1>5, <2>1, <2>2, <2>3
  <2>7. PostfirePort(c) /\ b = a => (Due(b, k)' <=> Due(b, k) /\ k # j[c])
    BY <1>3, <1>5, <2>1, <2>3
  <2> QED BY <2>3, <2>4, <2>5, <2>6, <2>7
<1>9. AllPublished(c)' \/ \A b \in Actor : CpuOf[b] = c => (Called(b)' <=> Called(b))
  BY <1>6, <1>8 DEF AllPublished
<1>10. PostfirePort(c) => Due(a, j[c])
  BY <1>3, <1>4, <1>7
<1>11. ASSUME NEW b \in Actor, CpuOf[b] = c
       PROVE  /\ (Called(b)' <=> Called(b)) \/ ~Called(b)'
              /\ ~Fresh(b)'
              /\ Pos(b) < Pos(a) => \A k \in 1 .. Len(Ports(b)) : ~Due(b, k)
              /\ b # a => \A k \in 1 .. Len(Ports(b)) : Due(b, k)' <=> Due(b, k)
              /\ b = a /\ PostfireSkip(c) => \A k \in 1 .. Len(Ports(b)) : ~Due(b, k)'
              /\ b = a /\ PostfirePort(c) =>
                   \A k \in 1 .. Len(Ports(b)) : Due(b, k)' <=> Due(b, k) /\ k # j[c]
  BY <1>6, <1>8, <1>11
<1>12. Called(a)
  BY <1>3, <1>6
<1> QED BY <1>2, <1>3, <1>4, <1>9, <1>10, <1>11, <1>12 DEF last

\* The steps that no actor takes part in, until the next round begins.
LEMMA IdleMoves ==
  ASSUME PlacesTyped, NEW c \in Cpu,
         \/ Wake(c) \/ Post(c) \/ Lock(c) \/ Scan(c) \/ StayAwake(c) \/ GoToSleep(c)
         \/ CheckTerminate(c, "asleep", "wait") \/ CheckTerminate(c, "woken", "relock")
         \/ Wait(c) \/ WakeUp(c) \/ Drain(c) \/ Done(c)
  PROVE  /\ Elsewhere(c)
         /\ \A b \in Actor : CpuOf[b] = c => ~Called(b) /\ ~Called(b)' /\ ~Fresh(b)'
<1>1. pc[c] \notin ActorLoops
  BY DEF Wake, Post, Lock, Scan, StayAwake, GoToSleep, CheckTerminate, Wait, WakeUp, Drain, Done,
         At, ActorLoops
<1>2. \/ \E label, first : /\ Goto(c, label, first)
                           /\ label \notin ActorLoops \/ (label = "prefire" /\ first = 1)
      \/ UNCHANGED <<pc, i, j>>
  BY <1>1 DEF Wake, Post, Lock, Scan, StayAwake, GoToSleep, CheckTerminate, Wait, WakeUp, Drain,
              Done, At, NextCpu, ActorLoops
<1>3. Elsewhere(c)
  BY <1>2, ThreadKept, ElsewhereKept DEF OthersKept
<1>4. pc'[c] \notin ActorLoops \/ (pc'[c] = "prefire" /\ i'[c] = 1)
  BY <1>1, <1>2 DEF Goto, PlacesTyped
<1>5. ASSUME NEW b \in Actor, CpuOf[b] = c
      PROVE  ~Called(b) /\ ~Called(b)' /\ ~Fresh(b)'
  <2>1. Pos(b) \in Nat /\ Pos(b) >= 1
    BY <1>5, PosFacts
  <2> QED BY <1>1, <1>4, <1>5, <2>1 DEF Called, Fresh, ActorLoops
<1> QED BY <1>3, <1>5

-----------------------------------------------------------------------------
(* Data: the steps before and after the calls.                             *)

LEMMA CountFacts ==
  ASSUME TypeOK
  PROVE  /\ \A ch \in Chan : /\ Written(ch) \in Nat /\ wcount[ch] \in Nat /\ outCount[ch] \in Nat
                             /\ availOut[ch] \in Int /\ Cap[ch] \in Nat /\ Writer[ch] \in Actor
         /\ \A p \in InPort : /\ Read(p) \in Nat /\ rcount[p] \in Nat /\ inCount[p] \in Nat
                              /\ availIn[p] \in Int /\ p[1] \in Chan /\ p[2] \in Actor
<1>1. \A a \in Actor : Horizon[a] \in Nat /\ fires[a] \in 0 .. Horizon[a]
  BY RateFacts DEF TypeOK, ActorsTyped
<1>2. ASSUME NEW ch \in Chan PROVE Written(ch) \in Nat
  <2>1. fires[Writer[ch]] \in 0 .. Horizon[Writer[ch]]
    BY <1>1, RateFacts
  <2> QED BY <2>1, NetworkRates DEF Written, RateAssumption
<1>3. ASSUME NEW p \in InPort PROVE Read(p) \in Nat
  <2>1. fires[p[2]] \in 0 .. Horizon[p[2]]
    BY <1>1, RateFacts
  <2> QED BY <2>1, NetworkRates DEF Read, RateAssumption
<1> QED BY <1>2, <1>3, RateFacts DEF TypeOK, PortsTyped

LEMMA TotalsNext ==
  ASSUME TypeOK'
  PROVE  /\ \A ch \in Chan : Written(ch)' \in Nat
         /\ \A p \in InPort : Read(p)' \in Nat
<1>1. \A a \in Actor : Horizon[a] \in Nat /\ fires'[a] \in 0 .. Horizon[a]
  BY RateFacts DEF TypeOK, ActorsTyped
<1>2. ASSUME NEW ch \in Chan PROVE Written(ch)' \in Nat
  <2>1. fires'[Writer[ch]] \in 0 .. Horizon[Writer[ch]]
    BY <1>1, RateFacts
  <2> QED BY <2>1, NetworkRates DEF Written, RateAssumption
<1>3. ASSUME NEW p \in InPort PROVE Read(p)' \in Nat
  <2>1. fires'[p[2]] \in 0 .. Horizon[p[2]]
    BY <1>1, RateFacts
  <2> QED BY <2>1, NetworkRates DEF Read, RateAssumption
<1> QED BY <1>2, <1>3

\* A step that calls no actor and publishes nothing.
ControlKept ==
  /\ UNCHANGED <<wcount, rcount, fires>>
  /\ \A b \in Actor :
       /\ Called(b) => Called(b)'
       /\ Fresh(b)' => ~fired'[b]
       /\ \A k \in 1 .. Len(Ports(b)) : fired'[b] /\ Due(b, k)' <=> fired[b] /\ Due(b, k)

LEMMA CountsKept ==
  ASSUME TypeOK, ViewsInv, ControlKept, UNCHANGED outCount,
         \A p \in InPort : fired[p[2]] /\ Due(p[2], InNo(p)) => inCount'[p] = inCount[p]
  PROVE  WritesCounted' /\ ReadsCounted' /\ FiredReset'
<1>1. \A ch \in Chan : Written(ch)' = Written(ch)
  BY DEF Written, ControlKept
<1>2. \A p \in InPort : Read(p)' = Read(p)
  BY DEF Read, ControlKept
<1>3. WritesCounted'
  BY <1>1, OutNoFacts, RateFacts DEF WritesCounted, ViewsInv, ControlKept
<1>4. ASSUME NEW p \in InPort
      PROVE  rcount'[p] + (IF fired'[p[2]] /\ Due(p[2], InNo(p))' THEN inCount'[p] ELSE 0) = Read(p)'
  <2>1. fired'[p[2]] /\ Due(p[2], InNo(p))' <=> fired[p[2]] /\ Due(p[2], InNo(p))
    BY InNoFacts, RateFacts DEF ControlKept
  <2> QED BY <1>2, <2>1 DEF ReadsCounted, ViewsInv, ControlKept
<1>5. FiredReset'
  BY DEF FiredReset, ControlKept
<1> QED BY <1>3, <1>4, <1>5 DEF ReadsCounted

\* The steps that do not touch the counts at all.
LEMMA ViewsKept ==
  ASSUME TypeOK, ViewsInv, ControlKept, UNCHANGED portVars
  PROVE  ViewsInv'
<1>1. WritesCounted' /\ ReadsCounted' /\ FiredReset'
  BY CountsKept DEF portVars
<1>2. ReadsBehind' /\ Bounded'
  BY RateFacts DEF ViewsInv, ReadsBehind, Bounded, MayRunAhead, Read, Written, ControlKept, portVars
<1> QED BY <1>1, <1>2 DEF ViewsInv

LEMMA PrefireControl ==
  ASSUME TypeOK, ViewsInv, NEW c \in Cpu, PrefirePort(c) \/ PrefireSkip(c)
  PROVE  /\ ControlKept
         /\ \A b \in Actor : CpuOf[b] = c => \A k \in Nat : ~Due(b, k)
<1> DEFINE a == This(c)
<1>1. pc[c] = "prefire" /\ PlacesTyped
  BY DEF PrefirePort, PrefireSkip, At, TypeOK
<1>2. a \in Actor /\ CpuOf[a] = c
  BY <1>1, ThisPos DEF ActorLoops
<1>3. /\ fired' = [fired EXCEPT ![a] = FALSE] /\ fired \in [Actor -> BOOLEAN]
      /\ UNCHANGED <<wcount, rcount, fires>>
  BY DEF PrefirePort, PrefireSkip, ReadIn, ReadOut, portVars, TypeOK, ActorsTyped
<1>4. ASSUME NEW b \in Actor
      PROVE  /\ Called(b) => Called(b)'
             /\ Fresh(b)' => ~fired'[b]
             /\ \A k \in 1 .. Len(Ports(b)) : fired'[b] /\ Due(b, k)' <=> fired[b] /\ Due(b, k)
  <2>1. CASE CpuOf[b] = c
    <3>1. ~Called(b) /\ ~Called(b)' /\ (Fresh(b)' => Fresh(b) \/ b = a)
      BY <1>1, <2>1, PrefireMoves
    <3>2. \A k : ~Due(b, k) /\ ~Due(b, k)'
      BY <3>1 DEF Due
    <3>3. Fresh(b)' => ~fired'[b]
      BY <1>2, <1>3, <3>1 DEF ViewsInv, FiredReset
    <3> QED BY <3>1, <3>2, <3>3
  <2>2. CASE CpuOf[b] # c
    <3>1. /\ (Called(b)' <=> Called(b)) /\ (Fresh(b)' <=> Fresh(b))
          /\ \A k \in Nat : Due(b, k)' <=> Due(b, k)
      BY <1>1, <2>2, PrefireMoves DEF Elsewhere
    <3>2. fired'[b] = fired[b]
      BY <1>2, <1>3, <2>2
    <3>3. \A k \in 1 .. Len(Ports(b)) : k \in Nat
      BY PortsOf
    <3> QED BY <3>1, <3>2, <3>3 DEF ViewsInv, FiredReset
  <2> QED BY <2>1, <2>2
<1>5. \A b \in Actor : CpuOf[b] = c => \A k \in Nat : ~Due(b, k)
  BY <1>1, PrefireMoves DEF Due
<1> QED BY <1>3, <1>4, <1>5 DEF ControlKept

LEMMA PrefireViews ==
  ASSUME TypeOK, ViewsInv, NEW c \in Cpu, PrefirePort(c) \/ PrefireSkip(c)
  PROVE  ViewsInv'
<1> DEFINE a == This(c)
           ch == Ports(a)[j[c]]
<1>1. ControlKept /\ \A b \in Actor : CpuOf[b] = c => \A k \in Nat : ~Due(b, k)
  BY PrefireControl
<1>2. CASE PrefireSkip(c)
  BY <1>1, <1>2, ViewsKept DEF PrefireSkip
<1>3. ASSUME PrefirePort(c)
      PROVE  /\ a \in Actor /\ CpuOf[a] = c /\ ch \in Chan /\ ~Called(a)
             /\ IsInput(a, j[c]) => <<ch, a>> \in InPort
             /\ ~IsInput(a, j[c]) => Writer[ch] = a
  BY <1>3, ThisPort, PortFacts, PrefireMoves DEF PrefirePort, At, TypeOK
<1>4. CASE PrefirePort(c) /\ IsInput(a, j[c])
  <2> DEFINE q == <<ch, a>>
  <2>1. q \in InPort /\ q[1] = ch /\ q[2] = a /\ ~Called(a) /\ CpuOf[a] = c
    BY <1>3, <1>4
  <2>2. /\ availIn' = [availIn EXCEPT ![q] = wcount[q[1]] - rcount[q]]
        /\ inCount' = [inCount EXCEPT ![q] = 0]
        /\ UNCHANGED <<wcount, rcount, availOut, outCount, fires>>
    BY <1>4 DEF PrefirePort, ReadIn
  <2> HIDE DEF q
  <2>3. ~Due(q[2], InNo(q))
    BY <2>1 DEF Due
  <2>4. WritesCounted' /\ ReadsCounted' /\ FiredReset'
    <3>1. \A p \in InPort : fired[p[2]] /\ Due(p[2], InNo(p)) => inCount'[p] = inCount[p]
      BY <2>2, <2>3 DEF TypeOK, PortsTyped
    <3> QED BY <1>1, <2>2, <3>1, CountsKept
  <2>5. /\ Read(q) <= wcount[q[1]] /\ availIn'[q] = wcount[q[1]] - Read(q)
        /\ \A p \in InPort : p # q => availIn'[p] = availIn[p]
    <3>1. rcount[q] = Read(q)
      BY <2>1, <2>3, CountFacts DEF ViewsInv, ReadsCounted
    <3>2. Read(q) <= wcount[q[1]]
      BY <2>1 DEF ViewsInv, ReadsBehind, MayRunAhead
    <3> QED BY <2>1, <2>2, <3>1, <3>2 DEF TypeOK, PortsTyped
  <2>6. /\ \A p \in InPort : Read(p)' = Read(p) /\ (MayRunAhead(p) => MayRunAhead(p)')
        /\ \A d \in Chan : Written(d)' = Written(d)
    BY <1>1, <2>2, RateFacts DEF Read, Written, MayRunAhead, ControlKept
  <2>7. ReadsBehind'
    <3>1. ASSUME NEW p \in InPort
          PROVE  MayRunAhead(p)' \/ (/\ Read(p)' <= wcount'[p[1]]
                                     /\ availIn'[p] <= wcount'[p[1]] - Read(p)')
      <4>1. CASE p = q
        BY <2>1, <2>2, <2>5, <2>6, <4>1, CountFacts
      <4>2. CASE p # q
        BY <2>2, <2>5, <2>6, <4>2 DEF ViewsInv, ReadsBehind
      <4> QED BY <4>1, <4>2
    <3> QED BY <3>1 DEF ReadsBehind
  <2>8. Bounded'
    <3>1. wcount[q[1]] <= Written(q[1])
      BY <2>1, CountFacts DEF ViewsInv, WritesCounted
    <3>2. availIn'[q] <= Written(q[1]) - Read(q)
      BY <2>1, <2>5, <3>1, CountFacts
    <3>3. \A p \in InPort : availIn'[p] <= Written(p[1]) - Read(p)
      BY <2>5, <3>2 DEF ViewsInv, Bounded
    <3> QED BY <2>2, <2>6, <3>3, RateFacts DEF ViewsInv, Bounded
  <2> QED BY <2>4, <2>7, <2>8 DEF ViewsInv
<1>5. CASE PrefirePort(c) /\ ~IsInput(a, j[c])
  <2>1. ch \in Chan /\ Writer[ch] = a /\ CpuOf[a] = c /\ a \in Actor
    BY <1>3, <1>5
  <2>2. PICK most \in {0} \union {Unconsumed(ch, r) : r \in Readers(ch)} :
          /\ MaxUnconsumed(ch, most)
          /\ availOut' = [availOut EXCEPT ![ch] = Cap[ch] - most]
    BY <1>5 DEF PrefirePort, ReadOut
  <2>3. /\ outCount' = [outCount EXCEPT ![ch] = 0]
        /\ UNCHANGED <<wcount, rcount, availIn, inCount, fires>>
    BY <1>5 DEF PrefirePort, ReadOut
  <2> HIDE DEF ch
  <2>4. outCount[ch] = 0 /\ outCount' = outCount
    <3>1. ~Due(Writer[ch], OutNo(ch))
      BY <1>1, <2>1, OutNoFacts, PortsOf
    <3>2. outCount[ch] = 0
      BY <2>1, <3>1 DEF ViewsInv, WritesCounted
    <3> QED BY <2>1, <2>3, <3>2 DEF TypeOK, PortsTyped
  <2>5. WritesCounted' /\ ReadsCounted' /\ FiredReset'
    BY <1>1, <2>3, <2>4, CountsKept
  <2>6. /\ \A p \in InPort : Read(p)' = Read(p) /\ (MayRunAhead(p) => MayRunAhead(p)')
        /\ \A d \in Chan : Written(d)' = Written(d)
    BY <1>1, <2>3, RateFacts DEF Read, Written, MayRunAhead, ControlKept
  <2>7. ReadsBehind'
    BY <2>3, <2>6 DEF ViewsInv, ReadsBehind
  <2>8. ASSUME NEW p \in InPort
        PROVE  availOut'[p[1]] <= Cap[p[1]] - (Written(p[1]) - Read(p))
    <3>1. CASE p[1] = ch
      <4>1. most \in Int /\ wcount[ch] - rcount[p] <= most
        <5>1. p[2] \in Readers(ch) /\ p = <<ch, p[2]>>
          BY <3>1, RateFacts DEF Readers
        <5>2. wcount[ch] - rcount[p] <= most
          BY <2>2, <5>1 DEF MaxUnconsumed, Unconsumed
        <5>3. \A r \in Readers(ch) : Unconsumed(ch, r) \in Int
          BY <2>1 DEF Readers, Unconsumed, TypeOK, PortsTyped
        <5> QED BY <2>2, <5>2, <5>3
      <4>2. Written(ch) = wcount[ch]
        BY <2>1, <2>4, CountFacts DEF ViewsInv, WritesCounted
      <4>3. rcount[p] <= Read(p)
        BY CountFacts DEF ViewsInv, ReadsCounted
      <4>4. availOut'[ch] = Cap[ch] - most
        BY <2>1, <2>2 DEF TypeOK, PortsTyped
      <4> QED BY <2>1, <3>1, <4>1, <4>2, <4>3, <4>4, CountFacts
    <3>2. CASE p[1] # ch
      <4>1. availOut'[p[1]] = availOut[p[1]]
        BY <2>2, <3>2, RateFacts DEF TypeOK, PortsTyped
      <4> QED BY <4>1 DEF ViewsInv, Bounded
    <3> QED BY <3>1, <3>2
  <2>9. Bounded'
    BY <2>3, <2>6, <2>8, RateFacts DEF ViewsInv, Bounded
  <2> QED BY <2>5, <2>7, <2>9 DEF ViewsInv
<1> QED BY <1>2, <1>4, <1>5

\* A step of c that leaves the data alone, where no actor of c is called.
LEMMA StepKept ==
  ASSUME TypeOK, ViewsInv, NEW c \in Cpu, Elsewhere(c),
         UNCHANGED <<wcount, rcount, fires, fired>>,
         \A b \in Actor : CpuOf[b] = c =>
           /\ Called(b) => Called(b)'
           /\ Fresh(b)' => ~fired[b]
           /\ \A k \in 1 .. Len(Ports(b)) : fired[b] => (Due(b, k)' <=> Due(b, k))
  PROVE  ControlKept
<1>1. ASSUME NEW b \in Actor, CpuOf[b] # c
      PROVE  /\ Called(b) => Called(b)'
             /\ Fresh(b)' => ~fired'[b]
             /\ \A k \in 1 .. Len(Ports(b)) : Due(b, k)' <=> Due(b, k)
  <2>1. \A k \in 1 .. Len(Ports(b)) : k \in Nat
    BY PortsOf
  <2> QED BY <1>1, <2>1 DEF Elsewhere, ViewsInv, FiredReset
<1> QED BY <1>1 DEF ControlKept

LEMMA SkipViews ==
  ASSUME TypeOK, ViewsInv, NEW c \in Cpu, Decrement(c) \/ FireSkip(c)
  PROVE  ViewsInv'
<1>1. PlacesTyped /\ UNCHANGED portVars /\ UNCHANGED <<wcount, rcount, fires, fired>>
  BY DEF TypeOK, Decrement, FireSkip, dataVars, portVars, actorVars
<1>2. CASE Decrement(c)
  <2>1. ASSUME NEW b \in Actor, CpuOf[b] = c
        PROVE  /\ Called(b) => Called(b)'
               /\ Fresh(b)' => ~fired[b]
               /\ \A k \in 1 .. Len(Ports(b)) : Due(b, k)' <=> Due(b, k)
    <3>1. \A k \in 1 .. Len(Ports(b)) : k \in Nat \ {0}
      BY PortsOf
    <3> QED BY <1>1, <1>2, <2>1, <3>1, DecrementMoves DEF ViewsInv, FiredReset
  <2> QED BY <1>1, <1>2, <2>1, DecrementMoves, StepKept, ViewsKept
<1>3. CASE FireSkip(c)
  <2>1. ASSUME NEW b \in Actor, CpuOf[b] = c
        PROVE  /\ Called(b) => Called(b)'
               /\ Fresh(b)' => ~fired[b]
               /\ \A k \in 1 .. Len(Ports(b)) : fired[b] => (Due(b, k)' <=> Due(b, k))
    <3>1. \A k \in 1 .. Len(Ports(b)) : k \in Nat \ {0}
      BY PortsOf
    <3>2. b = This(c) => ~fired[b]
      BY <1>1, <1>3, FireMoves DEF ViewsInv, FiredReset
    <3> QED BY <1>1, <1>3, <2>1, <3>1, <3>2, FireMoves DEF ViewsInv, FiredReset
  <2> QED BY <1>1, <1>3, <2>1, FireMoves, StepKept, ViewsKept
<1> QED BY <1>2, <1>3

LEMMA IdleViews ==
  ASSUME TypeOK, ViewsInv, NEW c \in Cpu,
         \/ Wake(c) \/ Post(c) \/ Lock(c) \/ Scan(c) \/ StayAwake(c) \/ GoToSleep(c)
         \/ CheckTerminate(c, "asleep", "wait") \/ CheckTerminate(c, "woken", "relock")
         \/ Wait(c) \/ WakeUp(c) \/ Drain(c) \/ Done(c)
  PROVE  ViewsInv'
<1>1. UNCHANGED portVars /\ UNCHANGED <<wcount, rcount, fires, fired>>
  BY DEF Wake, Post, Lock, Scan, StayAwake, GoToSleep, CheckTerminate, Wait, WakeUp, Drain, Done,
         dataVars, portVars, actorVars
<1>2. /\ Elsewhere(c)
      /\ \A b \in Actor : CpuOf[b] = c => ~Called(b) /\ ~Called(b)' /\ ~Fresh(b)'
  BY IdleMoves DEF TypeOK
<1>3. \A b \in Actor : CpuOf[b] = c => \A k \in 1 .. Len(Ports(b)) : Due(b, k)' <=> Due(b, k)
  BY <1>2 DEF Due
<1> QED BY <1>1, <1>2, <1>3, StepKept, ViewsKept

LEMMA PlacesKeptViews ==
  ASSUME TypeOK, ViewsInv, UNCHANGED <<portVars, fires, fired, pc, i, j>>
  PROVE  ViewsInv'
<1>1. ControlKept
  BY DEF ControlKept, portVars, Called, Fresh, Due, ViewsInv, FiredReset
<1> QED BY <1>1, ViewsKept

-----------------------------------------------------------------------------
(* Data: the call of an action scheduler.                                  *)

\* What an actor sees on an input when it is called has been written, and has been
\* published unless the writer has run before it on the same CPU.
LEMMA VisibleBehind ==
  ASSUME TypeOK, ViewsInv, NEW c \in Cpu, Fire(c), NEW p \in InPort, p[2] = This(c)
  PROVE  /\ Read(p) <= wcount[p[1]] /\ rcount[p] = Read(p)
         /\ Visible(p[2], p[1]) <= Written(p[1]) - Read(p)
         /\ ~MayRunAhead(p)' => Visible(p[2], p[1]) <= wcount[p[1]] - Read(p)
<1> DEFINE a == This(c)
           w == Writer[p[1]]
<1>0. /\ PlacesTyped /\ a \in Actor /\ CpuOf[a] = c /\ Fresh(a) /\ ~fired[a]
  BY FireMoves DEF TypeOK, ViewsInv, FiredReset
<1>1. /\ ~Called(p[2]) /\ Called(p[2])' /\ w \in Actor
      /\ CpuOf[w] = c => (Called(w) <=> Pos(w) < Pos(p[2]))
  <2>1. Pos(p[2]) \in Nat /\ p[2] \in Actor /\ CpuOf[p[2]] = c
    BY <1>0, PosFacts
  <2>2. w \in Actor
    BY RateFacts
  <2> QED BY <1>0, <2>1, <2>2, FireMoves
<1> HIDE DEF a
<1>2. rcount[p] = Read(p)
  <2>1. ~(fired[p[2]] /\ Due(p[2], InNo(p)))
    BY <1>0 DEF a
  <2> QED BY <2>1, CountFacts DEF ViewsInv, ReadsCounted
<1>3. Read(p) <= wcount[p[1]] /\ availIn[p] <= wcount[p[1]] - Read(p)
  BY <1>1 DEF ViewsInv, ReadsBehind, MayRunAhead
<1>4. wcount[p[1]] + outCount[p[1]] = Written(p[1])
  BY RateFacts DEF ViewsInv, WritesCounted
<1>5. Visible(p[2], p[1]) = availIn[p] + (IF CpuOf[w] = c THEN outCount[p[1]] ELSE 0)
  BY <1>0, RateFacts DEF Visible, a
<1>6. ~MayRunAhead(p)' /\ CpuOf[w] = c => outCount[p[1]] = 0
  <2>1. ~MayRunAhead(p)' /\ CpuOf[w] = c => ~Called(w)
    BY <1>0, <1>1 DEF MayRunAhead, a
  <2>2. ~Called(w) => ~Due(w, OutNo(p[1]))
    BY DEF Due
  <2> QED BY <2>1, <2>2, RateFacts DEF ViewsInv, WritesCounted
<1> QED BY <1>2, <1>3, <1>4, <1>5, <1>6, CountFacts

LEMMA CallViews ==
  ASSUME TypeOK, TypeOK', ViewsInv, NEW c \in Cpu, Fire(c)
  PROVE  ViewsInv'
<1> DEFINE a == This(c)
<1>0. PlacesTyped /\ a \in Actor /\ CpuOf[a] = c /\ Fresh(a)
  BY FireMoves DEF TypeOK
<1>1. PICK m \in fires[a] .. fires[a] + Loops[a] : Reaches(a, m) /\ Call(a, m)
  BY DEF Fire
<1> DEFINE more == m > fires[a]
<1>2. /\ ~fired[a] /\ m \in Nat /\ fires[a] \in Nat /\ fires[a] <= m
      /\ more => Enough(a, m)
      /\ fires' = [fires EXCEPT ![a] = m] /\ UNCHANGED <<wcount, rcount>>
      /\ fires'[a] = m /\ \A b \in Actor : b # a => fires'[b] = fires[b]
  <2>1. fires \in [Actor -> Nat] /\ Loops[a] \in Nat
    BY <1>0, RateFacts DEF TypeOK, ActorsTyped
  <2>2. m \in Nat /\ fires[a] \in Nat /\ fires[a] <= m
    BY <1>0, <2>1
  <2> QED BY <1>0, <1>1, <2>1, <2>2 DEF Call, Reaches, ViewsInv, FiredReset
<1>3. (fired'[a] <=> more) /\ \A b \in Actor : b # a => fired'[b] = fired[b]
  <2>1. fired' = [fired EXCEPT ![a] = fired[a] \/ more] /\ fired \in [Actor -> BOOLEAN]
    BY <1>1 DEF Call, TypeOK, ActorsTyped
  <2> HIDE DEF more
  <2>2. fired'[a] = (fired[a] \/ more) /\ \A b \in Actor : b # a => fired'[b] = fired[b]
    BY <1>0, <2>1
  <2> QED BY <1>2, <2>2
<1> HIDE DEF a
\* Writers.
<1>4. ASSUME NEW ch \in Chan
      PROVE  /\ Writer[ch] # a => /\ Written(ch)' = Written(ch) /\ outCount'[ch] = outCount[ch]
                                 /\ availOut'[ch] = availOut[ch]
             /\ Writer[ch] = a =>
                  /\ outCount[ch] = 0 /\ Written(ch) = wcount[ch]
                  /\ outCount'[ch] = Written(ch)' - Written(ch)
                  /\ availOut'[ch] = availOut[ch] - (Written(ch)' - Written(ch))
                  /\ Written(ch) <= Written(ch)'
                  /\ more => Written(ch)' - Written(ch) <= availOut[ch]
                  /\ ~more => Written(ch)' = Written(ch)
  <2>1. CASE Writer[ch] # a
    BY <1>1, <1>2, <2>1, RateFacts DEF Call, Written
  <2>2. CASE Writer[ch] = a
    <3>1. Written(ch)' = Given[ch][m] /\ Written(ch) = Given[ch][fires[a]]
      BY <1>2, <2>2 DEF Written
    <3>2. GivenBy(a, ch, m) = Written(ch)' - Written(ch)
      BY <3>1 DEF GivenBy
    <3>3. Written(ch) <= Written(ch)'
      <4>1. fires'[a] <= Horizon[a]
        BY <1>0 DEF TypeOK, ActorsTyped
      <4>2. m \in 0 .. Horizon[Writer[ch]] /\ fires[a] \in 0 .. m
        BY <1>0, <1>2, <2>2, <4>1, RateFacts
      <4> QED BY <3>1, <4>2, GivenFacts
    <3>4. outCount[ch] = 0 /\ Written(ch) = wcount[ch]
      BY <1>2, <2>2, CountFacts DEF ViewsInv, WritesCounted
    <3>5. outCount'[ch] = IF more THEN Written(ch)' - Written(ch) ELSE outCount[ch]
      BY <1>1, <2>2, <3>2 DEF Call
    <3>6. availOut'[ch] = availOut[ch] - (Written(ch)' - Written(ch))
      BY <1>1, <2>2, <3>2 DEF Call
    <3>7. more => Written(ch)' - Written(ch) <= availOut[ch]
      BY <1>2, <2>2, <3>2 DEF Enough
    <3>8. ~more => Written(ch)' = Written(ch)
      BY <1>2, <3>1
    <3>9. Written(ch) \in Nat
      BY CountFacts
    <3> HIDE DEF more
    <3> QED BY <2>2, <3>3, <3>4, <3>5, <3>6, <3>7, <3>8, <3>9
  <2> QED BY <2>1, <2>2
\* Readers.
<1>5. ASSUME NEW p \in InPort
      PROVE  /\ p[2] # a => /\ Read(p)' = Read(p) /\ inCount'[p] = inCount[p]
                           /\ availIn'[p] = availIn[p]
             /\ p[2] = a =>
                  /\ availIn'[p] = Visible(a, p[1]) - (Read(p)' - Read(p))
                  /\ Read(p) <= Read(p)'
                  /\ more => /\ inCount'[p] = Read(p)' - Read(p)
                             /\ Read(p)' - Read(p) <= Visible(a, p[1])
                  /\ ~more => Read(p)' = Read(p)
  <2>1. CASE p[2] # a
    BY <1>1, <1>2, <2>1, RateFacts DEF Call, Read
  <2>2. CASE p[2] = a
    <3>1. Read(p)' = Taken[p[1]][a][m] /\ Read(p) = Taken[p[1]][a][fires[a]]
      BY <1>2, <2>2 DEF Read
    <3>2. TakenBy(a, p[1], m) = Read(p)' - Read(p)
      BY <3>1 DEF TakenBy
    <3>3. p[1] \in Chan /\ <<p[1], a>> \in InPort
      BY <2>2, RateFacts
    <3>4. Read(p) <= Read(p)'
      <4>1. fires'[a] <= Horizon[a]
        BY <1>0 DEF TypeOK, ActorsTyped
      <4>2. m \in 0 .. Horizon[a] /\ fires[a] \in 0 .. m
        BY <1>0, <1>2, <4>1, RateFacts
      <4> QED BY <1>0, <3>1, <3>3, <4>2, TakenFacts
    <3>5. availIn'[p] = Visible(a, p[1]) - (Read(p)' - Read(p))
      BY <1>1, <2>2, <3>2 DEF Call
    <3>6. more => /\ inCount'[p] = Read(p)' - Read(p)
                  /\ Read(p)' - Read(p) <= Visible(a, p[1])
      BY <1>1, <1>2, <2>2, <3>2, <3>3 DEF Call, Enough
    <3>7. ~more => Read(p)' = Read(p)
      BY <1>2, <3>1
    <3> HIDE DEF more
    <3> QED BY <2>2, <3>4, <3>5, <3>6, <3>7
  <2> QED BY <2>1, <2>2
<1>6. ASSUME NEW p \in InPort, p[2] = a
      PROVE  /\ Read(p) <= wcount[p[1]] /\ rcount[p] = Read(p)
             /\ Visible(a, p[1]) <= Written(p[1]) - Read(p)
             /\ ~MayRunAhead(p)' => Visible(a, p[1]) <= wcount[p[1]] - Read(p)
  BY <1>6, VisibleBehind DEF a
<1>7. ASSUME NEW b \in Actor
      PROVE  /\ b # a => (Called(b)' <=> Called(b))
             /\ Fresh(b)' => ~fired'[b]
             /\ \A k \in 1 .. Len(Ports(b)) :
                  /\ b # a => (Due(b, k)' <=> Due(b, k))
                  /\ b = a => Due(b, k)'
  <2>1. \A k \in 1 .. Len(Ports(b)) : k \in Nat /\ k \in Nat \ {0}
    BY PortsOf
  <2>2. CASE CpuOf[b] = c
    <3>1. /\ Called(b)' <=> Called(b) \/ b = a
          /\ Fresh(b)' => Fresh(b) /\ b # a
          /\ \A k \in Nat \ {0} : (Due(b, k) <=> Called(b)) /\ (Due(b, k)' <=> Called(b)')
      BY <1>0, <2>2, FireMoves DEF a
    <3> QED BY <1>3, <2>1, <3>1 DEF ViewsInv, FiredReset
  <2>3. CASE CpuOf[b] # c
    <3>1. /\ Called(b)' <=> Called(b)
          /\ Fresh(b)' <=> Fresh(b)
          /\ \A k \in Nat : Due(b, k)' <=> Due(b, k)
      BY <1>0, <2>3, FireMoves DEF Elsewhere
    <3> QED BY <1>0, <1>3, <2>1, <2>3, <3>1 DEF ViewsInv, FiredReset
  <2> QED BY <2>2, <2>3
<1> HIDE DEF more
<1>8. WritesCounted'
  <2> SUFFICES ASSUME NEW ch \in Chan
               PROVE  /\ wcount'[ch] + outCount'[ch] = Written(ch)'
                      /\ outCount'[ch] # 0 => fired'[Writer[ch]] /\ Due(Writer[ch], OutNo(ch))'
    BY DEF WritesCounted
  <2>1. Writer[ch] \in Actor /\ OutNo(ch) \in 1 .. Len(Ports(Writer[ch]))
    BY OutNoFacts, RateFacts
  <2>2. /\ Written(ch) \in Nat /\ Written(ch)' \in Nat
        /\ wcount[ch] \in Nat /\ outCount[ch] \in Nat /\ wcount'[ch] = wcount[ch]
    BY <1>2, CountFacts, TotalsNext
  <2>3. CASE Writer[ch] = a
    BY <1>3, <1>4, <1>7, <2>1, <2>2, <2>3
  <2>4. CASE Writer[ch] # a
    BY <1>3, <1>4, <1>7, <2>1, <2>2, <2>4 DEF ViewsInv, WritesCounted
  <2> QED BY <2>3, <2>4
<1>9. ReadsCounted'
  <2> SUFFICES ASSUME NEW p \in InPort
               PROVE  rcount'[p] + (IF fired'[p[2]] /\ Due(p[2], InNo(p))' THEN inCount'[p] ELSE 0)
                        = Read(p)'
    BY DEF ReadsCounted
  <2>1. p[2] \in Actor /\ InNo(p) \in 1 .. Len(Ports(p[2]))
    BY InNoFacts, RateFacts
  <2>2. Read(p) \in Nat /\ Read(p)' \in Nat /\ rcount[p] \in Nat /\ rcount'[p] = rcount[p]
    BY <1>2, CountFacts, TotalsNext
  <2>3. CASE p[2] = a
    BY <1>3, <1>5, <1>6, <1>7, <2>1, <2>2, <2>3
  <2>4. CASE p[2] # a
    BY <1>3, <1>5, <1>7, <2>1, <2>2, <2>4 DEF ViewsInv, ReadsCounted
  <2> QED BY <2>3, <2>4
<1>10. FiredReset'
  BY <1>7 DEF FiredReset
<1>11. ReadsBehind'
  <2> SUFFICES ASSUME NEW p \in InPort, ~MayRunAhead(p)'
               PROVE  Read(p)' <= wcount'[p[1]] /\ availIn'[p] <= wcount'[p[1]] - Read(p)'
    BY DEF ReadsBehind
  <2>1. /\ Read(p) \in Nat /\ Read(p)' \in Nat /\ wcount[p[1]] \in Nat
        /\ wcount'[p[1]] = wcount[p[1]]
    BY <1>2, CountFacts, TotalsNext
  <2>2. CASE p[2] = a
    <3>1. Visible(a, p[1]) \in Int
      BY <1>0, <2>2, RateFacts, CountFacts DEF Visible
    <3> QED BY <1>5, <1>6, <2>1, <2>2, <3>1
  <2>3. CASE p[2] # a
    <3>1. ~MayRunAhead(p)
      BY <1>7, <2>3, RateFacts DEF MayRunAhead
    <3> QED BY <1>5, <2>1, <2>3, <3>1 DEF ViewsInv, ReadsBehind
  <2> QED BY <2>2, <2>3
<1>12. Bounded'
  <2> SUFFICES ASSUME NEW p \in InPort
               PROVE  /\ rcount'[p] <= wcount'[p[1]]
                      /\ availIn'[p] <= Written(p[1])' - Read(p)'
                      /\ availOut'[p[1]] <= Cap[p[1]] - (Written(p[1])' - Read(p)')
                      /\ Read(p)' <= Written(p[1])' /\ Written(p[1])' - Read(p)' <= Cap[p[1]]
    BY DEF Bounded
  <2>1. /\ Read(p) \in Nat /\ Read(p)' \in Nat /\ p[1] \in Chan
        /\ Written(p[1]) \in Nat /\ Written(p[1])' \in Nat
        /\ availIn[p] \in Int /\ availOut[p[1]] \in Int /\ Cap[p[1]] \in Nat
    BY CountFacts, TotalsNext
  <2>2. /\ rcount'[p] <= wcount'[p[1]]
        /\ availIn[p] <= Written(p[1]) - Read(p)
        /\ availOut[p[1]] <= Cap[p[1]] - (Written(p[1]) - Read(p))
        /\ Read(p) <= Written(p[1]) /\ Written(p[1]) - Read(p) <= Cap[p[1]]
    BY <1>2 DEF ViewsInv, Bounded
  <2>3. /\ Written(p[1]) <= Written(p[1])'
        /\ availOut'[p[1]] = availOut[p[1]] - (Written(p[1])' - Written(p[1]))
        /\ \/ Written(p[1])' = Written(p[1])
           \/ more /\ Written(p[1])' - Written(p[1]) <= availOut[p[1]]
    BY <1>4, <2>1
  <2>4. /\ Read(p) <= Read(p)'
        /\ availIn'[p] <= Written(p[1]) - Read(p)'
        /\ Read(p)' <= Written(p[1])
    <3>1. CASE p[2] = a
      <4>1. Visible(a, p[1]) \in Int
        BY <1>0, <3>1, RateFacts, CountFacts DEF Visible
      <4> QED BY <1>5, <1>6, <2>1, <2>2, <3>1, <4>1
    <3>2. CASE p[2] # a
      BY <1>5, <2>1, <2>2, <3>2
    <3> QED BY <3>1, <3>2
  <2>5. availIn'[p] \in Int
    BY DEF TypeOK, PortsTyped
  <2> QED BY <2>1, <2>2, <2>3, <2>4, <2>5
<1> QED BY <1>8, <1>9, <1>10, <1>11, <1>12 DEF ViewsInv

-----------------------------------------------------------------------------
(* Data: publication.                                                      *)

LEMMA PostfireCounts ==
  ASSUME TypeOK, TypeOK', ViewsInv, NEW c \in Cpu, PostfirePort(c) \/ PostfireSkip(c)
  PROVE  /\ WritesCounted' /\ ReadsCounted' /\ FiredReset' /\ Bounded'
         /\ UNCHANGED <<fires, availIn>>
         /\ \A ch \in Chan : wcount[ch] <= wcount'[ch]
<1> DEFINE a == This(c)
           ch0 == Ports(a)[j[c]]
<1>1. /\ PlacesTyped /\ a \in Actor /\ CpuOf[a] = c /\ Called(a)
      /\ UNCHANGED <<fires, fired, availIn, availOut, inCount>>
  BY PostfireMoves DEF PostfirePort, PostfireSkip, dataVars, portVars, actorVars, TypeOK
<1>2. /\ \A ch \in Chan : Written(ch)' = Written(ch)
      /\ \A p \in InPort : Read(p)' = Read(p)
  BY <1>1 DEF Written, Read
<1>3. ASSUME NEW b \in Actor
      PROVE  /\ Fresh(b)' => ~fired'[b]
             /\ b # a => \A k \in 1 .. Len(Ports(b)) : Due(b, k)' <=> Due(b, k)
             /\ b = a /\ PostfireSkip(c) => \A k \in 1 .. Len(Ports(b)) : ~Due(b, k)'
             /\ b = a /\ PostfirePort(c) =>
                  /\ j[c] \in 1 .. Len(Ports(b)) /\ Due(b, j[c])
                  /\ \A k \in 1 .. Len(Ports(b)) : Due(b, k)' <=> Due(b, k) /\ k # j[c]
  <2>1. CASE CpuOf[b] = c
    BY <1>1, <2>1, PostfireMoves
  <2>2. CASE CpuOf[b] # c
    <3>1. \A k \in 1 .. Len(Ports(b)) : k \in Nat
      BY PortsOf
    <3> QED BY <1>1, <2>2, <3>1, PostfireMoves DEF Elsewhere, ViewsInv, FiredReset
  <2> QED BY <2>1, <2>2
<1> HIDE DEF a
<1>4. FiredReset'
  BY <1>3 DEF FiredReset
<1>5. CASE PostfireSkip(c)
  <2>1. UNCHANGED <<wcount, rcount, outCount>>
    BY <1>5 DEF PostfireSkip, dataVars, portVars
  <2>2. ~fired[a] \/ 1 .. Len(Ports(a)) = {}
    <3>1. Ports(a) = <<>> => Len(Ports(a)) = 0
      OBVIOUS
    <3> QED BY <1>5, <3>1 DEF PostfireSkip, a
  <2>3. WritesCounted'
    <3> SUFFICES ASSUME NEW ch \in Chan
                 PROVE  /\ wcount'[ch] + outCount'[ch] = Written(ch)'
                        /\ outCount'[ch] # 0 => fired'[Writer[ch]] /\ Due(Writer[ch], OutNo(ch))'
      BY DEF WritesCounted
    <3>1. Writer[ch] \in Actor /\ OutNo(ch) \in 1 .. Len(Ports(Writer[ch]))
      BY OutNoFacts, RateFacts
    <3> QED BY <1>1, <1>2, <1>3, <2>1, <2>2, <3>1 DEF ViewsInv, WritesCounted
  <2>4. ReadsCounted'
    <3> SUFFICES ASSUME NEW p \in InPort
                 PROVE  rcount'[p] + (IF fired'[p[2]] /\ Due(p[2], InNo(p))' THEN inCount'[p] ELSE 0)
                          = Read(p)'
      BY DEF ReadsCounted
    <3>1. p[2] \in Actor /\ InNo(p) \in 1 .. Len(Ports(p[2]))
      BY InNoFacts, RateFacts
    <3>2. fired'[p[2]] /\ Due(p[2], InNo(p))' <=> fired[p[2]] /\ Due(p[2], InNo(p))
      BY <1>1, <1>3, <1>5, <2>2, <3>1
    <3> QED BY <1>1, <1>2, <2>1, <3>2 DEF ViewsInv, ReadsCounted
  <2>5. Bounded'
    BY <1>1, <1>2, <2>1, RateFacts, <1>5 DEF ViewsInv, Bounded, PostfireSkip, dataVars, portVars
  <2>6. \A ch \in Chan : wcount[ch] <= wcount'[ch]
    BY <2>1, CountFacts
  <2> QED BY <1>1, <1>4, <2>3, <2>4, <2>5, <2>6
<1>6. ASSUME PostfirePort(c)
      PROVE  /\ fired[a] /\ j[c] \in 1 .. Len(Ports(a)) /\ ch0 \in Chan
             /\ IsInput(a, j[c]) => <<ch0, a>> \in InPort /\ InNo(<<ch0, a>>) = j[c]
             /\ ~IsInput(a, j[c]) => Writer[ch0] = a /\ OutNo(ch0) = j[c]
  <2>1. fired[a] /\ j[c] \in 1 .. Len(Ports(a))
    BY <1>1, <1>3, <1>6 DEF PostfirePort, a
  <2> QED BY <1>1, <2>1, PortFacts, InNoFacts, OutNoFacts
<1>7. CASE PostfirePort(c) /\ IsInput(a, j[c])
  <2> DEFINE q == <<ch0, a>>
  <2>1. q \in InPort /\ q[1] \in Chan /\ q[2] = a /\ InNo(q) = j[c] /\ fired[a]
    BY <1>6, <1>7
  <2>2. rcount' = [rcount EXCEPT ![q] = @ + inCount[q]] /\ UNCHANGED <<wcount, outCount>>
    BY <1>7 DEF PostfirePort, PublishIn, a
  <2> HIDE DEF q, ch0
  <2>3. \A p \in InPort : p # q /\ p[2] = a => InNo(p) # j[c]
    <3> SUFFICES ASSUME NEW p \in InPort, p[2] = a, InNo(p) = j[c] PROVE p = q
      OBVIOUS
    <3>1. p[1] = q[1]
      BY <2>1, InNoFacts
    <3> QED BY <2>1, <3>1, RateFacts
  <2>4. rcount'[q] = Read(q) /\ \A p \in InPort : p # q => rcount'[p] = rcount[p]
    <3>1. Due(a, j[c])
      BY <1>1, <1>3, <1>7
    <3>2. rcount[q] + inCount[q] = Read(q)
      BY <2>1, <3>1 DEF ViewsInv, ReadsCounted
    <3> QED BY <2>1, <2>2, <3>2 DEF TypeOK, PortsTyped
  <2>5. WritesCounted'
    <3> SUFFICES ASSUME NEW ch \in Chan
                 PROVE  /\ wcount'[ch] + outCount'[ch] = Written(ch)'
                        /\ outCount'[ch] # 0 => fired'[Writer[ch]] /\ Due(Writer[ch], OutNo(ch))'
      BY DEF WritesCounted
    <3>1. /\ Writer[ch] \in Actor /\ OutNo(ch) \in 1 .. Len(Ports(Writer[ch]))
          /\ ~IsInput(Writer[ch], OutNo(ch))
      BY OutNoFacts, RateFacts
    <3>2. Due(Writer[ch], OutNo(ch)) => Due(Writer[ch], OutNo(ch))'
      BY <1>3, <1>7, <3>1
    <3> QED BY <1>1, <1>2, <2>2, <3>2 DEF ViewsInv, WritesCounted
  <2>6. ReadsCounted'
    <3> SUFFICES ASSUME NEW p \in InPort
                 PROVE  rcount'[p] + (IF fired'[p[2]] /\ Due(p[2], InNo(p))' THEN inCount'[p] ELSE 0)
                          = Read(p)'
      BY DEF ReadsCounted
    <3>1. p[2] \in Actor /\ InNo(p) \in 1 .. Len(Ports(p[2]))
      BY InNoFacts, RateFacts
    <3>2. Read(p)' \in Nat
      BY TotalsNext
    <3>3. CASE p = q
      <4>1. ~Due(p[2], InNo(p))'
        BY <1>3, <1>7, <2>1, <3>1, <3>3
      <4> QED BY <1>2, <2>4, <3>2, <3>3, <4>1
    <3>4. CASE p # q
      <4>1. Due(p[2], InNo(p))' <=> Due(p[2], InNo(p))
        BY <1>3, <1>7, <2>3, <3>1, <3>4
      <4> QED BY <1>1, <1>2, <2>4, <3>4, <4>1 DEF ViewsInv, ReadsCounted
    <3> QED BY <3>3, <3>4
  <2>7. Bounded'
    <3>1. ASSUME NEW p \in InPort PROVE rcount'[p] <= wcount'[p[1]]
      <4> DEFINE w == Writer[p[1]]
      <4>1. /\ p[1] \in Chan /\ w \in Actor /\ Read(p) \in Nat /\ Written(p[1]) \in Nat
            /\ wcount[p[1]] \in Nat /\ outCount[p[1]] \in Nat
        BY CountFacts
      <4>2. CASE p # q
        BY <2>2, <2>4, <4>2 DEF ViewsInv, Bounded
      <4>3. CASE p = q /\ ~MayRunAhead(p)
        BY <2>2, <2>4, <4>3 DEF ViewsInv, ReadsBehind
      <4>4. CASE p = q /\ MayRunAhead(p)
        <5>1. CpuOf[w] = c /\ Pos(w) < Pos(a)
          BY <1>1, <2>1, <4>4 DEF MayRunAhead
        <5>2. ~Due(w, OutNo(p[1]))
          BY <1>1, <4>1, <5>1, PostfireMoves, OutNoFacts DEF a
        <5>3. wcount[p[1]] = Written(p[1])
          BY <4>1, <5>2 DEF ViewsInv, WritesCounted
        <5> QED BY <2>2, <2>4, <4>4, <5>3 DEF ViewsInv, Bounded
      <4> QED BY <4>2, <4>3, <4>4
    <3> QED BY <1>1, <1>2, <3>1, RateFacts DEF ViewsInv, Bounded
  <2>8. \A ch \in Chan : wcount[ch] <= wcount'[ch]
    BY <2>2, CountFacts
  <2> QED BY <1>1, <1>4, <2>5, <2>6, <2>7, <2>8
<1>8. CASE PostfirePort(c) /\ ~IsInput(a, j[c])
  <2>1. ch0 \in Chan /\ Writer[ch0] = a /\ OutNo(ch0) = j[c] /\ fired[a]
    BY <1>6, <1>8
  <2>2. /\ wcount' = [wcount EXCEPT ![ch0] = @ + outCount[ch0]]
        /\ outCount' = [outCount EXCEPT ![ch0] = 0] /\ UNCHANGED rcount
    BY <1>8 DEF PostfirePort, PublishOut, ClearCount, a
  <2> HIDE DEF ch0
  <2>3. /\ wcount'[ch0] = Written(ch0) /\ outCount'[ch0] = 0
        /\ \A ch \in Chan : ch # ch0 => wcount'[ch] = wcount[ch] /\ outCount'[ch] = outCount[ch]
    <3>1. wcount[ch0] + outCount[ch0] = Written(ch0)
      BY <2>1 DEF ViewsInv, WritesCounted
    <3> QED BY <2>1, <2>2, <3>1 DEF TypeOK, PortsTyped
  <2>4. \A ch \in Chan : wcount[ch] <= wcount'[ch]
    <3> SUFFICES ASSUME NEW ch \in Chan PROVE wcount[ch] <= wcount'[ch]
      OBVIOUS
    <3>1. /\ wcount[ch] \in Nat /\ outCount[ch] \in Nat
          /\ wcount[ch] + outCount[ch] = Written(ch)
      BY CountFacts DEF ViewsInv, WritesCounted
    <3> QED BY <2>3, <3>1
  <2>5. WritesCounted'
    <3> SUFFICES ASSUME NEW ch \in Chan
                 PROVE  /\ wcount'[ch] + outCount'[ch] = Written(ch)'
                        /\ outCount'[ch] # 0 => fired'[Writer[ch]] /\ Due(Writer[ch], OutNo(ch))'
      BY DEF WritesCounted
    <3>1. Writer[ch] \in Actor /\ OutNo(ch) \in 1 .. Len(Ports(Writer[ch])) /\ Written(ch)' \in Nat
      BY OutNoFacts, RateFacts, TotalsNext
    <3>2. CASE ch = ch0
      BY <1>2, <2>3, <3>1, <3>2
    <3>3. CASE ch # ch0
      <4>1. Writer[ch] = a => OutNo(ch) # j[c]
        <5> SUFFICES ASSUME Writer[ch] = a, OutNo(ch) = j[c] PROVE ch = ch0
          BY <3>3
        <5> QED BY <2>1, OutNoFacts
      <4>2. Due(Writer[ch], OutNo(ch))' <=> Due(Writer[ch], OutNo(ch))
        BY <1>3, <1>8, <3>1, <3>3, <4>1
      <4> QED BY <1>1, <1>2, <2>3, <3>3, <4>2 DEF ViewsInv, WritesCounted
    <3> QED BY <3>2, <3>3
  <2>6. ReadsCounted'
    <3> SUFFICES ASSUME NEW p \in InPort
                 PROVE  rcount'[p] + (IF fired'[p[2]] /\ Due(p[2], InNo(p))' THEN inCount'[p] ELSE 0)
                          = Read(p)'
      BY DEF ReadsCounted
    <3>1. p[2] \in Actor /\ InNo(p) \in 1 .. Len(Ports(p[2])) /\ IsInput(p[2], InNo(p))
      BY InNoFacts, RateFacts
    <3>2. Due(p[2], InNo(p))' <=> Due(p[2], InNo(p))
      BY <1>3, <1>8, <3>1
    <3> QED BY <1>1, <1>2, <2>2, <3>2 DEF ViewsInv, ReadsCounted
  <2>7. Bounded'
    <3>1. ASSUME NEW p \in InPort PROVE rcount'[p] <= wcount'[p[1]]
      <4>1. /\ rcount[p] \in Nat /\ wcount[p[1]] \in Nat /\ rcount[p] <= wcount[p[1]]
            /\ p[1] \in Chan /\ wcount[p[1]] <= wcount'[p[1]] /\ rcount'[p] = rcount[p]
        BY <2>2, <2>4, CountFacts DEF ViewsInv, Bounded
      <4>2. wcount'[p[1]] \in Nat
        BY <4>1 DEF TypeOK, PortsTyped
      <4> QED BY <4>1, <4>2
    <3> QED BY <1>1, <1>2, <3>1, RateFacts DEF ViewsInv, Bounded
  <2> QED BY <1>1, <1>4, <2>4, <2>5, <2>6, <2>7
<1> QED BY <1>5, <1>7, <1>8

LEMMA PostfireViews ==
  ASSUME TypeOK, TypeOK', ViewsInv, NEW c \in Cpu, PostfirePort(c) \/ PostfireSkip(c)
  PROVE  ViewsInv'
<1>1. /\ WritesCounted' /\ ReadsCounted' /\ FiredReset' /\ Bounded'
      /\ UNCHANGED <<fires, availIn>>
      /\ \A ch \in Chan : wcount[ch] <= wcount'[ch]
  BY PostfireCounts
<1>2. ASSUME NEW p \in InPort, ~MayRunAhead(p)'
      PROVE  Read(p)' <= wcount'[p[1]] /\ availIn'[p] <= wcount'[p[1]] - Read(p)'
  <2> DEFINE ch == p[1]
             w == Writer[ch]
  <2>1. /\ ch \in Chan /\ w \in Actor /\ p[2] \in Actor /\ availIn[p] \in Int
        /\ Read(p) \in Nat /\ wcount[ch] \in Nat /\ wcount'[ch] \in Nat /\ outCount'[ch] \in Nat
        /\ Read(p)' = Read(p) /\ availIn'[p] = availIn[p] /\ wcount[ch] <= wcount'[ch]
    BY <1>1, CountFacts DEF Read, TypeOK, PortsTyped
  <2>2. CASE ~MayRunAhead(p)
    BY <2>1, <2>2 DEF ViewsInv, ReadsBehind
  <2>3. CASE MayRunAhead(p)
    <3>1. CpuOf[w] = CpuOf[p[2]] /\ Called(p[2]) /\ ~Called(p[2])'
      BY <1>2, <2>3 DEF MayRunAhead
    <3>2. CpuOf[p[2]] = c /\ AllPublished(c)'
      BY <2>1, <3>1, PostfireMoves DEF Elsewhere, TypeOK
    <3>3. ~Due(w, OutNo(ch))'
      BY <2>1, <3>1, <3>2, OutNoFacts DEF AllPublished
    <3>4. wcount'[ch] = Written(ch)'
      BY <1>1, <2>1, <3>3 DEF WritesCounted
    <3>5. Read(p)' <= Written(ch)' /\ availIn'[p] <= Written(ch)' - Read(p)'
      BY <1>1 DEF Bounded
    <3> QED BY <3>4, <3>5
  <2> QED BY <2>2, <2>3
<1>3. ReadsBehind'
  BY <1>2 DEF ReadsBehind
<1> QED BY <1>1, <1>3 DEF ViewsInv

LEMMA ViewsStep == TypeOK /\ TypeOK' /\ ViewsInv /\ [Next]_vars => ViewsInv'
<1> SUFFICES ASSUME TypeOK, TypeOK', ViewsInv, [Next]_vars PROVE ViewsInv'
  OBVIOUS
<1>1. ASSUME NEW c \in Cpu, Thread(c) PROVE ViewsInv'
  BY <1>1, PrefireViews, CallViews, SkipViews, PostfireViews, IdleViews DEF Thread
<1>2. CASE \E a \in Active : Arrive(a)
  BY <1>2, PlacesKeptViews DEF Arrive, actorVars
<1>3. CASE UNCHANGED vars
  BY <1>3, PlacesKeptViews DEF vars, dataVars, actorVars
<1> QED BY <1>1, <1>2, <1>3 DEF Next

LEMMA ViewsInit == Init => ViewsInv
<1> SUFFICES ASSUME Init PROVE ViewsInv
  OBVIOUS
<1>1. /\ \A ch \in Chan : Written(ch) = 0 /\ wcount[ch] = 0 /\ outCount[ch] = 0 /\ availOut[ch] = 0
      /\ \A p \in InPort : Read(p) = 0 /\ rcount[p] = 0 /\ availIn[p] = 0 /\ p[1] \in Chan
  BY NetworkRates, RateFacts DEF Init, Written, Read, RateAssumption
<1>2. \A a \in Actor : ~fired[a]
  BY DEF Init
<1>3. \A ch \in Chan : Cap[ch] \in Nat
  BY RateFacts
<1>4. WritesCounted /\ ReadsCounted /\ FiredReset
  BY <1>1, <1>2, RateFacts DEF WritesCounted, ReadsCounted, FiredReset
<1>5. ReadsBehind /\ Bounded
  BY <1>1, <1>3 DEF ReadsBehind, Bounded
<1> QED BY <1>4, <1>5 DEF ViewsInv

\* In every network, under every interleaving, no actor acts on more tokens or
\* more space than there is, and no FIFO holds more than its capacity.
THEOREM ViewsCorrect == Spec => []ViewsSafe
<1>1. TypeOK /\ ViewsInv => ViewsSafe
  <2> SUFFICES ASSUME TypeOK, ViewsInv, NEW p \in InPort
               PROVE  /\ rcount[p] <= Read(p) /\ wcount[p[1]] <= Written(p[1])
                      /\ rcount[p] <= wcount[p[1]]
                      /\ availIn[p] <= Written(p[1]) - Read(p)
                      /\ availOut[p[1]] <= Cap[p[1]] - (Written(p[1]) - Read(p))
                      /\ Written(p[1]) - Read(p) \in 0 .. Cap[p[1]]
    BY DEF ViewsSafe, Read, Written
  <2>1. /\ Read(p) \in Nat /\ Written(p[1]) \in Nat /\ rcount[p] \in Nat /\ inCount[p] \in Nat
        /\ wcount[p[1]] \in Nat /\ outCount[p[1]] \in Nat /\ Cap[p[1]] \in Nat
        /\ p[1] \in Chan
    BY CountFacts
  <2>2. rcount[p] <= Read(p) /\ wcount[p[1]] <= Written(p[1])
    BY <2>1 DEF ViewsInv, WritesCounted, ReadsCounted
  <2> QED BY <2>1, <2>2 DEF ViewsInv, Bounded
<1>2. Spec => []ViewsInv
  BY ViewsInit, ViewsStep, TypeCorrect, PTL DEF Spec
<1> QED BY <1>1, <1>2, TypeCorrect, PTL

-----------------------------------------------------------------------------
(* A call of an action scheduler.                                          *)

\* An actor that fires finds its input written and room for its output.
LEMMA CallSupplied ==
  ASSUME TypeOK, ViewsInv, NEW c \in Cpu, Fire(c),
         NEW m \in Nat, Enough(This(c), m)
  PROVE  Abstract!CanReach(This(c), m)
<1> DEFINE a == This(c)
<1>1. a \in Actor
  BY FireMoves DEF TypeOK
<1>2. m <= Horizon[a] /\ (a \in Active => m <= arrived[a])
  BY DEF Enough
<1>3. ASSUME NEW ch \in Chan, <<ch, a>> \in InPort
      PROVE  Taken[ch][a][m] <= Given[ch][fires[Writer[ch]]]
  <2> DEFINE p == <<ch, a>>
  <2>1. /\ Visible(a, ch) <= Written(ch) - Read(p)
        /\ Written(ch) \in Nat /\ Read(p) \in Nat /\ availIn[p] \in Int /\ outCount[ch] \in Nat
    <3>1. p \in InPort /\ p[1] = ch /\ p[2] = a
      BY <1>3
    <3> HIDE DEF p, a
    <3> QED BY <3>1, VisibleBehind, CountFacts DEF a
  <2>2. Taken[ch][a][m] - Read(p) <= Visible(a, ch)
    BY <1>3 DEF Enough, TakenBy, Read
  <2>3. Taken[ch][a][m] \in Nat /\ Visible(a, ch) \in Int
    BY <1>1, <1>2, <1>3, <2>1, TakenFacts, RateFacts DEF Visible
  <2> QED BY <2>1, <2>2, <2>3 DEF Written
<1>4. ASSUME NEW ch \in Chan, Writer[ch] = a, NEW r \in Abstract!Readers(ch)
      PROVE  Given[ch][m] - Taken[ch][r][fires[r]] <= Cap[ch]
  <2> DEFINE p == <<ch, r>>
  <2>1. p \in InPort
    BY <1>4 DEF Abstract!Readers, Abstract!InPort, InPort
  <2>2. /\ availOut[ch] <= Cap[ch] - (Written(ch) - Read(p))
        /\ Written(ch) \in Nat /\ Read(p) \in Nat /\ availOut[ch] \in Int /\ Cap[ch] \in Nat
    BY <2>1, CountFacts DEF ViewsInv, Bounded
  <2>3. Given[ch][m] - Written(ch) <= availOut[ch]
    BY <1>4 DEF Enough, GivenBy, Written
  <2>4. Given[ch][m] \in Nat
    BY <1>2, <1>4, GivenFacts, RateFacts
  <2> QED BY <2>2, <2>3, <2>4 DEF Read
<1> QED BY <1>2, <1>3, <1>4 DEF Abstract!CanReach, Abstract!Supplied, Abstract!InPort, InPort

LEMMA FireStep ==
  ASSUME TypeOK, TypeOK', ViewsInv, NEW c \in Cpu, Fire(c)
  PROVE  Abstract!Step \/ UNCHANGED Abstract!vars
<1> DEFINE a == This(c)
<1>1. a \in Actor /\ fires[a] \in Nat
  BY FireMoves DEF TypeOK, ActorsTyped
<1>2. PICK m \in fires[a] .. fires[a] + Loops[a] : Reaches(a, m) /\ Call(a, m)
  BY DEF Fire
<1>3. fires' = [fires EXCEPT ![a] = m] /\ UNCHANGED <<arrived, terminate>>
  BY <1>2 DEF Fire, Call, syncVars, sleepVars
<1>4. CASE m > fires[a]
  <2>1. m \in Nat /\ Enough(a, m)
    BY <1>1, <1>2, <1>4, RateFacts DEF Reaches
  <2>2. Abstract!CanReach(a, m)
    BY <2>1, CallSupplied
  <2>3. m \in 0 .. Horizon[a]
    BY <1>1, <2>1, RateFacts DEF Enough
  <2> QED BY <1>1, <1>3, <1>4, <2>2, <2>3 DEF Abstract!Step, Abstract!Fire
<1>5. CASE m = fires[a]
  <2>1. fires' = fires
    BY <1>1, <1>3, <1>5 DEF TypeOK, ActorsTyped
  <2> QED BY <1>3, <2>1 DEF Abstract!vars
<1> QED BY <1>1, <1>2, <1>4, <1>5, RateFacts

\* Only the call of an action scheduler moves an actor on, only GoToSleep ends
\* the execution.
LEMMA OthersStutter ==
  ASSUME NEW c \in Cpu, Thread(c), ~Fire(c)
  PROVE  UNCHANGED <<fires, arrived>> /\ (terminate' = terminate \/ GoToSleep(c))
BY DEF Thread, PrefirePort, PrefireSkip, Decrement, FireSkip, PostfirePort, PostfireSkip, Wake,
       Post, Lock, Scan, StayAwake, GoToSleep, CheckTerminate, Wait, WakeUp, Drain, Done,
       dataVars, actorVars, syncVars, sleepVars

LEMMA FiringStep ==
  ASSUME TypeOK, TypeOK', ViewsInv, [Next]_vars
  PROVE  [Abstract!Step \/ Abstract!Stop]_(Abstract!vars)
<1>1. ASSUME NEW c \in Cpu, Thread(c), ~Fire(c)
      PROVE  Abstract!Stop \/ UNCHANGED Abstract!vars
  <2>1. CASE terminate' = terminate
    BY <1>1, <2>1, OthersStutter DEF Abstract!vars
  <2>2. CASE GoToSleep(c)
    <3>1. terminate' = TRUE \/ terminate' = terminate
      BY <2>2 DEF GoToSleep, TypeOK, SyncTyped
    <3> QED BY <1>1, <2>1, <3>1, OthersStutter DEF Abstract!Stop
  <2> QED BY <1>1, <2>1, <2>2, OthersStutter
<1>2. ASSUME NEW a \in Active, Arrive(a) PROVE Abstract!Step
  BY <1>2 DEF Arrive, actorVars, sleepVars, Abstract!Step, Abstract!Arrive
<1>3. CASE UNCHANGED vars
  BY <1>3 DEF vars, dataVars, actorVars, syncVars, sleepVars, Abstract!vars
<1> QED BY <1>1, <1>2, <1>3, FireStep DEF Next

\* Whatever the interleaving, the assignment of actors to CPUs and the age of
\* the counts the CPUs cache, every call of an action scheduler is a legal
\* sequence of firings of the network.
THEOREM FiringCorrect == Spec => RefinesFiring
<1>1. Init => Abstract!Init
  BY DEF Init, Abstract!Init
<1>2. Spec => []ViewsInv
  BY ViewsInit, ViewsStep, TypeCorrect, PTL DEF Spec
<1>3. TypeOK /\ TypeOK' /\ ViewsInv /\ [Next]_vars
        => [Abstract!Step \/ Abstract!Stop]_(Abstract!vars)
  BY FiringStep
<1> QED BY <1>1, <1>2, <1>3, TypeCorrect, PTL DEF Spec, RefinesFiring, Abstract!FiringSpec

-----------------------------------------------------------------------------
(* Determinism: how often an actor can fire at most.                       *)

\* The firing counts of the actors when none of them can fire any more, all
\* external events having arrived.
Final == {g \in [Actor -> Nat] : \A a \in Actor : /\ g[a] <= Horizon[a]
                                                 /\ ~Abstract!Supplied(a, g[a] + 1, g)}

NotBeyond(g) == \A a \in Actor : fires[a] <= g[a]

\* More tokens on the inputs and more space on the outputs never disable a
\* firing, and a call that reaches firing m passes through those before it.
LEMMA SuppliedMonotone ==
  ASSUME NEW f \in [Actor -> Nat], NEW g \in [Actor -> Nat],
         \A b \in Actor : f[b] <= g[b] /\ g[b] <= Horizon[b],
         NEW a \in Actor, NEW m \in Nat, NEW n \in 0 .. m, Abstract!Supplied(a, m, f)
  PROVE  Abstract!Supplied(a, n, g)
<1>1. m <= Horizon[a] /\ n <= Horizon[a] /\ n \in 0 .. m /\ m \in 0 .. Horizon[a]
  BY RateFacts DEF Abstract!Supplied
<1>2. \A b \in Actor : f[b] \in 0 .. g[b] /\ g[b] \in 0 .. Horizon[b]
  BY RateFacts
<1>3. ASSUME NEW ch \in Chan, <<ch, a>> \in InPort
      PROVE  Taken[ch][a][n] <= Given[ch][g[Writer[ch]]]
  <2>1. Taken[ch][a][m] <= Given[ch][f[Writer[ch]]]
    BY <1>3 DEF Abstract!Supplied, Abstract!InPort, InPort
  <2>2. Taken[ch][a][n] \in Nat /\ Taken[ch][a][m] \in Nat /\ Taken[ch][a][n] <= Taken[ch][a][m]
    BY <1>1, <1>3, TakenFacts
  <2>3. /\ Given[ch][f[Writer[ch]]] \in Nat /\ Given[ch][g[Writer[ch]]] \in Nat
        /\ Given[ch][f[Writer[ch]]] <= Given[ch][g[Writer[ch]]]
    BY <1>2, GivenFacts, RateFacts
  <2> QED BY <2>1, <2>2, <2>3
<1>4. ASSUME NEW ch \in Chan, Writer[ch] = a, NEW r \in Abstract!Readers(ch)
      PROVE  Given[ch][n] - Taken[ch][r][g[r]] <= Cap[ch]
  <2>1. <<ch, r>> \in InPort /\ r \in Actor
    BY DEF Abstract!Readers, Abstract!InPort, InPort
  <2>2. Given[ch][m] - Taken[ch][r][f[r]] <= Cap[ch] /\ Cap[ch] \in Nat
    BY <1>4, RateFacts DEF Abstract!Supplied
  <2>3. Given[ch][n] \in Nat /\ Given[ch][m] \in Nat /\ Given[ch][n] <= Given[ch][m]
    BY <1>1, <1>4, GivenFacts
  <2>4. /\ Taken[ch][r][f[r]] \in Nat /\ Taken[ch][r][g[r]] \in Nat
        /\ Taken[ch][r][f[r]] <= Taken[ch][r][g[r]]
    BY <1>2, <2>1, TakenFacts
  <2> QED BY <2>2, <2>3, <2>4
<1> QED BY <1>1, <1>3, <1>4 DEF Abstract!Supplied, Abstract!InPort, InPort

LEMMA BoundStep ==
  ASSUME TypeOK, TypeOK', ViewsInv, NEW g \in Final, NotBeyond(g), [Next]_vars
  PROVE  NotBeyond(g)'
<1>1. /\ fires \in [Actor -> Nat] /\ fires' \in [Actor -> Nat]
      /\ g \in [Actor -> Nat] /\ \A b \in Actor : fires[b] <= g[b] /\ g[b] <= Horizon[b]
  BY DEF TypeOK, ActorsTyped, Final, NotBeyond
<1>2. CASE UNCHANGED fires
  BY <1>2 DEF NotBeyond
<1>3. ASSUME NEW a \in Actor, NEW m \in 0 .. Horizon[a], Abstract!Fire(a, m)
      PROVE  NotBeyond(g)'
  <2>1. fires' = [fires EXCEPT ![a] = m] /\ Abstract!Supplied(a, m, fires) /\ m \in Nat
    BY <1>3, RateFacts DEF Abstract!Fire, Abstract!CanReach
  <2>2. m <= g[a]
    <3> SUFFICES ASSUME ~(m <= g[a]) PROVE FALSE
      OBVIOUS
    <3>1. g[a] + 1 \in 0 .. m
      BY <1>1, <2>1
    <3>2. Abstract!Supplied(a, g[a] + 1, g)
      BY <1>1, <2>1, <3>1, SuppliedMonotone
    <3> QED BY <3>2 DEF Final
  <2> QED BY <1>1, <2>1, <2>2 DEF NotBeyond
<1>4. UNCHANGED fires \/ \E a \in Actor : \E m \in 0 .. Horizon[a] : Abstract!Fire(a, m)
  BY FiringStep DEF Abstract!Step, Abstract!Stop, Abstract!Arrive, Abstract!vars
<1> QED BY <1>2, <1>3, <1>4

\* An execution of the network that has come to its end bounds every other:
\* under no interleaving and no assignment to CPUs does an actor fire more often.
THEOREM FiringBounded == \A g \in Final : Spec => []NotBeyond(g)
<1> SUFFICES ASSUME NEW g \in Final PROVE Spec => []NotBeyond(g)
  OBVIOUS
<1>1. Init => NotBeyond(g)
  BY DEF Init, NotBeyond, Final
<1>2. Spec => []ViewsInv
  BY ViewsInit, ViewsStep, TypeCorrect, PTL DEF Spec
<1>3. TypeOK /\ TypeOK' /\ ViewsInv /\ NotBeyond(g) /\ [Next]_vars => NotBeyond(g)'
  BY BoundStep
<1> QED BY <1>1, <1>2, <1>3, TypeCorrect, PTL DEF Spec

-----------------------------------------------------------------------------
(* The end of the network.  The proof follows a publication from the CPU   *)
(* that makes it to the one it matters to: while the latter has not looked *)
(* (Stale), it is in has_affected of the former, or has been told in its   *)
(* scan, or has been noted as woken; and the former has not been quiescent *)
(* since, or the latter sleeps since before the latest sleep event.        *)

\* The hypothesis of the theorems about the end.
SmallNetwork ==
  /\ N <= 2 /\ Active = {}
  /\ \A ch \in Chan : Readers(ch) = {} =>    \* an output that is not connected
       \A n \in 1 .. Horizon[Writer[ch]] : Given[ch][n] - Given[ch][n - 1] <= Cap[ch]

-----------------------------------------------------------------------------
(* What a CPU has seen.                                                    *)

Here(d) == {a \in Actor : CpuOf[a] = d}

\* The k-th port of a has been read in the last prefire, and the CPU of a is
\* not on its way to the next one.
Viewed(a, k) ==
  LET d == CpuOf[a] IN
  /\ pc[d] \notin {"wake", "post", "drain"}
  /\ pc[d] = "prefire" => Pos(a) < i[d] \/ (Pos(a) = i[d] /\ k < j[d])

\* Nothing has fired in this round.
Quiet(d) == pc[d] = "prefire" \/ \A a \in Here(d) : ~fired[a]

InCurrent(p) == wcount[p[1]] - Read(p) <= availIn[p]

OutCurrent(ch) ==
  \/ Readers(ch) = {} /\ Cap[ch] <= availOut[ch]
  \/ \E r \in Readers(ch) : Cap[ch] - (Written(ch) - rcount[<<ch, r>>]) <= availOut[ch]

StaleActor(a) ==
  /\ ~terminated[a]
  /\ \/ \E p \in InPort : p[2] = a /\ Viewed(a, InNo(p)) /\ ~InCurrent(p)
     \/ \E ch \in Chan : Writer[ch] = a /\ Viewed(a, OutNo(ch)) /\ ~OutCurrent(ch)

\* In a round without a firing, d has cached a count that was not the last.
Stale(d) == Quiet(d) /\ \E a \in Here(d) : StaleActor(a)

\* a has been called in this round, or in the last one of a CPU that sleeps
\* or is about to.
Tried(a) == Called(a) \/ pc[CpuOf[a]] \in {"lock", "scan", "decide"} \/ Sleeping(CpuOf[a])

RoundInv ==
  /\ \A d \in Cpu : pc[d] \in {"lock", "scan", "decide"} \/ Sleeping(d) => Quiet(d)
  /\ \A a \in Actor : Tried(a) /\ Quiet(CpuOf[a]) /\ ~terminated[a] => ~Enough(a, fires[a] + 1)
  /\ \A a \in Actor : terminated[a] => fires[a] = Horizon[a]

-----------------------------------------------------------------------------
(* The inductive invariant of the protocol, for two CPUs c and d.          *)

\* c waits for a post that nobody has made.
Idle(c) == sem[c] = 0 /\ pc[c] \in {"asleep", "wait"}

\* d has told itself, in the scan, that it has to look again.
Staying(d) == Locked(d) /\ stay[d]

Running(c) ==
  /\ pc[c] \notin {"done", "exit"}
  /\ sem[c] > 0 => Sleeping(c) \/ At(c, "drain")
  /\ At(c, "post") => i[c] # c

\* A semaphore is only ever posted for a CPU that waits for it.
PostsWanted(c, d) ==
  /\ oldSleep[d][c] <= sleep[c]
  /\ At(d, "post") => i[d] = c /\ Idle(c) /\ oldSleep[d][c] = sleep[c]
  /\ Idle(c) /\ oldSleep[d][c] = sleep[c] => At(d, "post")
  /\ Sleeping(c) /\ ~Sleeping(d) /\ oldSleep[d][c] # sleep[c] => Idle(c)
  /\ Sleeping(c) /\ Sleeping(d) => Idle(c) \/ Idle(d)

HasScanned(d, c) == At(d, "decide") \/ (At(d, "scan") /\ i[d] > c)

\* The CPU that has not looked.
StaleKnown(c, d) ==
  Stale(d) /\ ~Sleeping(d) =>
    \/ Staying(d)
    \/ /\ d \in affected[c]
       /\ Sleeping(c) => ~HasScanned(d, c) /\ oldSleep[d][c] # sleep[c]

\* While it sleeps, the other has yet to wake it.
StaleWoken(c, d) ==
  Stale(d) /\ Idle(d) =>
    \/ At(c, "post")
    \/ ~Sleeping(c) /\ d \in affected[c] /\ ~HasScanned(c, d)

\* The CPU that has published.
StaleCounted(c, d) ==
  Stale(d) =>
    \/ Staying(d)
    \/ ~quiescent[c] \/ (At(c, "postfire") /\ ~Quiet(c))
    \/ Sleeping(c) /\ ~Sleeping(d) /\ Idle(c)
    \/ Sleeping(d) /\ quiescentAt[d] < currSleepEvent

ProtocolInv ==
  ~terminate =>
    \A d \in Cpu :
      /\ Running(d) /\ quiescentAt[d] <= currSleepEvent
      /\ Stale(d) => Cpu # {d}
      /\ \A c \in Cpu \ {d} : /\ PostsWanted(c, d)
                              /\ StaleKnown(c, d) /\ StaleWoken(c, d) /\ StaleCounted(c, d)

-----------------------------------------------------------------------------
(* What a step of thread c leaves alone.                                   *)

Awaiting(d) == pc[d] \in {"lock", "scan", "decide"} \/ Sleeping(d)

\* Only the CPU of an actor changes what it and its ports keep; only
\* PostfirePort changes the shared counts.
LEMMA OwnPorts ==
  ASSUME TypeOK, NEW c \in Cpu, Thread(c)
  PROVE  /\ \A b \in Actor : CpuOf[b] # c =>
              fires'[b] = fires[b] /\ fired'[b] = fired[b] /\ terminated'[b] = terminated[b]
         /\ \A p \in InPort : CpuOf[p[2]] # c => availIn'[p] = availIn[p] /\ rcount'[p] = rcount[p]
         /\ \A ch \in Chan : CpuOf[Writer[ch]] # c =>
              /\ availOut'[ch] = availOut[ch]
              /\ outCount'[ch] = outCount[ch] /\ wcount'[ch] = wcount[ch]
         /\ ~PostfirePort(c) => UNCHANGED <<wcount, rcount>>
<1> DEFINE a == This(c)
<1>1. CASE PrefirePort(c)
  <2> DEFINE ch == Ports(a)[j[c]]
  <2>1. /\ a \in Actor /\ CpuOf[a] = c /\ ch \in Chan
        /\ IsInput(a, j[c]) => <<ch, a>> \in InPort
        /\ ~IsInput(a, j[c]) => Writer[ch] = a
    BY <1>1, ThisPort, PortFacts DEF PrefirePort, At, TypeOK
  <2>2. ~PostfirePort(c) /\ fired' = [fired EXCEPT ![a] = FALSE] /\ UNCHANGED <<fires, terminated>>
    BY <1>1 DEF PrefirePort, PostfirePort, At
  <2>3. CASE IsInput(a, j[c]) /\ ReadIn(<<ch, a>>)
    <3> DEFINE q == <<ch, a>>
    <3>1. q \in InPort /\ q[2] = a /\ ReadIn(q)
      BY <2>1, <2>3
    <3> HIDE DEF q, a, ch
    <3>2. /\ \A p \in InPort : p # q => availIn'[p] = availIn[p]
          /\ UNCHANGED <<wcount, rcount, availOut, outCount>>
      BY <3>1 DEF ReadIn, TypeOK, PortsTyped
    <3> QED BY <2>1, <2>2, <3>1, <3>2 DEF TypeOK, ActorsTyped
  <2>4. CASE ~IsInput(a, j[c]) /\ ReadOut(ch)
    BY <2>1, <2>2, <2>4 DEF ReadOut, TypeOK, PortsTyped, ActorsTyped
  <2> QED BY <1>1, <2>3, <2>4 DEF PrefirePort
<1>2. CASE Fire(c)
  <2>1. a \in Actor /\ CpuOf[a] = c
    BY <1>2, FireMoves DEF TypeOK
  <2>2. PICK m \in fires[a] .. fires[a] + Loops[a] :
          Call(a, m) /\ terminated' = [terminated EXCEPT ![a] = Ends(a, m)]
    BY <1>2 DEF Fire
  <2> QED BY <2>1, <2>2 DEF Call, TypeOK, PortsTyped, ActorsTyped
<1>3. CASE PostfirePort(c)
  <2> DEFINE ch == Ports(a)[j[c]]
  <2>1. /\ a \in Actor /\ CpuOf[a] = c /\ ch \in Chan
        /\ IsInput(a, j[c]) => <<ch, a>> \in InPort
        /\ ~IsInput(a, j[c]) => Writer[ch] = a
    BY <1>3, ThisPort, PortFacts DEF PostfirePort, At, TypeOK
  <2>2. UNCHANGED <<fires, fired, terminated, availIn, availOut>>
    BY <1>3 DEF PostfirePort, actorVars
  <2>3. CASE IsInput(a, j[c]) /\ PublishIn(c, <<ch, a>>)
    BY <1>3, <2>1, <2>2, <2>3 DEF PublishIn, TypeOK, PortsTyped
  <2>4. CASE ~IsInput(a, j[c]) /\ PublishOut(c, ch)
    BY <1>3, <2>1, <2>2, <2>4 DEF PublishOut, ClearCount, TypeOK, PortsTyped
  <2> QED BY <1>3, <2>3, <2>4 DEF PostfirePort
<1>4. CASE PrefireSkip(c)
  <2>1. a \in Actor /\ CpuOf[a] = c
    BY <1>4, ThisPos DEF PrefireSkip, At, TypeOK, ActorLoops
  <2> QED BY <1>4, <2>1 DEF PrefireSkip, portVars, TypeOK, ActorsTyped
<1>5. CASE /\ ~PrefirePort(c) /\ ~PrefireSkip(c) /\ ~Fire(c) /\ ~PostfirePort(c)
  <2>1. UNCHANGED <<portVars, actorVars>>
    BY <1>5 DEF Thread, Decrement, FireSkip, PostfireSkip, Wake, Post, Lock, Scan, StayAwake,
                GoToSleep, CheckTerminate, Wait, WakeUp, Drain, Done, dataVars
  <2> QED BY <1>5, <2>1 DEF portVars, actorVars
<1> QED BY <1>1, <1>2, <1>3, <1>4, <1>5

LEMMA OthersViewed ==
  ASSUME NEW c \in Cpu, OthersKept(c), NEW d \in Cpu \ {c}
  PROVE  /\ \A b \in Here(d) : \A k : Viewed(b, k)' <=> Viewed(b, k)
         /\ pc'[d] = pc[d]
BY DEF OthersKept, Here, Viewed

\* A step of c makes nothing stale that d has seen, unless it publishes, and
\* then c remembers that d is affected.
LEMMA StaleElsewhere ==
  ASSUME TypeOK, TypeOK', NEW c \in Cpu, Thread(c), NEW d \in Cpu \ {c}, Stale(d)'
  PROVE  Stale(d) \/ (PostfirePort(c) /\ d \in affected'[c])
<1>1. OthersKept(c)
  BY OthersStay DEF TypeOK
<1>2. /\ \A b \in Here(d) : /\ fires'[b] = fires[b] /\ fired'[b] = fired[b]
                            /\ terminated'[b] = terminated[b]
                            /\ \A k : Viewed(b, k)' <=> Viewed(b, k)
      /\ \A p \in InPort : p[2] \in Here(d) =>
           Read(p)' = Read(p) /\ availIn'[p] = availIn[p] /\ rcount'[p] = rcount[p]
      /\ \A ch \in Chan : Writer[ch] \in Here(d) =>
           /\ Written(ch)' = Written(ch)
           /\ availOut'[ch] = availOut[ch] /\ wcount'[ch] = wcount[ch]
  BY <1>1, OwnPorts, OthersViewed DEF Here, Read, Written
<1>3. Quiet(d)' <=> Quiet(d)
  BY <1>1, <1>2, OthersViewed DEF Quiet, Here
<1>4. CASE UNCHANGED <<wcount, rcount>>
  <2>1. ASSUME NEW p \in InPort, p[2] \in Here(d) PROVE InCurrent(p)' <=> InCurrent(p)
    BY <1>2, <1>4, <2>1 DEF InCurrent
  <2>2. ASSUME NEW ch \in Chan, Writer[ch] \in Here(d) PROVE OutCurrent(ch)' <=> OutCurrent(ch)
    BY <1>2, <1>4, <2>2 DEF OutCurrent
  <2>3. ASSUME NEW b \in Here(d), StaleActor(b)' PROVE StaleActor(b)
    BY <1>2, <2>1, <2>2, <2>3 DEF StaleActor
  <2> QED BY <1>3, <2>3 DEF Stale, Here
<1>5. CASE PostfirePort(c) /\ d \notin affected'[c]
  <2> DEFINE a == This(c)
             o == Ports(a)[j[c]]
             q == <<o, a>>
  <2>1. /\ a \in Actor /\ CpuOf[a] = c /\ o \in Chan
        /\ IsInput(a, j[c]) => q \in InPort
        /\ ~IsInput(a, j[c]) => Writer[o] = a
    BY <1>5, ThisPort, PortFacts DEF PostfirePort, At, TypeOK
  <2>2. q[1] = o /\ q[2] = a
    OBVIOUS
  <2>3. IF IsInput(a, j[c]) THEN PublishIn(c, q) ELSE PublishOut(c, o)
    BY <1>5 DEF PostfirePort
  <2> HIDE DEF a, o, q
  <2>4. ASSUME NEW p \in InPort, p[2] \in Here(d) PROVE wcount'[p[1]] = wcount[p[1]]
    <3>1. p[1] \in Chan /\ p[2] \in Readers(p[1]) /\ CpuOf[p[2]] = d /\ wcount[p[1]] \in Nat
      BY <2>4, RateFacts DEF Readers, Here, TypeOK, PortsTyped
    <3>2. CASE ~IsInput(a, j[c]) /\ p[1] = o
      <4>1. PublishOut(c, o)
        BY <2>3, <3>2
      <4>2. outCount[o] = 0
        BY <1>5, <3>1, <3>2, <4>1 DEF PublishOut, TypeOK, SyncTyped
      <4>3. wcount'[o] = wcount[o] + outCount[o]
        BY <2>1, <4>1 DEF PublishOut, TypeOK, PortsTyped
      <4> QED BY <3>1, <3>2, <4>2, <4>3
    <3>3. CASE IsInput(a, j[c]) \/ p[1] # o
      BY <2>1, <2>3, <3>1, <3>3 DEF PublishIn, PublishOut, TypeOK, PortsTyped
    <3> QED BY <3>2, <3>3
  <2>5. ASSUME NEW ch \in Chan, Writer[ch] \in Here(d), NEW r \in Readers(ch)
        PROVE  rcount'[<<ch, r>>] = rcount[<<ch, r>>]
    <3> DEFINE p == <<ch, r>>
    <3>1. p \in InPort /\ p[1] = ch /\ CpuOf[Writer[ch]] = d
      BY <2>5 DEF Readers, Here
    <3> HIDE DEF p
    <3>2. rcount[p] \in Nat
      BY <3>1 DEF TypeOK, PortsTyped
    <3>3. CASE IsInput(a, j[c]) /\ p = q
      <4>1. PublishIn(c, q) /\ q \in InPort
        BY <2>1, <2>3, <3>3
      <4>2. inCount[q] = 0
        BY <1>5, <3>1, <3>3, <4>1 DEF PublishIn, TypeOK, SyncTyped
      <4>3. rcount'[q] = rcount[q] + inCount[q]
        BY <4>1 DEF PublishIn, TypeOK, PortsTyped
      <4> QED BY <3>2, <3>3, <4>2, <4>3 DEF p
    <3>4. CASE ~IsInput(a, j[c]) \/ p # q
      <4>1. rcount'[p] = rcount[p]
        BY <2>1, <2>3, <3>1, <3>4 DEF PublishIn, PublishOut, TypeOK, PortsTyped
      <4> QED BY <4>1 DEF p
    <3> QED BY <3>3, <3>4
  <2>6. ASSUME NEW p \in InPort, p[2] \in Here(d) PROVE InCurrent(p)' <=> InCurrent(p)
    BY <1>2, <2>4, <2>6 DEF InCurrent
  <2>7. ASSUME NEW ch \in Chan, Writer[ch] \in Here(d) PROVE OutCurrent(ch)' <=> OutCurrent(ch)
    BY <1>2, <2>5, <2>7 DEF OutCurrent
  <2>8. ASSUME NEW b \in Here(d), StaleActor(b)' PROVE StaleActor(b)
    BY <1>2, <2>6, <2>7, <2>8 DEF StaleActor
  <2> QED BY <1>3, <2>8 DEF Stale, Here
<1> QED BY <1>4, <1>5, OwnPorts

\* A CPU that is about to look at its ports again.
Looking(d) ==
  pc[d] \in {"wake", "post", "drain"} \/ (pc[d] = "prefire" /\ i[d] = 1 /\ j[d] = 1)

LEMMA LookingFresh ==
  ASSUME NEW d \in Cpu
  PROVE  /\ Looking(d) => ~Stale(d)
         /\ Looking(d)' => ~Stale(d)'
<1>1. /\ \A b \in Here(d) : Pos(b) \in Nat /\ Pos(b) >= 1 /\ CpuOf[b] = d
      /\ \A p \in InPort : p[2] \in Here(d) => InNo(p) \in Nat /\ InNo(p) >= 1
      /\ \A ch \in Chan : Writer[ch] \in Here(d) => OutNo(ch) \in Nat /\ OutNo(ch) >= 1
  <2>1. \A b \in Actor : Pos(b) \in Nat /\ Pos(b) >= 1
    BY PosFacts
  <2>2. \A b \in Actor : Len(Ports(b)) \in Nat
    BY PortsOf
  <2> QED BY <2>1, <2>2, InNoFacts, OutNoFacts, RateFacts DEF Here
<1>2. ASSUME Looking(d), NEW b \in Here(d), NEW k \in Nat, k >= 1 PROVE ~Viewed(b, k)
  BY <1>1, <1>2 DEF Looking, Viewed
<1>3. ASSUME Looking(d)', NEW b \in Here(d), NEW k \in Nat, k >= 1 PROVE ~Viewed(b, k)'
  BY <1>1, <1>3 DEF Looking, Viewed
<1>4. Looking(d) => ~Stale(d)
  BY <1>1, <1>2 DEF Stale, StaleActor
<1>5. Looking(d)' => ~Stale(d)'
  BY <1>1, <1>3 DEF Stale, StaleActor
<1> QED BY <1>4, <1>5

LEMMA SameViews ==
  ASSUME NEW c \in Cpu, UNCHANGED <<portVars, fires, terminated>>,
         \A b \in Here(c) : ~terminated[b] =>
           \A k \in 1 .. Len(Ports(b)) : Viewed(b, k)' => Viewed(b, k),
         Quiet(c)' => Quiet(c), Stale(c)'
  PROVE  Stale(c)
<1>1. \A p \in InPort : InCurrent(p)' <=> InCurrent(p)
  BY DEF InCurrent, Read, portVars
<1>2. \A ch \in Chan : OutCurrent(ch)' <=> OutCurrent(ch)
  BY DEF OutCurrent, Written, portVars
<1>3. ASSUME NEW b \in Here(c), StaleActor(b)' PROVE StaleActor(b)
  BY <1>1, <1>2, <1>3, InNoFacts, OutNoFacts DEF StaleActor
<1> QED BY <1>3 DEF Stale

\* From the first call on, everything has been viewed.
LEMMA AllViewed ==
  ASSUME NEW c \in Cpu, pc[c] \notin {"prefire", "wake", "post", "drain"},
         NEW b \in Here(c), NEW k
  PROVE  Viewed(b, k)
BY DEF Viewed, Here

LEMMA IdleStale ==
  ASSUME TypeOK, NEW c \in Cpu, Stale(c)',
         \/ Wake(c) \/ Post(c) \/ Lock(c) \/ Scan(c) \/ StayAwake(c) \/ GoToSleep(c)
         \/ CheckTerminate(c, "asleep", "wait") \/ CheckTerminate(c, "woken", "relock")
         \/ Wait(c) \/ WakeUp(c) \/ Drain(c) \/ Done(c)
  PROVE  Stale(c)
<1>1. UNCHANGED <<portVars, fires, fired, terminated>>
  BY DEF Wake, Post, Lock, Scan, StayAwake, GoToSleep, CheckTerminate, Wait, WakeUp, Drain, Done,
         dataVars, actorVars
<1>2. CASE Wake(c) \/ Post(c) \/ StayAwake(c) \/ WakeUp(c) \/ Drain(c)
  <2>1. Looking(c)'
    BY <1>2 DEF Wake, Post, StayAwake, WakeUp, Drain, NextCpu, Goto, At, Looking, TypeOK,
                PlacesTyped
  <2> QED BY <2>1, LookingFresh
<1>3. CASE \/ Lock(c) \/ Scan(c) \/ GoToSleep(c)
           \/ CheckTerminate(c, "asleep", "wait") \/ CheckTerminate(c, "woken", "relock")
           \/ Wait(c) \/ Done(c)
  <2>1. /\ pc[c] \notin {"prefire", "wake", "post", "drain"} /\ pc'[c] # "prefire"
    BY <1>3 DEF Lock, Scan, GoToSleep, CheckTerminate, Wait, Done, NextCpu, Goto, At, TypeOK,
                PlacesTyped
  <2>2. Quiet(c)' => Quiet(c)
    BY <1>1, <2>1 DEF Quiet
  <2> QED BY <1>1, <2>1, <2>2, AllViewed, SameViews
<1> QED BY <1>2, <1>3

\* A CPU none of whose actors has been called since it published has nothing
\* left to publish.
LEMMA AllCounted ==
  ASSUME TypeOK, ViewsInv, NEW c \in Cpu, \A b \in Here(c) : ~Called(b)
  PROVE  /\ \A ch \in Chan : Writer[ch] \in Here(c) => wcount[ch] = Written(ch) /\ outCount[ch] = 0
         /\ \A p \in InPort : p[2] \in Here(c) => rcount[p] = Read(p)
<1>1. ASSUME NEW ch \in Chan, Writer[ch] \in Here(c)
      PROVE  wcount[ch] = Written(ch) /\ outCount[ch] = 0
  <2>1. outCount[ch] = 0 /\ wcount[ch] + outCount[ch] = Written(ch)
    BY <1>1 DEF ViewsInv, WritesCounted, Due
  <2> QED BY <2>1, CountFacts
<1>2. ASSUME NEW p \in InPort, p[2] \in Here(c) PROVE rcount[p] = Read(p)
  <2>1. rcount[p] + 0 = Read(p)
    BY <1>2 DEF ViewsInv, ReadsCounted, Due
  <2> QED BY <2>1, CountFacts
<1> QED BY <1>1, <1>2

\* What is viewed after a step of prefire: the port it has read, if any.
LEMMA PrefireViewed ==
  ASSUME TypeOK, NEW c \in Cpu, PrefirePort(c) \/ PrefireSkip(c),
         NEW b \in Here(c), NEW k \in 1 .. Len(Ports(b)), Viewed(b, k)', ~Viewed(b, k)
  PROVE  b = This(c) /\ (PrefirePort(c) => k = j[c])
<1> DEFINE a == This(c)
<1>1. pc[c] = "prefire" /\ PlacesTyped
  BY DEF PrefirePort, PrefireSkip, At, TypeOK
<1>2. /\ Pos(b) \in Nat /\ (Pos(b) = i[c] <=> b = a) /\ i[c] \in Nat /\ j[c] \in Nat \ {0}
      /\ k \in Nat /\ k >= 1 /\ Len(Ports(b)) \in Nat /\ k <= Len(Ports(b))
  BY <1>1, ThisPos, PosFacts, PortsOf DEF ActorLoops, PlacesTyped, Here
<1>3. ~(Pos(b) < i[c]) /\ ~(Pos(b) = i[c] /\ k < j[c])
  BY <1>1 DEF Viewed, Here
<1>4. pc'[c] = "prefire" => Pos(b) < i'[c] \/ (Pos(b) = i'[c] /\ k < j'[c])
  BY <1>1 DEF Viewed, Here
<1>5. ASSUME NextActor(c, "fire") PROVE Pos(b) <= i[c]
  <2>1. CASE pc'[c] = "prefire" /\ i'[c] = i[c] + 1 /\ j'[c] = 1
    BY <1>2, <1>4, <2>1
  <2>2. CASE \A d \in Actor : CpuOf[d] = c => Pos(d) <= i[c]
    BY <2>2 DEF Here
  <2> QED BY <1>1, <1>5, <2>1, <2>2, NextActorMoves DEF ActorLoops
<1>6. CASE PrefireSkip(c)
  <2>1. NextActor(c, "fire") /\ ~PrefirePort(c)
    BY <1>6 DEF PrefireSkip, PrefirePort
  <2> QED BY <1>2, <1>3, <1>5, <2>1
<1>7. CASE PrefirePort(c)
  <2>1. CASE j[c] < Len(Ports(a))
    <3>1. j'[c] = j[c] + 1 /\ i'[c] = i[c] /\ pc'[c] = "prefire"
      BY <1>1, <1>7, <2>1 DEF PrefirePort, NextPort, PlacesTyped
    <3> QED BY <1>2, <1>3, <1>4, <3>1
  <2>2. CASE ~(j[c] < Len(Ports(a)))
    <3>1. NextActor(c, "fire") /\ j[c] \in 1 .. Len(Ports(a)) /\ Len(Ports(a)) \in Nat
      BY <1>1, <1>7, <2>2, ThisPort DEF PrefirePort, NextPort
    <3> QED BY <1>2, <1>3, <1>5, <2>2, <3>1
  <2> QED BY <2>1, <2>2
<1> QED BY <1>6, <1>7

LEMMA PrefireStale ==
  ASSUME TypeOK, ViewsInv, NEW c \in Cpu, PrefirePort(c) \/ PrefireSkip(c), Stale(c)'
  PROVE  Stale(c)
<1> DEFINE a == This(c)
           o == Ports(a)[j[c]]
<1>1. Quiet(c) /\ UNCHANGED <<wcount, rcount, fires, terminated>>
  BY DEF PrefirePort, PrefireSkip, At, Quiet, ReadIn, ReadOut, portVars
<1>2. CASE PrefireSkip(c)
  <2>1. ASSUME NEW b \in Here(c), ~terminated[b], NEW k \in 1 .. Len(Ports(b)), Viewed(b, k)'
        PROVE  Viewed(b, k)
    <3> SUFFICES ASSUME ~Viewed(b, k) PROVE FALSE
      OBVIOUS
    <3>1. b = a
      BY <1>2, <2>1, PrefireViewed
    <3>2. Ports(b) = <<>>
      BY <1>2, <2>1, <3>1 DEF PrefireSkip
    <3>3. 1 .. Len(Ports(b)) = {}
      BY <3>2
    <3> QED BY <3>3
  <2> QED BY <1>1, <1>2, <2>1, SameViews DEF PrefireSkip
<1>3. CASE PrefirePort(c)
  <2>1. /\ a \in Here(c) /\ o \in Chan /\ j[c] \in 1 .. Len(Ports(a))
        /\ IsInput(a, j[c]) => <<o, a>> \in InPort
        /\ ~IsInput(a, j[c]) => Writer[o] = a
    BY <1>3, ThisPort, PortFacts DEF PrefirePort, At, TypeOK, Here
  <2>2. /\ \A ch \in Chan : Writer[ch] \in Here(c) => wcount[ch] = Written(ch)
        /\ \A p \in InPort : p[2] \in Here(c) => rcount[p] = Read(p)
    BY <1>3, PrefireMoves, AllCounted DEF TypeOK, Here
  <2>3. ASSUME NEW p \in InPort, p[2] \in Here(c), Viewed(p[2], InNo(p))', ~InCurrent(p)'
        PROVE  Viewed(p[2], InNo(p)) /\ ~InCurrent(p)
    <3>1. InNo(p) \in 1 .. Len(Ports(p[2])) /\ Ports(p[2])[InNo(p)] = p[1] /\ IsInput(p[2], InNo(p))
      BY InNoFacts
    <3>2. wcount[p[1]] \in Nat /\ rcount[p] \in Nat /\ Read(p)' = Read(p) /\ p = <<p[1], p[2]>>
      BY <1>1, CountFacts, RateFacts DEF Read
    <3>3. CASE IsInput(a, j[c]) /\ p = <<o, a>>
      <4>1. ReadIn(p)
        BY <1>3, <3>3 DEF PrefirePort
      <4>2. availIn'[p] = wcount[p[1]] - rcount[p]
        BY <4>1 DEF ReadIn, TypeOK, PortsTyped
      <4>3. InCurrent(p)'
        BY <1>1, <2>2, <2>3, <3>2, <4>2 DEF InCurrent
      <4> QED BY <2>3, <4>3
    <3>4. CASE ~(IsInput(a, j[c]) /\ p = <<o, a>>)
      <4>1. availIn'[p] = availIn[p]
        BY <1>3, <3>4 DEF PrefirePort, ReadIn, ReadOut, TypeOK, PortsTyped
      <4>2. ~InCurrent(p)
        BY <1>1, <2>3, <3>2, <4>1 DEF InCurrent
      <4>3. ~(p[2] = a /\ InNo(p) = j[c])
        BY <3>1, <3>2, <3>4
      <4> QED BY <1>3, <2>3, <3>1, <4>2, <4>3, PrefireViewed
    <3> QED BY <3>3, <3>4
  <2>4. ASSUME NEW ch \in Chan, Writer[ch] \in Here(c), Viewed(Writer[ch], OutNo(ch))',
               ~OutCurrent(ch)'
        PROVE  Viewed(Writer[ch], OutNo(ch)) /\ ~OutCurrent(ch)
    <3>1. /\ OutNo(ch) \in 1 .. Len(Ports(Writer[ch])) /\ Ports(Writer[ch])[OutNo(ch)] = ch
          /\ ~IsInput(Writer[ch], OutNo(ch))
      BY OutNoFacts
    <3>2. Written(ch)' = Written(ch) /\ Cap[ch] \in Nat /\ wcount[ch] \in Nat
      BY <1>1, CountFacts DEF Written
    <3>3. CASE ~IsInput(a, j[c]) /\ ch = o
      <4>1. ReadOut(ch)
        BY <1>3, <3>3 DEF PrefirePort
      <4>2. PICK most \in {0} \union {Unconsumed(ch, r) : r \in Readers(ch)} :
              MaxUnconsumed(ch, most) /\ availOut' = [availOut EXCEPT ![ch] = Cap[ch] - most]
        BY <4>1 DEF ReadOut
      <4>3. availOut'[ch] = Cap[ch] - most
        BY <4>2 DEF TypeOK, PortsTyped
      <4>4. \A r \in Readers(ch) : /\ rcount[<<ch, r>>] \in Nat /\ rcount[<<ch, r>>] <= wcount[ch]
                                   /\ wcount[ch] - rcount[<<ch, r>>] <= most
        <5>1. ASSUME NEW r \in Readers(ch)
              PROVE  rcount[<<ch, r>>] \in Nat /\ rcount[<<ch, r>>] <= wcount[ch]
          <6> DEFINE p == <<ch, r>>
          <6>1. p \in InPort /\ p[1] = ch
            BY DEF Readers
          <6> HIDE DEF p
          <6>2. rcount[p] \in Nat /\ rcount[p] <= wcount[ch]
            BY <6>1, CountFacts DEF ViewsInv, Bounded
          <6> QED BY <6>2 DEF p
        <5> QED BY <4>2, <5>1 DEF MaxUnconsumed, Unconsumed
      <4>5. OutCurrent(ch)'
        <5>1. CASE most = 0 /\ Readers(ch) = {}
          BY <3>2, <4>3, <5>1 DEF OutCurrent
        <5>2. ASSUME NEW r \in Readers(ch), most = Unconsumed(ch, r) \/ most = 0
              PROVE  OutCurrent(ch)'
          <6>1. most = wcount[ch] - rcount[<<ch, r>>]
            BY <3>2, <4>4, <5>2 DEF Unconsumed
          <6>2. Cap[ch] - (Written(ch) - rcount[<<ch, r>>]) <= availOut'[ch]
            BY <2>2, <2>4, <3>2, <4>3, <4>4, <6>1
          <6> QED BY <1>1, <3>2, <6>2 DEF OutCurrent
        <5> QED BY <4>2, <5>1, <5>2
      <4> QED BY <2>4, <4>5
    <3>4. CASE ~(~IsInput(a, j[c]) /\ ch = o)
      <4>1. availOut'[ch] = availOut[ch]
        BY <1>3, <3>4 DEF PrefirePort, ReadIn, ReadOut, TypeOK, PortsTyped
      <4>2. ~OutCurrent(ch)
        BY <1>1, <2>4, <3>2, <4>1 DEF OutCurrent
      <4>3. ~(Writer[ch] = a /\ OutNo(ch) = j[c])
        BY <3>1, <3>4
      <4> QED BY <1>3, <2>4, <3>1, <4>2, <4>3, PrefireViewed
    <3> QED BY <3>3, <3>4
  <2>5. ASSUME NEW b \in Here(c), StaleActor(b)' PROVE StaleActor(b)
    BY <1>1, <2>3, <2>4, <2>5 DEF StaleActor
  <2> QED BY <1>1, <2>5 DEF Stale
<1> QED BY <1>2, <1>3

\* A call that fires nothing changes no view of its CPU, nor does it let an
\* actor go on.
LEMMA QuietCall ==
  ASSUME TypeOK, ViewsInv, NEW c \in Cpu, Fire(c), Quiet(c)'
  PROVE  /\ Quiet(c) /\ UNCHANGED <<portVars, fires, fired>>
         /\ ~Enough(This(c), fires[This(c)] + 1)
         /\ terminated'[This(c)] => fires[This(c)] = Horizon[This(c)]
         /\ \A b \in Actor : b # This(c) => terminated'[b] = terminated[b]
         /\ ~terminated[This(c)]
<1> DEFINE a == This(c)
<1>1. a \in Actor /\ CpuOf[a] = c /\ fires[a] \in Nat /\ Loops[a] \in Nat \ {0}
  BY FireMoves, RateFacts DEF TypeOK, ActorsTyped
<1>2. PICK m \in fires[a] .. fires[a] + Loops[a] :
        /\ Reaches(a, m) /\ Call(a, m) /\ terminated' = [terminated EXCEPT ![a] = Ends(a, m)]
        /\ Goto(c, "decrement", i[c]) \/ NextActor(c, "postfire")
  BY DEF Fire
<1>3. \A b \in Here(c) : ~fired'[b]
  <2>1. pc'[c] \in {"fire", "decrement", "postfire"}
    BY <1>2 DEF Fire, NextActor, Goto, At, TypeOK, PlacesTyped
  <2> QED BY <2>1 DEF Quiet
<1>4. m = fires[a] /\ ~fired[a]
  <2>1. fired'[a] <=> fired[a] \/ m > fires[a]
    BY <1>1, <1>2 DEF Call, TypeOK, ActorsTyped
  <2>2. ~fired'[a]
    BY <1>1, <1>3 DEF Here
  <2> QED BY <1>1, <1>2, <2>1, <2>2
<1>5. fires' = fires /\ fired' = fired
  BY <1>1, <1>2, <1>4 DEF Call, TypeOK, ActorsTyped
<1>6. \A ch \in Chan : CpuOf[Writer[ch]] = c => outCount[ch] = 0
  BY <1>3, <1>5, RateFacts DEF ViewsInv, WritesCounted, Here
<1>7. \A p \in InPort : p[2] = a => Visible(a, p[1]) = availIn[p] /\ TakenBy(a, p[1], m) = 0
  <2> SUFFICES ASSUME NEW p \in InPort, p[2] = a
               PROVE  Visible(a, p[1]) = availIn[p] /\ TakenBy(a, p[1], m) = 0
    OBVIOUS
  <2>1. p = <<p[1], a>> /\ p[1] \in Chan /\ availIn[p] \in Int
    BY RateFacts, CountFacts
  <2>2. Visible(a, p[1]) = availIn[p]
    BY <1>1, <1>6, <2>1 DEF Visible
  <2>3. Taken[p[1]][a][fires[a]] \in Nat
    BY <1>1, <2>1, TakenFacts, RateFacts DEF TypeOK, ActorsTyped
  <2> QED BY <1>4, <2>2, <2>3 DEF TakenBy
<1>8. \A ch \in Chan : Writer[ch] = a => GivenBy(a, ch, m) = 0
  <2> SUFFICES ASSUME NEW ch \in Chan, Writer[ch] = a PROVE GivenBy(a, ch, m) = 0
    OBVIOUS
  <2>1. Given[ch][fires[a]] \in Nat
    BY <1>1, GivenFacts, RateFacts DEF TypeOK, ActorsTyped
  <2> QED BY <1>4, <2>1 DEF GivenBy
<1>9. UNCHANGED <<wcount, rcount, outCount, inCount>>
  BY <1>2, <1>4, <1>1 DEF Call, TypeOK, PortsTyped
<1>10. availIn' = availIn /\ availOut' = availOut
  <2>1. availIn' = [p \in InPort |-> availIn[p]]
    <3>1. \A p \in InPort : p[2] = a => Visible(a, p[1]) - TakenBy(a, p[1], m) = availIn[p]
      BY <1>7, CountFacts
    <3> QED BY <1>2, <3>1, Zenon DEF Call
  <2>2. availOut' = [ch \in Chan |-> availOut[ch]]
    <3>1. \A ch \in Chan : Writer[ch] = a => availOut[ch] - GivenBy(a, ch, m) = availOut[ch]
      BY <1>8, CountFacts
    <3> QED BY <1>2, <3>1, Zenon DEF Call
  <2> QED BY <2>1, <2>2 DEF TypeOK, PortsTyped
<1>11. Quiet(c)
  BY <1>3, <1>5 DEF Quiet
<1>12. ~Enough(a, fires[a] + 1)
  BY <1>1, <1>2, <1>4 DEF Reaches
<1>13. /\ terminated'[a] => fires[a] = Horizon[a]
       /\ \A b \in Actor : b # a => terminated'[b] = terminated[b]
       /\ ~terminated[a]
  BY <1>1, <1>2, <1>4 DEF Ends, Fire, TypeOK, ActorsTyped
<1> QED BY <1>5, <1>9, <1>10, <1>11, <1>12, <1>13 DEF portVars

LEMMA FireStale ==
  ASSUME TypeOK, ViewsInv, NEW c \in Cpu, Fire(c) \/ Decrement(c) \/ FireSkip(c), Stale(c)'
  PROVE  Stale(c)
<1>1. \A b \in Here(c) : \A k : Viewed(b, k)
  <2>1. pc[c] \in {"fire", "decrement"}
    BY DEF Fire, Decrement, FireSkip, At
  <2> QED BY <2>1, AllViewed
<1>2. CASE Fire(c)
  <2>1. Quiet(c)' /\ \E b \in Here(c) : StaleActor(b)'
    BY DEF Stale, Here
  <2>2. Quiet(c) /\ UNCHANGED <<portVars, fires, fired>>
    BY <1>2, <2>1, QuietCall
  <2>3. \A b \in Actor : ~terminated'[b] => ~terminated[b]
    BY <1>2, <2>1, QuietCall
  <2>4. \A p \in InPort : InCurrent(p)' <=> InCurrent(p)
    BY <2>2 DEF InCurrent, Read, portVars
  <2>5. \A ch \in Chan : OutCurrent(ch)' <=> OutCurrent(ch)
    BY <2>2 DEF OutCurrent, Written, portVars
  <2>6. ASSUME NEW b \in Here(c), StaleActor(b)' PROVE StaleActor(b)
    BY <1>1, <2>3, <2>4, <2>5, <2>6 DEF StaleActor, Here
  <2> QED BY <2>1, <2>2, <2>6 DEF Stale
<1>3. CASE Decrement(c) \/ FireSkip(c)
  <2>1. /\ UNCHANGED <<portVars, fires, fired, terminated>>
        /\ pc[c] # "prefire" /\ pc'[c] # "prefire"
    BY <1>3 DEF Decrement, FireSkip, At, NextActor, Goto, dataVars, actorVars, TypeOK, PlacesTyped
  <2> QED BY <1>1, <2>1, SameViews DEF Quiet
<1> QED BY <1>2, <1>3

LEMMA PostfireStale ==
  ASSUME TypeOK, NEW c \in Cpu, PostfirePort(c) \/ PostfireSkip(c)
  PROVE  /\ PostfirePort(c) => ~Quiet(c) /\ ~Quiet(c)'
         /\ Stale(c)' => Stale(c)
<1>1. /\ pc[c] = "postfire" /\ pc'[c] \in {"postfire", "wake", "lock"}
      /\ UNCHANGED <<fires, fired, terminated>>
  BY DEF PostfirePort, PostfireSkip, PostfireEnd, NextPort, NextActor, Goto, At, actorVars,
         dataVars, TypeOK, PlacesTyped
<1>2. Quiet(c)' <=> Quiet(c)
  BY <1>1 DEF Quiet
<1>3. CASE PostfirePort(c)
  <2>1. This(c) \in Here(c) /\ fired[This(c)]
    BY <1>3, PostfireMoves DEF PostfirePort, Here, TypeOK
  <2>2. ~Quiet(c)
    BY <1>1, <2>1 DEF Quiet
  <2> QED BY <1>2, <2>2 DEF Stale
<1>4. CASE PostfireSkip(c) /\ ~PostfirePort(c)
  <2>1. \A b \in Here(c) : \A k : Viewed(b, k)
    BY <1>1, AllViewed
  <2> QED BY <1>2, <1>4, <2>1, SameViews DEF PostfireSkip, dataVars, actorVars
<1> QED BY <1>3, <1>4

\* A CPU only becomes stale by what another one publishes.
LEMMA StaleStep ==
  ASSUME TypeOK, TypeOK', ViewsInv, NEW c \in Cpu, Thread(c), NEW d \in Cpu, Stale(d)'
  PROVE  Stale(d) \/ (d # c /\ PostfirePort(c) /\ d \in affected'[c])
<1>1. CASE d = c
  BY <1>1, PrefireStale, FireStale, PostfireStale, IdleStale DEF Thread
<1>2. CASE d # c
  BY <1>2, StaleElsewhere
<1> QED BY <1>1, <1>2

-----------------------------------------------------------------------------
(* An actor that is not called, or called in vain, cannot go on with what  *)
(* its CPU has cached.                                                     *)

LEMMA SomeFiredHere ==
  ASSUME NEW c \in Cpu
  PROVE  SomeFired(c) <=> \E b \in Here(c) : fired[b]
<1>1. ASSUME NEW k \in 1 .. Len(ActorsOn[c]) PROVE ActorsOn[c][k] \in Here(c)
  BY CpuFacts DEF Here
<1>2. ASSUME NEW b \in Here(c) PROVE \E k \in 1 .. Len(ActorsOn[c]) : ActorsOn[c][k] = b
  BY PosFacts DEF Here
<1> QED BY <1>1, <1>2 DEF SomeFired

\* The steps of c as far as its actors are concerned.
LEMMA TriedStep ==
  ASSUME TypeOK, NEW c \in Cpu, Thread(c), ~Fire(c)
  PROVE  /\ Awaiting(c)' => Awaiting(c) \/ ((PostfirePort(c) \/ PostfireSkip(c)) /\ ~SomeFired(c))
         /\ \A b \in Here(c) : Tried(b)' => Tried(b) \/ (b = This(c) /\ FireSkip(c))
<1>1. PlacesTyped
  BY DEF TypeOK
<1>2. CASE PrefirePort(c) \/ PrefireSkip(c)
  <2>1. \A b \in Here(c) : ~Called(b)'
    BY <1>1, <1>2, PrefireMoves DEF Here
  <2>2. pc'[c] \in {"prefire", "fire"}
    BY <1>1, <1>2 DEF PrefirePort, PrefireSkip, NextPort, NextActor, Goto, At, PlacesTyped
  <2> QED BY <2>1, <2>2 DEF Tried, Awaiting, Sleeping, Here
<1>3. CASE FireSkip(c) \/ Decrement(c)
  <2>1. \A b \in Here(c) : Called(b)' => Called(b) \/ (b = This(c) /\ FireSkip(c))
    BY <1>1, <1>3, FireMoves, DecrementMoves DEF Here
  <2>2. pc'[c] \in {"fire", "postfire"}
    BY <1>1, <1>3 DEF FireSkip, Decrement, NextActor, Goto, At, PlacesTyped
  <2> QED BY <2>1, <2>2 DEF Tried, Awaiting, Sleeping, Here
<1>4. CASE PostfirePort(c) \/ PostfireSkip(c)
  <2>1. /\ pc[c] = "postfire" /\ pc'[c] \in {"postfire", "wake", "lock"}
        /\ pc'[c] = "lock" => ~SomeFired(c)
    BY <1>1, <1>4 DEF PostfirePort, PostfireSkip, PostfireEnd, NextPort, NextActor, Goto, At,
                      PlacesTyped, LastActor, LastPort
  <2> QED BY <1>4, <2>1 DEF Tried, Called, Awaiting, Sleeping, Here
<1>5. CASE \/ Wake(c) \/ Post(c) \/ StayAwake(c) \/ WakeUp(c) \/ Drain(c)
  <2>1. pc'[c] \in {"prefire", "wake", "post", "drain"}
    BY <1>1, <1>5 DEF Wake, Post, StayAwake, WakeUp, Drain, NextCpu, Goto, At, PlacesTyped
  <2>2. \A b \in Here(c) : ~Called(b)'
    BY <1>1, <1>5, IdleMoves DEF Here
  <2> QED BY <2>1, <2>2 DEF Tried, Awaiting, Sleeping, Here
<1>6. CASE \/ Lock(c) \/ Scan(c) \/ GoToSleep(c)
           \/ CheckTerminate(c, "asleep", "wait") \/ CheckTerminate(c, "woken", "relock")
           \/ Wait(c) \/ Done(c)
  <2>1. Awaiting(c)
    BY <1>6 DEF Lock, Scan, GoToSleep, CheckTerminate, Wait, Done, At, Awaiting, Sleeping
  <2> QED BY <2>1 DEF Tried, Awaiting, Here
<1> QED BY <1>2, <1>3, <1>4, <1>5, <1>6 DEF Thread

LEMMA EnoughKept ==
  ASSUME NEW a \in Actor, Active = {}, NEW m, fires'[a] = fires[a],
         \A p \in InPort : p[2] = a => availIn'[p] = availIn[p],
         \A ch \in Chan : Writer[ch] = a => availOut'[ch] = availOut[ch],
         \A ch \in Chan : CpuOf[Writer[ch]] = CpuOf[a] => outCount'[ch] = outCount[ch]
  PROVE  Enough(a, m)' <=> Enough(a, m)
<1>1. ASSUME NEW ch \in Chan, <<ch, a>> \in InPort
      PROVE  /\ Visible(a, ch)' = Visible(a, ch) /\ TakenBy(a, ch, m)' = TakenBy(a, ch, m)
  BY <1>1 DEF Visible, TakenBy
<1>2. ASSUME NEW ch \in Chan, Writer[ch] = a
      PROVE  GivenBy(a, ch, m)' = GivenBy(a, ch, m) /\ availOut'[ch] = availOut[ch]
  BY <1>2 DEF GivenBy
<1> QED BY <1>1, <1>2 DEF Enough

\* The conjuncts of RoundInv for the actors of one CPU.
RoundHere(d) ==
  /\ Awaiting(d) => Quiet(d)
  /\ \A a \in Here(d) : Tried(a) /\ Quiet(d) /\ ~terminated[a] => ~Enough(a, fires[a] + 1)
  /\ \A a \in Here(d) : terminated[a] => fires[a] = Horizon[a]

LEMMA RoundElsewhere ==
  ASSUME TypeOK, Active = {}, NEW c \in Cpu, Thread(c), NEW d \in Cpu \ {c}, RoundHere(d)
  PROVE  RoundHere(d)'
<1>1. OthersKept(c)
  BY OthersStay DEF TypeOK
<1>2. pc'[d] = pc[d] /\ i'[d] = i[d] /\ j'[d] = j[d]
  BY <1>1 DEF OthersKept
<1>3. /\ \A b \in Here(d) : /\ fires'[b] = fires[b] /\ fired'[b] = fired[b]
                            /\ terminated'[b] = terminated[b]
                            /\ Tried(b)' <=> Tried(b)
  BY <1>2, OwnPorts DEF Here, Tried, Called, Sleeping
<1>4. (Quiet(d)' <=> Quiet(d)) /\ (Awaiting(d)' <=> Awaiting(d))
  BY <1>2, <1>3 DEF Quiet, Awaiting, Sleeping, Here
<1>5. ASSUME NEW b \in Here(d) PROVE Enough(b, fires[b] + 1)' <=> Enough(b, fires[b] + 1)
  <2>1. b \in Actor /\ CpuOf[b] = d /\ fires'[b] = fires[b]
    BY <1>3 DEF Here
  <2>2. \A m : Enough(b, m)' <=> Enough(b, m)
    BY <2>1, EnoughKept, OwnPorts
  <2> QED BY <2>1, <2>2
<1>6. \A a \in Here(d) : Tried(a)' /\ Quiet(d)' /\ ~terminated'[a] => ~Enough(a, fires[a] + 1)'
  BY <1>3, <1>4, <1>5 DEF RoundHere
<1> QED BY <1>3, <1>4, <1>6 DEF RoundHere, Here

LEMMA RoundOwn ==
  ASSUME TypeOK, ViewsInv, Active = {}, NEW c \in Cpu, Thread(c), RoundHere(c)
  PROVE  RoundHere(c)'
<1>1. CASE Fire(c)
  <2> DEFINE a == This(c)
  <2>1. a \in Actor /\ CpuOf[a] = c /\ pc[c] = "fire" /\ pc'[c] \in {"fire", "decrement", "postfire"}
    BY <1>1, FireMoves DEF Fire, NextActor, Goto, At, TypeOK, PlacesTyped
  <2>2. \A b \in Here(c) : (Tried(b) <=> Called(b)) /\ (Tried(b)' <=> Called(b) \/ b = a)
    BY <1>1, <2>1, FireMoves DEF Tried, Sleeping, Here, TypeOK
  <2>3. ASSUME Quiet(c)', NEW b \in Here(c), Tried(b)', ~terminated'[b]
        PROVE  ~Enough(b, fires[b] + 1)'
    <3>1. /\ Quiet(c) /\ UNCHANGED <<portVars, fires>> /\ ~Enough(a, fires[a] + 1)
          /\ b # a => terminated'[b] = terminated[b]
      BY <1>1, <2>3, QuietCall DEF Here
    <3>2. ~Enough(b, fires[b] + 1)
      BY <2>2, <2>3, <3>1 DEF RoundHere
    <3>3. \A m : Enough(b, m)' <=> Enough(b, m)
      BY <3>1, EnoughKept DEF Here, portVars
    <3> QED BY <3>1, <3>2, <3>3
  <2>4. ASSUME NEW b \in Here(c), terminated'[b] PROVE fires'[b] = Horizon[b]
    <3>1. PICK m \in fires[a] .. fires[a] + Loops[a] :
            Call(a, m) /\ terminated' = [terminated EXCEPT ![a] = Ends(a, m)]
      BY <1>1 DEF Fire
    <3>2. CASE b = a
      BY <2>1, <2>4, <3>1, <3>2 DEF Ends, Call, TypeOK, ActorsTyped
    <3>3. CASE b # a
      BY <2>1, <2>4, <3>1, <3>3 DEF Call, RoundHere, TypeOK, ActorsTyped
    <3> QED BY <3>2, <3>3
  <2>5. ~Awaiting(c)'
    BY <2>1 DEF Awaiting, Sleeping
  <2> QED BY <2>3, <2>4, <2>5 DEF RoundHere, Here
<1>2. CASE ~Fire(c)
  <2>1. UNCHANGED fires
    BY <1>2, OthersStutter
  <2>2. PlacesTyped
    BY DEF TypeOK
  <2>3. CASE PrefirePort(c) \/ PrefireSkip(c)
    <3>1. pc'[c] \in {"prefire", "fire"} /\ UNCHANGED terminated
      BY <2>2, <2>3 DEF PrefirePort, PrefireSkip, NextPort, NextActor, Goto, At, PlacesTyped
    <3>2. \A b \in Here(c) : ~Tried(b)'
      BY <2>2, <2>3, <3>1, PrefireMoves DEF Here, Tried, Sleeping
    <3> QED BY <2>1, <3>1, <3>2 DEF RoundHere, Awaiting, Sleeping, Here
  <2>4. CASE PostfirePort(c)
    <3>1. ~Quiet(c)' /\ UNCHANGED terminated
      BY <2>4, PostfireStale DEF PostfirePort, actorVars
    <3>2. pc[c] = "postfire" /\ \E b \in Here(c) : fired[b]
      BY <2>4, PostfireStale DEF Quiet, PostfirePort, At
    <3>3. ~Awaiting(c)'
      BY <1>2, <3>2, SomeFiredHere, TriedStep DEF Awaiting, Sleeping
    <3> QED BY <2>1, <3>1, <3>3 DEF RoundHere, Here
  <2>5. CASE ~PrefirePort(c) /\ ~PrefireSkip(c) /\ ~PostfirePort(c)
    <3>1. UNCHANGED <<portVars, fired, terminated>>
      BY <1>2, <2>5 DEF Thread, Decrement, FireSkip, PostfireSkip, Wake, Post, Lock, Scan,
           StayAwake, GoToSleep, CheckTerminate, Wait, WakeUp, Drain, Done, dataVars, actorVars
    <3>2. Awaiting(c)' => Quiet(c)'
      <4>1. Awaiting(c)' => \A b \in Here(c) : ~fired[b]
        BY <1>2, SomeFiredHere, TriedStep DEF RoundHere, Quiet, Awaiting, Sleeping
      <4> QED BY <3>1, <4>1 DEF Quiet, Here
    <3>3. ASSUME NEW b \in Here(c), Tried(b)', Quiet(c)', ~terminated'[b]
          PROVE  ~Enough(b, fires[b] + 1)'
      <4>1. Tried(b)
        BY <1>2, <3>1, <3>3, TriedStep DEF FireSkip
      <4>2. Quiet(c)
        <5>1. pc'[c] # "prefire"
          BY <3>3 DEF Tried, Called, Sleeping, Here
        <5> QED BY <3>1, <3>3, <5>1 DEF Quiet, Here
      <4>3. ~Enough(b, fires[b] + 1)
        BY <3>1, <3>3, <4>1, <4>2 DEF RoundHere
      <4>4. \A m : Enough(b, m)' <=> Enough(b, m)
        BY <2>1, <3>1, EnoughKept DEF Here, portVars
      <4> QED BY <2>1, <4>3, <4>4
    <3> QED BY <2>1, <3>1, <3>2, <3>3 DEF RoundHere, Here
  <2> QED BY <2>3, <2>4, <2>5
<1> QED BY <1>1, <1>2

LEMMA RoundParts == RoundInv <=> \A d \in Cpu : RoundHere(d)
<1>1. \A a \in Actor : CpuOf[a] \in Cpu
  BY RateFacts
<1> QED BY <1>1 DEF RoundInv, RoundHere, Awaiting, Here

LEMMA RoundStep ==
  ASSUME TypeOK, ViewsInv, Active = {}, RoundInv, [Next]_vars
  PROVE  RoundInv'
<1>1. ASSUME NEW c \in Cpu, Thread(c) PROVE RoundInv'
  <2>1. \A d \in Cpu : RoundHere(d)'
    BY <1>1, RoundParts, RoundOwn, RoundElsewhere
  <2>2. \A a \in Actor : CpuOf[a] \in Cpu
    BY RateFacts
  <2> QED BY <2>1, <2>2 DEF RoundInv, RoundHere, Awaiting, Here
<1>2. CASE UNCHANGED vars
  BY <1>2 DEF vars, dataVars, portVars, actorVars, syncVars, RoundInv, Sleeping, Quiet, Tried,
              Called, Enough, Visible, TakenBy, GivenBy, Here
<1> QED BY <1>1, <1>2 DEF Next

LEMMA RoundInit == Init => RoundInv
<1> SUFFICES ASSUME Init PROVE RoundInv
  OBVIOUS
<1>1. /\ \A c \in Cpu : pc[c] = "prefire"
      /\ \A a \in Actor : ~terminated[a] /\ CpuOf[a] \in Cpu
  BY RateFacts DEF Init
<1> QED BY <1>1 DEF RoundInv, Quiet, Tried, Called, Sleeping

-----------------------------------------------------------------------------
(* The protocol, one kind of step after the other.                         *)

LEMMA TwoCpus ==
  ASSUME N <= 2
  PROVE  /\ Cpu \subseteq {0, 1}
         /\ \A c, d, e \in Cpu : c # d => e = c \/ e = d
         /\ \A c, d \in Cpu : c # d => N = 2
BY CpuFacts DEF Cpu

\* The protocol invariant for one CPU, and for two.
OneInv(d) == Running(d) /\ quiescentAt[d] <= currSleepEvent /\ (Stale(d) => Cpu # {d})

PairInv(c, d) == PostsWanted(c, d) /\ StaleKnown(c, d) /\ StaleWoken(c, d) /\ StaleCounted(c, d)

LEMMA ProtocolParts ==
  /\ ProtocolInv <=>
       (~terminate => /\ \A d \in Cpu : OneInv(d)
                      /\ \A c, d \in Cpu : c # d => PairInv(c, d))
  /\ ProtocolInv' <=>
       (~terminate' => /\ \A d \in Cpu : OneInv(d)'
                       /\ \A c, d \in Cpu : c # d => PairInv(c, d)')
BY DEF ProtocolInv, OneInv, PairInv

\* The steps of a round, up to the decision whether to wake others or to sleep.
Working(c) ==
  \/ PrefirePort(c) \/ PrefireSkip(c) \/ Fire(c) \/ Decrement(c) \/ FireSkip(c)
  \/ PostfirePort(c) \/ PostfireSkip(c)

LEMMA WorkingSync ==
  ASSUME TypeOK, NEW c \in Cpu, Working(c)
  PROVE  /\ pc[c] \in ActorLoops /\ pc'[c] \in ActorLoops \union {"wake", "lock"}
         /\ UNCHANGED <<oldSleep, stay, sleepVars, sem, mutex>>
         /\ affected[c] \subseteq affected'[c]
         /\ \A d \in Cpu \ {c} : affected'[d] = affected[d] /\ quiescent'[d] = quiescent[d]
         /\ quiescent[c]' => quiescent[c]
         /\ (pc[c] = "postfire" /\ ~Quiet(c)) =>
              (pc'[c] = "postfire" /\ ~Quiet(c)') \/ ~quiescent'[c]
<1>1. CASE PrefirePort(c) \/ PrefireSkip(c) \/ Fire(c) \/ Decrement(c) \/ FireSkip(c)
  <2>1. pc[c] \in {"prefire", "fire", "decrement"}
    BY <1>1 DEF PrefirePort, PrefireSkip, Fire, Decrement, FireSkip, At
  <2>2. pc'[c] \in ActorLoops
    BY <1>1 DEF PrefirePort, PrefireSkip, Fire, Decrement, FireSkip, At, NextPort, NextActor,
                Goto, TypeOK, PlacesTyped, ActorLoops
  <2>3. UNCHANGED syncVars
    BY <1>1 DEF PrefirePort, PrefireSkip, Fire, Decrement, FireSkip
  <2> QED BY <2>1, <2>2, <2>3 DEF syncVars, localVars, ActorLoops
<1>2. CASE PostfirePort(c) \/ PostfireSkip(c)
  <2>1. /\ pc[c] = "postfire" /\ pc'[c] \in {"postfire", "wake", "lock"} /\ UNCHANGED fired
        /\ UNCHANGED <<oldSleep, stay, sleepVars, sem, mutex>>
    BY <1>2 DEF PostfirePort, PostfireSkip, PostfireEnd, NextPort, NextActor, Goto, At, TypeOK,
                PlacesTyped, actorVars, dataVars
  <2>2. /\ affected[c] \subseteq affected'[c]
        /\ \A d \in Cpu \ {c} : affected'[d] = affected[d]
    <3>1. affected \in [Cpu -> SUBSET Cpu]
      BY DEF TypeOK, SyncTyped
    <3>2. ASSUME NEW p, PublishIn(c, p)
          PROVE  affected' = affected
                   \/ affected' = [affected EXCEPT ![c] = affected[c] \union {CpuOf[Writer[p[1]]]}]
      BY <3>1, <3>2 DEF PublishIn
    <3>3. ASSUME NEW ch, PublishOut(c, ch)
          PROVE  affected' = affected
                   \/ affected' = [affected EXCEPT ![c] = affected[c] \union {CpuOf[r] : r \in Readers(ch)}]
      BY <3>1, <3>3 DEF PublishOut
    <3>4. \/ affected' = affected
          \/ \E S : affected' = [affected EXCEPT ![c] = affected[c] \union S]
      <4>1. CASE PostfireSkip(c)
        BY <4>1 DEF PostfireSkip
      <4>2. CASE PostfirePort(c)
        <5>1. (\E p : PublishIn(c, p)) \/ (\E ch : PublishOut(c, ch))
          BY <4>2, Zenon DEF PostfirePort
        <5> QED BY ONLY <3>2, <3>3, <5>1, Zenon
      <4> QED BY <1>2, <4>1, <4>2
    <3> QED BY ONLY <3>1, <3>4, c \in Cpu
  <2>3. \/ UNCHANGED quiescent /\ pc'[c] = "postfire"
        \/ PostfireEnd(c)
    BY <1>2, <2>1 DEF PostfirePort, PostfireSkip, NextPort, NextActor, Goto, LastActor, LastPort,
                TypeOK, PlacesTyped
  <2>4. /\ \A d \in Cpu \ {c} : quiescent'[d] = quiescent[d]
        /\ quiescent[c]' => quiescent[c]
        /\ PostfireEnd(c) /\ SomeFired(c) => ~quiescent'[c]
    BY <2>3 DEF PostfireEnd, TypeOK, SyncTyped
  <2>5. ~Quiet(c) => SomeFired(c)
    BY <2>1, SomeFiredHere DEF Quiet
  <2>6. Quiet(c)' <=> Quiet(c)
    BY <2>1 DEF Quiet
  <2> QED BY <2>1, <2>2, <2>3, <2>4, <2>5, <2>6 DEF ActorLoops
<1> QED BY <1>1, <1>2 DEF Working

\* What the lemmas below start from.
Before ==
  /\ TypeOK /\ TypeOK' /\ ViewsInv /\ SleepBookkeeping /\ N <= 2
  /\ \A d \in Cpu : OneInv(d)
  /\ \A c, d \in Cpu : c # d => PairInv(c, d)

After ==
  /\ \A d \in Cpu : OneInv(d)'
  /\ \A c, d \in Cpu : c # d => PairInv(c, d)'

LEMMA WorkingProtocol ==
  ASSUME Before, NEW e \in Cpu, Working(e)
  PROVE  After
<1>1. /\ pc[e] \in ActorLoops /\ pc'[e] \in ActorLoops \union {"wake", "lock"}
      /\ UNCHANGED <<oldSleep, stay, sleep, quiescentAt, currSleepEvent, sem>>
      /\ affected[e] \subseteq affected'[e]
      /\ \A d \in Cpu \ {e} : affected'[d] = affected[d] /\ quiescent'[d] = quiescent[d]
      /\ quiescent[e]' => quiescent[e]
      /\ (pc[e] = "postfire" /\ ~Quiet(e)) =>
           (pc'[e] = "postfire" /\ ~Quiet(e)') \/ ~quiescent'[e]
  BY WorkingSync DEF Before, sleepVars
<1>2. Thread(e) /\ OthersKept(e)
  BY OthersStay DEF Before, Working, Thread, TypeOK
<1>3. \A d \in Cpu : Stale(d)' => Stale(d) \/ (d # e /\ PostfirePort(e) /\ d \in affected'[e])
  BY <1>2, StaleStep DEF Before
<1>4. ASSUME NEW d \in Cpu \ {e}
      PROVE  (Quiet(d)' <=> Quiet(d)) /\ pc'[d] = pc[d] /\ i'[d] = i[d]
  <2>1. pc'[d] = pc[d] /\ i'[d] = i[d]
    BY <1>2 DEF OthersKept
  <2>2. \A b \in Here(d) : fired'[b] = fired[b]
    BY <1>2, OwnPorts DEF Before, Here
  <2> QED BY <2>1, <2>2 DEF Quiet, Here
<1>5. PostfirePort(e) => pc[e] = "postfire" /\ ~Quiet(e)
  BY PostfireStale DEF Before, PostfirePort, At
<1>6. \A d \in Cpu : /\ Sleeping(d)' <=> Sleeping(d)
                     /\ Idle(d)' <=> Idle(d)
                     /\ Staying(d)' <=> Staying(d)
                     /\ At(d, "post")' <=> At(d, "post")
                     /\ At(d, "drain")' <=> At(d, "drain")
                     /\ \A c \in Cpu : HasScanned(d, c)' <=> HasScanned(d, c)
  BY <1>1, <1>4 DEF Sleeping, Idle, Staying, Locked, At, HasScanned, ActorLoops
<1>7. ASSUME NEW d \in Cpu PROVE OneInv(d)'
  <2>1. Running(d)'
    BY <1>1, <1>4, <1>6 DEF Before, OneInv, Running, At, ActorLoops
  <2>2. Stale(d)' => Cpu # {d}
    BY <1>3 DEF Before, OneInv
  <2> QED BY <1>1, <2>1, <2>2 DEF Before, OneInv
<1>8. ASSUME NEW c \in Cpu, NEW d \in Cpu, c # d PROVE PairInv(c, d)'
  <2>1. PairInv(c, d) /\ (e = c \/ e = d)
    BY <1>8, TwoCpus DEF Before
  <2>2. PostsWanted(c, d)'
    <3>1. At(d, "post") => i'[d] = i[d]
      BY <1>1, <1>4 DEF At, ActorLoops
    <3> QED BY <1>1, <1>6, <2>1, <3>1 DEF PairInv, PostsWanted
  <2>3. affected[c] \subseteq affected'[c] /\ (quiescent[c]' => quiescent[c])
    BY <1>1, <1>8
  <2>4. Sleeping(e) => FALSE
    BY <1>1 DEF Sleeping, ActorLoops
  <2>5. StaleKnown(c, d)'
    BY <1>1, <1>3, <1>6, <2>1, <2>3, <2>4 DEF PairInv, StaleKnown
  <2>6. StaleWoken(c, d)'
    <3>1. ~HasScanned(e, d)
      BY <1>1 DEF HasScanned, At, ActorLoops
    <3> QED BY <1>1, <1>3, <1>6, <2>1, <2>3, <2>4, <3>1 DEF PairInv, StaleWoken
  <2>7. StaleCounted(c, d)'
    <3>1. pc[c] = "postfire" /\ ~Quiet(c) =>
            (pc'[c] = "postfire" /\ ~Quiet(c)') \/ ~quiescent'[c]
      BY <1>1, <1>4
    <3> QED BY <1>1, <1>3, <1>5, <1>6, <2>1, <2>3, <3>1 DEF PairInv, StaleCounted, At
  <2> QED BY <2>2, <2>5, <2>6, <2>7 DEF PairInv
<1> QED BY <1>7, <1>8 DEF After

\* On two CPUs it is enough to look at the CPU of the step and the other one.
LEMMA PairsAfter ==
  ASSUME Before, NEW e \in Cpu, OneInv(e)',
         \A o \in Cpu \ {e} : OneInv(o)' /\ PairInv(o, e)' /\ PairInv(e, o)'
  PROVE  After
BY TwoCpus DEF Before, After

\* The other CPU o during a step of e that publishes nothing.
LEMMA OtherKept ==
  ASSUME Before, NEW e \in Cpu, Thread(e), NEW o \in Cpu \ {e}
  PROVE  /\ pc'[o] = pc[o] /\ i'[o] = i[o]
         /\ Sleeping(o)' <=> Sleeping(o)
         /\ Locked(o)' <=> Locked(o)
         /\ Quiet(o)' <=> Quiet(o)
         /\ \A c \in Cpu : HasScanned(o, c)' <=> HasScanned(o, c)
         /\ ~PostfirePort(e) => (Stale(o)' => Stale(o)) /\ (Stale(e)' => Stale(e))
         /\ OneInv(e) /\ OneInv(o) /\ PairInv(o, e) /\ PairInv(e, o)
<1>1. pc'[o] = pc[o] /\ i'[o] = i[o]
  BY OthersStay DEF Before, TypeOK, OthersKept
<1>2. \A b \in Here(o) : fired'[b] = fired[b]
  BY OwnPorts DEF Before, Here
<1>3. Quiet(o)' <=> Quiet(o)
  BY <1>1, <1>2 DEF Quiet, Here
<1>4. ~PostfirePort(e) => (Stale(o)' => Stale(o)) /\ (Stale(e)' => Stale(e))
  BY StaleStep DEF Before
<1> QED BY <1>1, <1>3, <1>4 DEF Sleeping, Locked, HasScanned, At, Before

LEMMA WakeProtocol ==
  ASSUME Before, NEW e \in Cpu, Wake(e)
  PROVE  After
<1> DEFINE x == i[e]
<1>1. /\ pc[e] = "wake" /\ pc'[e] \in {"wake", "post", "prefire"} /\ x \in Cpu
      /\ pc'[e] = "post" <=> Wakes(e, x)
      /\ pc'[e] = "post" => i'[e] = x
      /\ UNCHANGED <<stay, quiescent, sleep, quiescentAt, currSleepEvent, sem>>
      /\ \A d \in Cpu : d # x => oldSleep'[e][d] = oldSleep[e][d]
      /\ oldSleep'[e][x] = IF Wakes(e, x) \/ (Changed(e, x) /\ ~Odd(sleep[x])) THEN sleep[x]
                                                                          ELSE oldSleep[e][x]
      /\ \A d \in Cpu : d # e => oldSleep'[d] = oldSleep[d] /\ affected'[d] = affected[d]
      /\ affected'[e] = IF Wakes(e, x) THEN affected[e] \ {x} ELSE affected[e]
  <2>1. x \in Cpu /\ pc[e] = "wake"
    BY DEF Wake, At, Before, TypeOK, PlacesTyped
  <2>2. Wake(e) /\ NoteSleep(e, x) /\ PlacesTyped /\ SyncTyped
    BY DEF Wake, Before, TypeOK
  <2> HIDE DEF x
  <2>3. /\ pc'[e] \in {"wake", "post", "prefire"}
        /\ pc'[e] = "post" <=> Wakes(e, x)
        /\ pc'[e] = "post" => i'[e] = x
    BY <2>1, <2>2 DEF Wake, NextCpu, Goto, PlacesTyped, x
  <2>4. /\ UNCHANGED <<stay, quiescent, sleep, quiescentAt, currSleepEvent, sem>>
        /\ \A d \in Cpu : d # e => affected'[d] = affected[d]
        /\ affected'[e] = IF Wakes(e, x) THEN affected[e] \ {x} ELSE affected[e]
    BY <2>1, <2>2 DEF Wake, sleepVars, SyncTyped, x
  <2>5. /\ \A d \in Cpu : d # x => oldSleep'[e][d] = oldSleep[e][d]
        /\ oldSleep'[e][x] = IF Wakes(e, x) \/ (Changed(e, x) /\ ~Odd(sleep[x])) THEN sleep[x]
                                                                            ELSE oldSleep[e][x]
        /\ \A d \in Cpu : d # e => oldSleep'[d] = oldSleep[d]
    BY <2>1, <2>2 DEF NoteSleep, SyncTyped
  <2> QED BY <2>1, <2>3, <2>4, <2>5
<1>2. Thread(e) /\ ~PostfirePort(e)
  BY <1>1 DEF Thread, PostfirePort, At
<1>3. ~Stale(e)' /\ ~Stale(e)
  BY LookingFresh DEF Looking, Wake, NextCpu, Goto, At, Before, TypeOK, PlacesTyped
<1>4. ~Sleeping(e) /\ ~Sleeping(e)' /\ ~Idle(e) /\ ~Idle(e)' /\ ~At(e, "post")
  BY <1>1 DEF Sleeping, Idle, At
<1>5. \A d \in Cpu : Sleeping(d) <=> Odd(sleep[d])
  BY DEF Before, SleepBookkeeping
<1> HIDE DEF x
<1>6. OneInv(e)'
  <2>1. Wakes(e, x) => x # e
    BY DEF Wakes, SeenAsleep, Changed
  <2> QED BY <1>1, <1>3, <2>1 DEF Before, OneInv, Running, At, Sleeping
<1>7. ASSUME NEW o \in Cpu \ {e}
      PROVE  OneInv(o)' /\ PairInv(o, e)' /\ PairInv(e, o)'
  <2>1. /\ pc'[o] = pc[o] /\ i'[o] = i[o] /\ (Sleeping(o)' <=> Sleeping(o))
        /\ (Locked(o)' <=> Locked(o)) /\ (Stale(o)' => Stale(o))
        /\ OneInv(o) /\ PairInv(o, e) /\ PairInv(e, o)
        /\ (Idle(o)' <=> Idle(o)) /\ (Idle(o) => Sleeping(o))
    BY <1>1, <1>2, OtherKept DEF Idle, Sleeping
  <2>2. OneInv(o)'
    BY <1>1, <2>1 DEF OneInv, Running, At
  <2>3. oldSleep[e][o] \in Nat /\ sleep[o] \in Nat /\ affected[e] \subseteq Cpu
    BY DEF Before, TypeOK, SyncTyped
  <2>4. Wakes(e, o) => Idle(o) /\ Sleeping(o) /\ o \in affected[e]
    BY <1>4, <1>5, <2>1 DEF Wakes, SeenAsleep, Changed, PairInv, PostsWanted
  <2>5. x = e \/ x = o
    BY <1>1, TwoCpus DEF Before
  <2>6. PostsWanted(o, e)'
    <3>1. CASE x = o /\ Wakes(e, x)
      BY <1>1, <1>4, <2>1, <2>3, <2>4, <3>1 DEF PostsWanted, At
    <3>2. CASE ~(x = o /\ Wakes(e, x))
      <4>1. ~Wakes(e, x)
        BY <2>5, <3>2 DEF Wakes, SeenAsleep, Changed
      <4>2. pc'[e] # "post" /\ (oldSleep'[e][o] = oldSleep[e][o] \/ ~Sleeping(o))
        BY <1>1, <1>5, <4>1
      <4>3. oldSleep'[e][o] <= sleep[o]
        BY <1>1, <2>1, <2>3 DEF PairInv, PostsWanted
      <4> QED BY <1>1, <1>4, <2>1, <4>2, <4>3 DEF PairInv, PostsWanted, At
    <3> QED BY <3>1, <3>2
  <2>7. PostsWanted(e, o)'
    BY <1>1, <1>4, <2>1 DEF PairInv, PostsWanted, At
  <2>8. StaleKnown(o, e)' /\ StaleWoken(o, e)' /\ StaleCounted(o, e)'
    BY <1>3 DEF StaleKnown, StaleWoken, StaleCounted
  <2>9. StaleKnown(e, o)'
    BY <1>1, <1>4, <2>1, <2>4, <2>5 DEF PairInv, StaleKnown, Staying
  <2>10. StaleWoken(e, o)'
    <3>1. CASE x = o /\ Wakes(e, x)
      BY <1>1, <3>1 DEF StaleWoken, At
    <3>2. CASE ~(x = o /\ Wakes(e, x))
      <4>1. affected'[e] = affected[e]
        BY <1>1, <2>5, <3>2 DEF Wakes, SeenAsleep, Changed
      <4>2. ~HasScanned(e, o)'
        BY <1>1 DEF HasScanned, At
      <4> QED BY <1>1, <1>4, <2>1, <4>1, <4>2 DEF PairInv, StaleWoken
    <3> QED BY <3>1, <3>2
  <2>11. StaleCounted(e, o)'
    BY <1>1, <1>4, <2>1 DEF PairInv, StaleCounted, Staying, At
  <2> QED BY <2>2, <2>6, <2>7, <2>8, <2>9, <2>10, <2>11 DEF PairInv
<1> QED BY <1>6, <1>7, PairsAfter

LEMMA PostProtocol ==
  ASSUME Before, NEW e \in Cpu, Post(e)
  PROVE  After
<1>1. /\ pc[e] = "post" /\ pc'[e] \in {"wake", "prefire"} /\ i[e] \in Cpu
      /\ UNCHANGED <<stay, quiescent, oldSleep, affected, sleep, quiescentAt, currSleepEvent>>
      /\ \A d \in Cpu : sem'[d] = IF d = i[e] THEN sem[d] + 1 ELSE sem[d]
  BY DEF Post, Goto, At, localVars, sleepVars, Before, TypeOK, PlacesTyped, SyncTyped
<1>2. Thread(e) /\ ~PostfirePort(e)
  BY <1>1 DEF Thread, PostfirePort, At
<1>3. ~Stale(e)' /\ ~Stale(e)
  BY <1>1, LookingFresh DEF Looking, Post, Goto, Before, TypeOK, PlacesTyped
<1>4. ~Sleeping(e) /\ ~Sleeping(e)' /\ ~Idle(e) /\ ~Idle(e)' /\ ~At(e, "post")'
  BY <1>1 DEF Sleeping, Idle, At
<1>5. i[e] # e
  BY <1>1 DEF Before, OneInv, Running, At
<1>6. OneInv(e)'
  BY <1>1, <1>3, <1>5 DEF Before, OneInv, Running, At, Sleeping
<1>7. ASSUME NEW o \in Cpu \ {e}
      PROVE  OneInv(o)' /\ PairInv(o, e)' /\ PairInv(e, o)'
  <2>1. /\ pc'[o] = pc[o] /\ i'[o] = i[o] /\ (Sleeping(o)' <=> Sleeping(o))
        /\ (Locked(o)' <=> Locked(o)) /\ (Stale(o)' => Stale(o))
        /\ OneInv(o) /\ PairInv(o, e) /\ PairInv(e, o)
    BY <1>2, OtherKept
  <2>2. /\ i[e] = o /\ Idle(o) /\ oldSleep[e][o] = sleep[o] /\ Sleeping(o) /\ ~At(o, "post")
        /\ sem[o] = 0 /\ sem'[o] = 1 /\ ~Idle(o)'
    BY <1>1, <2>1 DEF PairInv, PostsWanted, At, Idle, Sleeping
  <2>3. OneInv(o)'
    BY <1>1, <2>1, <2>2 DEF OneInv, Running, At
  <2>4. PostsWanted(o, e)'
    BY <1>1, <1>4, <2>1, <2>2 DEF PairInv, PostsWanted, At
  <2>5. PostsWanted(e, o)'
    BY <1>1, <1>4, <2>1, <2>2 DEF PairInv, PostsWanted, At
  <2>6. StaleKnown(o, e)' /\ StaleWoken(o, e)' /\ StaleCounted(o, e)'
    BY <1>3 DEF StaleKnown, StaleWoken, StaleCounted
  <2>7. StaleKnown(e, o)' /\ StaleWoken(e, o)'
    BY <2>1, <2>2 DEF StaleKnown, StaleWoken
  <2>8. StaleCounted(e, o)'
    BY <1>1, <1>4, <2>1 DEF PairInv, StaleCounted, Staying, At
  <2> QED BY <2>3, <2>4, <2>5, <2>6, <2>7, <2>8 DEF PairInv
<1> QED BY <1>6, <1>7, PairsAfter

LEMMA LockProtocol ==
  ASSUME Before, NEW e \in Cpu, Lock(e)
  PROVE  After
<1>1. /\ pc[e] = "lock" /\ pc'[e] = "scan" /\ i'[e] = 0 /\ mutex = Nobody
      /\ UNCHANGED <<quiescent, oldSleep, affected, sleep, quiescentAt, currSleepEvent, sem>>
      /\ \A d \in Cpu : d # e => stay'[d] = stay[d]
  BY DEF Lock, MutexLock, Goto, At, sleepVars, Before, TypeOK, PlacesTyped, SyncTyped
<1>2. Thread(e) /\ ~PostfirePort(e)
  BY <1>1 DEF Thread, PostfirePort, At, Lock
<1>3. ~Sleeping(e) /\ ~Sleeping(e)' /\ ~Idle(e) /\ ~Idle(e)' /\ ~Locked(e)
  BY <1>1 DEF Sleeping, Idle, Locked
<1>4. \A c \in Cpu : ~HasScanned(e, c)'
  BY <1>1 DEF HasScanned, At, Cpu
<1>5. Stale(e)' => Stale(e)
  BY <1>2, StaleStep DEF Before
<1>6. OneInv(e)'
  BY <1>1, <1>5 DEF Before, OneInv, Running, At, Sleeping
<1>7. ASSUME NEW o \in Cpu \ {e}
      PROVE  OneInv(o)' /\ PairInv(o, e)' /\ PairInv(e, o)'
  <2>1. /\ pc'[o] = pc[o] /\ i'[o] = i[o] /\ (Sleeping(o)' <=> Sleeping(o))
        /\ (Locked(o)' <=> Locked(o)) /\ (Stale(o)' => Stale(o)) /\ (Quiet(o)' <=> Quiet(o))
        /\ (HasScanned(o, e)' <=> HasScanned(o, e))
        /\ OneInv(o) /\ PairInv(o, e) /\ PairInv(e, o)
    BY <1>2, OtherKept
  <2>2. (Idle(o)' <=> Idle(o)) /\ (Staying(o)' <=> Staying(o))
    BY <1>1, <2>1 DEF Idle, Staying
  <2>3. OneInv(o)'
    BY <1>1, <2>1 DEF OneInv, Running, At
  <2>4. PostsWanted(o, e)' /\ PostsWanted(e, o)'
    BY <1>1, <1>3, <2>1, <2>2 DEF PairInv, PostsWanted, At
  <2>5. StaleKnown(o, e)' /\ StaleKnown(e, o)'
    BY <1>1, <1>3, <1>4, <1>5, <2>1, <2>2 DEF PairInv, StaleKnown, Staying
  <2>6. StaleWoken(o, e)' /\ StaleWoken(e, o)'
    BY <1>1, <1>3, <1>4, <1>5, <2>1, <2>2 DEF PairInv, StaleWoken, At
  <2>7. StaleCounted(o, e)' /\ StaleCounted(e, o)'
    BY <1>1, <1>3, <1>5, <2>1, <2>2 DEF PairInv, StaleCounted, Staying, At
  <2> QED BY <2>3, <2>4, <2>5, <2>6, <2>7 DEF PairInv
<1> QED BY <1>6, <1>7, PairsAfter

LEMMA ScanProtocol ==
  ASSUME Before, NEW e \in Cpu, Scan(e)
  PROVE  After
<1> DEFINE x == i[e]
<1>1. /\ pc[e] = "scan" /\ pc'[e] \in {"scan", "decide"} /\ x \in Cpu
      /\ pc'[e] = "scan" => i'[e] = x + 1
      /\ pc'[e] = "decide" => x = N - 1
      /\ UNCHANGED <<quiescent, sleep, quiescentAt, currSleepEvent>>
  <2>1. x \in Cpu /\ pc[e] = "scan" /\ PlacesTyped
    BY DEF Scan, At, Before, TypeOK, PlacesTyped
  <2>2. x \in 0 .. N - 1 /\ N \in Nat
    BY <2>1, CpuFacts DEF Cpu
  <2>3. UNCHANGED <<quiescent, sleep, quiescentAt, currSleepEvent>> /\ NextCpu(e, "decide", 0)
    BY DEF Scan, sleepVars
  <2> QED BY <2>1, <2>2, <2>3 DEF NextCpu, Goto, PlacesTyped
<1>2. Thread(e) /\ ~PostfirePort(e)
  BY <1>1 DEF Thread, PostfirePort, At
<1>3. ~Sleeping(e) /\ ~Sleeping(e)' /\ ~Idle(e) /\ ~Idle(e)' /\ Locked(e) /\ Locked(e)'
  BY <1>1 DEF Sleeping, Idle, Locked
<1>4. \A d \in Cpu : Sleeping(d) <=> Odd(sleep[d])
  BY DEF Before, SleepBookkeeping
<1>5. Stale(e)' => Stale(e)
  BY <1>2, StaleStep DEF Before
<1>6. SyncTyped /\ NoteSleep(e, x)
  BY DEF Scan, Before, TypeOK
<1>7. /\ \A d \in Cpu : sem'[d] = IF d = x /\ Wakes(e, x) THEN sem[d] + 1 ELSE sem[d]
      /\ \A d \in Cpu : d # e => stay'[d] = stay[d]
      /\ stay'[e] <=> stay[e] \/ DataForUs(e, x)
      /\ \A d \in Cpu : d # x => oldSleep'[e][d] = oldSleep[e][d]
      /\ oldSleep'[e][x] = IF Wakes(e, x) \/ (Changed(e, x) /\ ~Odd(sleep[x])) THEN sleep[x]
                                                                          ELSE oldSleep[e][x]
      /\ \A d \in Cpu : d # e => oldSleep'[d] = oldSleep[d]
  <2> HIDE DEF x
  <2>1. /\ \A d \in Cpu : sem'[d] = IF d = x /\ Wakes(e, x) THEN sem[d] + 1 ELSE sem[d]
        /\ \A d \in Cpu : d # e => stay'[d] = stay[d]
        /\ stay'[e] <=> stay[e] \/ DataForUs(e, x)
    BY <1>1, <1>6 DEF Scan, SyncTyped, x
  <2>2. /\ \A d \in Cpu : d # x => oldSleep'[e][d] = oldSleep[e][d]
        /\ oldSleep'[e][x] = IF Wakes(e, x) \/ (Changed(e, x) /\ ~Odd(sleep[x])) THEN sleep[x]
                                                                            ELSE oldSleep[e][x]
        /\ \A d \in Cpu : d # e => oldSleep'[d] = oldSleep[d]
    BY <1>1, <1>6 DEF NoteSleep, SyncTyped
  <2> QED BY <2>1, <2>2
<1>8. affected' = [affected EXCEPT ![e] = IF Wakes(e, x) THEN @ \ {x} ELSE @,
                                   ![x] = Acknowledged(e, x)]
  BY DEF Scan
<1> HIDE DEF x
<1>9. OneInv(e)'
  BY <1>1, <1>5, <1>7 DEF Before, OneInv, Running, At, Sleeping, Wakes, SeenAsleep, Changed
<1>10. ASSUME NEW o \in Cpu \ {e}
       PROVE  OneInv(o)' /\ PairInv(o, e)' /\ PairInv(e, o)'
  <2>1. /\ pc'[o] = pc[o] /\ i'[o] = i[o] /\ (Sleeping(o)' <=> Sleeping(o))
        /\ (Locked(o)' <=> Locked(o)) /\ (Stale(o)' => Stale(o)) /\ (Quiet(o)' <=> Quiet(o))
        /\ (HasScanned(o, e)' <=> HasScanned(o, e))
        /\ OneInv(o) /\ PairInv(o, e) /\ PairInv(e, o)
    BY <1>2, OtherKept
  <2>2. ~Locked(o)
    BY <1>3 DEF Before, SleepBookkeeping
  <2>3. CASE x = e
    <3>1. ~Wakes(e, x) /\ ~SeenAsleep(e, x) /\ ~Changed(e, x)
      BY <2>3 DEF Wakes, SeenAsleep, Changed
    <3>2. UNCHANGED affected
      BY <1>6, <1>8, <2>3, <3>1 DEF Acknowledged, SyncTyped
    <3>3. HasScanned(e, o)' <=> HasScanned(e, o)
      <4>1. e \in 0 .. N - 1 /\ o \in 0 .. N - 1 /\ N \in Nat
        BY CpuFacts DEF Cpu
      <4> QED BY <1>1, <2>3, <4>1 DEF HasScanned, At, x
    <3>4. /\ sem'[o] = sem[o] /\ stay'[o] = stay[o] /\ oldSleep'[o] = oldSleep[o]
          /\ oldSleep'[e][o] = oldSleep[e][o] /\ (stay'[e] <=> stay[e])
      BY <1>7, <2>3, <3>1 DEF DataForUs
    <3>5. (Idle(o)' <=> Idle(o)) /\ (Staying(o)' <=> Staying(o)) /\ (Staying(e)' <=> Staying(e))
      BY <1>3, <2>1, <3>4 DEF Idle, Staying
    <3>6. OneInv(o)'
      BY <1>1, <2>1, <3>4 DEF OneInv, Running, At
    <3>7. PostsWanted(o, e)' /\ PostsWanted(e, o)'
      BY <1>1, <1>3, <2>1, <3>4, <3>5 DEF PairInv, PostsWanted, At
    <3>8. StaleKnown(o, e)' /\ StaleKnown(e, o)'
      BY <1>1, <1>3, <1>5, <2>1, <3>2, <3>3, <3>4, <3>5 DEF PairInv, StaleKnown
    <3>9. StaleWoken(o, e)' /\ StaleWoken(e, o)'
      BY <1>1, <1>3, <2>1, <3>2, <3>3, <3>5 DEF PairInv, StaleWoken, At
    <3>10. StaleCounted(o, e)' /\ StaleCounted(e, o)'
      BY <1>1, <1>3, <1>5, <2>1, <3>5 DEF PairInv, StaleCounted, At
    <3> QED BY <3>6, <3>7, <3>8, <3>9, <3>10 DEF PairInv
  <2>4. CASE x = o
    <3>1. /\ affected'[e] = IF Wakes(e, o) THEN affected[e] \ {o} ELSE affected[e]
          /\ affected'[o] = IF SeenAsleep(e, o) THEN affected[o] \ {e} ELSE affected[o]
      BY <1>6, <1>8, <2>4 DEF Acknowledged, SyncTyped
    <3>2. /\ sem'[o] = IF Wakes(e, o) THEN sem[o] + 1 ELSE sem[o]
          /\ sem[o] \in Nat /\ oldSleep[e][o] \in Nat /\ sleep[o] \in Nat
          /\ stay'[o] = stay[o] /\ oldSleep'[o] = oldSleep[o]
          /\ stay'[e] <=> stay[e] \/ (SeenAsleep(e, o) /\ e \in affected[o])
          /\ oldSleep'[e][o] = IF Wakes(e, o) \/ (Changed(e, o) /\ ~Odd(sleep[o]))
                               THEN sleep[o] ELSE oldSleep[e][o]
      BY <1>6, <1>7, <2>4 DEF DataForUs, SyncTyped
    <3>3. /\ SeenAsleep(e, o) <=> oldSleep[e][o] # sleep[o] /\ Sleeping(o)
          /\ Wakes(e, o) <=> SeenAsleep(e, o) /\ o \in affected[e]
          /\ Changed(e, o) <=> oldSleep[e][o] # sleep[o]
      BY <1>4 DEF Wakes, SeenAsleep, Changed
    <3>4. ~HasScanned(e, o)
      <4>1. o \in 0 .. N - 1 /\ N \in Nat
        BY CpuFacts DEF Cpu
      <4> QED BY <1>1, <2>4, <4>1 DEF HasScanned, At, x
    <3>5. SeenAsleep(e, o) => Idle(o)
      BY <1>3, <2>1, <3>3 DEF PairInv, PostsWanted
    <3>6. /\ Idle(o)' <=> Idle(o) /\ ~Wakes(e, o)
          /\ Idle(o) => Sleeping(o)
          /\ ~At(e, "post") /\ ~At(e, "post")' /\ ~Staying(o) /\ ~Staying(o)'
      BY <1>1, <2>1, <2>2, <3>2 DEF Idle, Sleeping, At, Staying
    <3>7. OneInv(o)'
      BY <1>1, <2>1, <3>2, <3>3 DEF OneInv, Running, At
    <3>8. PostsWanted(o, e)'
      BY <1>1, <1>3, <1>4, <2>1, <3>2, <3>3, <3>6 DEF PairInv, PostsWanted, At
    <3>9. PostsWanted(e, o)'
      BY <1>1, <1>3, <2>1, <3>2, <3>3, <3>5, <3>6 DEF PairInv, PostsWanted, At
    <3>10. Stale(e)' /\ Sleeping(o) => Staying(e)'
      <4>1. Stale(e)' => Staying(e) \/ (e \in affected[o] /\ (Sleeping(o) => oldSleep[e][o] # sleep[o]))
        BY <1>3, <1>5, <2>1 DEF PairInv, StaleKnown
      <4> QED BY <1>3, <3>2, <3>3, <4>1 DEF Staying
    <3>11. StaleKnown(o, e)'
      <4>1. Stale(e)' /\ ~Sleeping(o) => e \in affected'[o] \/ Staying(e)'
        BY <1>3, <1>5, <2>1, <3>1, <3>2, <3>3 DEF PairInv, StaleKnown, Staying
      <4> QED BY <2>1, <3>10, <4>1 DEF StaleKnown
    <3>12. StaleKnown(e, o)'
      BY <1>3, <2>1, <3>1, <3>3, <3>6 DEF PairInv, StaleKnown
    <3>13. StaleWoken(o, e)'
      BY <1>3 DEF StaleWoken
    <3>14. StaleWoken(e, o)'
      <4>1. Stale(o) /\ Idle(o) => o \in affected[e]
        BY <2>1, <3>6 DEF PairInv, StaleWoken
      <4>2. Idle(o) => oldSleep[e][o] # sleep[o]
        BY <2>1, <3>6 DEF PairInv, PostsWanted
      <4> QED BY <2>1, <3>3, <3>6, <4>1, <4>2 DEF StaleWoken
    <3>15. StaleCounted(o, e)'
      <4>1. Stale(e)' => Staying(e)' \/ ~Sleeping(o)
        BY <3>10
      <4>2. Staying(e) => Staying(e)'
        BY <1>3, <3>2 DEF Staying
      <4> QED BY <1>1, <1>3, <1>5, <2>1, <4>1, <4>2 DEF PairInv, StaleCounted, At
    <3>16. StaleCounted(e, o)'
      BY <1>1, <1>3, <2>1, <3>6 DEF PairInv, StaleCounted, At
    <3> QED BY <3>7, <3>8, <3>9, <3>11, <3>12, <3>13, <3>14, <3>15, <3>16 DEF PairInv
  <2> QED BY <1>1, <2>3, <2>4, TwoCpus DEF Before
<1> QED BY <1>9, <1>10, PairsAfter

\* Back to the top of the loop, without having slept.
LEMMA StayAwakeProtocol ==
  ASSUME Before, NEW e \in Cpu, StayAwake(e)
  PROVE  After
<1>1. /\ pc[e] = "decide" /\ pc'[e] = "drain"
      /\ UNCHANGED <<stay, quiescent, oldSleep, affected, sleep, quiescentAt, currSleepEvent, sem>>
  BY DEF StayAwake, Goto, At, localVars, sleepVars, Before, TypeOK, PlacesTyped
<1>2. Thread(e) /\ ~PostfirePort(e)
  BY <1>1 DEF Thread, PostfirePort, At
<1>3. ~Sleeping(e) /\ ~Sleeping(e)' /\ ~Idle(e) /\ ~Idle(e)' /\ ~HasScanned(e, e)'
  BY <1>1 DEF Sleeping, Idle, HasScanned, At
<1>4. ~Stale(e)'
  BY <1>1, LookingFresh DEF Looking
<1>5. OneInv(e)'
  BY <1>1, <1>4 DEF Before, OneInv, Running, At, Sleeping
<1>6. ASSUME NEW o \in Cpu \ {e}
      PROVE  OneInv(o)' /\ PairInv(o, e)' /\ PairInv(e, o)'
  <2>1. /\ pc'[o] = pc[o] /\ i'[o] = i[o] /\ (Sleeping(o)' <=> Sleeping(o))
        /\ (Locked(o)' <=> Locked(o)) /\ (Stale(o)' => Stale(o)) /\ (Quiet(o)' <=> Quiet(o))
        /\ OneInv(o) /\ PairInv(o, e) /\ PairInv(e, o)
    BY <1>2, OtherKept
  <2>2. (Idle(o)' <=> Idle(o)) /\ (Staying(o)' <=> Staying(o)) /\ ~HasScanned(e, o)'
    BY <1>1, <2>1 DEF Idle, Staying, HasScanned, At
  <2>3. OneInv(o)'
    BY <1>1, <2>1 DEF OneInv, Running, At
  <2>4. PostsWanted(o, e)' /\ PostsWanted(e, o)'
    BY <1>1, <1>3, <2>1, <2>2 DEF PairInv, PostsWanted, At
  <2>5. StaleKnown(o, e)' /\ StaleWoken(o, e)' /\ StaleCounted(o, e)'
    BY <1>4 DEF StaleKnown, StaleWoken, StaleCounted
  <2>6. StaleKnown(e, o)' /\ StaleWoken(e, o)' /\ StaleCounted(e, o)'
    BY <1>1, <1>3, <2>1, <2>2 DEF PairInv, StaleKnown, StaleWoken, StaleCounted, At
  <2> QED BY <2>3, <2>4, <2>5, <2>6 DEF PairInv
<1> QED BY <1>5, <1>6, PairsAfter

\* e may end the execution, but does not do so in this step.
LEMMA GoToSleepProtocol ==
  ASSUME Before, NEW e \in Cpu, GoToSleep(e)
  PROVE  After
<1>1. /\ pc[e] = "decide" /\ pc'[e] = "asleep" /\ ~stay[e]
      /\ UNCHANGED <<stay, oldSleep, affected>>
      /\ \A d \in Cpu : d # e => quiescentAt'[d] = quiescentAt[d] /\ sleep'[d] = sleep[d]
                                 /\ quiescent'[d] = quiescent[d]
      /\ quiescentAt'[e] = currSleepEvent' /\ sleep'[e] = sleep[e] + 1
      /\ currSleepEvent' = IF quiescent[e] THEN currSleepEvent ELSE currSleepEvent + 1
  BY DEF GoToSleep, Goto, At, Before, TypeOK, PlacesTyped, SyncTyped
<1>2. /\ \A d \in Cpu : sem'[d] = sem[d] \/ (sem'[d] = sem[d] + 1 /\ d \in Lagging
                                                             /\ sleepers + 1 = N)
      /\ \A d \in Cpu : sem[d] \in Nat
  BY DEF GoToSleep, Before, TypeOK, SyncTyped
<1>3. Thread(e) /\ ~PostfirePort(e)
  BY <1>1 DEF Thread, PostfirePort, At
<1>4. sem[e] = 0 /\ sem'[e] = 0
  BY <1>1, <1>2 DEF Before, OneInv, Running, Sleeping, At, Lagging
<1>5. Idle(e)' /\ ~Idle(e) /\ Sleeping(e)' /\ ~Sleeping(e) /\ Locked(e) /\ ~Locked(e)'
  BY <1>1, <1>4 DEF Idle, Sleeping, Locked
<1>6. currSleepEvent \in Nat /\ currSleepEvent <= currSleepEvent'
  BY <1>1 DEF Before, TypeOK, SyncTyped
<1>7. Stale(e)' => Stale(e)
  BY <1>3, StaleStep DEF Before
<1>8. OneInv(e)'
  BY <1>1, <1>4, <1>6, <1>7 DEF Before, OneInv, Running, At, Sleeping
<1>9. ASSUME NEW o \in Cpu \ {e}
      PROVE  OneInv(o)' /\ PairInv(o, e)' /\ PairInv(e, o)'
  <2>1. /\ pc'[o] = pc[o] /\ i'[o] = i[o] /\ (Sleeping(o)' <=> Sleeping(o))
        /\ (Locked(o)' <=> Locked(o)) /\ (Stale(o)' => Stale(o)) /\ (Quiet(o)' <=> Quiet(o))
        /\ (HasScanned(o, e)' <=> HasScanned(o, e))
        /\ OneInv(o) /\ PairInv(o, e) /\ PairInv(e, o)
    BY <1>3, OtherKept
  <2>2. ~Locked(o) /\ ~Locked(o)' /\ ~Staying(o) /\ ~Staying(e) /\ ~HasScanned(o, e)
    BY <1>1, <1>5, <2>1 DEF Before, SleepBookkeeping, Staying, Locked, HasScanned, At
  <2>3. HasScanned(e, o)
    BY <1>1 DEF HasScanned, At
  <2>4. ~At(o, "post") /\ ~At(e, "post") /\ ~At(e, "post")' /\ ~At(e, "postfire")
    BY <1>1, <1>5, <2>1 DEF PairInv, PostsWanted, At
  <2>5. sem'[o] > 0 => sem[o] > 0 \/ Sleeping(o)
    <3> SUFFICES ASSUME sleepers + 1 = N, ~Sleeping(o) PROVE FALSE
      BY <1>2
    <3>1. N = 2
      BY TwoCpus DEF Before
    <3>2. {c \in Cpu : Sleeping(c)} = {}
      BY <1>5, TwoCpus DEF Before
    <3> QED BY <3>1, <3>2, FS_EmptySet DEF Before, SleepBookkeeping
  <2>6. Idle(o)' => Idle(o)
    BY <1>2, <2>1 DEF Idle
  <2>7. /\ sleep[e] \in Nat /\ oldSleep[o][e] \in Nat /\ oldSleep[o][e] <= sleep[e]
        /\ oldSleep[e][o] <= sleep[o]
    BY <2>1 DEF Before, TypeOK, SyncTyped, PairInv, PostsWanted
  <2>8. OneInv(o)'
    BY <1>1, <1>6, <2>1, <2>4, <2>5 DEF OneInv, Running, At, Before, TypeOK, SyncTyped
  <2>9. PostsWanted(o, e)'
    BY <1>1, <1>5, <2>1, <2>4, <2>6, <2>7 DEF PairInv, PostsWanted
  <2>10. PostsWanted(e, o)'
    <3>1. oldSleep'[o][e] < sleep'[e]
      BY <1>1, <2>7
    <3>2. ~At(o, "post")'
      BY <2>1, <2>4 DEF At
    <3> QED BY <1>1, <1>5, <2>7, <3>1, <3>2 DEF PostsWanted
  <2>11. StaleKnown(o, e)'
    BY <1>5 DEF StaleKnown
  <2>12. StaleKnown(e, o)'
    <3>1. oldSleep'[o][e] # sleep'[e]
      BY <1>1, <2>7
    <3> QED BY <1>1, <2>1, <2>2, <3>1 DEF PairInv, StaleKnown
  <2>13. Stale(e) => e \in affected[o] /\ ~Sleeping(o)
    BY <1>5, <2>1, <2>2, <2>3 DEF PairInv, StaleKnown
  <2>14. StaleWoken(o, e)'
    BY <1>1, <1>7, <2>1, <2>2, <2>13 DEF StaleWoken
  <2>15. StaleWoken(e, o)'
    BY <2>1, <2>3, <2>4, <2>6 DEF PairInv, StaleWoken
  <2>16. StaleCounted(o, e)'
    BY <1>1, <1>5, <1>7, <2>1, <2>2, <2>13 DEF PairInv, StaleCounted, At
  <2>17. StaleCounted(e, o)'
    <3>1. Stale(o) => ~quiescent[e] \/ (Sleeping(o) /\ quiescentAt[o] < currSleepEvent)
      BY <1>5, <2>1, <2>2, <2>4 DEF PairInv, StaleCounted
    <3>2. quiescentAt[o] <= currSleepEvent /\ quiescentAt[o] \in Nat
      BY <2>1 DEF OneInv, Before, TypeOK, SyncTyped
    <3>3. Stale(o) /\ Sleeping(o) => quiescentAt'[o] < currSleepEvent'
      BY <1>1, <1>6, <3>1, <3>2
    <3> QED BY <1>5, <2>1, <3>3 DEF StaleCounted
  <2> QED BY <2>8, <2>9, <2>10, <2>11, <2>12, <2>14, <2>15, <2>16, <2>17 DEF PairInv
<1> QED BY <1>8, <1>9, PairsAfter

\* Asleep, from one wait to the next.
LEMMA AsleepProtocol ==
  ASSUME Before, NEW e \in Cpu, ~terminate,
         \/ CheckTerminate(e, "asleep", "wait") \/ CheckTerminate(e, "woken", "relock")
         \/ Wait(e)
  PROVE  After
<1>1. /\ UNCHANGED <<stay, quiescent, oldSleep, affected, sleep, quiescentAt, currSleepEvent>>
      /\ \A d \in Cpu : d # e => sem'[d] = sem[d]
      /\ pc'[e] \in {"wait", "woken", "relock"} /\ Sleeping(e)
      /\ Idle(e)' <=> Idle(e)
  <2>1. CASE Wait(e)
    <3>1. pc[e] = "wait" /\ pc'[e] = "woken" /\ sem[e] > 0
      BY <2>1 DEF Wait, SemWait, Goto, At, Before, TypeOK, PlacesTyped
    <3> QED BY <2>1, <3>1 DEF Wait, SemWait, localVars, sleepVars, Sleeping, Idle, Before, TypeOK,
                              SyncTyped
  <2>2. CASE CheckTerminate(e, "asleep", "wait") \/ CheckTerminate(e, "woken", "relock")
    <3>1. /\ pc[e] \in {"asleep", "woken"}
          /\ pc'[e] = IF pc[e] = "asleep" THEN "wait" ELSE "relock"
      BY <2>2 DEF CheckTerminate, Goto, At, Before, TypeOK, PlacesTyped
    <3>2. UNCHANGED syncVars
      BY <2>2 DEF CheckTerminate
    <3> QED BY <3>1, <3>2 DEF syncVars, localVars, sleepVars, Sleeping, Idle
  <2> QED BY <2>1, <2>2
<1>2. Thread(e) /\ ~PostfirePort(e)
  BY DEF Thread, PostfirePort, At, CheckTerminate, Wait
<1>3. /\ Sleeping(e)' /\ ~Locked(e)' /\ ~Locked(e)
      /\ \A c \in Cpu : ~HasScanned(e, c)
      /\ ~At(e, "post") /\ ~At(e, "post")' /\ ~At(e, "postfire") /\ ~At(e, "postfire")'
  BY <1>1 DEF Sleeping, Locked, HasScanned, At
<1>4. Stale(e)' => Stale(e)
  BY <1>2, StaleStep DEF Before
<1>5. OneInv(e)'
  BY <1>1, <1>4 DEF Before, OneInv, Running, At, Sleeping
<1>6. ASSUME NEW o \in Cpu \ {e}
      PROVE  OneInv(o)' /\ PairInv(o, e)' /\ PairInv(e, o)'
  <2>1. /\ pc'[o] = pc[o] /\ i'[o] = i[o] /\ (Sleeping(o)' <=> Sleeping(o))
        /\ (Locked(o)' <=> Locked(o)) /\ (Stale(o)' => Stale(o)) /\ (Quiet(o)' <=> Quiet(o))
        /\ (HasScanned(o, e)' <=> HasScanned(o, e))
        /\ OneInv(o) /\ PairInv(o, e) /\ PairInv(e, o)
    BY <1>2, OtherKept
  <2>2. (Idle(o)' <=> Idle(o)) /\ (Staying(o)' <=> Staying(o))
    BY <1>1, <2>1 DEF Idle, Staying
  <2>3. OneInv(o)'
    BY <1>1, <2>1 DEF OneInv, Running, At
  <2>4. PostsWanted(o, e)' /\ PostsWanted(e, o)'
    BY <1>1, <1>3, <2>1, <2>2 DEF PairInv, PostsWanted, At
  <2>5. StaleKnown(o, e)' /\ StaleKnown(e, o)'
    BY <1>1, <1>3, <2>1, <2>2 DEF PairInv, StaleKnown
  <2>6. StaleWoken(o, e)' /\ StaleWoken(e, o)'
    BY <1>1, <1>3, <1>4, <2>1, <2>2 DEF PairInv, StaleWoken, At
  <2>7. StaleCounted(o, e)'
    BY <1>1, <1>3, <1>4, <2>1, <2>2 DEF PairInv, StaleCounted, Staying, At
  <2>8. StaleCounted(e, o)'
    BY <1>1, <1>3, <2>1, <2>2 DEF PairInv, StaleCounted
  <2> QED BY <2>3, <2>4, <2>5, <2>6, <2>7, <2>8 DEF PairInv
<1> QED BY <1>5, <1>6, PairsAfter

LEMMA WakeUpProtocol ==
  ASSUME Before, NEW e \in Cpu, WakeUp(e)
  PROVE  After
<1>1. /\ pc[e] = "relock" /\ pc'[e] = "drain"
      /\ UNCHANGED <<stay, quiescent, oldSleep, affected, quiescentAt, currSleepEvent, sem>>
      /\ \A d \in Cpu : d # e => sleep'[d] = sleep[d]
      /\ sleep'[e] = sleep[e] + 1
  BY DEF WakeUp, Goto, At, localVars, Before, TypeOK, PlacesTyped, SyncTyped
<1>2. Thread(e) /\ ~PostfirePort(e)
  BY <1>1 DEF Thread, PostfirePort, At
<1>3. /\ Sleeping(e) /\ ~Sleeping(e)' /\ ~Idle(e) /\ ~Idle(e)' /\ ~Locked(e) /\ ~Locked(e)'
      /\ \A c \in Cpu : ~HasScanned(e, c) /\ ~HasScanned(e, c)'
      /\ ~At(e, "post") /\ ~At(e, "post")' /\ ~At(e, "postfire")
  BY <1>1 DEF Sleeping, Idle, Locked, HasScanned, At
<1>4. ~Stale(e)'
  BY <1>1, LookingFresh DEF Looking
<1>5. OneInv(e)'
  BY <1>1, <1>4 DEF Before, OneInv, Running, At, Sleeping
<1>6. ASSUME NEW o \in Cpu \ {e}
      PROVE  OneInv(o)' /\ PairInv(o, e)' /\ PairInv(e, o)'
  <2>1. /\ pc'[o] = pc[o] /\ i'[o] = i[o] /\ (Sleeping(o)' <=> Sleeping(o))
        /\ (Locked(o)' <=> Locked(o)) /\ (Stale(o)' => Stale(o)) /\ (Quiet(o)' <=> Quiet(o))
        /\ OneInv(o) /\ PairInv(o, e) /\ PairInv(e, o)
    BY <1>2, OtherKept
  <2>2. (Idle(o)' <=> Idle(o)) /\ (Staying(o)' <=> Staying(o))
    BY <1>1, <2>1 DEF Idle, Staying
  <2>3. OneInv(o)'
    BY <1>1, <2>1 DEF OneInv, Running, At
  <2>4. sleep[e] \in Nat /\ oldSleep[o][e] \in Nat /\ oldSleep[e][o] <= sleep[o]
    BY <2>1 DEF Before, TypeOK, SyncTyped, PairInv, PostsWanted
  <2>5. PostsWanted(o, e)'
    BY <1>1, <1>3, <2>1, <2>2, <2>4 DEF PairInv, PostsWanted
  <2>6. PostsWanted(e, o)'
    BY <1>1, <1>3, <2>1, <2>2, <2>4 DEF PairInv, PostsWanted, At
  <2>7. StaleKnown(o, e)' /\ StaleWoken(o, e)' /\ StaleCounted(o, e)'
    BY <1>4 DEF StaleKnown, StaleWoken, StaleCounted
  <2>8. StaleKnown(e, o)' /\ StaleWoken(e, o)'
    BY <1>1, <1>3, <2>1, <2>2 DEF PairInv, StaleKnown, StaleWoken, At
  <2>9. StaleCounted(e, o)'
    BY <1>1, <1>3, <2>1, <2>2 DEF PairInv, StaleCounted, At
  <2> QED BY <2>3, <2>5, <2>6, <2>7, <2>8, <2>9 DEF PairInv
<1> QED BY <1>5, <1>6, PairsAfter

LEMMA DrainProtocol ==
  ASSUME Before, NEW e \in Cpu, Drain(e)
  PROVE  After
<1>1. /\ UNCHANGED <<stay, quiescent, oldSleep, affected, sleep, quiescentAt, currSleepEvent>>
      /\ \A d \in Cpu : d # e => sem'[d] = sem[d]
      /\ sem'[e] = 0 /\ pc[e] = "drain" /\ pc'[e] \in {"drain", "prefire"}
  BY DEF Drain, Goto, At, localVars, sleepVars, Before, TypeOK, PlacesTyped, SyncTyped
<1>2. Thread(e) /\ ~PostfirePort(e)
  BY <1>1 DEF Thread, PostfirePort, At
<1>3. /\ ~Sleeping(e) /\ ~Sleeping(e)' /\ ~Idle(e) /\ ~Idle(e)'
      /\ \A c \in Cpu : ~HasScanned(e, c) /\ ~HasScanned(e, c)'
      /\ ~At(e, "post") /\ ~At(e, "post")' /\ ~At(e, "postfire")
  BY <1>1 DEF Sleeping, Idle, HasScanned, At
<1>4. ~Stale(e)'
  BY LookingFresh DEF Looking, Drain, Goto, At, Before, TypeOK, PlacesTyped
<1>5. OneInv(e)'
  BY <1>1, <1>4 DEF Before, OneInv, Running, At, Sleeping
<1>6. ASSUME NEW o \in Cpu \ {e}
      PROVE  OneInv(o)' /\ PairInv(o, e)' /\ PairInv(e, o)'
  <2>1. /\ pc'[o] = pc[o] /\ i'[o] = i[o] /\ (Sleeping(o)' <=> Sleeping(o))
        /\ (Locked(o)' <=> Locked(o)) /\ (Stale(o)' => Stale(o)) /\ (Quiet(o)' <=> Quiet(o))
        /\ OneInv(o) /\ PairInv(o, e) /\ PairInv(e, o)
    BY <1>2, OtherKept
  <2>2. (Idle(o)' <=> Idle(o)) /\ (Staying(o)' <=> Staying(o))
    BY <1>1, <2>1 DEF Idle, Staying
  <2>3. OneInv(o)'
    BY <1>1, <2>1 DEF OneInv, Running, At
  <2>4. PostsWanted(o, e)' /\ PostsWanted(e, o)'
    BY <1>1, <1>3, <2>1, <2>2 DEF PairInv, PostsWanted, At
  <2>5. StaleKnown(o, e)' /\ StaleWoken(o, e)' /\ StaleCounted(o, e)'
    BY <1>4 DEF StaleKnown, StaleWoken, StaleCounted
  <2>6. StaleKnown(e, o)' /\ StaleWoken(e, o)'
    BY <1>1, <1>3, <2>1, <2>2 DEF PairInv, StaleKnown, StaleWoken, At
  <2>7. StaleCounted(e, o)'
    BY <1>1, <1>3, <2>1, <2>2 DEF PairInv, StaleCounted, At
  <2> QED BY <2>3, <2>4, <2>5, <2>6, <2>7 DEF PairInv
<1> QED BY <1>5, <1>6, PairsAfter

LEMMA TerminateStays ==
  ASSUME TypeOK, [Next]_vars, terminate
  PROVE  terminate'
<1>1. ASSUME NEW c \in Cpu, Fire(c) PROVE terminate'
  BY <1>1 DEF Fire, syncVars, sleepVars
<1>2. ASSUME NEW c \in Cpu, Thread(c), ~Fire(c) PROVE terminate'
  BY <1>2, OthersStutter DEF GoToSleep
<1>3. CASE \E a \in Active : Arrive(a)
  BY <1>3 DEF Arrive, sleepVars
<1>4. CASE UNCHANGED vars
  BY <1>4 DEF vars, syncVars, sleepVars
<1> QED BY <1>1, <1>2, <1>3, <1>4 DEF Next

LEMMA ProtocolStep ==
  ASSUME TypeOK, TypeOK', ViewsInv, SleepBookkeeping, SmallNetwork, ProtocolInv, [Next]_vars
  PROVE  ProtocolInv'
<1> SUFFICES ASSUME ~terminate' PROVE After
  BY ProtocolParts DEF After
<1>1. ~terminate /\ Before
  BY TerminateStays, ProtocolParts DEF Before, SmallNetwork
<1>2. ASSUME NEW e \in Cpu, Thread(e) PROVE After
  <2>1. ~Done(e)
    BY <1>1 DEF Before, OneInv, Running, Done, At
  <2>2. CASE Working(e)
    BY <1>1, <2>2, WorkingProtocol
  <2>3. CASE Wake(e) \/ Post(e) \/ Lock(e) \/ Scan(e)
    BY <1>1, <2>3, WakeProtocol, PostProtocol, LockProtocol, ScanProtocol
  <2>4. CASE StayAwake(e) \/ GoToSleep(e) \/ WakeUp(e) \/ Drain(e)
    BY <1>1, <2>4, StayAwakeProtocol, GoToSleepProtocol, WakeUpProtocol, DrainProtocol
  <2>5. CASE \/ CheckTerminate(e, "asleep", "wait") \/ CheckTerminate(e, "woken", "relock")
             \/ Wait(e)
    BY <1>1, <2>5, AsleepProtocol
  <2> QED BY <1>2, <2>1, <2>2, <2>3, <2>4, <2>5 DEF Thread, Working
<1>3. CASE UNCHANGED vars
  <2>1. ProtocolInv'
    BY <1>3 DEF ProtocolInv, Running, PostsWanted, StaleKnown, StaleWoken, StaleCounted, Stale,
         StaleActor, Staying, HasScanned, Idle, Quiet, Sleeping, Locked, At, Viewed, InCurrent,
         OutCurrent, Written, Read, Here, vars, dataVars, portVars, actorVars, syncVars, localVars,
         sleepVars
  <2> QED BY SMTT(30), <2>1, ProtocolParts DEF After
<1>4. Active = {}
  BY DEF SmallNetwork
<1> QED BY <1>2, <1>3, <1>4 DEF Next

LEMMA ProtocolInit == Init /\ SmallNetwork => ProtocolInv
<1> SUFFICES ASSUME Init, SmallNetwork PROVE ProtocolInv
  OBVIOUS
<1>1. \A d \in Cpu : /\ pc[d] = "prefire" /\ i[d] = 1 /\ j[d] = 1 /\ sem[d] = 0
                     /\ quiescentAt[d] = 0 /\ sleep[d] = 0
                     /\ \A c \in Cpu : oldSleep[d][c] = 0
  BY DEF Init
<1>2. \A d \in Cpu : ~Stale(d)
  BY <1>1, LookingFresh DEF Looking
<1>3. \A d \in Cpu : ~Idle(d) /\ ~Sleeping(d) /\ Running(d) /\ ~At(d, "post")
  BY <1>1 DEF Idle, Sleeping, Running, At
<1>4. currSleepEvent = 0
  BY DEF Init
<1> QED BY <1>1, <1>2, <1>3, <1>4 DEF ProtocolInv, PostsWanted, StaleKnown, StaleWoken, StaleCounted

-----------------------------------------------------------------------------
(* From the views to the network: what a CPU cannot do, it cannot do.      *)

\* A CPU that has looked at everything since it last published is starved.
LEMMA NotReady ==
  ASSUME TypeOK, ViewsInv, RoundInv, SmallNetwork, NEW d \in Cpu, Awaiting(d), ~Stale(d),
         NEW a \in Here(d), Ready(a)
  PROVE  FALSE
<1> DEFINE m == fires[a] + 1
<1>1. a \in Actor /\ CpuOf[a] = d /\ fires[a] \in Nat /\ Horizon[a] \in Nat /\ m <= Horizon[a]
  BY RateFacts DEF Here, Ready, TypeOK, ActorsTyped
<1>2. Quiet(d) /\ ~terminated[a] /\ ~Enough(a, m) /\ ~StaleActor(a)
  <2>1. Quiet(d) /\ Tried(a)
    BY <1>1 DEF RoundInv, Awaiting, Tried
  <2> QED BY <1>1, <2>1 DEF RoundInv, Stale
<1>3. pc[d] \in {"lock", "scan", "decide"} \/ Sleeping(d)
  BY DEF Awaiting
<1>4. \A b \in Here(d) : ~Called(b) /\ \A k : Viewed(b, k)
  BY <1>3 DEF Called, Viewed, Sleeping, Here
<1>5. /\ \A ch \in Chan : Writer[ch] = a => wcount[ch] = Written(ch)
      /\ \A p \in InPort : p[2] = a => rcount[p] = Read(p)
  BY <1>4, AllCounted
<1>6. ASSUME NEW ch \in Chan, <<ch, a>> \in InPort PROVE TakenBy(a, ch, m) <= Visible(a, ch)
  <2> DEFINE p == <<ch, a>>
  <2>1. p \in InPort /\ p[1] = ch /\ p[2] = a
    BY <1>6
  <2>2. TakenBy(a, ch, m) <= wcount[ch] - rcount[p]
    BY <1>6 DEF Ready, Unconsumed
  <2>3. Taken[ch][a][m] \in Nat /\ Taken[ch][a][fires[a]] \in Nat
    BY <1>1, <1>6, TakenFacts
  <2> HIDE DEF p
  <2>4. InCurrent(p) /\ rcount[p] = Read(p)
    BY <1>2, <1>4, <1>5, <2>1 DEF StaleActor
  <2>5. /\ availIn[p] \in Int /\ outCount[ch] \in Nat /\ wcount[ch] \in Nat /\ Read(p) \in Nat
        /\ rcount[p] \in Nat
    BY <2>1, CountFacts
  <2>6. availIn[p] <= Visible(a, ch)
    BY <2>1, <2>5 DEF Visible, p
  <2>7. TakenBy(a, ch, m) \in Int /\ Visible(a, ch) \in Int
    BY <2>1, <2>3, <2>5 DEF TakenBy, Visible, p
  <2> QED BY <2>1, <2>2, <2>4, <2>5, <2>6, <2>7 DEF InCurrent
<1>7. ASSUME NEW ch \in Chan, Writer[ch] = a PROVE GivenBy(a, ch, m) <= availOut[ch]
  <2>1. OutCurrent(ch) /\ wcount[ch] = Written(ch)
    BY <1>2, <1>4, <1>5, <1>7 DEF StaleActor
  <2>2. /\ availOut[ch] \in Int /\ Cap[ch] \in Nat /\ wcount[ch] \in Nat
        /\ Given[ch][m] \in Nat /\ Given[ch][fires[a]] \in Nat
    BY <1>1, <1>7, CountFacts, GivenFacts
  <2>3. CASE Readers(ch) = {} /\ Cap[ch] <= availOut[ch]
    <3>1. Given[ch][m] - Given[ch][m - 1] <= Cap[ch] /\ m - 1 = fires[a]
      BY <1>1, <1>7, <2>3 DEF SmallNetwork
    <3> QED BY <2>2, <2>3, <3>1 DEF GivenBy
  <2>4. CASE \E r \in Readers(ch) : Cap[ch] - (Written(ch) - rcount[<<ch, r>>]) <= availOut[ch]
    <3>1. PICK r \in Readers(ch) : Cap[ch] - (Written(ch) - rcount[<<ch, r>>]) <= availOut[ch]
      BY <2>4
    <3>2. GivenBy(a, ch, m) <= Cap[ch] - (wcount[ch] - rcount[<<ch, r>>])
      BY <1>7 DEF Ready, Unconsumed
    <3>3. rcount[<<ch, r>>] \in Nat /\ GivenBy(a, ch, m) \in Int
      BY <2>2, CountFacts DEF Readers, GivenBy
    <3> QED BY <2>1, <2>2, <3>1, <3>2, <3>3
  <2> QED BY <2>1, <2>3, <2>4 DEF OutCurrent
<1> QED BY <1>1, <1>2, <1>6, <1>7 DEF Enough, SmallNetwork

\* What the published counts allow can be done ...
LEMMA ReadyFires ==
  ASSUME TypeOK, ViewsInv, NEW d \in Cpu, Awaiting(d), NEW a \in Here(d), Ready(a)
  PROVE  Abstract!CanFire(a)
<1> DEFINE m == fires[a] + 1
<1>1. a \in Actor /\ CpuOf[a] = d /\ fires[a] \in Nat /\ Horizon[a] \in Nat /\ m <= Horizon[a]
  BY RateFacts DEF Here, Ready, TypeOK, ActorsTyped
<1>2. \A b \in Here(d) : ~Called(b)
  BY DEF Awaiting, Called, Sleeping, Here
<1>3. /\ \A ch \in Chan : Writer[ch] = a => wcount[ch] = Written(ch)
      /\ \A p \in InPort : p[2] = a => rcount[p] = Read(p)
  BY <1>2, AllCounted
<1>4. ASSUME NEW ch \in Chan, <<ch, a>> \in InPort
      PROVE  Taken[ch][a][m] <= Given[ch][fires[Writer[ch]]]
  <2> DEFINE p == <<ch, a>>
  <2>1. p \in InPort /\ p[1] = ch /\ p[2] = a
    BY <1>4
  <2>2. Taken[ch][a][m] - Taken[ch][a][fires[a]] <= wcount[ch] - rcount[p]
    BY <1>4 DEF Ready, Unconsumed, TakenBy
  <2>3. Taken[ch][a][m] \in Nat
    BY <1>1, <1>4, TakenFacts
  <2> HIDE DEF p
  <2>4. rcount[p] = Read(p) /\ Read(p) = Taken[ch][a][fires[a]]
    BY <1>3, <2>1 DEF Read
  <2>5. /\ wcount[ch] \in Nat /\ outCount[ch] \in Nat /\ Written(ch) \in Nat /\ rcount[p] \in Nat
        /\ wcount[ch] + outCount[ch] = Written(ch)
    BY <2>1, CountFacts DEF ViewsInv, WritesCounted
  <2> QED BY <2>2, <2>3, <2>4, <2>5 DEF Written
<1>5. ASSUME NEW ch \in Chan, Writer[ch] = a, NEW r \in Abstract!Readers(ch)
      PROVE  Given[ch][m] - Taken[ch][r][fires[r]] <= Cap[ch]
  <2> DEFINE p == <<ch, r>>
  <2>1. r \in Readers(ch) /\ p \in InPort /\ p[1] = ch /\ p[2] = r
    BY <1>5 DEF Abstract!Readers, Abstract!InPort, InPort, Readers
  <2>2. Given[ch][m] - Given[ch][fires[a]] <= Cap[ch] - (wcount[ch] - rcount[p])
    BY <1>5, <2>1 DEF Ready, Unconsumed, GivenBy
  <2>3. Given[ch][m] \in Nat /\ Cap[ch] \in Nat
    BY <1>1, <1>5, GivenFacts, CountFacts
  <2> HIDE DEF p
  <2>4. Written(ch) = Given[ch][fires[a]] /\ wcount[ch] = Written(ch) /\ Written(ch) \in Nat
    BY <1>3, <1>5, CountFacts DEF Written
  <2>5. rcount[p] \in Nat /\ Read(p) \in Nat /\ rcount[p] <= Read(p)
    BY <2>1, CountFacts DEF ViewsInv, ReadsCounted
  <2> QED BY <2>1, <2>2, <2>3, <2>4, <2>5 DEF Read
<1>6. a \in Active => m <= arrived[a]
  BY DEF Ready
<1> QED BY <1>1, <1>4, <1>5, <1>6
  DEF Abstract!CanFire, Abstract!CanReach, Abstract!Supplied, Abstract!InPort, InPort

\* ... and when all CPUs have published, the other way round.
LEMMA FiresReady ==
  ASSUME TypeOK, ViewsInv, \A d \in Cpu : Awaiting(d), NEW a \in Actor, Abstract!CanFire(a)
  PROVE  Ready(a)
<1> DEFINE m == fires[a] + 1
<1>1. m <= Horizon[a] /\ (a \in Active => m <= arrived[a]) /\ fires[a] \in Nat
  BY DEF Abstract!CanFire, Abstract!CanReach, Abstract!Supplied, TypeOK, ActorsTyped
<1>2. \A b \in Actor : CpuOf[b] \in Cpu /\ ~Called(b)
  BY RateFacts DEF Awaiting, Called, Sleeping
<1>3. /\ \A ch \in Chan : wcount[ch] = Written(ch)
      /\ \A p \in InPort : rcount[p] = Read(p)
  <2>1. \A b \in Actor : b \in Here(CpuOf[b]) /\ \A e \in Here(CpuOf[b]) : ~Called(e)
    BY <1>2 DEF Here
  <2>2. \A ch \in Chan : Writer[ch] \in Actor
    BY RateFacts
  <2>3. \A p \in InPort : p[2] \in Actor
    BY RateFacts
  <2> QED BY <1>2, <2>1, <2>2, <2>3, AllCounted
<1>4. ASSUME NEW ch \in Chan, <<ch, a>> \in InPort PROVE TakenBy(a, ch, m) <= Unconsumed(ch, a)
  <2> DEFINE p == <<ch, a>>
  <2>1. p \in InPort /\ p[1] = ch /\ p[2] = a
    BY <1>4
  <2>2. Taken[ch][a][m] <= Written(ch)
    BY <1>4 DEF Abstract!CanFire, Abstract!CanReach, Abstract!Supplied, Abstract!InPort, InPort,
                Written
  <2>3. Taken[ch][a][m] \in Nat
    BY <1>1, <1>4, TakenFacts, RateFacts
  <2> HIDE DEF p
  <2>4. /\ wcount[ch] = Written(ch) /\ rcount[p] = Read(p) /\ Read(p) = Taken[ch][a][fires[a]]
        /\ Read(p) \in Nat /\ Written(ch) \in Nat
    BY <1>3, <2>1, CountFacts DEF Read
  <2> QED BY <2>2, <2>3, <2>4 DEF TakenBy, Unconsumed, p
<1>5. ASSUME NEW ch \in Chan, Writer[ch] = a, NEW r \in Readers(ch)
      PROVE  GivenBy(a, ch, m) <= Cap[ch] - Unconsumed(ch, r)
  <2> DEFINE p == <<ch, r>>
  <2>1. p \in InPort /\ p[1] = ch /\ p[2] = r
    BY <1>5 DEF Readers
  <2>2. Given[ch][m] - Taken[ch][r][fires[r]] <= Cap[ch]
    BY <1>5 DEF Abstract!CanFire, Abstract!CanReach, Abstract!Supplied, Abstract!Readers,
                Abstract!InPort, InPort, Readers
  <2>3. Given[ch][m] \in Nat /\ Cap[ch] \in Nat
    BY <1>1, <1>5, GivenFacts, CountFacts, RateFacts
  <2> HIDE DEF p
  <2>4. /\ wcount[ch] = Written(ch) /\ rcount[p] = Read(p) /\ Read(p) = Taken[ch][r][fires[r]]
        /\ Read(p) \in Nat /\ Written(ch) \in Nat /\ Written(ch) = Given[ch][fires[a]]
    BY <1>3, <1>5, <2>1, CountFacts DEF Read, Written
  <2> QED BY <2>2, <2>3, <2>4 DEF GivenBy, Unconsumed, p
<1> QED BY <1>1, <1>4, <1>5 DEF Ready

-----------------------------------------------------------------------------
(* The theorems.                                                           *)

\* When the last CPU ends the execution, none has anything left to look at.
LEMMA NoneStale ==
  ASSUME TypeOK, TypeOK', ViewsInv, SleepBookkeeping, SmallNetwork, ProtocolInv,
         NEW e \in Cpu, GoToSleep(e), ~terminate, terminate'
  PROVE  \A d \in Cpu : Awaiting(d) /\ ~Stale(d)
<1>1. Before
  BY ProtocolParts DEF Before, SmallNetwork
<1>2. /\ pc[e] = "decide" /\ ~stay[e] /\ sleepers + 1 = N /\ Lagging = {}
      /\ \A d \in Cpu \ {e} : quiescentAt'[d] = quiescentAt[d]
      /\ currSleepEvent' = IF quiescent[e] THEN currSleepEvent ELSE currSleepEvent + 1
  BY DEF GoToSleep, At, TypeOK, SyncTyped
<1>3. ~Sleeping(e) /\ Locked(e) /\ ~Staying(e)
  BY <1>2 DEF Sleeping, Locked, Staying
<1>4. ASSUME NEW o \in Cpu \ {e} PROVE Sleeping(o)
  <2> SUFFICES ASSUME ~Sleeping(o) PROVE FALSE
    OBVIOUS
  <2>1. N = 2 /\ {c \in Cpu : Sleeping(c)} = {}
    BY <1>3, TwoCpus DEF SmallNetwork
  <2> QED BY <1>2, <2>1, FS_EmptySet DEF SleepBookkeeping
<1>5. ~Stale(e)
  <2> SUFFICES ASSUME Stale(e) PROVE FALSE
    OBVIOUS
  <2>1. PICK o \in Cpu : o # e
    BY <1>1 DEF Before, OneInv
  <2>2. StaleKnown(o, e)
    BY <1>1, <2>1 DEF Before, PairInv
  <2> QED BY <1>2, <1>3, <1>4, <2>1, <2>2 DEF StaleKnown, HasScanned, At
<1>6. ASSUME NEW o \in Cpu \ {e} PROVE ~Stale(o)
  <2>1. StaleCounted(e, o) /\ quiescentAt[o] <= currSleepEvent
    BY <1>1 DEF Before, PairInv, OneInv
  <2>2. ~Staying(o) /\ ~At(e, "postfire")
    BY <1>2, <1>4 DEF Staying, Sleeping, Locked, At
  <2>3. quiescentAt[o] = currSleepEvent' /\ quiescentAt[o] \in Nat /\ currSleepEvent \in Nat
    BY <1>2 DEF Lagging, TypeOK, SyncTyped
  <2> QED BY <1>2, <1>3, <2>1, <2>2, <2>3 DEF StaleCounted
<1> QED BY <1>2, <1>4, <1>5, <1>6 DEF Awaiting

LEMMA StarvedStays ==
  ASSUME TypeOK, TypeOK', ViewsInv, SmallNetwork, [Next]_vars,
         \A a \in Actor : ~Abstract!CanFire(a)
  PROVE  /\ UNCHANGED <<fires, arrived>>
         /\ \A a \in Actor : ~Abstract!CanFire(a)'
<1>1. \/ UNCHANGED <<fires, arrived>>
      \/ \E a \in Actor : \E m \in 0 .. Horizon[a] : Abstract!Fire(a, m)
  BY FiringStep DEF Abstract!Step, Abstract!Stop, Abstract!vars, SmallNetwork
<1>2. ASSUME NEW a \in Actor, NEW m \in 0 .. Horizon[a], Abstract!Fire(a, m)
      PROVE  FALSE
  <2>1. /\ fires \in [Actor -> Nat] /\ m > fires[a] /\ m \in Nat /\ Abstract!Supplied(a, m, fires)
        /\ \A b \in Actor : fires[b] <= fires[b] /\ fires[b] <= Horizon[b]
    BY <1>2, RateFacts DEF TypeOK, ActorsTyped, Abstract!Fire, Abstract!CanReach
  <2>2. fires[a] + 1 \in 0 .. m
    BY <2>1
  <2>3. Abstract!Supplied(a, fires[a] + 1, fires)
    BY <2>1, <2>2, SuppliedMonotone
  <2> QED BY <2>3 DEF Abstract!CanFire, Abstract!CanReach, SmallNetwork
<1>3. UNCHANGED <<fires, arrived>>
  BY <1>1, <1>2
<1>4. \A a \in Actor : Abstract!CanFire(a)' <=> Abstract!CanFire(a)
  BY <1>3 DEF Abstract!CanFire, Abstract!CanReach, Abstract!Supplied
<1> QED BY <1>3, <1>4

LEMMA TerminationStep ==
  ASSUME TypeOK, TypeOK', ViewsInv, SleepBookkeeping, SmallNetwork, RoundInv, ProtocolInv,
         TerminationSound, [Next]_vars
  PROVE  TerminationSound'
<1> SUFFICES ASSUME terminate' PROVE \A a \in Actor : ~Abstract!CanFire(a)'
  BY DEF TerminationSound
<1>1. CASE terminate
  BY <1>1, StarvedStays DEF TerminationSound
<1>2. CASE ~terminate
  <2>1. PICK e \in Cpu : GoToSleep(e)
    <3>1. ASSUME NEW c \in Cpu, Fire(c) PROVE terminate' = terminate
      BY <3>1 DEF Fire, syncVars, sleepVars
    <3>2. UNCHANGED vars => terminate' = terminate
      BY DEF vars, syncVars, sleepVars
    <3> QED BY <1>2, <3>1, <3>2, OthersStutter DEF Next, SmallNetwork
  <2>2. \A d \in Cpu : Awaiting(d) /\ ~Stale(d)
    BY <1>2, <2>1, NoneStale
  <2>3. \A a \in Actor : ~Abstract!CanFire(a)
    <3>1. \A a \in Actor : CpuOf[a] \in Cpu /\ a \in Here(CpuOf[a])
      BY RateFacts DEF Here
    <3> QED BY <2>2, <3>1, NotReady, FiresReady
  <2> QED BY <2>3, StarvedStays
<1> QED BY <1>1, <1>2

ExecutionInv ==
  /\ TypeOK /\ ViewsInv /\ SleepBookkeeping /\ RoundInv /\ ProtocolInv /\ TerminationSound

LEMMA ExecutionAlways ==
  ASSUME SmallNetwork
  PROVE  Spec => []ExecutionInv
<1>1. Init => ExecutionInv
  <2> SUFFICES ASSUME Init PROVE ExecutionInv
    OBVIOUS
  <2>1. TerminationSound
    BY DEF Init, TerminationSound
  <2> QED BY <2>1, TypeInit, ViewsInit, SleepInit, RoundInit, ProtocolInit DEF ExecutionInv
<1>2. ExecutionInv /\ [Next]_vars => ExecutionInv'
  <2> SUFFICES ASSUME ExecutionInv, [Next]_vars PROVE ExecutionInv'
    OBVIOUS
  <2>1. TypeOK' /\ SleepBookkeeping'
    BY TypeStep, SleepStep DEF ExecutionInv
  <2>2. ViewsInv' /\ RoundInv'
    BY <2>1, ViewsStep, RoundStep DEF ExecutionInv, SmallNetwork
  <2>3. ProtocolInv' /\ TerminationSound'
    BY <2>1, ProtocolStep, TerminationStep DEF ExecutionInv
  <2> QED BY <2>1, <2>2, <2>3 DEF ExecutionInv
<1> QED BY <1>1, <1>2, PTL DEF Spec

\* On two CPUs, without active actors, terminate is set only when the network
\* is starved: the test on quiescent_at under the mutex misses no pending
\* wake-up (lines 244-279).
THEOREM TerminationCorrect == SmallNetwork => (Spec => []TerminationSound)
<1> SUFFICES ASSUME SmallNetwork PROVE Spec => []TerminationSound
  OBVIOUS
<1>1. ExecutionInv => TerminationSound
  BY DEF ExecutionInv
<1> QED BY <1>1, ExecutionAlways, PTL

\* There the threads implement the sequential execution of the network, its
\* end included.
THEOREM ExecutionCorrect == SmallNetwork => (Spec => RefinesDataflow)
<1> SUFFICES ASSUME SmallNetwork PROVE Spec => RefinesDataflow
  OBVIOUS
<1>1. Init => Abstract!Init
  BY DEF Init, Abstract!Init
<1>2. ExecutionInv /\ ExecutionInv' /\ [Next]_vars => [Abstract!Next]_(Abstract!vars)
  <2> SUFFICES ASSUME ExecutionInv, ExecutionInv', [Next]_vars
               PROVE  [Abstract!Next]_(Abstract!vars)
    OBVIOUS
  <2>1. [Abstract!Step \/ Abstract!Stop]_(Abstract!vars)
    BY FiringStep DEF ExecutionInv
  <2>2. ASSUME Abstract!Stop PROVE Abstract!Starved
    <3>1. \A a \in Actor : ~Abstract!CanFire(a)'
      BY <2>2 DEF ExecutionInv, TerminationSound, Abstract!Stop
    <3>2. \A a \in Actor : Abstract!CanFire(a)' <=> Abstract!CanFire(a)
      BY <2>2 DEF Abstract!Stop, Abstract!CanFire, Abstract!CanReach, Abstract!Supplied
    <3> QED BY <3>1, <3>2 DEF Abstract!Starved
  <2> QED BY <2>1, <2>2 DEF Abstract!Next
<1> QED BY <1>1, <1>2, ExecutionAlways, PTL DEF Spec, RefinesDataflow, Abstract!Spec

\* There no CPU sleeps on its semaphore, with nobody about to post it, while
\* one of its actors could fire (scenarios 1 and 2 of lines 190-209).
THEOREM WakeupCorrect == SmallNetwork => (Spec => []NoLostWakeup)
<1> SUFFICES ASSUME SmallNetwork PROVE Spec => []NoLostWakeup
  OBVIOUS
<1>1. ExecutionInv => NoLostWakeup
  <2> SUFFICES ASSUME ExecutionInv, NEW c \in Cpu, At(c, "wait"), sem[c] = 0,
                      NEW k \in 1 .. Len(ActorsOn[c]), Ready(ActorsOn[c][k])
               PROVE  \E d \in Cpu \ {c} : \/ ~Sleeping(d) /\ c \in affected[d]
                                           \/ At(d, "post") /\ i[d] = c
    BY DEF NoLostWakeup
  <2> DEFINE a == ActorsOn[c][k]
  <2>1. a \in Here(c) /\ a \in Actor
    BY CpuFacts DEF Here
  <2>2. Awaiting(c) /\ Idle(c)
    BY DEF Awaiting, Sleeping, Idle, At
  <2>3. Stale(c)
    BY <2>1, <2>2, NotReady DEF ExecutionInv
  <2>4. ~terminate
    BY <2>1, <2>2, ReadyFires DEF ExecutionInv, TerminationSound
  <2>5. PICK d \in Cpu : d # c
    BY <2>3, <2>4, ProtocolParts DEF ExecutionInv, OneInv
  <2>6. PostsWanted(c, d) /\ StaleWoken(d, c)
    <3>1. \A x, y \in Cpu : x # y => PairInv(x, y)
      BY <2>4, ProtocolParts DEF ExecutionInv
    <3> QED BY <2>5, <3>1 DEF PairInv
  <2> QED BY <2>2, <2>3, <2>5, <2>6 DEF PostsWanted, StaleWoken
<1> QED BY <1>1, ExecutionAlways, PTL

\* There, when the threads are joined, every actor has fired as often as in
\* the shortest execution of the network that comes to an end: the outcome
\* does not depend on the interleaving, nor on what CPU an actor is on.
THEOREM OutcomeLeast ==
  SmallNetwork =>
    (Spec => [](Joined => fires \in Final /\ \A g \in Final : NotBeyond(g)))
<1> SUFFICES ASSUME SmallNetwork
             PROVE  Spec => [](Joined => fires \in Final /\ \A g \in Final : NotBeyond(g))
  OBVIOUS
<1> DEFINE Least == \A g \in Final : NotBeyond(g)
<1>1. Init => Least
  BY DEF Init, NotBeyond, Final
<1>2. ExecutionInv /\ ExecutionInv' /\ Least /\ [Next]_vars => Least'
  BY BoundStep DEF ExecutionInv
<1>3. ExecutionInv /\ Joined => fires \in Final
  <2> SUFFICES ASSUME ExecutionInv, Joined PROVE fires \in Final
    OBVIOUS
  <2>1. terminate
    <3> SUFFICES ASSUME ~terminate PROVE FALSE
      OBVIOUS
    <3>1. PICK c \in Cpu : TRUE
      BY CpuFacts DEF Cpu
    <3> QED BY <3>1, ProtocolParts DEF ExecutionInv, OneInv, Running, Joined, At
  <2>2. \A a \in Actor : ~Abstract!Supplied(a, fires[a] + 1, fires)
    BY <2>1 DEF ExecutionInv, TerminationSound, Abstract!CanFire, Abstract!CanReach, SmallNetwork
  <2> QED BY <2>2 DEF Final, ExecutionInv, TypeOK, ActorsTyped
<1> HIDE DEF Least
<1>4. Spec => []Least
  BY <1>1, <1>2, ExecutionAlways, PTL DEF Spec
<1>5. ExecutionInv /\ Least => (Joined => fires \in Final /\ \A g \in Final : NotBeyond(g))
  BY <1>3 DEF Least
<1> QED BY <1>4, <1>5, ExecutionAlways, PTL

-----------------------------------------------------------------------------
(* The sequential execution, one firing after the other.                   *)

\* What can be started and continued can be repeated for ever.
LEMMA Iterates ==
  ASSUME NEW D, NEW z \in D, NEW F \in [D -> D]
  PROVE  \E h \in [Nat -> D] : h[0] = z /\ \A k \in Nat : h[k + 1] = F[h[k]]
<1> DEFINE Upto(n) == {g \in [0 .. n -> D] : /\ g[0] = z
                                             /\ \A k \in 0 .. n - 1 : g[k + 1] = F[g[k]]}
           Missing == {n \in Nat : Upto(n) = {}}
<1>1. Missing = {}
  <2> SUFFICES ASSUME Missing # {} PROVE FALSE
    OBVIOUS
  <2>1. PICK n \in Missing : \A m \in Missing : n <= m
    <3>1. Missing \subseteq Nat
      OBVIOUS
    <3> HIDE DEF Missing
    <3> QED BY <3>1, LeastNatural
  <2>2. CASE n = 0
    <3>1. [k \in 0 .. 0 |-> z] \in Upto(0)
      OBVIOUS
    <3> QED BY <2>1, <2>2, <3>1
  <2>3. CASE n # 0
    <3>1. PICK m \in Nat : n = m + 1
      <4>1. n - 1 \in Nat /\ n = (n - 1) + 1
        BY <2>3
      <4> QED BY <4>1
    <3>2. PICK g : g \in Upto(m)
      <4>1. ~ (n <= m)
        BY <3>1
      <4>2. m \notin Missing
        BY <2>1, <4>1
      <4> QED BY <4>2
    <3> DEFINE e == [k \in 0 .. n |-> IF k = n THEN F[g[m]] ELSE g[k]]
    <3>3. /\ g \in [0 .. m -> D] /\ g[0] = z
          /\ \A k \in 0 .. m - 1 : g[k + 1] = F[g[k]]
      BY <3>2
    <3>4. e \in [0 .. n -> D] /\ e[0] = z
      <4>1. g[m] \in D /\ \A k \in 0 .. n : k # n => k \in 0 .. m
        BY <3>1, <3>3
      <4> QED BY <2>3, <3>1, <3>3, <4>1
    <3>5. ASSUME NEW k \in 0 .. n - 1 PROVE e[k + 1] = F[e[k]]
      <4>1. k \in 0 .. n /\ k + 1 \in 0 .. n /\ k \in 0 .. m /\ k # n
        BY <3>1
      <4>2. CASE k = m
        BY <3>1, <4>1, <4>2
      <4>3. CASE k # m
        <5>1. k \in 0 .. m - 1 /\ k + 1 # n
          BY <3>1, <4>3
        <5> QED BY <3>3, <4>1, <5>1
      <4> QED BY <4>2, <4>3
    <3> HIDE DEF e
    <3>6. e \in Upto(n)
      BY <3>4, <3>5
    <3> QED BY <2>1, <3>6
  <2> QED BY <2>2, <2>3
\* Two of them agree as far as both go.
<1>2. ASSUME NEW n \in Nat, NEW m \in Nat, m <= n, NEW g \in Upto(n), NEW h \in Upto(m)
      PROVE  \A k \in 0 .. m : g[k] = h[k]
  <2> DEFINE Wrong == {k \in 0 .. m : g[k] # h[k]}
  <2> SUFFICES ASSUME Wrong # {} PROVE FALSE
    OBVIOUS
  <2>1. PICK k \in Wrong : \A l \in Wrong : k <= l
    <3>1. Wrong \subseteq Nat
      OBVIOUS
    <3> HIDE DEF Wrong
    <3> QED BY <3>1, LeastNatural
  <2>2. k # 0
    BY <2>1
  <2>3. PICK l \in Nat : k = l + 1 /\ l \in 0 .. m - 1 /\ l \in 0 .. n - 1 /\ l \in 0 .. m
    <3>1. k - 1 \in Nat /\ k = (k - 1) + 1
      BY <2>2
    <3>2. k - 1 \in 0 .. m - 1 /\ k - 1 \in 0 .. n - 1 /\ k - 1 \in 0 .. m
      BY <1>2, <2>2
    <3> QED BY <3>1, <3>2
  <2>4. g[l] = h[l]
    <3>1. ~ (k <= l)
      BY <2>3
    <3> QED BY <2>1, <2>3, <3>1
  <2>5. g[k] = F[g[l]] /\ h[k] = F[h[l]]
    BY <2>3
  <2> QED BY <2>1, <2>4, <2>5
<1> DEFINE h == [n \in Nat |-> (CHOOSE g \in Upto(n) : TRUE)[n]]
<1>3. ASSUME NEW n \in Nat
      PROVE  \E g \in Upto(n) : h[n] = g[n]
  <2>1. Upto(n) # {}
    BY <1>1
  <2> HIDE DEF Upto
  <2> QED BY <2>1
<1>4. h[0] = z /\ \A n \in Nat : h[n] \in D
  <2>1. ASSUME NEW n \in Nat PROVE h[n] \in D
    <3>1. PICK g \in Upto(n) : h[n] = g[n]
      BY <1>3
    <3>2. g \in [0 .. n -> D] /\ n \in 0 .. n
      OBVIOUS
    <3> QED BY <3>1, <3>2
  <2>2. PICK g \in Upto(0) : h[0] = g[0]
    BY <1>3
  <2> QED BY <2>1, <2>2
<1>5. ASSUME NEW k \in Nat PROVE h[k + 1] = F[h[k]]
  <2>1. PICK n \in Nat : n = k + 1
    OBVIOUS
  <2>2. PICK g \in Upto(n) : h[n] = g[n]
    <3> HIDE DEF Upto, h
    <3> QED BY <1>3
  <2>3. PICK f \in Upto(k) : h[k] = f[k]
    <3> HIDE DEF Upto, h
    <3> QED BY <1>3
  <2>4. g[k] = f[k]
    <3>1. k <= n /\ k \in 0 .. k
      BY <2>1
    <3> HIDE DEF Upto, h
    <3> QED BY <1>2, <3>1
  <2>5. g[k + 1] = F[g[k]]
    BY <2>1, <2>2, k \in 0 .. n - 1
  <2> HIDE DEF h, Upto
  <2> QED BY <2>1, <2>2, <2>3, <2>4, <2>5
<1>6. h \in [Nat -> D]
  BY <1>4
<1> HIDE DEF h
<1> QED BY <1>4, <1>5, <1>6

\* Firing counts within what the actors have input for.
Supply == {f \in [Actor -> Nat] : \A a \in Actor : f[a] <= Horizon[a]}

\* Who can fire when the actors have fired f times, all events having arrived.
Firing(f) == {a \in Actor : Abstract!Supplied(a, f[a] + 1, f)}

OneMore(f) == IF Firing(f) = {} THEN f
              ELSE [f EXCEPT ![CHOOSE a \in Firing(f) : TRUE] = @ + 1]

LEMMA OneMoreFiring ==
  ASSUME NEW f \in Supply, Firing(f) # {}
  PROVE  \E a \in Firing(f) : OneMore(f) = [f EXCEPT ![a] = @ + 1]
<1> DEFINE a == CHOOSE b \in Firing(f) : TRUE
<1>1. a \in Firing(f)
  OBVIOUS
<1>2. OneMore(f) = [f EXCEPT ![a] = @ + 1]
  BY DEF OneMore
<1> QED BY <1>1, <1>2

LEMMA OneMoreSupply ==
  ASSUME NEW f \in Supply
  PROVE  OneMore(f) \in Supply
<1>1. CASE Firing(f) = {}
  BY <1>1 DEF OneMore
<1>2. CASE Firing(f) # {}
  <2>1. PICK a \in Firing(f) : OneMore(f) = [f EXCEPT ![a] = @ + 1]
    BY <1>2, OneMoreFiring
  <2>2. a \in Actor /\ f[a] + 1 <= Horizon[a]
    BY DEF Firing, Abstract!Supplied
  <2> QED BY <2>1, <2>2 DEF Supply
<1> QED BY <1>1, <1>2

LEMMA SequentialSteps ==
  /\ Abstract!Sequential[0] = [a \in Actor |-> 0]
  /\ \A k \in Nat : Abstract!Sequential[k + 1] = OneMore(Abstract!Sequential[k])
<1> DEFINE z == [a \in Actor |-> 0]
           F == [f \in Supply |-> OneMore(f)]
           Eq(s) == s = [k \in Nat |-> IF k = 0 THEN z ELSE OneMore(s[k - 1])]
<1>1. z \in Supply /\ F \in [Supply -> Supply]
  BY OneMoreSupply, RateFacts DEF Supply
<1>2. PICK h \in [Nat -> Supply] : h[0] = z /\ \A k \in Nat : h[k + 1] = F[h[k]]
  <2> HIDE DEF z, F
  <2> QED BY <1>1, Iterates
<1>3. Eq(h)
  <2>1. ASSUME NEW k \in Nat PROVE h[k] = IF k = 0 THEN z ELSE OneMore(h[k - 1])
    <3>1. CASE k = 0
      BY <1>2, <3>1
    <3>2. CASE k # 0
      <4>1. PICK m \in Nat : k = m + 1 /\ k - 1 = m
        <5>1. k - 1 \in Nat /\ k = (k - 1) + 1
          BY <3>2
        <5> QED BY <5>1
      <4>2. h[m + 1] = F[h[m]] /\ h[m] \in Supply
        BY <1>2
      <4> QED BY <3>2, <4>1, <4>2
    <3> QED BY <3>1, <3>2
  <2> QED BY <2>1
<1>4. Abstract!Sequential = CHOOSE s : Eq(s)
  BY DEF Abstract!Sequential, OneMore, Firing
<1>5. Eq(Abstract!Sequential)
  <2> HIDE DEF Eq
  <2> QED BY <1>3, <1>4
<1>6. /\ Abstract!Sequential[0] = z
      /\ \A k \in Nat : Abstract!Sequential[k + 1] = OneMore(Abstract!Sequential[(k + 1) - 1])
  <2>1. \A k \in Nat : Abstract!Sequential[k] = IF k = 0 THEN z ELSE OneMore(Abstract!Sequential[k - 1])
    BY <1>5, Zenon
  <2> HIDE DEF z
  <2> QED BY <2>1
<1>7. \A k \in Nat : (k + 1) - 1 = k
  OBVIOUS
<1> QED BY <1>6, <1>7

\* The sequential execution stays below every end of the network.
LEMMA SequentialBelow ==
  ASSUME NEW k \in Nat
  PROVE  /\ Abstract!Sequential[k] \in Supply
         /\ \A g \in Final : \A a \in Actor : Abstract!Sequential[k][a] <= g[a]
<1> DEFINE Below(f) == \A g \in Final : \A a \in Actor : f[a] <= g[a]
           S == {n \in Nat : Abstract!Sequential[n] \in Supply /\ Below(Abstract!Sequential[n])}
<1>1. 0 \in S
  <2>1. Abstract!Sequential[0] = [a \in Actor |-> 0]
    BY SequentialSteps
  <2>2. [a \in Actor |-> 0] \in Supply
    BY RateFacts DEF Supply
  <2>3. Below([a \in Actor |-> 0])
    BY DEF Final
  <2> HIDE DEF Below
  <2> QED BY <2>1, <2>2, <2>3
<1>2. ASSUME NEW f \in Supply, Below(f)
      PROVE  Below(OneMore(f))
  <2>1. CASE Firing(f) = {}
    BY <1>2, <2>1 DEF OneMore
  <2>2. CASE Firing(f) # {}
    <3>1. PICK a \in Firing(f) : OneMore(f) = [f EXCEPT ![a] = @ + 1]
      BY <2>2, OneMoreFiring
    <3>2. a \in Actor /\ Abstract!Supplied(a, f[a] + 1, f) /\ f \in [Actor -> Nat]
      BY DEF Firing, Supply
    <3>3. ASSUME NEW g \in Final PROVE f[a] + 1 <= g[a]
      <4>1. g \in [Actor -> Nat] /\ \A b \in Actor : f[b] <= g[b] /\ g[b] <= Horizon[b]
        BY <1>2 DEF Final
      <4> SUFFICES ASSUME ~(f[a] + 1 <= g[a]) PROVE FALSE
        OBVIOUS
      <4>2. f[a] = g[a] /\ f[a] + 1 \in Nat /\ f[a] + 1 \in 0 .. f[a] + 1
        BY <3>2, <4>1
      <4>3. Abstract!Supplied(a, f[a] + 1, g)
        BY <3>2, <4>1, <4>2, SuppliedMonotone
      <4> QED BY <3>2, <4>2, <4>3 DEF Final
    <3> QED BY <1>2, <3>1, <3>2, <3>3
  <2> QED BY <2>1, <2>2
<1>3. ASSUME NEW n \in S PROVE n + 1 \in S
  <2>1. Abstract!Sequential[n] \in Supply /\ Below(Abstract!Sequential[n]) /\ n \in Nat
    OBVIOUS
  <2>2. Abstract!Sequential[n + 1] = OneMore(Abstract!Sequential[n])
    BY SequentialSteps
  <2> HIDE DEF Below
  <2>3. Abstract!Sequential[n + 1] \in Supply /\ Below(Abstract!Sequential[n + 1])
    BY <1>2, <2>1, <2>2, OneMoreSupply
  <2> QED BY <2>1, <2>3
<1>4. S = Nat
  <2> HIDE DEF S
  <2> S \subseteq Nat
    BY DEF S
  <2> QED BY <1>1, <1>3, Induction
<1> QED BY <1>4

LEMMA FiringsFinite ==
  ASSUME NEW f \in [Actor -> Nat]
  PROVE  IsFiniteSet(Abstract!Firings(f))
<1> DEFINE Of == [a \in Actor |-> {a} \X (1 .. f[a])]
           Sets == {{a} \X (1 .. f[a]) : a \in Actor}
<1>1. IsFiniteSet(Actor)
  BY NetworkShape DEF ShapeAssumption
<1>2. \A a \in Actor : IsFiniteSet({a} \X (1 .. f[a]))
  <2> TAKE a \in Actor
  <2>1. IsFiniteSet(1 .. f[a])
    BY FS_Interval
  <2>2. IsFiniteSet({a})
    BY FS_Singleton
  <2> QED BY <2>1, <2>2, FS_Product
<1>3. Of \in Surjection(Actor, Sets)
  BY DEF Surjection
<1>4. IsFiniteSet(Sets)
  <2> HIDE DEF Of, Sets
  <2> QED BY <1>1, <1>3, FS_Surjection
<1>5. \A T \in Sets : IsFiniteSet(T)
  BY <1>2
<1>6. IsFiniteSet(UNION Sets)
  <2> HIDE DEF Sets
  <2> QED BY <1>4, <1>5, FS_UNION
<1> QED BY <1>6 DEF Abstract!Firings

LEMMA FiringsMember ==
  ASSUME NEW f
  PROVE  \A p : p \in Abstract!Firings(f) <=> \E a \in Actor : \E n \in 1 .. f[a] : p = <<a, n>>
BY DEF Abstract!Firings

\* Until no actor can fire there is one more firing in every step.
LEMMA FiringsCounted ==
  ASSUME NEW k \in Nat, Firing(Abstract!Sequential[k]) # {}
  PROVE  Cardinality(Abstract!Firings(Abstract!Sequential[k])) = k
<1> DEFINE Q(n) == Abstract!Sequential[n]
           Count(f) == Cardinality(Abstract!Firings(f))
           S == {n \in Nat : Firing(Q(n)) # {} => Count(Q(n)) = n}
<1>1. 0 \in S
  <2>1. Q(0) = [a \in Actor |-> 0]
    BY SequentialSteps
  <2>2. Abstract!Firings([a \in Actor |-> 0]) = {}
    BY FiringsMember
  <2> QED BY <2>1, <2>2, FS_EmptySet
<1>2. ASSUME NEW n \in S PROVE n + 1 \in S
  <2>1. n \in Nat /\ n + 1 \in Nat /\ (Firing(Q(n)) # {} => Count(Q(n)) = n)
    OBVIOUS
  <2>2. PICK f \in Supply : f = Q(n) /\ Q(n + 1) = OneMore(f)
    BY <2>1, SequentialSteps, SequentialBelow
  <2>3. CASE Firing(f) = {}
    BY <2>1, <2>2, <2>3 DEF OneMore
  <2>4. CASE Firing(f) # {}
    <3>1. PICK a \in Firing(f) : OneMore(f) = [f EXCEPT ![a] = @ + 1]
      BY <2>4, OneMoreFiring
    <3>2. PICK x : x = <<a, f[a] + 1>>
      OBVIOUS
    <3>3. a \in Actor /\ f \in [Actor -> Nat]
      BY DEF Firing, Supply
    <3>4. Abstract!Firings(OneMore(f)) = Abstract!Firings(f) \cup {x}
      <4>1. ASSUME NEW p PROVE p \in Abstract!Firings(OneMore(f)) <=> p \in Abstract!Firings(f) \/ p = x
        <5>1. ASSUME NEW b \in Actor, NEW m \in 1 .. OneMore(f)[b]
              PROVE  (\E l \in 1 .. f[b] : l = m) \/ <<b, m>> = x
          BY <3>1, <3>2, <3>3
        <5>2. ASSUME NEW b \in Actor, NEW m \in 1 .. f[b]
              PROVE  m \in 1 .. OneMore(f)[b]
          BY <3>1, <3>3
        <5>3. f[a] + 1 \in 1 .. OneMore(f)[a]
          BY <3>1, <3>3
        <5> QED BY <3>2, <3>3, <5>1, <5>2, <5>3, FiringsMember
      <4> QED BY <4>1
    <3>5. x \notin Abstract!Firings(f)
      BY <3>2, <3>3, FiringsMember
    <3>6. IsFiniteSet(Abstract!Firings(f))
      BY <3>3, FiringsFinite
    <3>7. Count(OneMore(f)) = Count(f) + 1
      BY <3>4, <3>5, <3>6, FS_AddElement
    <3> QED BY <2>1, <2>2, <2>4, <3>7
  <2> QED BY <2>3, <2>4
<1>3. S = Nat
  <2> HIDE DEF S
  <2> S \subseteq Nat
    BY DEF S
  <2> QED BY <1>1, <1>2, Induction
<1> QED BY <1>3

\* As many steps as the actors have firings are enough.
LEMMA OutcomeFinal == Abstract!Outcome \in Final
<1> DEFINE K == Cardinality(Abstract!Firings(Horizon))
<1>1. Horizon \in [Actor -> Nat] /\ IsFiniteSet(Abstract!Firings(Horizon))
  BY NetworkRates, FiringsFinite DEF RateAssumption
<1>2. K \in Nat
  BY <1>1, FS_CardinalityType
<1>3. PICK f \in Supply : f = Abstract!Sequential[K] /\ f = Abstract!Outcome
  <2>1. Abstract!Outcome = Abstract!Sequential[K]
    BY DEF Abstract!Outcome, Abstract!Cardinality, Cardinality
  <2> HIDE DEF K
  <2> QED BY <1>2, <2>1, SequentialBelow
<1>4. Firing(f) = {}
  <2> SUFFICES ASSUME Firing(f) # {} PROVE FALSE
    OBVIOUS
  <2>1. Cardinality(Abstract!Firings(f)) = K
    <3> HIDE DEF K
    <3> QED BY <1>2, <1>3, FiringsCounted
  <2>2. Abstract!Firings(f) \subseteq Abstract!Firings(Horizon)
    <3>1. ASSUME NEW a \in Actor, NEW m \in 1 .. f[a] PROVE m \in 1 .. Horizon[a]
      BY <1>1 DEF Supply
    <3> QED BY <3>1, FiringsMember
  <2>3. Abstract!Firings(f) = Abstract!Firings(Horizon)
    BY <1>1, <2>1, <2>2, FS_Subset
  <2>4. PICK a \in Actor : f[a] + 1 <= Horizon[a] /\ f[a] + 1 \in Nat
    BY DEF Firing, Supply, Abstract!Supplied
  <2>5. f[a] \in Nat /\ f[a] + 1 \in 1 .. Horizon[a] /\ f[a] + 1 \notin 1 .. f[a]
    BY <2>4, <1>1 DEF Supply
  <2>6. PICK x : x = <<a, f[a] + 1>>
    OBVIOUS
  <2>7. x \in Abstract!Firings(Horizon)
    BY <2>5, <2>6, FiringsMember
  <2>8. PICK b \in Actor, n \in Nat : n \in 1 .. f[b] /\ x = <<b, n>>
    BY <2>3, <2>7, FiringsMember
  <2> QED BY <2>5, <2>6, <2>8
<1> QED BY <1>3, <1>4 DEF Final, Supply, Firing

\* The threads execute what one actor after the other would: when they are
\* joined, every actor has fired as often as in the sequential execution
\* (EXECUTE_NETWORK, and terminate with it).
THEOREM OutcomeCorrect == SmallNetwork => (Spec => []OutcomeUnique)
<1> SUFFICES ASSUME SmallNetwork PROVE Spec => []OutcomeUnique
  OBVIOUS
<1>1. Spec => [](Joined => fires \in Final /\ \A g \in Final : NotBeyond(g))
  BY OutcomeLeast
<1>2. (Joined => fires \in Final /\ \A g \in Final : NotBeyond(g)) => OutcomeUnique
  <2> SUFFICES ASSUME fires \in Final, \A g \in Final : NotBeyond(g)
               PROVE  fires = Abstract!Outcome
    BY DEF OutcomeUnique
  <2>1. PICK k \in Nat : k = Cardinality(Abstract!Firings(Horizon))
    <3>1. Horizon \in [Actor -> Nat]
      BY NetworkRates DEF RateAssumption
    <3> QED BY <3>1, FiringsFinite, FS_CardinalityType
  <2>2. Abstract!Outcome = Abstract!Sequential[k]
    BY <2>1 DEF Abstract!Outcome, Abstract!Cardinality, Cardinality
  <2>3. \A a \in Actor : Abstract!Outcome[a] <= fires[a]
    BY <2>2, SequentialBelow
  <2>4. \A a \in Actor : fires[a] <= Abstract!Outcome[a]
    BY OutcomeFinal DEF NotBeyond
  <2>5. fires \in [Actor -> Nat] /\ Abstract!Outcome \in [Actor -> Nat]
    BY OutcomeFinal DEF Final
  <2>6. \A a \in Actor : fires[a] = Abstract!Outcome[a]
    BY <2>3, <2>4, <2>5
  <2> QED BY <2>5, <2>6
<1> QED BY <1>1, <1>2, PTL
=============================================================================

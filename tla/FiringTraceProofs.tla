-------------------------- MODULE FiringTraceProofs ---------------------------
(***************************************************************************)
(* The execution trace, for every network that its action descriptions     *)
(* describe, any number of CPUs and every interleaving: the files, merged  *)
(* by step, replay an execution of the network (ReplayCorrect), and have   *)
(* each firing once under a number that no other action has                *)
(* (CompleteCorrect).                                                      *)
(***************************************************************************)
EXTENDS FiringTrace, ExecuteNetworkProofs

-----------------------------------------------------------------------------
(* Numbers that are counted through the actors.                            *)

LEMMA PrecedesIs ==
  ASSUME NEW a \in Actor, NEW b \in Actor
  PROVE  Precedes(b, a) <=> CpuOf[b] < CpuOf[a] \/ (CpuOf[b] = CpuOf[a] /\ Pos(b) < Pos(a))
<1> DEFINE s == ActorsOn[CpuOf[a]]
<1>1. CpuOf[a] \in Cpu /\ DOMAIN s = 1 .. Len(s)
  BY CpuFacts, RateFacts
<1>2. ASSUME CpuOf[b] = CpuOf[a]
      PROVE  (\E k, l \in DOMAIN s : k < l /\ s[k] = b /\ s[l] = a) <=> Pos(b) < Pos(a)
  <2>1. Pos(a) \in DOMAIN s /\ s[Pos(a)] = a /\ Pos(b) \in DOMAIN s /\ s[Pos(b)] = b
    BY <1>1, <1>2, PosFacts
  <2>2. \A k \in DOMAIN s : Pos(s[k]) = k
    BY <1>1, PosFacts
  <2> QED BY <2>1, <2>2
<1> QED BY <1>2 DEF Precedes

\* The order is total.
LEMMA Ordered ==
  ASSUME NEW a \in Actor, NEW b \in Actor
  PROVE  /\ a = b \/ Precedes(a, b) \/ Precedes(b, a)
         /\ ~Precedes(a, a)
         /\ Precedes(b, a) => \A x \in Actor : Precedes(x, b) => Precedes(x, a)
<1>1. \A x \in Actor : /\ CpuOf[x] \in Nat /\ Pos(x) \in Nat
                       /\ ActorsOn[CpuOf[x]][Pos(x)] = x
  BY PosFacts, CpuFacts
<1>2. a = b \/ Precedes(a, b) \/ Precedes(b, a)
  BY <1>1, PrecedesIs
<1>3. ~Precedes(a, a)
  BY <1>1, PrecedesIs
<1>4. ASSUME Precedes(b, a), NEW x \in Actor, Precedes(x, b)
      PROVE  Precedes(x, a)
  <2>1. /\ CpuOf[b] < CpuOf[a] \/ (CpuOf[b] = CpuOf[a] /\ Pos(b) < Pos(a))
        /\ CpuOf[x] < CpuOf[b] \/ (CpuOf[x] = CpuOf[b] /\ Pos(x) < Pos(b))
    BY <1>4, PrecedesIs
  <2>2. CpuOf[x] < CpuOf[a] \/ (CpuOf[x] = CpuOf[a] /\ Pos(x) < Pos(a))
    BY <1>1, <2>1
  <2> QED BY <2>2, PrecedesIs
<1> QED BY <1>2, <1>3, <1>4

LEMMA BeforeGrows ==
  ASSUME NEW number \in [Actor -> Nat], NEW a \in Actor, NEW b \in Actor, Precedes(b, a)
  PROVE  /\ SumBefore(a, number) \in Nat /\ SumBefore(b, number) \in Nat
         /\ SumBefore(b, number) + number[b] <= SumBefore(a, number)
<1> DEFINE A == {x \in Actor : Precedes(x, a)}
           B == {x \in Actor : Precedes(x, b)}
           C == B \union {b}
<1>1. IsFiniteSet(A) /\ IsFiniteSet(B) /\ IsFiniteSet(C)
  <2>1. IsFiniteSet(Actor)
    BY NetworkShape DEF ShapeAssumption
  <2>2. A \subseteq Actor /\ B \subseteq Actor /\ C \subseteq Actor
    OBVIOUS
  <2> QED BY <2>1, <2>2, FS_Subset
<1>2. C \subseteq A /\ b \notin B /\ C \ {b} = B
  BY Ordered
<1>3. \A x \in A : number[x] \in Nat
  OBVIOUS
<1>4. \A x \in B : number[x] \in Nat
  OBVIOUS
<1>5. \A x \in C : number[x] \in Int
  OBVIOUS
<1>6. SumBefore(a, number) = SumOf(number, A) /\ SumBefore(b, number) = SumOf(number, B)
  BY DEF SumBefore, SumOf
<1> HIDE DEF A, B
<1>7. SumOf(number, A) \in Nat /\ SumOf(number, B) \in Nat
  BY <1>1, <1>3, <1>4, SumNat
<1>8. SumOf(number, C) <= SumOf(number, A)
  BY <1>1, <1>2, <1>3, SumLess
<1>9. SumOf(number, C) = number[b] + SumOf(number, C \ {b})
  BY <1>1, <1>5, SumTake
<1> QED BY <1>2, <1>6, <1>7, <1>8, <1>9

\* No number is given twice.
LEMMA NumberedOnce ==
  ASSUME NEW number \in [Actor -> Nat], NEW a \in Actor, NEW b \in Actor,
         NEW k \in 0 .. number[a] - 1, NEW l \in 0 .. number[b] - 1,
         SumBefore(a, number) + k = SumBefore(b, number) + l
  PROVE  a = b
<1>1. number[a] \in Nat /\ number[b] \in Nat
  OBVIOUS
<1>2. ~Precedes(a, b)
  BY <1>1, BeforeGrows
<1>3. ~Precedes(b, a)
  BY <1>1, BeforeGrows
<1> QED BY <1>2, <1>3, Ordered

LEMMA BeforeNat ==
  ASSUME NEW number \in [Actor -> Nat], NEW a \in Actor
  PROVE  SumBefore(a, number) \in Nat
<1> DEFINE A == {x \in Actor : Precedes(x, a)}
<1>1. IsFiniteSet(A)
  BY NetworkShape, FS_Subset DEF ShapeAssumption
<1>2. \A x \in A : number[x] \in Nat
  OBVIOUS
<1> QED BY <1>1, <1>2, SumNat DEF SumBefore, SumOf

-----------------------------------------------------------------------------
(* What a reader makes of a record.                                        *)

\* Of the n places that have a rate, x alone names the port.
OnlyAt(rates, n, names, port, x) ==
  /\ n \in Nat /\ rates \in [1 .. n -> Nat]
  /\ x \in 1 .. n /\ names[x] = port /\ \A y \in 1 .. n : names[y] = port => y = x

\* A port that one place of the list names gets the rate of that place.
LEMMA RatedAt ==
  ASSUME NEW n, NEW rates, NEW names, NEW port, NEW x, OnlyAt(rates, n, names, port, x)
  PROVE  Rate(Rated(rates, names), port) = rates[x]
<1> DEFINE R == Rated(rates, names)
<1>1. \A t : t \in R <=> \E y \in 1 .. n : rates[y] # 0 /\ t = <<names[y], rates[y]>>
  BY DEF Rated, OnlyAt
<1> HIDE DEF R
<1>2. \A t \in R : t[1] = port => t = <<port, rates[x]>> /\ rates[x] # 0
  BY <1>1 DEF OnlyAt
<1>3. CASE rates[x] = 0
  BY <1>2, <1>3 DEF Rate, R
<1>4. CASE rates[x] # 0
  <2>1. <<port, rates[x]>> \in R
    BY <1>1, <1>4 DEF OnlyAt
  <2>2. \E t \in R : t[1] = port
    BY <2>1
  <2>3. (CHOOSE t \in R : t[1] = port) = <<port, rates[x]>>
    BY <1>2, <2>2
  <2>4. Rate(R, port) = (CHOOSE t \in R : t[1] = port)[2]
    BY <2>2 DEF Rate
  <2>5. \A v : <<port, v>>[2] = v
    OBVIOUS
  <2> QED BY <2>3, <2>4, <2>5 DEF R
<1> QED BY <1>3, <1>4

\* A port that the list does not name gets none.
LEMMA RatedNone ==
  ASSUME NEW n \in Nat, NEW rates \in [1 .. n -> Nat], NEW names, NEW port,
         \A y \in 1 .. n : names[y] # port
  PROVE  Rate(Rated(rates, names), port) = 0
<1> DEFINE R == Rated(rates, names)
<1>1. \A t : t \in R <=> \E y \in 1 .. n : rates[y] # 0 /\ t = <<names[y], rates[y]>>
  BY DEF Rated
<1> HIDE DEF R
<1>2. ~\E t \in R : t[1] = port
  BY <1>1
<1> QED BY <1>2 DEF Rate, R

LEMMA PortLists ==
  \A a \in Actor : /\ Len(Ins[a]) \in Nat /\ DOMAIN Ins[a] = 1 .. Len(Ins[a])
                   /\ Len(Outs[a]) \in Nat /\ DOMAIN Outs[a] = 1 .. Len(Outs[a])
<1>1. Ins \in [Actor -> Seq(Chan)] /\ Outs \in [Actor -> Seq(Chan)]
  BY NetworkShape DEF ShapeAssumption
<1> QED BY <1>1

LEMMA InPosition ==
  ASSUME NEW p \in InPort
  PROVE  /\ Position(p[1], Ins[p[2]]) \in 1 .. Len(Ins[p[2]])
         /\ \A x \in 1 .. Len(Ins[p[2]]) : Ins[p[2]][x] = p[1] <=> x = Position(p[1], Ins[p[2]])
<1> DEFINE s == Ins[p[2]]
<1>1. p[2] \in Actor /\ DOMAIN s = 1 .. Len(s)
  BY RateFacts, PortLists
<1>2. \E x \in DOMAIN s : s[x] = p[1]
  BY <1>1 DEF InPort
<1>3. \A k, l \in DOMAIN s : s[k] = s[l] => k = l
  BY <1>1, NetworkShape DEF ShapeAssumption, OneToOne
<1>4. Position(p[1], s) \in DOMAIN s /\ s[Position(p[1], s)] = p[1]
  BY <1>2 DEF Position
<1> QED BY <1>1, <1>3, <1>4

LEMMA OutPosition ==
  ASSUME NEW ch \in Chan
  PROVE  /\ Position(ch, Outs[Writer[ch]]) \in 1 .. Len(Outs[Writer[ch]])
         /\ \A x \in 1 .. Len(Outs[Writer[ch]]) :
              Outs[Writer[ch]][x] = ch <=> x = Position(ch, Outs[Writer[ch]])
<1> DEFINE s == Outs[Writer[ch]]
<1>1. Writer[ch] \in Actor /\ DOMAIN s = 1 .. Len(s)
  BY RateFacts, PortLists
<1>2. \E x \in DOMAIN s : s[x] = ch
  BY <1>1, NetworkShape DEF ShapeAssumption
<1>3. \A k, l \in DOMAIN s : s[k] = s[l] => k = l
  BY <1>1, NetworkShape DEF ShapeAssumption, OneToOne
<1>4. Position(ch, s) \in DOMAIN s /\ s[Position(ch, s)] = ch
  BY <1>2 DEF Position
<1> QED BY <1>1, <1>3, <1>4

\* The actions of all actors, and their descriptions.
Action(a, k) == a \in Actor /\ k \in 0 .. NumActions[a] - 1

LEMMA Described ==
  ASSUME NEW a, NEW k, Action(a, k)
  PROVE  /\ a \in Actor /\ k \in Nat /\ NumActions \in [Actor -> Nat]
         /\ Consumption[a][k] \in [1 .. Len(Ins[a]) -> Nat]
         /\ Production[a][k] \in [1 .. Len(Outs[a]) -> Nat]
BY TraceDescriptions DEF Action, DescriptionAssumption

\* Tokens that action k of a puts on ch, and takes from the FIFO of p.
Puts(a, k, ch) == IF Writer[ch] = a THEN Production[a][k][Position(ch, Outs[a])] ELSE 0
Takes(a, k, p) == IF p[2] = a THEN Consumption[a][k][Position(p[1], Ins[a])] ELSE 0

LEMMA XmlOnce ==
  ASSUME NEW a, NEW k, Action(a, k), NEW b, NEW l, Action(b, l),
         FirstActionIndex(a) + k = FirstActionIndex(b) + l
  PROVE  a = b /\ k = l
<1>1. a \in Actor /\ b \in Actor /\ NumActions \in [Actor -> Nat] /\ k \in Nat /\ l \in Nat
  BY Described
<1>2. k \in 0 .. NumActions[a] - 1 /\ l \in 0 .. NumActions[b] - 1
  BY DEF Action
<1>3. a = b
  BY <1>1, <1>2, NumberedOnce DEF FirstActionIndex
<1>4. FirstActionIndex(a) \in Nat
  BY <1>1, BeforeNat DEF FirstActionIndex
<1> QED BY <1>1, <1>3, <1>4

LEMMA XmlPuts ==
  ASSUME NEW a, NEW k, Action(a, k), NEW p \in InPort
  PROVE  Rate(XmlAction(a, k).produces, p[1]) = Puts(a, k, p[1])
<1> DEFINE rates == Production[a][k]
           n == Len(Outs[a])
<1>1. rates \in [1 .. n -> Nat] /\ n \in Nat /\ a \in Actor /\ p[1] \in Chan
  BY Described, PortLists, RateFacts
<1>2. XmlAction(a, k).produces = Rated(rates, Outs[a])
  BY DEF XmlAction
<1>3. CASE Writer[p[1]] = a
  <2>1. /\ Position(p[1], Outs[a]) \in 1 .. n
        /\ \A x \in 1 .. n : Outs[a][x] = p[1] <=> x = Position(p[1], Outs[a])
    BY <1>1, <1>3, OutPosition
  <2> HIDE DEF n, rates
  <2>2. OnlyAt(rates, n, Outs[a], p[1], Position(p[1], Outs[a]))
    BY <1>1, <2>1 DEF OnlyAt
  <2>3. Rate(Rated(rates, Outs[a]), p[1]) = rates[Position(p[1], Outs[a])]
    BY <2>2, RatedAt
  <2> QED BY <1>2, <1>3, <2>3 DEF Puts, rates
<1>4. CASE Writer[p[1]] # a
  <2>1. ASSUME NEW x \in 1 .. n, Outs[a][x] = p[1] PROVE FALSE
    <3>1. \A y \in 1 .. Len(Outs[a]) : Writer[Outs[a][y]] = a
      BY <1>1, NetworkShape DEF ShapeAssumption
    <3> QED BY <1>4, <2>1, <3>1
  <2> HIDE DEF n, rates
  <2>2. Rate(Rated(rates, Outs[a]), p[1]) = 0
    BY <1>1, <2>1, RatedNone
  <2> QED BY <1>2, <1>4, <2>2 DEF Puts
<1> QED BY <1>3, <1>4

\* The name of an input port in net_trace.xml.
InputId(p) == FirstInput(p[2]) + Position(p[1], Ins[p[2]]) - 1

LEMMA XmlTakes ==
  ASSUME NEW a, NEW k, Action(a, k), NEW p \in InPort
  PROVE  Rate(XmlAction(a, k).consumes, InputId(p)) = Takes(a, k, p)
<1> DEFINE rates == Consumption[a][k]
           n == Len(Ins[a])
           names == [x \in DOMAIN Ins[a] |-> FirstInput(a) + x - 1]
           number == [b \in Actor |-> Len(Ins[b])]
           b == p[2]
           y == Position(p[1], Ins[b])
<1>1. /\ rates \in [1 .. n -> Nat] /\ n \in Nat /\ DOMAIN Ins[a] = 1 .. n
      /\ a \in Actor /\ b \in Actor /\ number \in [Actor -> Nat] /\ Len(Ins[b]) \in Nat
  BY Described, PortLists, RateFacts
<1>2. XmlAction(a, k).consumes = Rated(rates, names)
  BY DEF XmlAction
<1>3. /\ y \in 1 .. Len(Ins[b])
      /\ FirstInput(a) = SumBefore(a, number) /\ FirstInput(b) = SumBefore(b, number)
      /\ FirstInput(a) \in Nat /\ FirstInput(b) \in Nat
  BY <1>1, InPosition, BeforeNat DEF FirstInput
<1>4. \A x \in 1 .. n : names[x] = FirstInput(a) + x - 1
  BY <1>1
<1>5. CASE b = a
  <2>1. y \in 1 .. n /\ InputId(p) = FirstInput(a) + y - 1
    BY <1>3, <1>5 DEF InputId
  <2> HIDE DEF n, names, rates, number
  <2>2. OnlyAt(rates, n, names, InputId(p), y)
    <3>1. n \in Nat /\ rates \in [1 .. n -> Nat]
      BY <1>1
    <3>2. names[y] = InputId(p)
      BY <1>4, <2>1
    <3>3. ASSUME NEW x \in 1 .. n, names[x] = InputId(p) PROVE x = y
      <4>1. FirstInput(a) + x - 1 = FirstInput(a) + y - 1
        BY <1>4, <2>1, <3>3
      <4>2. FirstInput(a) \in Nat /\ x \in Int /\ y \in Int
        BY <1>3, <2>1, <3>1
      <4> QED BY <4>1, <4>2
    <3> QED BY <2>1, <3>1, <3>2, <3>3 DEF OnlyAt
  <2>3. Rate(Rated(rates, names), InputId(p)) = rates[y]
    BY <2>2, RatedAt
  <2> QED BY <1>2, <1>5, <2>3 DEF Takes, rates
<1>6. CASE b # a
  <2>1. ASSUME NEW x \in 1 .. n, names[x] = InputId(p) PROVE FALSE
    <3>1. number[a] = n /\ number[b] = Len(Ins[b])
      BY <1>1
    <3> HIDE DEF number
    <3>2. x - 1 \in 0 .. number[a] - 1 /\ y - 1 \in 0 .. number[b] - 1
      BY <1>1, <1>3, <3>1
    <3>3. SumBefore(a, number) + (x - 1) = SumBefore(b, number) + (y - 1)
      BY <1>1, <1>3, <1>4, <2>1 DEF InputId
    <3> QED BY <1>1, <1>6, <3>2, <3>3, NumberedOnce
  <2> HIDE DEF n, names, rates
  <2>2. Rate(Rated(rates, names), InputId(p)) = 0
    BY <1>1, <2>1, RatedNone
  <2> QED BY <1>2, <1>6, <2>2 DEF Takes
<1> QED BY <1>5, <1>6

LEMMA XmlEffectIs ==
  ASSUME NEW a, NEW k, Action(a, k), NEW p \in InPort
  PROVE  XmlEffect[p][FirstActionIndex(a) + k] = Puts(a, k, p[1]) - Takes(a, k, p)
<1> DEFINE actions == UNION {{XmlAction(b, l) : l \in 0 .. NumActions[b] - 1} : b \in Actor}
           Of(id) == CHOOSE e \in actions : e.id = id
           id == FirstActionIndex(a) + k
<1>1. \A e : e \in actions <=> \E b, l : Action(b, l) /\ e = XmlAction(b, l)
  BY DEF Action
<1>2. \A b, l : XmlAction(b, l).id = FirstActionIndex(b) + l
  BY DEF XmlAction
<1>3. XmlAction(a, k) \in actions /\ XmlAction(a, k).id = id
  BY <1>1, <1>2
<1>4. XmlEffect[p][id] = Rate(Of(id).produces, p[1]) - Rate(Of(id).consumes, InputId(p))
  <2>1. id \in {e.id : e \in actions}
    BY <1>3
  <2> QED BY <2>1 DEF XmlEffect, InputId
<1>5. Of(id) = XmlAction(a, k)
  <2> HIDE DEF actions
  <2>1. \A e \in actions : e.id = id => e = XmlAction(a, k)
    BY <1>1, <1>2, XmlOnce
  <2> QED BY <1>3, <2>1
<1> QED BY <1>4, <1>5, XmlPuts, XmlTakes

LEMMA TurnusOnce ==
  ASSUME NEW a, NEW k, Action(a, k), NEW b, NEW l, Action(b, l),
         TurnusFiring(a, k) = TurnusFiring(b, l)
  PROVE  a = b /\ k = l
<1>1. Class[a] = Class[b] /\ k = l
  <2>1. /\ TurnusFiring(a, k).actor = Class[a] /\ TurnusFiring(b, l).actor = Class[b]
        /\ TurnusFiring(a, k).action = k /\ TurnusFiring(b, l).action = l
    BY DEF TurnusFiring
  <2> QED BY <2>1
<1>2. a \in Actor /\ b \in Actor
  BY DEF Action
<1> QED BY <1>1, <1>2, TraceDescriptions DEF DescriptionAssumption

\* The ports of a TURNUS record have the numbers of their lists.
LEMMA TurnusRate ==
  ASSUME NEW n \in Nat, NEW rates \in [1 .. n -> Nat], NEW io, NEW y \in 1 .. n, NEW names
  PROVE  (\A x \in 1 .. n : names[x] = <<io, x>>)
           => Rate(Rated(rates, names), <<io, y>>) = rates[y]
<1>1. (\A x \in 1 .. n : names[x] = <<io, x>>) => OnlyAt(rates, n, names, <<io, y>>, y)
  BY DEF OnlyAt
<1> QED BY <1>1, RatedAt

LEMMA TurnusEffectIs ==
  ASSUME NEW a, NEW k, Action(a, k), NEW p \in InPort
  PROVE  TurnusEffect[p][TurnusFiring(a, k)] = Puts(a, k, p[1]) - Takes(a, k, p)
<1> DEFINE firings == UNION {{TurnusFiring(b, l) : l \in 0 .. NumActions[b] - 1} : b \in Actor}
           r == TurnusFiring(a, k)
           w == Writer[p[1]]
           out == IF r.actor = Class[w] THEN Rate(r.produces, <<"out", Position(p[1], Outs[w])>>) ELSE 0
           in == IF r.actor = Class[p[2]] THEN Rate(r.consumes, <<"in", Position(p[1], Ins[p[2]])>>) ELSE 0
<1>1. /\ a \in Actor /\ w \in Actor /\ p[1] \in Chan /\ p[2] \in Actor
      /\ Consumption[a][k] \in [1 .. Len(Ins[a]) -> Nat]
      /\ Production[a][k] \in [1 .. Len(Outs[a]) -> Nat]
      /\ Len(Ins[a]) \in Nat /\ DOMAIN Ins[a] = 1 .. Len(Ins[a])
      /\ Len(Outs[a]) \in Nat /\ DOMAIN Outs[a] = 1 .. Len(Outs[a])
  BY Described, RateFacts, PortLists
<1>2. r.actor = Class[w] <=> w = a
  <2>1. r.actor = Class[a]
    BY DEF TurnusFiring
  <2> QED BY <1>1, <2>1, TraceDescriptions DEF DescriptionAssumption
<1>3. r.actor = Class[p[2]] <=> p[2] = a
  <2>1. r.actor = Class[a]
    BY DEF TurnusFiring
  <2> QED BY <1>1, <2>1, TraceDescriptions DEF DescriptionAssumption
<1>4. TurnusEffect[p][r] = out - in
  <2>1. r \in firings
    BY DEF Action
  <2> QED BY <2>1 DEF TurnusEffect
<1> DEFINE outs == [x \in 1 .. Len(Outs[a]) |-> <<"out", x>>]
           ins == [x \in 1 .. Len(Ins[a]) |-> <<"in", x>>]
<1>5. r.produces = Rated(Production[a][k], outs) /\ r.consumes = Rated(Consumption[a][k], ins)
  BY <1>1 DEF TurnusFiring
<1> HIDE DEF r
<1>6. /\ \A y \in 1 .. Len(Outs[a]) : Rate(Rated(Production[a][k], outs), <<"out", y>>) = Production[a][k][y]
      /\ \A y \in 1 .. Len(Ins[a]) : Rate(Rated(Consumption[a][k], ins), <<"in", y>>) = Consumption[a][k][y]
  <2>1. /\ \A x \in 1 .. Len(Outs[a]) : outs[x] = <<"out", x>>
        /\ \A x \in 1 .. Len(Ins[a]) : ins[x] = <<"in", x>>
    OBVIOUS
  <2> HIDE DEF outs, ins
  <2>2. ASSUME NEW y \in 1 .. Len(Outs[a])
        PROVE  Rate(Rated(Production[a][k], outs), <<"out", y>>) = Production[a][k][y]
    <3> DEFINE n == Len(Outs[a])
               rates == Production[a][k]
    <3>1. n \in Nat /\ y \in 1 .. n /\ rates \in [1 .. n -> Nat] /\ \A x \in 1 .. n : outs[x] = <<"out", x>>
      BY <1>1, <2>1
    <3> HIDE DEF n, rates
    <3>2. Rate(Rated(rates, outs), <<"out", y>>) = rates[y]
      BY <3>1, TurnusRate
    <3> QED BY <3>2 DEF rates
  <2>3. ASSUME NEW y \in 1 .. Len(Ins[a])
        PROVE  Rate(Rated(Consumption[a][k], ins), <<"in", y>>) = Consumption[a][k][y]
    <3> DEFINE n == Len(Ins[a])
               rates == Consumption[a][k]
    <3>1. n \in Nat /\ y \in 1 .. n /\ rates \in [1 .. n -> Nat] /\ \A x \in 1 .. n : ins[x] = <<"in", x>>
      BY <1>1, <2>1
    <3> HIDE DEF n, rates
    <3>2. Rate(Rated(rates, ins), <<"in", y>>) = rates[y]
      BY <3>1, TurnusRate
    <3> QED BY <3>2 DEF rates
  <2> QED BY <2>2, <2>3
<1> HIDE DEF outs, ins
<1>7. out = Puts(a, k, p[1])
  <2>1. CASE w = a
    <3>1. Position(p[1], Outs[a]) \in 1 .. Len(Outs[a])
      BY <1>1, <2>1, OutPosition
    <3>2. Rate(r.produces, <<"out", Position(p[1], Outs[a])>>)
            = Production[a][k][Position(p[1], Outs[a])]
      BY <1>5, <1>6, <3>1
    <3> QED BY <1>2, <2>1, <3>2 DEF Puts
  <2>2. CASE w # a
    BY <1>2, <2>2 DEF Puts
  <2> QED BY <2>1, <2>2
<1>8. in = Takes(a, k, p)
  <2>1. CASE p[2] = a
    <3>1. Position(p[1], Ins[a]) \in 1 .. Len(Ins[a])
      BY <2>1, InPosition
    <3>2. Rate(r.consumes, <<"in", Position(p[1], Ins[a])>>)
            = Consumption[a][k][Position(p[1], Ins[a])]
      BY <1>5, <1>6, <3>1
    <3> QED BY <1>3, <2>1, <3>2 DEF Takes
  <2>2. CASE p[2] # a
    BY <1>3, <2>2 DEF Takes
  <2> QED BY <2>1, <2>2
<1> HIDE DEF out, in
<1> QED BY <1>4, <1>7, <1>8 DEF r

LEMMA RecordOnce ==
  ASSUME NEW a, NEW k, Action(a, k), NEW b, NEW l, Action(b, l), Record(a, k) = Record(b, l)
  PROVE  a = b /\ k = l
BY XmlOnce, TurnusOnce DEF Record

LEMMA RecordIn ==
  ASSUME NEW a, NEW k, Action(a, k)
  PROVE  Record(a, k) \in Records
BY DEF Records, Action

\* The n-th firing of a changes the tokens of the FIFO of p as its record says.
LEMMA EffectIs ==
  ASSUME NEW a \in Actor, NEW n \in 1 .. Horizon[a], NEW p \in InPort
  PROVE  /\ Action(a, ActionAt[a][n])
         /\ Effect[p][Record(a, ActionAt[a][n])]
              = (IF Writer[p[1]] = a THEN Given[p[1]][n] - Given[p[1]][n - 1] ELSE 0)
                - (IF p[2] = a THEN Taken[p[1]][a][n] - Taken[p[1]][a][n - 1] ELSE 0)
<1> DEFINE k == ActionAt[a][n]
<1>1. /\ k \in 0 .. NumActions[a] - 1
      /\ \A x \in 1 .. Len(Ins[a]) :
           Consumption[a][k][x] = Taken[Ins[a][x]][a][n] - Taken[Ins[a][x]][a][n - 1]
      /\ \A x \in 1 .. Len(Outs[a]) :
           Production[a][k][x] = Given[Outs[a][x]][n] - Given[Outs[a][x]][n - 1]
  BY TraceDescriptions DEF DescriptionAssumption
<1>2. Action(a, k)
  BY <1>1 DEF Action
<1> HIDE DEF k
<1>3. Effect[p][Record(a, k)] = Puts(a, k, p[1]) - Takes(a, k, p)
  BY <1>2, XmlEffectIs, TurnusEffectIs DEF Effect, Record
<1>4. Puts(a, k, p[1]) = IF Writer[p[1]] = a THEN Given[p[1]][n] - Given[p[1]][n - 1] ELSE 0
  <2>1. CASE Writer[p[1]] = a
    <3>1. /\ Position(p[1], Outs[a]) \in 1 .. Len(Outs[a])
          /\ Outs[a][Position(p[1], Outs[a])] = p[1]
      BY <2>1, OutPosition, RateFacts
    <3>2. Production[a][k][Position(p[1], Outs[a])] = Given[p[1]][n] - Given[p[1]][n - 1]
      BY <1>1, <3>1
    <3> QED BY <2>1, <3>2 DEF Puts
  <2>2. CASE Writer[p[1]] # a
    BY <2>2 DEF Puts
  <2> QED BY <2>1, <2>2
<1>5. Takes(a, k, p) = IF p[2] = a THEN Taken[p[1]][a][n] - Taken[p[1]][a][n - 1] ELSE 0
  <2>1. CASE p[2] = a
    <3>1. /\ Position(p[1], Ins[a]) \in 1 .. Len(Ins[a])
          /\ Ins[a][Position(p[1], Ins[a])] = p[1]
      BY <2>1, InPosition
    <3>2. Consumption[a][k][Position(p[1], Ins[a])] = Taken[p[1]][a][n] - Taken[p[1]][a][n - 1]
      BY <1>1, <3>1
    <3> QED BY <2>1, <3>2 DEF Takes
  <2>2. CASE p[2] # a
    BY <2>2 DEF Takes
  <2> QED BY <2>1, <2>2
<1> QED BY <1>2, <1>3, <1>4, <1>5 DEF k

-----------------------------------------------------------------------------
(* The replay.  The counts that other CPUs see do not run ahead of the     *)
(* trace, so that a firing finds the tokens it reads, and the space for    *)
(* those it writes, in the trace before it.                                *)

TraceTyped ==
  /\ format \in {"trace", "turnus"} /\ step \in Nat
  /\ traced \in [Actor -> Nat] /\ \A a \in Actor : traced[a] <= fires[a]
  /\ recorded \in [Records -> Nat]
  /\ replayed \in [InPort -> Int]
  /\ closed \in 0 .. N /\ info \in [Cpu -> Nat \union {None}]

\* What the trace says up to now of the tokens written and read.
Shown(ch) == Given[ch][traced[Writer[ch]]]
Used(p) == Taken[p[1]][p[2]][traced[p[2]]]

\* A writer counts on the space that has been published, not on all there is.
Room == \A p \in InPort : availOut[p[1]] <= Cap[p[1]] - (Written(p[1]) - rcount[p])

ReplayInv ==
  \A p \in InPort :
    /\ replayed[p] = Shown(p[1]) - Used(p)
    /\ wcount[p[1]] <= Shown(p[1]) /\ rcount[p] <= Used(p)
    /\ Read(p) <= Shown(p[1])
    /\ Written(p[1]) - Used(p) <= Cap[p[1]]

LEMMA ShownFacts ==
  ASSUME TypeOK, TraceTyped, NEW p \in InPort
  PROVE  /\ Shown(p[1]) \in Nat /\ Shown(p[1]) <= Written(p[1])
         /\ Used(p) \in Nat /\ Used(p) <= Read(p)
<1> DEFINE w == Writer[p[1]]
<1>1. p[1] \in Chan /\ p[2] \in Actor /\ p = <<p[1], p[2]>> /\ w \in Actor
  BY RateFacts
<1>2. \A a \in Actor : /\ Horizon[a] \in Nat /\ fires[a] \in 0 .. Horizon[a]
                       /\ traced[a] \in 0 .. fires[a]
  BY RateFacts DEF TypeOK, ActorsTyped, TraceTyped
<1>3. Shown(p[1]) \in Nat /\ Shown(p[1]) <= Written(p[1])
  BY <1>1, <1>2, GivenFacts DEF Shown, Written
<1>4. Used(p) \in Nat /\ Used(p) <= Read(p)
  <2>1. <<p[1], p[2]>> \in InPort
    BY <1>1
  <2> QED BY <1>1, <1>2, <2>1, TakenFacts DEF Used, Read
<1> QED BY <1>3, <1>4

\* A step of a thread publishes only counts of its own actors.
LEMMA PublishedBy ==
  ASSUME TypeOK, NEW c \in Cpu, Thread(c)
  PROVE  /\ \A ch \in Chan : wcount'[ch] # wcount[ch] => CpuOf[Writer[ch]] = c
         /\ \A p \in InPort : rcount'[p] # rcount[p] => CpuOf[p[2]] = c
         /\ \A p \in InPort : rcount[p] <= rcount'[p]
         /\ Fire(c) => UNCHANGED <<wcount, rcount>>
<1>1. \A p \in InPort : rcount[p] \in Nat /\ inCount[p] \in Nat
  BY DEF TypeOK, PortsTyped
<1>2. CASE UNCHANGED <<wcount, rcount>>
  BY <1>1, <1>2
<1>3. CASE PostfirePort(c)
  <2> DEFINE a == This(c)
             ch0 == Ports(a)[j[c]]
  <2>1. PlacesTyped /\ a \in Actor /\ CpuOf[a] = c
    BY <1>3, PostfireMoves DEF TypeOK
  <2>2. j[c] \in 1 .. Len(Ports(a))
    <3>1. pc[c] = "postfire" /\ Ports(a) # <<>>
      BY <1>3 DEF PostfirePort, At
    <3>2. 1 \in 1 .. Len(Ports(a))
      BY <2>1, <3>1, FirstPort
    <3> QED BY <2>1, <3>1, <3>2 DEF PlacesTyped
  <2> HIDE DEF a
  <2>3. CASE IsInput(a, j[c])
    <3>1. wcount' = wcount /\ rcount' = [rcount EXCEPT ![<<ch0, a>>] = @ + inCount[<<ch0, a>>]]
      BY <1>3, <2>3 DEF PostfirePort, PublishIn, a
    <3>2. <<ch0, a>> \in InPort
      BY <2>1, <2>2, <2>3, PortFacts
    <3>3. ASSUME NEW p \in InPort
          PROVE  /\ rcount'[p] # rcount[p] => CpuOf[p[2]] = c
                 /\ rcount[p] <= rcount'[p]
      <4>1. CASE p = <<ch0, a>>
        BY <1>1, <2>1, <3>1, <4>1 DEF TypeOK, PortsTyped
      <4>2. CASE p # <<ch0, a>>
        BY <1>1, <3>1, <4>2 DEF TypeOK, PortsTyped
      <4> QED BY <4>1, <4>2
    <3> QED BY <1>3, <3>1, <3>3 DEF Fire, PostfirePort, At
  <2>4. CASE ~IsInput(a, j[c])
    <3>1. rcount' = rcount /\ wcount' = [wcount EXCEPT ![ch0] = @ + outCount[ch0]]
      BY <1>3, <2>4 DEF PostfirePort, PublishOut, a
    <3>2. Writer[ch0] = a
      BY <2>1, <2>2, <2>4, PortFacts
    <3> QED BY <1>1, <1>3, <2>1, <3>1, <3>2 DEF Fire, PostfirePort, At, TypeOK, PortsTyped
  <2> QED BY <2>3, <2>4
<1>4. ~PostfirePort(c) => UNCHANGED <<wcount, rcount>>
  BY DEF Thread, PrefirePort, ReadIn, ReadOut, PrefireSkip, Fire, Call, Decrement, FireSkip, PostfireSkip,
         Wake, Post, Lock, Scan, StayAwake, GoToSleep, CheckTerminate, Wait, WakeUp, Drain, Done,
         dataVars, portVars
<1> QED BY <1>2, <1>3, <1>4

\* What a call does to the tokens of the FIFOs of its actor.
LEMMA CallMoves ==
  ASSUME TypeOK, NEW c \in Cpu, Fire(c)
  PROVE  /\ \A ch \in Chan :
              /\ Writer[ch] # This(c) => Written(ch)' = Written(ch) /\ availOut'[ch] = availOut[ch]
              /\ Writer[ch] = This(c) =>
                   /\ availOut'[ch] = availOut[ch] - (Written(ch)' - Written(ch))
                   /\ Written(ch)' = Written(ch) \/ Written(ch)' - Written(ch) <= availOut[ch]
         /\ \A p \in InPort :
              /\ p[2] # This(c) => Read(p)' = Read(p)
              /\ p[2] = This(c) => \/ Read(p)' = Read(p)
                                   \/ Read(p)' - Read(p) <= Visible(p[2], p[1])
         /\ UNCHANGED <<wcount, rcount>>
<1> DEFINE a == This(c)
<1>1. a \in Actor
  BY FireMoves DEF TypeOK
<1>2. PICK m \in fires[a] .. fires[a] + Loops[a] : Reaches(a, m) /\ Call(a, m)
  BY DEF Fire
<1>3. /\ fires' = [fires EXCEPT ![a] = m] /\ fires'[a] = m /\ UNCHANGED <<wcount, rcount>>
      /\ \A b \in Actor : b # a => fires'[b] = fires[b]
      /\ m = fires[a] \/ Enough(a, m)
  <2>1. fires \in [Actor -> Nat] /\ Loops[a] \in Nat
    BY <1>1, RateFacts DEF TypeOK, ActorsTyped
  <2>2. m = fires[a] \/ m > fires[a]
    BY <1>1, <2>1
  <2> QED BY <1>1, <1>2, <2>1, <2>2 DEF Call, Reaches
<1> HIDE DEF a
<1>4. ASSUME NEW ch \in Chan
      PROVE  /\ Writer[ch] # a => Written(ch)' = Written(ch) /\ availOut'[ch] = availOut[ch]
             /\ Writer[ch] = a =>
                  /\ availOut'[ch] = availOut[ch] - (Written(ch)' - Written(ch))
                  /\ Written(ch)' = Written(ch) \/ Written(ch)' - Written(ch) <= availOut[ch]
  <2>1. CASE Writer[ch] # a
    BY <1>2, <1>3, <2>1, RateFacts DEF Call, Written
  <2>2. CASE Writer[ch] = a
    <3>1. Written(ch)' = Given[ch][m] /\ Written(ch) = Given[ch][fires[a]]
      BY <1>3, <2>2 DEF Written
    <3>2. GivenBy(a, ch, m) = Written(ch)' - Written(ch)
      BY <3>1 DEF GivenBy
    <3>3. availOut'[ch] = availOut[ch] - (Written(ch)' - Written(ch))
      BY <1>2, <2>2, <3>2 DEF Call
    <3>4. Written(ch)' = Written(ch) \/ Written(ch)' - Written(ch) <= availOut[ch]
      BY <1>3, <2>2, <3>1, <3>2 DEF Enough
    <3> QED BY <2>2, <3>3, <3>4
  <2> QED BY <2>1, <2>2
<1>5. ASSUME NEW p \in InPort
      PROVE  /\ p[2] # a => Read(p)' = Read(p)
             /\ p[2] = a => Read(p)' = Read(p) \/ Read(p)' - Read(p) <= Visible(p[2], p[1])
  <2>1. CASE p[2] # a
    BY <1>3, <2>1, RateFacts DEF Read
  <2>2. CASE p[2] = a
    <3>1. Read(p)' = Taken[p[1]][a][m] /\ Read(p) = Taken[p[1]][a][fires[a]]
      BY <1>3, <2>2 DEF Read
    <3>2. TakenBy(a, p[1], m) = Read(p)' - Read(p)
      BY <3>1 DEF TakenBy
    <3>3. p[1] \in Chan /\ <<p[1], a>> \in InPort
      BY <2>2, RateFacts
    <3> QED BY <1>3, <2>2, <3>1, <3>2, <3>3 DEF Enough
  <2> QED BY <2>1, <2>2
<1> QED BY <1>3, <1>4, <1>5 DEF a

LEMMA RoomStep ==
  ASSUME TypeOK, TypeOK', ViewsInv, Room, NEW c \in Cpu, Thread(c)
  PROVE  Room'
<1> SUFFICES ASSUME NEW p \in InPort
             PROVE  availOut'[p[1]] <= Cap[p[1]] - (Written(p[1])' - rcount'[p])
  BY DEF Room
<1> DEFINE ch == p[1]
<1>1. /\ ch \in Chan /\ p[2] \in Actor /\ p = <<ch, p[2]>>
      /\ rcount[p] \in Nat /\ rcount'[p] \in Nat /\ rcount[p] <= rcount'[p]
      /\ Written(ch) \in Nat /\ Written(ch)' \in Nat /\ Cap[ch] \in Nat
      /\ wcount[ch] \in Nat /\ availOut[ch] \in Int /\ availOut'[ch] \in Int
      /\ availOut[ch] <= Cap[ch] - (Written(ch) - rcount[p])
  BY RateFacts, CountFacts, TotalsNext, PublishedBy DEF Room, TypeOK, PortsTyped
<1> HIDE DEF ch
<1>2. CASE Fire(c)
  BY <1>1, <1>2, CallMoves
<1>3. CASE PrefirePort(c) /\ ~IsInput(This(c), j[c])
  <2> DEFINE a == This(c)
             ch0 == Ports(a)[j[c]]
  <2>1. PICK most \in {0} \union {Unconsumed(ch0, r) : r \in Readers(ch0)} :
          /\ MaxUnconsumed(ch0, most)
          /\ availOut' = [availOut EXCEPT ![ch0] = Cap[ch0] - most]
    BY <1>3 DEF PrefirePort, ReadOut
  <2>2. UNCHANGED <<wcount, rcount, fires>>
    BY <1>3 DEF PrefirePort, ReadOut
  <2>3. Written(ch)' = Written(ch)
    BY <2>2 DEF Written
  <2>4. Writer[ch0] = a /\ CpuOf[a] = c
    BY <1>3, ThisPort, PortFacts DEF PrefirePort, At, TypeOK
  <2> HIDE DEF ch0
  <2>5. CASE ch = ch0
    <3>1. wcount[ch] - rcount[p] <= most
      BY <1>1, <2>1, <2>5 DEF MaxUnconsumed, Unconsumed, Readers
    <3>2. Written(ch) = wcount[ch]
      <4>1. ~Due(Writer[ch], OutNo(ch))
        BY <1>1, <1>3, <2>4, <2>5, PrefireControl, OutNoFacts, PortsOf, RateFacts
      <4> QED BY <1>1, <4>1, CountFacts DEF ViewsInv, WritesCounted
    <3>3. availOut'[ch] = Cap[ch] - most
      BY <1>1, <2>1, <2>5 DEF TypeOK, PortsTyped
    <3>4. most \in Int
      <4>1. \A r \in Readers(ch) : Unconsumed(ch, r) \in Int
        BY <1>1 DEF Readers, Unconsumed, TypeOK, PortsTyped
      <4> QED BY <2>1, <2>5, <4>1
    <3> QED BY <1>1, <2>2, <2>3, <3>1, <3>2, <3>3, <3>4
  <2>6. CASE ch # ch0
    <3>1. availOut'[ch] = availOut[ch]
      BY <1>1, <2>1, <2>6 DEF TypeOK, PortsTyped
    <3> QED BY <1>1, <2>2, <2>3, <3>1
  <2> QED BY <2>5, <2>6
<1>4. CASE ~Fire(c) /\ ~(PrefirePort(c) /\ ~IsInput(This(c), j[c]))
  <2>1. UNCHANGED <<fires, availOut>>
    BY <1>4 DEF Thread, PrefirePort, ReadIn, PrefireSkip, Decrement, FireSkip, PostfirePort, PostfireSkip,
         Wake, Post, Lock, Scan, StayAwake, GoToSleep, CheckTerminate, Wait, WakeUp, Drain, Done,
         dataVars, portVars, actorVars
  <2>2. Written(ch)' = Written(ch)
    BY <2>1 DEF Written
  <2> QED BY <1>1, <2>1, <2>2
<1> QED BY <1>2, <1>3, <1>4 DEF ch

\* A thread goes on when the firings of its last call are traced.
LEMMA ReplayThread ==
  ASSUME TypeOK, TypeOK', ViewsInv, ViewsInv', Room, TraceTyped, ReplayInv,
         NEW c \in Cpu, Returned(c), Thread(c), UNCHANGED traceVars
  PROVE  ReplayInv'
<1>1. \A a \in Actor : CpuOf[a] = c => traced[a] = fires[a]
  BY DEF Returned, InCall, TraceTyped, TypeOK, ActorsTyped
<1>2. UNCHANGED <<traced, replayed>>
  BY DEF traceVars
<1> SUFFICES ASSUME NEW p \in InPort
             PROVE  /\ replayed'[p] = Shown(p[1])' - Used(p)'
                    /\ wcount'[p[1]] <= Shown(p[1])' /\ rcount'[p] <= Used(p)'
                    /\ Read(p)' <= Shown(p[1])'
                    /\ Written(p[1])' - Used(p)' <= Cap[p[1]]
  BY DEF ReplayInv
<1> DEFINE ch == p[1]
           a == p[2]
           w == Writer[ch]
<1>3. /\ ch \in Chan /\ a \in Actor /\ w \in Actor
      /\ Shown(ch)' = Shown(ch) /\ Used(p)' = Used(p)
  BY <1>2, RateFacts DEF Shown, Used
<1>4. /\ replayed[p] = Shown(ch) - Used(p) /\ wcount[ch] <= Shown(ch) /\ rcount[p] <= Used(p)
      /\ Read(p) <= Shown(ch) /\ Written(ch) - Used(p) <= Cap[ch]
  BY DEF ReplayInv
<1>5. /\ Shown(ch) \in Nat /\ Used(p) \in Nat /\ Cap[ch] \in Nat
      /\ Written(ch) \in Nat /\ Written(ch)' \in Nat /\ Read(p) \in Nat /\ Read(p)' \in Nat
      /\ wcount[ch] \in Nat /\ wcount'[ch] \in Nat /\ rcount[p] \in Nat /\ rcount'[p] \in Nat
      /\ outCount'[ch] \in Nat /\ inCount'[p] \in Nat /\ availOut[ch] \in Int
  BY <1>3, ShownFacts, CountFacts, TotalsNext DEF TypeOK, PortsTyped
<1>6. /\ CpuOf[w] = c => Written(ch) = Shown(ch)
      /\ CpuOf[a] = c => Read(p) = Used(p)
  BY <1>1, <1>3 DEF Written, Read, Shown, Used
<1>7. /\ wcount'[ch] # wcount[ch] => CpuOf[w] = c
      /\ rcount'[p] # rcount[p] => CpuOf[a] = c
  BY <1>3, PublishedBy
<1> HIDE DEF ch, a, w
<1>8. CASE Fire(c)
  <2>1. /\ w # This(c) => Written(ch)' = Written(ch)
        /\ w = This(c) => Written(ch)' = Written(ch) \/ Written(ch)' - Written(ch) <= availOut[ch]
        /\ a # This(c) => Read(p)' = Read(p)
        /\ a = This(c) => Read(p)' = Read(p) \/ Read(p)' - Read(p) <= Visible(a, ch)
        /\ UNCHANGED <<wcount, rcount>>
    BY <1>3, <1>8, CallMoves DEF ch, a, w
  <2>2. Read(p)' <= Shown(ch)
    <3>1. CASE Read(p)' = Read(p)
      BY <1>4, <3>1
    <3>2. CASE a = This(c) /\ Read(p)' - Read(p) <= Visible(a, ch)
      <4>1. /\ Visible(a, ch) <= Written(ch) - Read(p)
            /\ ~MayRunAhead(p)' => Visible(a, ch) <= wcount[ch] - Read(p)
            /\ CpuOf[a] = c
        BY <1>8, <3>2, VisibleBehind, FireMoves DEF a, ch, TypeOK
      <4>2. Visible(a, ch) \in Int
        <5>1. availIn[<<ch, a>>] \in Int /\ outCount[ch] \in Nat
          BY <1>3, CountFacts, RateFacts DEF a, ch
        <5> QED BY <5>1 DEF Visible
      <4>3. CASE CpuOf[w] = c
        BY <1>5, <1>6, <3>2, <4>1, <4>2, <4>3
      <4>4. CASE CpuOf[w] # c
        <5>1. ~MayRunAhead(p)'
          BY <4>1, <4>4 DEF MayRunAhead, a, ch, w
        <5> QED BY <1>4, <1>5, <3>2, <4>1, <4>2, <5>1
      <4> QED BY <4>3, <4>4
    <3> QED BY <2>1, <3>1, <3>2
  <2>3. Written(ch)' - Used(p) <= Cap[ch]
    <3>1. CASE Written(ch)' = Written(ch)
      BY <1>4, <3>1
    <3>2. CASE Written(ch)' - Written(ch) <= availOut[ch]
      <4>1. availOut[ch] <= Cap[ch] - (Written(ch) - rcount[p])
        BY DEF Room, ch
      <4> QED BY <1>4, <1>5, <3>2, <4>1
    <3> QED BY <2>1, <3>1, <3>2
  <2> QED BY <1>2, <1>3, <1>4, <2>1, <2>2, <2>3 DEF ch
<1>9. CASE ~Fire(c)
  <2>1. UNCHANGED fires
    BY <1>9, OthersStutter
  <2>2. Written(ch)' = Written(ch) /\ Read(p)' = Read(p)
    BY <2>1 DEF Written, Read
  <2>3. wcount'[ch] <= Shown(ch)
    <3>1. wcount'[ch] + outCount'[ch] = Written(ch)'
      BY <1>3 DEF ViewsInv, WritesCounted
    <3> QED BY <1>4, <1>5, <1>6, <1>7, <2>2, <3>1
  <2>4. rcount'[p] <= Used(p)
    <3>1. rcount'[p] <= Read(p)'
      BY <1>5 DEF ViewsInv, ReadsCounted
    <3> QED BY <1>4, <1>6, <1>7, <2>2, <3>1
  <2> QED BY <1>2, <1>3, <1>4, <2>2, <2>3, <2>4 DEF ch
<1> QED BY <1>8, <1>9

\* The bookkeeping of one record.
LEMMA TraceMoves ==
  ASSUME TypeOK, TraceTyped, NEW c \in Cpu, NEW a \in InCall(c), traced' = [traced EXCEPT ![a] = @ + 1]
  PROVE  /\ a \in Actor /\ traced[a] + 1 \in 1 .. Horizon[a] /\ traced'[a] = traced[a] + 1
         /\ \A b \in Actor : b # a => traced'[b] = traced[b]
         /\ traced[a] + 1 <= fires[a]
<1>1. /\ a \in Actor /\ traced[a] < fires[a] /\ fires[a] <= Horizon[a]
      /\ traced \in [Actor -> Nat] /\ fires[a] \in Nat /\ Horizon[a] \in Nat
  BY RateFacts DEF InCall, TraceTyped, TypeOK, ActorsTyped
<1> QED BY <1>1

LEMMA ReplayTrace ==
  ASSUME TypeOK, TraceTyped, ReplayInv, NEW c \in Cpu, TraceFiring(c)
  PROVE  ReplayInv'
<1>1. PICK a \in InCall(c) :
        /\ traced' = [traced EXCEPT ![a] = @ + 1]
        /\ replayed' = [p \in InPort |->
             replayed[p] + Effect[p][Record(a, ActionAt[a][traced[a] + 1])]]
        /\ UNCHANGED <<wcount, rcount, fires>>
  BY DEF TraceFiring, vars, dataVars, portVars, actorVars
<1> DEFINE n == traced[a] + 1
<1>2. /\ a \in Actor /\ n \in 1 .. Horizon[a] /\ traced'[a] = n /\ n - 1 = traced[a]
      /\ \A b \in Actor : b # a => traced'[b] = traced[b]
  <2>1. /\ a \in Actor /\ n \in 1 .. Horizon[a] /\ traced'[a] = n
        /\ \A b \in Actor : b # a => traced'[b] = traced[b]
    BY <1>1, TraceMoves
  <2>2. traced[a] \in Nat
    BY <2>1 DEF TraceTyped
  <2> QED BY <2>1, <2>2
<1> HIDE DEF n
<1>3. \A b \in Actor : traced[b] \in 0 .. Horizon[b]
  BY RateFacts DEF TraceTyped, TypeOK, ActorsTyped
<1> SUFFICES ASSUME NEW p \in InPort
             PROVE  /\ replayed'[p] = Shown(p[1])' - Used(p)'
                    /\ wcount'[p[1]] <= Shown(p[1])' /\ rcount'[p] <= Used(p)'
                    /\ Read(p)' <= Shown(p[1])'
                    /\ Written(p[1])' - Used(p)' <= Cap[p[1]]
  BY DEF ReplayInv
<1> DEFINE ch == p[1]
           w == Writer[ch]
<1>4. /\ ch \in Chan /\ w \in Actor /\ p[2] \in Actor /\ p = <<ch, p[2]>> /\ Cap[ch] \in Nat
      /\ wcount[ch] \in Nat /\ rcount[p] \in Nat /\ Read(p) \in Nat /\ Written(ch) \in Nat
      /\ Shown(ch) \in Nat /\ Used(p) \in Nat
  BY RateFacts, CountFacts, ShownFacts
<1>5. /\ replayed[p] = Shown(ch) - Used(p) /\ wcount[ch] <= Shown(ch) /\ rcount[p] <= Used(p)
      /\ Read(p) <= Shown(ch) /\ Written(ch) - Used(p) <= Cap[ch]
  BY DEF ReplayInv
<1>6. /\ Written(ch)' = Written(ch) /\ Read(p)' = Read(p)
      /\ wcount' = wcount /\ rcount' = rcount
  BY <1>1 DEF Written, Read
<1>7. replayed'[p] = replayed[p] + ((IF w = a THEN Given[ch][n] - Given[ch][n - 1] ELSE 0)
                                     - (IF p[2] = a THEN Taken[ch][a][n] - Taken[ch][a][n - 1] ELSE 0))
  BY <1>1, <1>2, EffectIs DEF n
<1> HIDE DEF ch, w
<1>8. /\ Shown(ch)' \in Nat /\ Shown(ch) <= Shown(ch)'
      /\ Shown(ch)' - Shown(ch) = IF w = a THEN Given[ch][n] - Given[ch][n - 1] ELSE 0
  <2>1. CASE w = a
    <3>1. Shown(ch)' = Given[ch][n] /\ Shown(ch) = Given[ch][n - 1]
      BY <1>2, <2>1 DEF Shown, w
    <3>2. n \in 0 .. Horizon[Writer[ch]] /\ n - 1 \in 0 .. n
      BY <1>2, <2>1, RateFacts DEF w
    <3>3. Given[ch][n] \in Nat /\ Given[ch][n - 1] <= Given[ch][n]
      BY <1>4, <3>2, GivenFacts
    <3> QED BY <2>1, <3>1, <3>3
  <2>2. CASE w # a
    <3>1. Shown(ch)' = Shown(ch)
      BY <1>2, <1>4, <2>2 DEF Shown, w
    <3> QED BY <1>4, <2>2, <3>1
  <2> QED BY <2>1, <2>2
<1>9. /\ Used(p)' \in Nat /\ Used(p) <= Used(p)'
      /\ Used(p)' - Used(p) = IF p[2] = a THEN Taken[ch][a][n] - Taken[ch][a][n - 1] ELSE 0
  <2>1. CASE p[2] = a
    <3>1. Used(p)' = Taken[ch][a][n] /\ Used(p) = Taken[ch][a][n - 1]
      BY <1>2, <2>1 DEF Used, ch
    <3>2. n \in 0 .. Horizon[a] /\ n - 1 \in 0 .. n /\ <<ch, a>> \in InPort
      BY <1>2, <1>4, <2>1, RateFacts
    <3>3. Taken[ch][a][n] \in Nat /\ Taken[ch][a][n - 1] <= Taken[ch][a][n]
      BY <1>2, <1>4, <3>2, TakenFacts
    <3> QED BY <2>1, <3>1, <3>3
  <2>2. CASE p[2] # a
    <3>1. Used(p)' = Used(p)
      BY <1>2, <1>4, <2>2 DEF Used
    <3> QED BY <1>4, <2>2, <3>1
  <2> QED BY <2>1, <2>2
<1>10. replayed'[p] = Shown(ch)' - Used(p)'
  <2> DEFINE up == Shown(ch)' - Shown(ch)
             down == Used(p)' - Used(p)
  <2>1. replayed'[p] = Shown(ch) - Used(p) + (up - down)
    BY <1>5, <1>7, <1>8, <1>9
  <2> QED BY <1>4, <1>8, <1>9, <2>1
<1> QED BY <1>4, <1>5, <1>6, <1>8, <1>9, <1>10 DEF ch

-----------------------------------------------------------------------------
(* The numbers: each firing is recorded once, under its action.            *)

\* Of the first n firings of a those of action k.
Firings(a, k, n) == {m \in 1 .. n : ActionAt[a][m] = k}

CountedInv ==
  /\ \A a, k : Action(a, k) => recorded[Record(a, k)] = Cardinality(Firings(a, k, traced[a]))
  /\ step = SumOf(recorded, Records) /\ step = SumOf(traced, Actor)

\* Firings are traced before the thread leaves the loops over its actors, so
\* that all are when it is joined.
EndedInv ==
  /\ \A a \in Actor : traced[a] < fires[a] => pc[CpuOf[a]] \in ActorLoops
  /\ closed > 0 => Joined
  /\ \A c \in Cpu : c < closed => info[c] = IF format = "turnus" THEN step ELSE None

LEMMA RecordsFinite == IsFiniteSet(Records)
<1> DEFINE Of(a) == {Record(a, k) : k \in 0 .. NumActions[a] - 1}
           f == [a \in Actor |-> Of(a)]
<1>1. ASSUME NEW a \in Actor PROVE IsFiniteSet(Of(a))
  <2> DEFINE S == 0 .. NumActions[a] - 1
             g == [k \in S |-> Record(a, k)]
  <2>1. NumActions[a] \in Nat
    BY TraceDescriptions DEF DescriptionAssumption
  <2>2. IsFiniteSet(S)
    BY <2>1, FS_Interval
  <2>3. Of(a) = {g[k] : k \in S}
    OBVIOUS
  <2> HIDE DEF S, g
  <2>4. IsFiniteSet({g[k] : k \in S})
    BY <2>2, ImageFinite
  <2> QED BY <2>3, <2>4
<1>2. IsFiniteSet(Actor)
  BY NetworkShape DEF ShapeAssumption
<1>3. {f[a] : a \in Actor} = {Of(a) : a \in Actor}
  OBVIOUS
<1>4. Records = UNION {Of(a) : a \in Actor}
  BY DEF Records
<1> HIDE DEF Of, f
<1>5. IsFiniteSet({f[a] : a \in Actor})
  BY <1>2, ImageFinite
<1> QED BY <1>1, <1>3, <1>4, <1>5, FS_UNION

\* One more at x is one more in all.
LEMMA SumMore ==
  ASSUME NEW S, IsFiniteSet(S), NEW f \in [S -> Nat], NEW x \in S
  PROVE  SumOf([f EXCEPT ![x] = @ + 1], S) = SumOf(f, S) + 1
<1> DEFINE g == [f EXCEPT ![x] = @ + 1]
           R == S \ {x}
<1>1. g \in [S -> Nat] /\ g[x] = f[x] + 1 /\ \A y \in R : f[y] \in Int /\ g[y] = f[y]
  OBVIOUS
<1>2. \A y \in S : f[y] \in Int /\ g[y] \in Int
  BY <1>1
<1>3. IsFiniteSet(R) /\ \A y \in R : f[y] \in Int
  BY FS_Subset
<1> HIDE DEF g, R
<1>4. SumOf(f, S) = f[x] + SumOf(f, R) /\ SumOf(g, S) = g[x] + SumOf(g, R)
  BY <1>2, SumTake DEF R
<1>5. SumOf(f, R) = SumOf(g, R) /\ SumOf(f, R) \in Int
  BY <1>1, <1>3, SumSame, SumType
<1>6. f[x] \in Nat
  OBVIOUS
<1> QED BY <1>1, <1>4, <1>5, <1>6 DEF g

LEMMA TracedFiring ==
  ASSUME NEW a \in Actor, NEW n \in Nat, NEW k
  PROVE  Cardinality(Firings(a, k, n + 1))
           = Cardinality(Firings(a, k, n)) + (IF ActionAt[a][n + 1] = k THEN 1 ELSE 0)
<1>1. IsFiniteSet(Firings(a, k, n)) /\ Cardinality(Firings(a, k, n)) \in Nat
  <2>1. IsFiniteSet(1 .. n) /\ Firings(a, k, n) \subseteq 1 .. n
    BY FS_Interval DEF Firings
  <2> QED BY <2>1, FS_Subset, FS_CardinalityType
<1>2. CASE ActionAt[a][n + 1] = k
  <2>1. Firings(a, k, n + 1) = Firings(a, k, n) \union {n + 1} /\ n + 1 \notin Firings(a, k, n)
    BY <1>2 DEF Firings
  <2> QED BY <1>1, <1>2, <2>1, FS_AddElement
<1>3. CASE ActionAt[a][n + 1] # k
  <2>1. Firings(a, k, n + 1) = Firings(a, k, n)
    BY <1>3 DEF Firings
  <2> QED BY <1>1, <1>3, <2>1
<1> QED BY <1>2, <1>3

LEMMA CountTrace ==
  ASSUME TypeOK, TraceTyped, CountedInv, NEW c \in Cpu, TraceFiring(c)
  PROVE  /\ CountedInv'
         /\ recorded' \in [Records' -> Nat] /\ step' \in Nat
<1>1. PICK a \in InCall(c) :
        /\ step' = step + 1
        /\ traced' = [traced EXCEPT ![a] = @ + 1]
        /\ recorded' = [recorded EXCEPT ![Record(a, ActionAt[a][traced[a] + 1])] = @ + 1]
        /\ UNCHANGED format
  BY DEF TraceFiring
<1> DEFINE n == traced[a]
           k == ActionAt[a][n + 1]
           r == Record(a, k)
<1>2. /\ a \in Actor /\ n + 1 \in 1 .. Horizon[a] /\ traced'[a] = n + 1 /\ n \in Nat
      /\ \A b \in Actor : b # a => traced'[b] = traced[b]
  <2>1. /\ a \in Actor /\ n + 1 \in 1 .. Horizon[a] /\ traced'[a] = n + 1
        /\ \A b \in Actor : b # a => traced'[b] = traced[b]
    BY <1>1, TraceMoves
  <2> QED BY <2>1 DEF TraceTyped
<1>3. /\ traced \in [Actor -> Nat] /\ recorded \in [Records -> Nat] /\ step \in Nat
      /\ IsFiniteSet(Actor)
  BY NetworkShape DEF TraceTyped, ShapeAssumption
<1>4. Records' = Records /\ \A b, l : Record(b, l)' = Record(b, l)
  BY <1>1 DEF Records, Record
<1>5. Action(a, k)
  <2>1. k \in 0 .. NumActions[a] - 1
    BY <1>2, TraceDescriptions DEF DescriptionAssumption
  <2> QED BY <1>2, <2>1 DEF Action
<1> HIDE DEF n, k
<1>6. r \in Records /\ recorded' = [recorded EXCEPT ![r] = @ + 1]
  BY <1>1, <1>5, RecordIn DEF n, k
<1> HIDE DEF r
<1>7. recorded' \in [Records' -> Nat] /\ step' \in Nat
  BY <1>1, <1>3, <1>4, <1>6
<1>8. SumOf(recorded', Records) = SumOf(recorded, Records) + 1
  BY <1>3, <1>6, RecordsFinite, SumMore
<1>9. SumOf(traced', Actor) = SumOf(traced, Actor) + 1
  BY <1>1, <1>2, <1>3, SumMore
<1>10. ASSUME NEW b, NEW l, Action(b, l)
       PROVE  recorded'[Record(b, l)] = Cardinality(Firings(b, l, traced'[b]))
  <2>1. /\ recorded[Record(b, l)] = Cardinality(Firings(b, l, traced[b]))
        /\ Record(b, l) \in Records /\ b \in Actor
    BY <1>10, RecordIn DEF CountedInv, Action
  <2>2. CASE b = a
    <3>1. /\ ActionAt[b][n + 1] = k /\ traced'[b] = n + 1 /\ traced[b] = n
          /\ Record(b, l) = r <=> k = l
      BY <1>2, <1>5, <1>10, <2>2, RecordOnce DEF k, n, r
    <3>2. Cardinality(Firings(b, l, n + 1))
            = Cardinality(Firings(b, l, n)) + (IF k = l THEN 1 ELSE 0)
      BY <1>2, <2>1, <3>1, TracedFiring
    <3>3. recorded'[Record(b, l)] = recorded[Record(b, l)] + (IF k = l THEN 1 ELSE 0)
      BY <1>3, <1>6, <2>1, <3>1
    <3> QED BY <2>1, <3>1, <3>2, <3>3
  <2>3. CASE b # a
    <3>1. Record(b, l) # r
      BY <1>5, <1>10, <2>3, RecordOnce DEF r
    <3>2. recorded'[Record(b, l)] = recorded[Record(b, l)] /\ traced'[b] = traced[b]
      BY <1>2, <1>3, <1>6, <2>1, <2>3, <3>1
    <3> QED BY <2>1, <3>2
  <2> QED BY <2>2, <2>3
<1> QED BY <1>1, <1>4, <1>7, <1>8, <1>9, <1>10 DEF CountedInv

LEMMA EndedThread ==
  ASSUME TypeOK, TypeOK', TraceTyped, EndedInv, NEW c \in Cpu, Returned(c), Thread(c),
         UNCHANGED traceVars
  PROVE  EndedInv' /\ \A a \in Actor : fires[a] <= fires'[a]
<1>1. \A a \in Actor : CpuOf[a] = c => traced[a] = fires[a]
  BY DEF Returned, InCall, TraceTyped, TypeOK, ActorsTyped
<1>2. UNCHANGED <<format, step, traced, closed, info>>
  BY DEF traceVars
<1>3. OthersKept(c)
  BY OthersStay DEF TypeOK
<1>4. closed = 0
  <2>1. pc[c] # "exit"
    BY DEF Thread, PrefirePort, PrefireSkip, Fire, Decrement, FireSkip, PostfirePort, PostfireSkip,
         Wake, Post, Lock, Scan, StayAwake, GoToSleep, CheckTerminate, Wait, WakeUp, Drain, Done, At
  <2> QED BY <2>1 DEF EndedInv, Joined, At, TraceTyped
<1>5. CASE Fire(c)
  <2> DEFINE a == This(c)
  <2>1. a \in Actor /\ CpuOf[a] = c /\ pc[c] = "fire" /\ fires \in [Actor -> Nat] /\ Loops[a] \in Nat
    BY <1>5, FireMoves, RateFacts DEF TypeOK, ActorsTyped, Fire, At
  <2>2. pc'[c] \in ActorLoops
    <3>1. NextActor(c, "postfire") \/ Goto(c, "decrement", i[c])
      BY <1>5 DEF Fire
    <3> QED BY <2>1, <3>1 DEF NextActor, Goto, TypeOK, PlacesTyped, ActorLoops
  <2>3. PICK m \in fires[a] .. fires[a] + Loops[a] : fires' = [fires EXCEPT ![a] = m]
    BY <1>5 DEF Fire, Call
  <2>4. /\ \A b \in Actor : b # a => fires'[b] = fires[b]
        /\ fires'[a] = m /\ fires[a] <= m
    BY <2>1, <2>3
  <2> HIDE DEF a
  <2>5. ASSUME NEW b \in Actor, traced'[b] < fires'[b] PROVE pc'[CpuOf[b]] \in ActorLoops
    <3>1. CASE CpuOf[b] = c
      BY <2>2, <3>1
    <3>2. CASE CpuOf[b] # c
      <4>1. pc[CpuOf[b]] \in ActorLoops
        BY <1>2, <2>1, <2>4, <2>5, <3>2 DEF EndedInv
      <4> QED BY <1>3, <3>2, <4>1, RateFacts DEF OthersKept
    <3> QED BY <3>1, <3>2
  <2>6. \A b \in Actor : fires[b] <= fires'[b]
    BY <2>1, <2>4 DEF TypeOK, ActorsTyped
  <2> QED BY <1>2, <1>4, <2>5, <2>6, CpuFacts DEF EndedInv
<1>6. CASE ~Fire(c)
  <2>1. UNCHANGED fires
    BY <1>6, OthersStutter
  <2>2. ASSUME NEW b \in Actor, traced'[b] < fires'[b] PROVE pc'[CpuOf[b]] \in ActorLoops
    <3>1. traced[b] < fires[b]
      BY <1>2, <2>1, <2>2
    <3>2. traced[b] # fires[b]
      BY <3>1 DEF TypeOK, ActorsTyped
    <3>3. CpuOf[b] # c
      BY <1>1, <3>2
    <3>4. pc[CpuOf[b]] \in ActorLoops
      BY <3>1 DEF EndedInv
    <3> QED BY <1>3, <3>3, <3>4, RateFacts DEF OthersKept
  <2>3. \A b \in Actor : fires[b] <= fires'[b]
    BY <2>1 DEF TypeOK, ActorsTyped
  <2> QED BY <1>2, <1>4, <2>2, <2>3, CpuFacts DEF EndedInv
<1> QED BY <1>5, <1>6

LEMMA EndedTrace ==
  ASSUME TypeOK, TraceTyped, EndedInv, NEW c \in Cpu, TraceFiring(c)
  PROVE  EndedInv' /\ \A a \in Actor : traced'[a] \in Nat /\ traced'[a] <= fires'[a]
<1>1. PICK a \in InCall(c) :
        traced' = [traced EXCEPT ![a] = @ + 1] /\ UNCHANGED <<fires, pc, closed, info, format>>
  BY DEF TraceFiring, vars, dataVars, actorVars
<1>2. /\ a \in Actor /\ traced'[a] = traced[a] + 1 /\ traced[a] + 1 <= fires[a]
      /\ \A b \in Actor : b # a => traced'[b] = traced[b]
      /\ traced[a] < fires[a]
  BY <1>1, TraceMoves DEF InCall
<1>3. \A b \in Actor : /\ traced[b] \in Nat /\ fires[b] \in Nat
                       /\ traced[b] <= fires[b]
  BY DEF TraceTyped, TypeOK, ActorsTyped
<1>4. \A b \in Actor : traced'[b] \in Nat /\ traced'[b] <= fires'[b] /\ traced[b] <= traced'[b]
  BY <1>1, <1>2, <1>3
<1>5. closed = 0
  <2>1. pc[CpuOf[a]] \in ActorLoops /\ CpuOf[a] \in Cpu
    BY <1>2, RateFacts DEF EndedInv
  <2> QED BY <2>1 DEF EndedInv, Joined, At, ActorLoops, TraceTyped
<1>6. ASSUME NEW b \in Actor, traced'[b] < fires'[b] PROVE pc'[CpuOf[b]] \in ActorLoops
  <2>1. traced[b] < fires[b]
    BY <1>1, <1>3, <1>4, <1>6
  <2> QED BY <1>1, <2>1 DEF EndedInv
<1> QED BY <1>1, <1>4, <1>5, <1>6, CpuFacts DEF EndedInv

LEMMA EndedClose ==
  ASSUME TypeOK, TraceTyped, EndedInv, Close
  PROVE  /\ EndedInv' /\ TraceTyped'
         /\ UNCHANGED <<vars, format, step, traced, recorded, replayed>>
<1>1. /\ Joined /\ closed < N /\ closed \in Nat /\ N \in Nat /\ closed' = closed + 1
      /\ info' = [info EXCEPT ![closed] = IF format = "turnus" THEN step ELSE None]
      /\ UNCHANGED <<vars, format, step, traced, recorded, replayed>>
  BY CpuFacts DEF Close, TraceTyped
<1>2. closed \in Cpu /\ \A c \in Cpu : c \in Nat
  BY <1>1, CpuFacts DEF Cpu
<1>3. UNCHANGED <<fires, pc>>
  BY <1>1 DEF vars, dataVars, actorVars
<1>4. Joined'
  BY <1>1, <1>3 DEF Joined, At
<1>5. Records' = Records
  BY <1>1 DEF Records, Record
<1>6. info' \in [Cpu -> Nat \union {None}] /\ closed' \in 0 .. N
  BY <1>1, <1>2 DEF TraceTyped
<1>7. TraceTyped'
  BY <1>1, <1>3, <1>5, <1>6 DEF TraceTyped
<1>8. ASSUME NEW c \in Cpu, c < closed'
      PROVE  info'[c] = IF format = "turnus" THEN step ELSE None
  <2>1. CASE c = closed
    BY <1>1, <1>2, <2>1 DEF TraceTyped
  <2>2. CASE c # closed
    <3>1. c < closed
      BY <1>1, <1>2, <1>8, <2>2
    <3> QED BY <1>1, <2>2, <3>1 DEF EndedInv, TraceTyped
  <2> QED BY <2>1, <2>2
<1>9. \A a \in Actor : traced'[a] < fires'[a] => pc'[CpuOf[a]] \in ActorLoops
  BY <1>1, <1>3 DEF EndedInv
<1> QED BY <1>1, <1>4, <1>7, <1>8, <1>9 DEF EndedInv

-----------------------------------------------------------------------------
(* The theorems.                                                           *)

TraceInv ==
  TypeOK /\ ViewsInv /\ Room /\ TraceTyped /\ ReplayInv /\ CountedInv /\ EndedInv

LEMMA SumZeros ==
  ASSUME NEW S, IsFiniteSet(S), NEW f, \A x \in S : f[x] = 0
  PROVE  SumOf(f, S) = 0
<1> DEFINE T == {s \in SUBSET S : SumOf(f, s) = 0}
<1>1. T \subseteq SUBSET S /\ {} \in T
  BY SumEmpty
<1>2. ASSUME NEW s \in T, NEW x \in S \ s PROVE s \union {x} \in T
  <2> DEFINE t == s \union {x}
  <2>1. t \subseteq S /\ x \in t /\ t \ {x} = s /\ SumOf(f, s) = 0 /\ f[x] = 0
    BY <1>2
  <2>2. IsFiniteSet(t) /\ \A y \in t : f[y] \in Int
    BY <2>1, FS_Subset
  <2> HIDE DEF t
  <2>3. SumOf(f, t) = f[x] + SumOf(f, t \ {x})
    BY <2>1, <2>2, SumTake
  <2> QED BY <2>1, <2>3 DEF t
<1> HIDE DEF T
<1>3. S \in T
  BY <1>1, <1>2, SetInduction
<1> QED BY <1>3 DEF T

LEMMA TraceStarts == TracedInit => TraceInv
<1> SUFFICES ASSUME TracedInit PROVE TraceInv
  OBVIOUS
<1>1. /\ Init /\ format \in {"trace", "turnus"} /\ step = 0 /\ closed = 0
      /\ traced = [a \in Actor |-> 0] /\ recorded = [r \in Records |-> 0]
      /\ replayed = [p \in InPort |-> 0] /\ info = [c \in Cpu |-> None]
  BY DEF TracedInit
<1>2. TypeOK /\ ViewsInv
  BY <1>1, TypeInit, ViewsInit
<1>3. \A p \in InPort : /\ Shown(p[1]) = 0 /\ Used(p) = 0 /\ Written(p[1]) = 0 /\ Read(p) = 0
                        /\ wcount[p[1]] = 0 /\ rcount[p] = 0 /\ availOut[p[1]] = 0
                        /\ replayed[p] = 0 /\ Cap[p[1]] \in Nat
  BY <1>1, NetworkRates, RateFacts DEF Init, Shown, Used, Written, Read, RateAssumption
<1>4. Room /\ ReplayInv
  BY <1>3 DEF Room, ReplayInv
<1>5. \A a \in Actor : traced[a] = 0 /\ fires[a] = 0
  BY <1>1 DEF Init
<1>6. TraceTyped
  BY <1>1, <1>5, CpuFacts DEF TraceTyped
<1>7. CountedInv
  <2>1. SumOf(traced, Actor) = 0
    BY <1>5, NetworkShape, SumZeros DEF ShapeAssumption
  <2>2. SumOf(recorded, Records) = 0
    BY <1>1, RecordsFinite, SumZeros
  <2>3. ASSUME NEW a, NEW k, Action(a, k)
        PROVE  recorded[Record(a, k)] = Cardinality(Firings(a, k, traced[a]))
    <3>1. a \in Actor /\ Record(a, k) \in Records
      BY <2>3, RecordIn DEF Action
    <3>2. Firings(a, k, 0) = {}
      BY DEF Firings
    <3> QED BY <1>1, <1>5, <3>1, <3>2, FS_EmptySet
  <2> QED BY <1>1, <2>1, <2>2, <2>3 DEF CountedInv
<1>8. EndedInv
  BY <1>1, <1>5, CpuFacts DEF EndedInv
<1> QED BY <1>2, <1>4, <1>6, <1>7, <1>8 DEF TraceInv

\* A traced step is a step of the threads, or leaves them alone.
LEMMA TracedMoves ==
  ASSUME [TracedNext]_tracedVars
  PROVE  [Next]_vars
<1>1. CASE UNCHANGED tracedVars
  BY <1>1 DEF tracedVars
<1>2. ASSUME NEW c \in Cpu, TraceFiring(c) PROVE UNCHANGED vars
  BY <1>2 DEF TraceFiring
<1>3. CASE Close
  BY <1>3 DEF Close
<1> QED BY <1>1, <1>2, <1>3 DEF TracedNext, Next

LEMMA TraceStep == TraceInv /\ [TracedNext]_tracedVars => TraceInv'
<1> SUFFICES ASSUME TraceInv, [TracedNext]_tracedVars PROVE TraceInv'
  OBVIOUS
<1>1. TypeOK /\ ViewsInv /\ Room /\ TraceTyped /\ ReplayInv /\ CountedInv /\ EndedInv
  BY DEF TraceInv
<1>2. TypeOK' /\ ViewsInv'
  BY <1>1, TracedMoves, TypeStep, ViewsStep
<1>3. ASSUME NEW c \in Cpu, Returned(c), Thread(c), UNCHANGED traceVars PROVE TraceInv'
  <2>1. UNCHANGED <<format, step, traced, recorded, replayed, closed, info>>
    BY <1>3 DEF traceVars
  <2>2. EndedInv' /\ \A a \in Actor : fires[a] <= fires'[a]
    BY <1>1, <1>2, <1>3, EndedThread
  <2>3. Room' /\ ReplayInv'
    BY <1>1, <1>2, <1>3, RoomStep, ReplayThread
  <2>4. Records' = Records /\ \A a, k : Record(a, k)' = Record(a, k)
    BY <2>1 DEF Records, Record
  <2>5. CountedInv'
    BY <1>1, <2>1, <2>4 DEF CountedInv
  <2>6. \A a \in Actor : traced'[a] <= fires'[a]
    <3>1. \A a \in Actor : traced[a] \in Nat /\ fires[a] \in Nat /\ fires'[a] \in Nat /\ traced[a] <= fires[a]
      BY <1>1, <1>2 DEF TraceTyped, TypeOK, ActorsTyped
    <3> QED BY <2>1, <2>2, <3>1
  <2>7. TraceTyped'
    BY <1>1, <2>1, <2>4, <2>6 DEF TraceTyped
  <2> QED BY <1>2, <2>2, <2>3, <2>5, <2>7 DEF TraceInv
<1>4. ASSUME NEW c \in Cpu, TraceFiring(c) PROVE TraceInv'
  <2>1. PICK a \in InCall(c) :
          /\ traced' = [traced EXCEPT ![a] = @ + 1]
          /\ replayed' = [p \in InPort |->
               replayed[p] + Effect[p][Record(a, ActionAt[a][traced[a] + 1])]]
          /\ UNCHANGED <<vars, format, closed, info>>
    BY <1>4 DEF TraceFiring
  <2>2. UNCHANGED <<fires, availOut, rcount>>
    BY <2>1 DEF vars, dataVars, portVars, actorVars
  <2>3. ReplayInv' /\ CountedInv' /\ EndedInv'
    BY <1>1, <1>4, ReplayTrace, CountTrace, EndedTrace
  <2>4. Room'
    BY <1>1, <2>2 DEF Room, Written
  <2>5. replayed' \in [InPort -> Int]
    <3>1. ASSUME NEW p \in InPort PROVE replayed'[p] \in Int
      <4>1. a \in Actor /\ traced[a] + 1 \in 1 .. Horizon[a]
        BY <1>1, <2>1, TraceMoves
      <4> DEFINE n == traced[a] + 1
                 k == ActionAt[a][n]
      <4>2. Action(a, k) /\ p[1] \in Chan /\ p[2] \in Actor /\ Horizon[a] \in Nat
        BY <4>1, EffectIs, RateFacts
      <4>3. Effect[p][Record(a, k)] = Puts(a, k, p[1]) - Takes(a, k, p)
        BY <4>2, XmlEffectIs, TurnusEffectIs DEF Effect, Record
      <4> HIDE DEF k
      <4>4. Puts(a, k, p[1]) \in Nat
        BY <4>2, Described, OutPosition DEF Puts
      <4>5. Takes(a, k, p) \in Nat
        BY <4>2, Described, InPosition DEF Takes
      <4> QED BY <1>1, <2>1, <4>3, <4>4, <4>5 DEF TraceTyped, k
    <3> QED BY <2>1, <3>1
  <2>6. TraceTyped'
    <3>1. /\ \A a1 \in Actor : traced'[a1] \in Nat /\ traced'[a1] <= fires'[a1]
          /\ recorded' \in [Records' -> Nat] /\ step' \in Nat
      BY <1>1, <1>4, EndedTrace, CountTrace
    <3>2. traced' \in [Actor -> Nat]
      BY <1>1, <2>1, <3>1 DEF TraceTyped
    <3> QED BY <1>1, <2>1, <2>5, <3>1, <3>2 DEF TraceTyped
  <2> QED BY <1>2, <2>3, <2>4, <2>6 DEF TraceInv
<1>5. CASE Close \/ UNCHANGED tracedVars
  <2>1. UNCHANGED <<vars, format, step, traced, recorded, replayed>> /\ EndedInv' /\ TraceTyped'
    <3>1. CASE Close
      BY <1>1, <3>1, EndedClose
    <3>2. CASE UNCHANGED tracedVars
      <4>1. UNCHANGED <<vars, format, step, traced, recorded, replayed, closed, info>>
        BY <3>2 DEF tracedVars, traceVars
      <4>2. UNCHANGED <<fires, pc>>
        BY <4>1 DEF vars, dataVars, actorVars
      <4>3. Records' = Records /\ Joined' = Joined
        BY <4>1, <4>2 DEF Records, Record, Joined, At
      <4> QED BY <1>1, <4>1, <4>2, <4>3 DEF EndedInv, TraceTyped
    <3> QED BY <1>5, <3>1, <3>2
  <2>2. UNCHANGED <<fires, availOut, wcount, rcount>>
    BY <2>1 DEF vars, dataVars, portVars, actorVars
  <2>3. /\ \A ch \in Chan : Written(ch)' = Written(ch) /\ Shown(ch)' = Shown(ch)
        /\ \A p \in InPort : Read(p)' = Read(p) /\ Used(p)' = Used(p)
    BY <2>1, <2>2 DEF Written, Shown, Read, Used
  <2>4. Room' /\ ReplayInv'
    BY <1>1, <2>1, <2>2, <2>3, RateFacts DEF Room, ReplayInv
  <2>5. CountedInv'
    <3>1. Records' = Records /\ \A a, k : Record(a, k)' = Record(a, k)
      BY <2>1 DEF Records, Record
    <3> QED BY <1>1, <2>1, <3>1 DEF CountedInv
  <2> QED BY <1>2, <2>1, <2>4, <2>5 DEF TraceInv
<1> QED BY <1>3, <1>4, <1>5 DEF TracedNext

LEMMA TraceHolds == TracedSpec => []TraceInv
BY TraceStarts, TraceStep, PTL DEF TracedSpec

\* With tracing the threads do what they do without it, so that the theorems on
\* Spec are about traced executions too.
THEOREM TracingHarmless == TracedSpec => Spec
<1>1. TracedInit => Init
  BY DEF TracedInit
<1>2. [TracedNext]_tracedVars => [Next]_vars
  BY TracedMoves
<1> QED BY <1>1, <1>2, PTL DEF TracedSpec, Spec

\* In every network and under every interleaving of the CPUs: no firing of the
\* merged trace reads a token before the firing that writes it, or exceeds the
\* capacity of a FIFO, in either format.
THEOREM ReplayCorrect == TracedSpec => []TraceReplays
<1>1. ASSUME TraceInv PROVE TraceReplays
  <2> SUFFICES ASSUME NEW p \in InPort PROVE replayed[p] \in 0 .. Cap[p[1]]
    BY DEF TraceReplays
  <2>1. /\ Shown(p[1]) \in Nat /\ Shown(p[1]) <= Written(p[1]) /\ Written(p[1]) \in Nat
        /\ Used(p) \in Nat /\ Used(p) <= Read(p) /\ Read(p) \in Nat /\ Cap[p[1]] \in Nat
    BY <1>1, ShownFacts, CountFacts, RateFacts DEF TraceInv
  <2>2. /\ replayed[p] = Shown(p[1]) - Used(p) /\ Read(p) <= Shown(p[1])
        /\ Written(p[1]) - Used(p) <= Cap[p[1]]
    BY <1>1 DEF TraceInv, ReplayInv
  <2> QED BY <2>1, <2>2
<1> QED BY <1>1, TraceHolds, PTL

\* In every network no two actions have the same record, the firings are numbered
\* without a gap, and the closed files have each firing once, under its action.
THEOREM CompleteCorrect == TracedSpec => []TraceComplete
<1>1. ASSUME TraceInv PROVE TraceComplete
  <2>1. DOMAIN recorded = Records /\ traced \in [Actor -> Nat] /\ fires \in [Actor -> Nat]
    BY <1>1 DEF TraceInv, TraceTyped, TypeOK, ActorsTyped
  <2>2. step = SumFunctionOnSet(recorded, DOMAIN recorded)
    BY <1>1, <2>1 DEF TraceInv, CountedInv, SumOf
  <2>3. ASSUME closed > 0 PROVE traced = fires
    <3>1. ASSUME NEW a \in Actor PROVE traced[a] = fires[a]
      <4>1. pc[CpuOf[a]] \notin ActorLoops
        BY <1>1, <2>3, RateFacts DEF TraceInv, EndedInv, Joined, At, ActorLoops
      <4>2. ~(traced[a] < fires[a]) /\ traced[a] <= fires[a]
        BY <1>1, <4>1 DEF TraceInv, EndedInv, TraceTyped
      <4> QED BY <2>1, <4>2
    <3> QED BY <2>1, <3>1
  <2>4. ASSUME closed > 0, NEW a \in Actor, NEW k \in 0 .. NumActions[a] - 1
        PROVE  recorded[Record(a, k)] = Cardinality({n \in 1 .. fires[a] : ActionAt[a][n] = k})
    BY <1>1, <2>3, <2>4 DEF TraceInv, CountedInv, Firings, Action
  <2>5. ASSUME NEW c \in 0 .. closed - 1, format = "turnus"
        PROVE  info[c] = SumFunctionOnSet(fires, Actor)
    <3>1. closed \in 0 .. N /\ N \in Nat /\ c \in Nat /\ c < closed /\ closed > 0
      BY <1>1, <2>5, CpuFacts DEF TraceInv, TraceTyped
    <3>2. c \in Cpu
      BY <3>1 DEF Cpu
    <3>3. info[c] = step /\ step = SumOf(traced, Actor)
      BY <1>1, <2>5, <3>1, <3>2 DEF TraceInv, EndedInv, CountedInv
    <3> QED BY <2>3, <3>1, <3>3 DEF SumOf
  <2> QED BY <2>2, <2>4, <2>5 DEF TraceComplete
<1> QED BY <1>1, TraceHolds, PTL
=============================================================================

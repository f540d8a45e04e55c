------------------------ MODULE NetworkSetupProofs ------------------------
(***************************************************************************)
(* From the calls of a main to the network that the threads execute, for   *)
(* every program, every configuration file and every fault of a main that  *)
(* NetworkSetup knows.                                                     *)
(***************************************************************************)
EXTENDS NetworkSetup, FoldFacts

-----------------------------------------------------------------------------
(* The elements of a sequence at some positions.                           *)

\* Position x of t is position h[x] of s, for all those in P.
Picks(s, P, t, h) ==
  /\ h \in [1 .. Len(t) -> 1 .. Len(s)]
  /\ \A x \in 1 .. Len(t) : h[x] \in P /\ t[x] = s[h[x]]
  /\ \A n \in 1 .. Len(s) : n \in P => \E x \in 1 .. Len(t) : h[x] = n
  /\ \A x, y \in 1 .. Len(t) : x < y => h[x] < h[y]

LEMMA PickedFacts ==
  ASSUME NEW X, NEW s \in Seq(X), NEW P
  PROVE  Picked(s, P) \in Seq(X) /\ \E h : Picks(s, P, Picked(s, P), h)
<1> DEFINE ss == [n \in 1 .. Len(s) |-> IF n \in P THEN <<s[n]>> ELSE <<>>]
           N == Len(s)
<1>1. N \in Nat /\ DOMAIN s = 1 .. N /\ \A n \in 1 .. N : s[n] \in X
  OBVIOUS
<1>2. \A n \in 1 .. N : <<s[n]>> \in Seq(X) /\ <<>> \in Seq(X) /\ Len(<<s[n]>>) = 1 /\ Len(<<>>) = 0
  BY <1>1
<1>3. ss \in [1 .. N -> Seq(X)]
  BY <1>2
<1>4. \A n \in 1 .. N : ss[n] = IF n \in P THEN <<s[n]>> ELSE <<>>
  OBVIOUS
<1>5. Picked(s, P) = FlattenSeq(ss)
  BY <1>1 DEF Picked
<1>0. \A n \in 1 .. N : IF n \in P THEN Len(ss[n]) = 1 /\ ss[n][1] = s[n] ELSE Len(ss[n]) = 0
  <2> SUFFICES ASSUME NEW n \in 1 .. N
               PROVE  IF n \in P THEN Len(ss[n]) = 1 /\ ss[n][1] = s[n] ELSE Len(ss[n]) = 0
    OBVIOUS
  <2>1. CASE n \in P
    <3>1. ss[n] = <<s[n]>>
      BY <1>4, <2>1
    <3>2. Len(<<s[n]>>) = 1 /\ <<s[n]>>[1] = s[n]
      OBVIOUS
    <3> QED BY <2>1, <3>1, <3>2
  <2>2. CASE n \notin P
    <3>1. ss[n] = <<>>
      BY <1>4, <2>2
    <3>2. Len(<<>>) = 0
      OBVIOUS
    <3> QED BY <2>2, <3>1, <3>2
  <2> QED BY <2>1, <2>2
<1> HIDE DEF ss
<1>6. PICK t \in Seq(X) : t = Picked(s, P) /\ \E of, at : Spread(ss, N, t, of, at)
  BY <1>1, <1>3, <1>5, FlattenFacts
<1>7. PICK of, at : Spread(ss, N, t, of, at)
  BY <1>6
<1>8. \A x \in 1 .. Len(t) : of[x] \in 1 .. N /\ at[x] \in 1 .. Len(ss[of[x]]) /\ t[x] = ss[of[x]][at[x]]
  BY <1>7 DEF Spread
<1>9. ASSUME NEW x \in 1 .. Len(t) PROVE of[x] \in P /\ at[x] = 1 /\ t[x] = s[of[x]]
  <2>1. of[x] \in 1 .. N /\ at[x] \in 1 .. Len(ss[of[x]]) /\ t[x] = ss[of[x]][at[x]]
    BY <1>8
  <2>2. of[x] \in P
    BY <1>0, <2>1
  <2>3. Len(ss[of[x]]) = 1 /\ ss[of[x]][1] = s[of[x]]
    BY <1>0, <2>1, <2>2
  <2>4. at[x] = 1
    BY <2>1, <2>3
  <2> QED BY <2>1, <2>2, <2>3, <2>4
<1>10. of \in [1 .. Len(t) -> 1 .. Len(s)]
  BY <1>7 DEF Spread
<1>11. ASSUME NEW n \in 1 .. Len(s), n \in P PROVE \E x \in 1 .. Len(t) : of[x] = n
  <2>1. 1 \in 1 .. Len(ss[n])
    BY <1>0, <1>11
  <2> QED BY <1>7, <2>1 DEF Spread
<1>12. ASSUME NEW x \in 1 .. Len(t), NEW y \in 1 .. Len(t), x < y PROVE of[x] < of[y]
  <2>1. of[x] < of[y] \/ (of[x] = of[y] /\ at[x] < at[y])
    BY <1>7, <1>12 DEF Spread
  <2>2. at[x] = 1 /\ at[y] = 1
    BY <1>9
  <2> QED BY <2>1, <2>2
<1>13. Picks(s, P, t, of)
  BY <1>9, <1>10, <1>11, <1>12 DEF Picks
<1> QED BY <1>6, <1>13

Earlier(P, m) == {n \in 1 .. m - 1 : n \in P}

\* There are x - 1 of them before the x-th.
LEMMA PickRank ==
  ASSUME NEW X, NEW s \in Seq(X), NEW P, NEW Y, NEW t \in Seq(Y), NEW h, Picks(s, P, t, h), NEW x \in 1 .. Len(t)
  PROVE  IsFiniteSet(Earlier(P, h[x])) /\ Cardinality(Earlier(P, h[x])) = x - 1
<1> DEFINE before == {n \in 1 .. h[x] - 1 : n \in P}
           g == [y \in 1 .. x - 1 |-> h[y]]
<1>1. Len(s) \in Nat /\ Len(t) \in Nat /\ x - 1 \in Nat
  OBVIOUS
<1>2. PICK k \in Nat, l \in Nat : k = Len(s) /\ l = Len(t)
  BY <1>1
<1>3. h \in [1 .. l -> 1 .. k] /\ x \in 1 .. l /\ \A y \in 1 .. x - 1 : y \in 1 .. l /\ y < x
  BY <1>2 DEF Picks
<1>4. \A y, z \in 1 .. l : y < z => h[y] < h[z]
  BY <1>2 DEF Picks
<1>5. IsFiniteSet(before)
  <2>1. h[x] - 1 \in Int /\ 1 \in Int
    BY <1>3
  <2>2. IsFiniteSet(1 .. h[x] - 1)
    BY <2>1, FS_Interval
  <2> QED BY <2>2, FS_Subset
<1>6. \A y \in 1 .. l : h[y] \in P /\ h[y] \in 1 .. k
  BY <1>2 DEF Picks
<1>7. \A y \in 1 .. x - 1 : h[y] \in before
  BY <1>3, <1>4, <1>6
<1>8. \A n \in before : \E y \in 1 .. x - 1 : h[y] = n
  <2> SUFFICES ASSUME NEW n \in before PROVE \E y \in 1 .. x - 1 : h[y] = n
    OBVIOUS
  <2>1. h[x] \in 1 .. k /\ n \in 1 .. h[x] - 1 /\ n \in P
    BY <1>3
  <2>2. n \in 1 .. Len(s) /\ n < h[x]
    BY <1>2, <2>1
  <2>3. PICK y \in 1 .. l : h[y] = n
    BY <1>2, <2>1, <2>2 DEF Picks
  <2>4. ~(x < y) /\ x # y
    <3>1. x < y => h[x] < h[y]
      BY <1>3, <1>4
    <3> QED BY <2>1, <2>2, <2>3, <3>1
  <2>5. y \in 1 .. x - 1
    BY <1>3, <2>4
  <2> QED BY <2>3, <2>5
<1>9. \A y, z \in 1 .. x - 1 : h[y] = h[z] => y = z
  <2> SUFFICES ASSUME NEW y \in 1 .. x - 1, NEW z \in 1 .. x - 1, h[y] = h[z], y # z PROVE FALSE
    OBVIOUS
  <2>1. y \in 1 .. l /\ z \in 1 .. l
    BY <1>3
  <2>2. h[y] < h[z] \/ h[z] < h[y]
    BY <1>4, <2>1
  <2>3. h[y] \in Int /\ h[z] \in Int
    BY <1>3, <2>1
  <2> QED BY <2>2, <2>3
<1>13. \A y \in 1 .. x - 1 : g[y] = h[y]
  OBVIOUS
<1> HIDE DEF before
<1>10. g \in [1 .. x - 1 -> before]
  BY <1>7
<1>11. Cardinality(1 .. x - 1) = Cardinality(before)
  <2> HIDE DEF g
  <2>1. \A y, z \in 1 .. x - 1 : g[y] = g[z] => y = z
    BY <1>9, <1>13
  <2>2. \A n \in before : \E y \in 1 .. x - 1 : g[y] = n
    BY <1>8, <1>13
  <2>3. PICK I : I = 1 .. x - 1
    OBVIOUS
  <2>4. /\ g \in [I -> before] /\ \A y, z \in I : g[y] = g[z] => y = z
        /\ \A n \in before : \E y \in I : g[y] = n
    BY <1>10, <2>1, <2>2, <2>3
  <2>5. Cardinality(I) = Cardinality(before)
    BY ONLY <1>5, <2>4, Paired
  <2> QED BY <2>3, <2>5
<1>12. Cardinality(1 .. x - 1) = x - 1
  BY <1>1, PrefixCount
<1> QED BY <1>5, <1>11, <1>12 DEF before, Earlier

-----------------------------------------------------------------------------
(* Programs.                                                               *)

Descs == [isBytes : BOOLEAN, tokenSize : Nat \ {0}]
ProgramInv == program \in Programs
Ports == Inputs \union Outputs
Declared(p) == program.wires[Feeding(p)].from

LEMMA ProgramIs ==
  ASSUME ProgramInv
  PROVE  /\ ProgramOK(program) /\ Insts = DOMAIN program.classes
         /\ Len(program.classes) \in Nat \ {0} /\ \A i \in Insts : program.classes[i] \in DOMAIN Classes
         /\ program.affinity \in [Insts -> -1 .. CpuSetSize - 1]
<1>1. ProgramOK(program)
  BY SetupAssumption DEF ProgramInv
<1>2. program.classes \in Seq(DOMAIN Classes) /\ program.classes # <<>>
  BY <1>1 DEF ProgramOK
<1>3. Insts = DOMAIN program.classes /\ Len(program.classes) \in Nat \ {0}
  BY <1>2, EmptySeq, LenProperties DEF Insts
<1>4. \A i \in Insts : program.classes[i] \in DOMAIN Classes
  BY <1>2 DEF Insts
<1>5. program.affinity \in [Insts -> -1 .. CpuSetSize - 1]
  BY <1>1, <1>3 DEF ProgramOK
<1> QED BY <1>1, <1>3, <1>4, <1>5

LEMMA ClassFacts ==
  ASSUME ProgramInv, NEW i \in Insts
  PROVE  /\ Class(i).ins \in Seq(Descs) /\ Class(i).outs \in Seq(Descs)
         /\ Len(Class(i).ins) \in Nat /\ Len(Class(i).outs) \in Nat
<1>1. Classes[program.classes[i]] \in [ins : Seq(Descs), outs : Seq(Descs), active : BOOLEAN]
  BY ProgramIs, SetupAssumption DEF Descs
<1> QED BY <1>1, LenProperties DEF Class

LEMMA PortFacts ==
  ASSUME ProgramInv
  PROVE  /\ Inputs \intersect Outputs = {}
         /\ \A p \in Inputs : /\ p[1] \in Insts /\ p[2] = "in" /\ p[3] \in 1 .. Len(Class(p[1]).ins)
                              /\ p = <<p[1], "in", p[3]>>
         /\ \A p \in Outputs : /\ p[1] \in Insts /\ p[2] = "out" /\ p[3] \in 1 .. Len(Class(p[1]).outs)
                               /\ p = <<p[1], "out", p[3]>>
         /\ \A i \in Insts : \A j \in 1 .. Len(Class(i).ins) : <<i, "in", j>> \in Inputs
         /\ \A i \in Insts : \A j \in 1 .. Len(Class(i).outs) : <<i, "out", j>> \in Outputs
         /\ \A i \in Insts : InputsOf(program, i) = {p \in Inputs : p[1] = i}
         /\ \A i \in Insts : OutputsOf(program, i) = {p \in Outputs : p[1] = i}
<1>1. Inputs = UNION {InputsOf(program, i) : i \in Insts} /\ Outputs = UNION {OutputsOf(program, i) : i \in Insts}
  BY ProgramIs DEF Inputs, Outputs, InputsIn, OutputsIn
<1>2. \A i \in Insts : InputsOf(program, i) = {<<i, "in", j>> : j \in 1 .. Len(Class(i).ins)}
  BY DEF InputsOf, Class
<1>3. \A i \in Insts : OutputsOf(program, i) = {<<i, "out", j>> : j \in 1 .. Len(Class(i).outs)}
  BY DEF OutputsOf, Class
<1>4. \A p \in Inputs : \E i \in Insts : \E j \in 1 .. Len(Class(i).ins) : p = <<i, "in", j>>
  BY <1>1, <1>2
<1>5. \A p \in Outputs : \E i \in Insts : \E j \in 1 .. Len(Class(i).outs) : p = <<i, "out", j>>
  BY <1>1, <1>3
<1>6. \A i, j : <<i, "in", j>>[1] = i /\ <<i, "in", j>>[2] = "in" /\ <<i, "in", j>>[3] = j
  OBVIOUS
<1>7. \A i, j : <<i, "out", j>>[1] = i /\ <<i, "out", j>>[2] = "out" /\ <<i, "out", j>>[3] = j
  OBVIOUS
<1>8. \A p \in Inputs : /\ p[1] \in Insts /\ p[2] = "in" /\ p[3] \in 1 .. Len(Class(p[1]).ins)
                        /\ p = <<p[1], "in", p[3]>>
  BY <1>4, <1>6
<1>9. \A p \in Outputs : /\ p[1] \in Insts /\ p[2] = "out" /\ p[3] \in 1 .. Len(Class(p[1]).outs)
                         /\ p = <<p[1], "out", p[3]>>
  BY <1>5, <1>7
<1>10. \A i \in Insts : \A j \in 1 .. Len(Class(i).ins) : <<i, "in", j>> \in Inputs
  BY <1>1, <1>2
<1>11. \A i \in Insts : \A j \in 1 .. Len(Class(i).outs) : <<i, "out", j>> \in Outputs
  BY <1>1, <1>3
<1>12. \A i \in Insts : InputsOf(program, i) = {p \in Inputs : p[1] = i}
  BY <1>2, <1>6, <1>8, <1>10
<1>13. \A i \in Insts : OutputsOf(program, i) = {p \in Outputs : p[1] = i}
  BY <1>3, <1>7, <1>9, <1>11
<1>14. Inputs \intersect Outputs = {}
  <2>1. "in" # "out"
    OBVIOUS
  <2> QED BY <1>8, <1>9, <2>1
<1> QED BY <1>8, <1>9, <1>10, <1>11, <1>12, <1>13, <1>14

LEMMA WireFacts ==
  ASSUME ProgramInv
  PROVE  /\ program.wires \in Seq([from : Outputs, to : Inputs, size : Nat]) /\ Wires = 1 .. Len(program.wires)
         /\ \A n \in Wires : /\ program.wires[n].from \in Outputs /\ program.wires[n].to \in Inputs
                             /\ program.wires[n].size \in Nat
         /\ \A p \in Inputs : /\ Feeding(p) \in Wires /\ program.wires[Feeding(p)].to = p
                              /\ Declared(p) \in Outputs /\ Feeding(p) \in Fed(Declared(p))
                              /\ \A n \in Wires : program.wires[n].to = p => n = Feeding(p)
         /\ \A out \in Outputs : IsFiniteSet(Fed(out)) /\ Cardinality(Fed(out)) \in Nat \ {0}
<1>1. program.wires \in Seq([from : Outputs, to : Inputs, size : Nat])
  BY ProgramIs DEF ProgramOK, Inputs, Outputs
<1>2. Wires = 1 .. Len(program.wires) /\ Len(program.wires) \in Nat
  BY <1>1, LenProperties DEF Wires
<1>3. \A n \in Wires : program.wires[n] \in [from : Outputs, to : Inputs, size : Nat]
  <2>1. PICK R : R = [from : Outputs, to : Inputs, size : Nat]
    OBVIOUS
  <2>2. program.wires \in Seq(R)
    BY <1>1, <2>1
  <2>3. \A n \in Wires : program.wires[n] \in R
    BY ONLY <1>2, <2>2, ElementOfSeq
  <2> QED BY <2>1, <2>3
<1>4. \A p \in Inputs : Feeding(p) \in Wires /\ program.wires[Feeding(p)].to = p
  BY ProgramIs DEF ProgramOK, Inputs, Feeding, Wires
<1>5. \A m, n \in Wires : program.wires[m].to = program.wires[n].to => m = n
  BY ProgramIs DEF ProgramOK, Wires
<1>6. ASSUME NEW out \in Outputs PROVE IsFiniteSet(Fed(out)) /\ Cardinality(Fed(out)) \in Nat \ {0}
  <2>1. Fed(out) \subseteq Wires /\ Fed(out) # {}
    BY ProgramIs DEF ProgramOK, Outputs, Fed, Wires
  <2>2. IsFiniteSet(Fed(out))
    BY <1>2, <2>1, PrefixCount, FS_Subset
  <2> QED BY <2>1, <2>2, FS_CardinalityType, FS_EmptySet
<1>7. \A p \in Inputs : Declared(p) \in Outputs /\ Feeding(p) \in Fed(Declared(p))
  BY <1>3, <1>4 DEF Declared, Fed, Wires
<1> QED BY <1>1, <1>2, <1>3, <1>4, <1>5, <1>6, <1>7

-----------------------------------------------------------------------------
(* The calls of main.                                                      *)

CreateCall(i) == [op |-> "createActorInstance", instance |-> i]
SetCall(i) == [op |-> "setParameter", instance |-> i, value |-> program.affinity[i]]
Asking == {i \in Insts : program.affinity[i] # -1}
Others ==
  {SetCall(i) : i \in Asking} \union {Create(p) : p \in Ports} \union {Connect(program.wires[n]) : n \in Wires}
Legal == {CreateCall(i) : i \in Insts} \union Others

LEMMA CallKinds ==
  /\ \A c \in Others : c.op # "createActorInstance"
  /\ \A i : CreateCall(i).op = "createActorInstance" /\ CreateCall(i).instance = i /\ CreateCall(i) \notin Others
  /\ \A i, j : CreateCall(i) = CreateCall(j) => i = j
  /\ \A c \in Legal : c.op = "createActorInstance" => c.instance \in Insts /\ c = CreateCall(c.instance)
  /\ \A c \in Legal : c.op = "setParameter" =>
       c.instance \in Insts /\ c = SetCall(c.instance) /\ c.value = program.affinity[c.instance]
  /\ \A c \in Legal : c.op = "createPort" => c.port \in Ports /\ c = Create(c.port)
  /\ \A c \in Legal : c.op = "connectPorts" =>
       \E n \in Wires : c.from = program.wires[n].from /\ c.to = program.wires[n].to
<1>1. \A i : /\ CreateCall(i).op = "createActorInstance" /\ CreateCall(i).instance = i
             /\ SetCall(i).op = "setParameter" /\ SetCall(i).instance = i /\ SetCall(i).value = program.affinity[i]
  BY DEF CreateCall, SetCall
<1>2. \A p : Create(p).op = "createPort" /\ Create(p).port = p
  BY DEF Create
<1>3. \A w : Connect(w).op = "connectPorts" /\ Connect(w).from = w.from /\ Connect(w).to = w.to
  BY DEF Connect
<1>4. \A c \in Others : \/ \E i \in Insts : c = SetCall(i)
                        \/ \E p \in Ports : c = Create(p)
                        \/ \E n \in Wires : c = Connect(program.wires[n])
  BY DEF Others, Asking
<1>5. \A c \in Legal : c \in Others \/ \E i \in Insts : c = CreateCall(i)
  BY DEF Legal
<1> QED BY <1>1, <1>2, <1>3, <1>4, <1>5

LEMMA PortsOfFacts ==
  ASSUME ProgramInv, NEW i \in Insts
  PROVE  PortsOf(i) \in Seq(Ports)
<1> DEFINE a == [j \in 1 .. Len(Class(i).ins) |-> <<i, "in", j>>]
           b == [j \in 1 .. Len(Class(i).outs) |-> <<i, "out", j>>]
<1>1. a \in Seq(Ports) /\ b \in Seq(Ports)
  <2>1. \A j \in 1 .. Len(Class(i).ins) : <<i, "in", j>> \in Ports
    BY PortFacts DEF Ports
  <2>2. \A j \in 1 .. Len(Class(i).outs) : <<i, "out", j>> \in Ports
    BY PortFacts DEF Ports
  <2> QED BY <2>1, <2>2, ClassFacts
<1> QED BY <1>1, ConcatProperties DEF PortsOf

LEMMA InstanceCallsFacts ==
  ASSUME ProgramInv, NEW times \in [Ports -> Nat], NEW i \in Insts
  PROVE  LET q == InstanceCalls(i, times)
         IN  /\ q \in Seq(Legal) /\ Len(q) \in Nat \ {0} /\ q[1] = CreateCall(i)
             /\ \A x \in 2 .. Len(q) : q[x] \in Others
             /\ i \in Asking => Len(q) >= 2 /\ q[2] = SetCall(i)
<1> DEFINE P == PortsOf(i)
           N == Len(P)
           ss == [n \in 1 .. N |-> [x \in 1 .. times[P[n]] |-> Create(P[n])]]
           a == <<CreateCall(i)>>
           b == IF program.affinity[i] = -1 THEN <<>> ELSE <<SetCall(i)>>
           c == FlattenSeq(ss)
<1>1. P \in Seq(Ports) /\ N \in Nat /\ DOMAIN P = 1 .. N
  BY PortsOfFacts, LenProperties
<1>2. ss \in [1 .. N -> Seq(Others)]
  <2> SUFFICES ASSUME NEW n \in 1 .. N PROVE [x \in 1 .. times[P[n]] |-> Create(P[n])] \in Seq(Others)
    OBVIOUS
  <2>1. P[n] \in Ports /\ times[P[n]] \in Nat
    BY <1>1, ElementOfSeq
  <2>2. Create(P[n]) \in Others
    BY <2>1 DEF Others
  <2>3. PICK k \in Nat, e \in Others : k = times[P[n]] /\ e = Create(P[n])
    BY <2>1, <2>2
  <2>4. [x \in 1 .. k |-> e] \in Seq(Others)
    OBVIOUS
  <2> QED BY <2>3, <2>4
<1> HIDE DEF ss
<1>3. c \in Seq(Others)
  BY <1>1, <1>2, FlattenFacts
<1>4. InstanceCalls(i, times) = (a \o b) \o c
  BY <1>1 DEF InstanceCalls, ss, CreateCall, SetCall
<1>5. a \in Seq(Legal) /\ Len(a) = 1 /\ a[1] = CreateCall(i)
  BY DEF Legal
<1>6. b \in Seq(Others) /\ (i \in Asking => Len(b) = 1 /\ b[1] = SetCall(i))
  <2>1. CASE program.affinity[i] = -1
    <3>1. b = <<>> /\ i \notin Asking
      BY <2>1 DEF Asking
    <3> HIDE DEF b
    <3> QED BY <3>1
  <2>2. CASE program.affinity[i] # -1
    <3>1. b = <<SetCall(i)>> /\ SetCall(i) \in Others
      BY <2>2 DEF Asking, Others
    <3>2. PICK e \in Others : e = SetCall(i)
      BY <3>1
    <3>3. b = <<e>>
      BY <3>1, <3>2
    <3>4. <<e>> \in Seq(Others) /\ Len(<<e>>) = 1 /\ <<e>>[1] = e
      OBVIOUS
    <3> HIDE DEF b
    <3> QED BY <3>2, <3>3, <3>4
  <2> QED BY <2>1, <2>2
<1> HIDE DEF P, N, a, b, c
<1>7. Others \subseteq Legal
  BY DEF Legal
<1>8. b \in Seq(Legal) /\ c \in Seq(Legal)
  BY <1>3, <1>6, <1>7, SeqMonotonic
<1>9. PICK d : d = b \o c
  OBVIOUS
<1>10. d \in Seq(Others) /\ Len(d) = Len(b) + Len(c) /\ Len(b) \in Nat /\ Len(c) \in Nat
       /\ \A x \in 1 .. Len(b) + Len(c) : d[x] = IF x <= Len(b) THEN b[x] ELSE c[x - Len(b)]
  BY <1>3, <1>6, <1>9, ConcatProperties, LenProperties
<1>11. d \in Seq(Legal)
  BY <1>8, <1>9, ConcatProperties
<1>12. InstanceCalls(i, times) = a \o d
  <2>1. (a \o b) \o c = a \o (b \o c)
    BY ONLY <1>5, <1>8, ConcatAssociative
  <2> QED BY <1>4, <1>9, <2>1
<1>13. PICK q : q = InstanceCalls(i, times)
  OBVIOUS
<1>14. PICK m \in Nat : m = Len(d)
  BY <1>10
<1>15. q \in Seq(Legal) /\ Len(q) = 1 + m /\ \A x \in 1 .. 1 + m : q[x] = IF x <= 1 THEN a[x] ELSE d[x - 1]
  <2>1. /\ a \o d \in Seq(Legal) /\ Len(a \o d) = Len(a) + Len(d)
        /\ \A x \in 1 .. Len(a) + Len(d) : (a \o d)[x] = IF x <= Len(a) THEN a[x] ELSE d[x - Len(a)]
    BY ONLY <1>5, <1>11, ConcatProperties
  <2> QED BY <1>5, <1>12, <1>13, <1>14, <2>1
<1>16. q[1] = CreateCall(i)
  BY <1>5, <1>14, <1>15
<1>17. ASSUME NEW x \in 2 .. Len(q) PROVE q[x] \in Others
  <2>1. x \in 1 .. 1 + m /\ ~(x <= 1) /\ x - 1 \in 1 .. m
    BY <1>14, <1>15
  <2>2. q[x] = d[x - 1]
    BY <1>15, <2>1
  <2> QED BY <1>10, <1>14, <2>1, <2>2, ElementOfSeq
<1>18. ASSUME i \in Asking PROVE Len(q) >= 2 /\ q[2] = SetCall(i)
  <2>1. Len(b) = 1 /\ b[1] = SetCall(i)
    BY <1>6, <1>18
  <2>2. m >= 1 /\ d[1] = SetCall(i)
    BY <1>10, <1>14, <2>1
  <2>3. 2 \in 1 .. 1 + m /\ ~(2 <= 1) /\ 2 - 1 = 1
    BY <1>14, <2>2
  <2> QED BY <1>14, <1>15, <2>2, <2>3
<1> QED BY <1>13, <1>14, <1>15, <1>16, <1>17, <1>18

\* What is left to call, with an instance created at most once and its affinity set after that.
Script(cs) ==
  /\ cs \in Seq(Legal)
  /\ \A i \in Insts : \A x, y \in 1 .. Len(cs) : cs[x] = CreateCall(i) /\ cs[y] = CreateCall(i) => x = y
  /\ \A i \in Asking : \A x \in 1 .. Len(cs) :
       cs[x] = CreateCall(i) => \E y \in 1 .. Len(cs) : x < y /\ cs[y] = SetCall(i)

Creates(cs, i) == \E x \in 1 .. Len(cs) : cs[x] = CreateCall(i)

LEMMA CallsWithFacts ==
  ASSUME ProgramInv, NEW times \in [Ports -> Nat], NEW links
  PROVE  Script(CallsWith(times, links)) /\ \A i \in Insts : Creates(CallsWith(times, links), i)
<1> DEFINE N == Len(program.classes)
           ss == [i \in Insts |-> InstanceCalls(i, times)]
           ws == [n \in Wires |-> Connect(program.wires[n])]
<1>1. N \in Nat \ {0} /\ Insts = 1 .. N
  BY ProgramIs DEF Insts
<1>2. \A i \in Insts : /\ ss[i] \in Seq(Legal) /\ Len(ss[i]) \in Nat \ {0} /\ ss[i][1] = CreateCall(i)
                       /\ \A x \in 2 .. Len(ss[i]) : ss[i][x] \in Others
                       /\ i \in Asking => Len(ss[i]) >= 2 /\ ss[i][2] = SetCall(i)
  BY InstanceCallsFacts
<1>3. ss \in [1 .. N -> Seq(Legal)]
  BY <1>1, <1>2
<1>4. ws \in Seq(Others)
  <2>1. \A n \in Wires : Connect(program.wires[n]) \in Others
    BY DEF Others
  <2>2. PICK k \in Nat : Wires = 1 .. k
    BY WireFacts, LenProperties
  <2> QED BY <2>1, <2>2
<1>5. PICK t : t = FlattenSeq(ss)
  OBVIOUS
<1>6. PICK u : u = Picked(ws, links)
  OBVIOUS
<1>7. CallsWith(times, links) = t \o u
  BY <1>5, <1>6 DEF CallsWith, Wires
<1> HIDE DEF ss, ws
<1>8. t \in Seq(Legal) /\ \E of, at : Spread(ss, N, t, of, at)
  BY <1>1, <1>3, <1>5, FlattenFacts
<1>9. PICK of, at : Spread(ss, N, t, of, at)
  BY <1>8
<1>10. u \in Seq(Others)
  BY <1>4, <1>6, PickedFacts
<1>11. u \in Seq(Legal)
  <2>1. Others \subseteq Legal
    BY DEF Legal
  <2> QED BY <1>10, <2>1, SeqMonotonic
<1>12. PICK cs : cs = t \o u
  OBVIOUS
<1>13. PICK k \in Nat, l \in Nat : k = Len(t) /\ l = Len(u)
  BY <1>8, <1>10, LenProperties
<1>14. cs \in Seq(Legal) /\ Len(cs) = k + l /\ \A x \in 1 .. k + l : cs[x] = IF x <= k THEN t[x] ELSE u[x - k]
  BY <1>8, <1>11, <1>12, <1>13, ConcatProperties
<1>15. \A x \in 1 .. k : /\ of[x] \in Insts /\ at[x] \in 1 .. Len(ss[of[x]]) /\ t[x] = ss[of[x]][at[x]]
                         /\ x \in 1 .. k + l /\ cs[x] = t[x]
  <2> SUFFICES ASSUME NEW x \in 1 .. k
               PROVE  /\ of[x] \in Insts /\ at[x] \in 1 .. Len(ss[of[x]]) /\ t[x] = ss[of[x]][at[x]]
                      /\ x \in 1 .. k + l /\ cs[x] = t[x]
    OBVIOUS
  <2>1. of[x] \in Insts /\ at[x] \in 1 .. Len(ss[of[x]]) /\ t[x] = ss[of[x]][at[x]]
    BY <1>1, <1>9, <1>13 DEF Spread
  <2>2. x \in 1 .. k + l /\ x <= k
    BY <1>13
  <2> QED BY <1>14, <2>1, <2>2
<1>16. \A x, y \in 1 .. k : x < y => of[x] < of[y] \/ (of[x] = of[y] /\ at[x] < at[y])
  BY <1>9, <1>13 DEF Spread
<1>17. \A i \in Insts : \A j \in 1 .. Len(ss[i]) : \E x \in 1 .. k : of[x] = i /\ at[x] = j
  BY <1>1, <1>9, <1>13 DEF Spread
<1>18. ASSUME NEW i \in Insts, NEW x \in 1 .. Len(cs), cs[x] = CreateCall(i)
       PROVE  x \in 1 .. k /\ of[x] = i /\ at[x] = 1
  <2>1. x \in 1 .. k + l
    BY <1>14
  <2>2. x <= k
    <3> SUFFICES ASSUME ~(x <= k) PROVE FALSE
      OBVIOUS
    <3>1. x - k \in 1 .. l /\ cs[x] = u[x - k]
      BY <1>14, <2>1
    <3>2. cs[x] \in Others
      BY <1>10, <1>13, <3>1, ElementOfSeq
    <3> QED BY <1>18, <3>2, CallKinds
  <2>3. x \in 1 .. k
    BY <2>1, <2>2
  <2>4. of[x] \in Insts /\ at[x] \in 1 .. Len(ss[of[x]]) /\ cs[x] = ss[of[x]][at[x]]
    BY <1>15, <2>3
  <2>5. Len(ss[of[x]]) \in Nat /\ (at[x] \in 2 .. Len(ss[of[x]]) => cs[x] \in Others)
    BY <1>2, <2>4
  <2>6. at[x] = 1
    <3>1. at[x] \notin 2 .. Len(ss[of[x]])
      BY <1>18, <2>5, CallKinds
    <3> QED BY <2>4, <2>5, <3>1
  <2>7. CreateCall(i) = CreateCall(of[x])
    BY <1>2, <1>18, <2>4, <2>6
  <2> QED BY <2>3, <2>6, <2>7, CallKinds
<1>19. ASSUME NEW i \in Insts, NEW x \in 1 .. Len(cs), NEW y \in 1 .. Len(cs),
              cs[x] = CreateCall(i), cs[y] = CreateCall(i)
       PROVE  x = y
  <2>1. x \in 1 .. k /\ y \in 1 .. k /\ of[x] = of[y] /\ at[x] = 1 /\ at[y] = 1 /\ of[x] = i
    BY <1>18, <1>19
  <2>2. i \in Int
    BY <1>1
  <2>3. (x < y => i < i \/ 1 < 1) /\ (y < x => i < i \/ 1 < 1)
    BY <1>16, <2>1, Zenon
  <2>4. ~(x < y) /\ ~(y < x)
    BY <2>2, <2>3
  <2> QED BY <2>1, <2>4
<1>20. ASSUME NEW i \in Asking, NEW x \in 1 .. Len(cs), cs[x] = CreateCall(i)
       PROVE  \E y \in 1 .. Len(cs) : x < y /\ cs[y] = SetCall(i)
  <2>1. i \in Insts /\ 2 \in 1 .. Len(ss[i]) /\ ss[i][2] = SetCall(i)
    <3>1. i \in Insts
      BY DEF Asking
    <3> QED BY <1>2, <3>1
  <2>2. x \in 1 .. k /\ of[x] = i /\ at[x] = 1
    BY <1>18, <1>20, <2>1
  <2>3. PICK y \in 1 .. k : of[y] = i /\ at[y] = 2
    BY <1>17, <2>1
  <2>4. i \in Int
    BY <1>1, <2>1
  <2>5. ~(y < x) /\ y # x
    BY <1>16, <2>2, <2>3, <2>4
  <2>6. cs[y] = SetCall(i) /\ y \in 1 .. Len(cs)
    BY <1>14, <1>15, <2>1, <2>3
  <2>7. x < y
    BY <2>2, <2>3, <2>5
  <2> QED BY <2>6, <2>7
<1>21. ASSUME NEW i \in Insts PROVE Creates(cs, i)
  <2>1. 1 \in 1 .. Len(ss[i])
    BY <1>2
  <2>2. PICK x \in 1 .. k : of[x] = i /\ at[x] = 1
    BY <1>17, <2>1
  <2>3. cs[x] = CreateCall(i) /\ x \in 1 .. Len(cs)
    BY <1>2, <1>14, <1>15, <2>2
  <2> QED BY <2>3 DEF Creates
<1>22. Script(cs)
  BY <1>14, <1>19, <1>20 DEF Script
<1> QED BY <1>7, <1>12, <1>21, <1>22

LEMMA StartCalls ==
  ASSUME ProgramInv, NEW cs \in {Calls} \union FaultyCalls
  PROVE  Script(cs) /\ \A i \in Insts : Creates(cs, i)
<1>1. Once \in [Ports -> Nat] /\ \A p \in Ports, n \in Nat : [Once EXCEPT ![p] = n] \in [Ports -> Nat]
  BY DEF Once, Ports
<1>2. \E times \in [Ports -> Nat] : \E links : cs = CallsWith(times, links)
  BY <1>1 DEF Calls, FaultyCalls, Ports
<1> QED BY <1>2, CallsWithFacts

\* The first call is made.
LEMMA ScriptTail ==
  ASSUME NEW cs, Script(cs), cs # <<>>
  PROVE  /\ Script(Tail(cs)) /\ Head(cs) \in Legal
         /\ \A i \in Insts : Creates(cs, i) <=> Head(cs) = CreateCall(i) \/ Creates(Tail(cs), i)
         /\ \A i \in Insts : Head(cs) = CreateCall(i) => ~Creates(Tail(cs), i)
         /\ \A i \in Asking : Head(cs) = CreateCall(i) => \E y \in 1 .. Len(Tail(cs)) : Tail(cs)[y] = SetCall(i)
         /\ \A i \in Asking : (\E y \in 1 .. Len(cs) : cs[y] = SetCall(i)) =>
              Head(cs) = SetCall(i) \/ \E y \in 1 .. Len(Tail(cs)) : Tail(cs)[y] = SetCall(i)
<1>1. cs \in Seq(Legal)
  BY DEF Script
<1>2. PICK L : L = Legal
  OBVIOUS
<1>3. PICK t : t = Tail(cs)
  OBVIOUS
<1>4. /\ t \in Seq(L) /\ Len(t) = Len(cs) - 1 /\ Len(cs) \in Nat \ {0} /\ Head(cs) \in L /\ Head(cs) = cs[1]
      /\ \A x \in 1 .. Len(t) : t[x] = cs[x + 1]
  <2>1. cs \in Seq(L)
    BY <1>1, <1>2
  <2> QED BY ONLY <1>3, <2>1, cs # <<>>, HeadTailProperties, EmptySeq
<1>5. PICK k \in Nat : k = Len(t) /\ Len(cs) = k + 1
  BY <1>4
<1>6. \A x \in 1 .. k : x + 1 \in 1 .. k + 1 /\ t[x] = cs[x + 1] /\ x + 1 # 1
  BY <1>4, <1>5
<1>7. \A x \in 1 .. k + 1 : x = 1 \/ (x - 1 \in 1 .. k /\ t[x - 1] = cs[x])
  <2> SUFFICES ASSUME NEW x \in 1 .. k + 1, x # 1 PROVE x - 1 \in 1 .. k /\ t[x - 1] = cs[x]
    OBVIOUS
  <2>1. x - 1 \in 1 .. k /\ (x - 1) + 1 = x
    OBVIOUS
  <2> QED BY <1>6, <2>1
<1>8. 1 \in 1 .. k + 1
  OBVIOUS
<1>9. ASSUME NEW i \in Insts, NEW x \in 1 .. k, NEW y \in 1 .. k, t[x] = CreateCall(i), t[y] = CreateCall(i)
      PROVE  x = y
  <2>1. x + 1 = y + 1
    BY <1>5, <1>6, <1>9 DEF Script
  <2> QED BY <2>1
<1>10. ASSUME NEW i \in Asking, NEW x \in 1 .. k, t[x] = CreateCall(i)
       PROVE  \E y \in 1 .. k : x < y /\ t[y] = SetCall(i)
  <2>1. PICK y \in 1 .. k + 1 : x + 1 < y /\ cs[y] = SetCall(i)
    BY <1>5, <1>6, <1>10 DEF Script
  <2>2. y # 1 /\ x < y - 1
    BY <2>1
  <2> QED BY <1>7, <2>1, <2>2
<1>11. Script(t)
  BY <1>2, <1>4, <1>5, <1>9, <1>10 DEF Script
<1>12. \A i \in Insts : Creates(cs, i) <=> Head(cs) = CreateCall(i) \/ Creates(t, i)
  BY <1>4, <1>5, <1>6, <1>7, <1>8 DEF Creates
<1>13. ASSUME NEW i \in Insts, Head(cs) = CreateCall(i), Creates(t, i) PROVE FALSE
  <2>1. PICK x \in 1 .. k : t[x] = CreateCall(i)
    BY <1>5, <1>13 DEF Creates
  <2>2. x + 1 = 1
    BY <1>4, <1>5, <1>6, <1>8, <1>13, <2>1 DEF Script
  <2> QED BY <2>2
<1>14. ASSUME NEW i \in Asking, Head(cs) = CreateCall(i) PROVE \E y \in 1 .. k : t[y] = SetCall(i)
  <2>1. PICK y \in 1 .. k + 1 : 1 < y /\ cs[y] = SetCall(i)
    BY <1>4, <1>5, <1>8, <1>14 DEF Script
  <2>2. y # 1
    BY <2>1
  <2> QED BY <1>7, <2>1, <2>2
<1>15. ASSUME NEW i \in Asking, \E y \in 1 .. k + 1 : cs[y] = SetCall(i)
       PROVE  Head(cs) = SetCall(i) \/ \E y \in 1 .. k : t[y] = SetCall(i)
  BY <1>4, <1>7, <1>15
<1> QED BY <1>2, <1>3, <1>4, <1>5, <1>11, <1>12, <1>13, <1>14, <1>15

-----------------------------------------------------------------------------
(* The inductive invariant.                                                *)

\* The ports of the instances that there are.
Made == {p \in Ports : p[1] \in ToSet(instances)}

ControlInv ==
  /\ ProgramInv /\ FileOK(file) /\ process \in {1, 2}
  /\ pc \in {"start", "main", "index", "config", "check", "allocate", "run", "exit", "crash"}
  /\ pc = "start" => instances = <<>>
  /\ pc \in {"index", "config", "check", "allocate", "run"} => ToSet(instances) = Insts

InstancesInv ==
  /\ instances \in Seq(Insts)
  /\ \A m, n \in 1 .. Len(instances) : instances[m] = instances[n] => m = n
  /\ DOMAIN index = ToSet(instances) /\ DOMAIN affinity = ToSet(instances)
  /\ \A i \in ToSet(instances) : index[i] \in Int /\ affinity[i] \in -1 .. CpuSetSize - 1

\* An input is not connected, or it is as it should be; an output that has been
\* created knows how many readers it is going to have.
PortsInv ==
  /\ DOMAIN created = Made /\ DOMAIN capacity = Made
  /\ DOMAIN numberOfReaders = Made \intersect Outputs /\ DOMAIN output = Made \intersect Inputs
  /\ \A p \in Made : created[p] \in Nat /\ capacity[p] \in Nat
  /\ \A p \in Made \intersect Inputs : output[p] \in {NoPort, Declared(p)}
  /\ \A p \in Made \intersect Outputs :
       numberOfReaders[p] \in Nat /\ (created[p] > 0 => numberOfReaders[p] = Cardinality(Fed(p)))

\* An instance is there or is still to be created, and its affinity is set or is going to be.
CallsInv ==
  pc = "main" =>
    /\ Script(calls)
    /\ \A i \in Insts : i \in ToSet(instances) <=> ~Creates(calls, i)
    /\ \A i \in ToSet(instances) :
         \/ affinity[i] = program.affinity[i]
         \/ affinity[i] = -1 /\ \E y \in 1 .. Len(calls) : calls[y] = SetCall(i)

\* Main, and then the file, ask for a capacity.
CapacityInv ==
  /\ pc \in {"main", "index", "config"} =>
       \A p \in Made : IF p \in Inputs THEN created[p] > 0 => capacity[p] = program.wires[Feeding(p)].size
                                       ELSE capacity[p] = 0
  /\ pc \in {"check", "allocate"} =>
       \A p \in Ports : IF p \in Inputs THEN created[p] > 0 => capacity[p] = Asked(p)
                                        ELSE capacity[p] = 0

\* No two instances have one name.
NamesInv ==
  pc \in {"config", "check", "allocate", "run"} => \A i, j \in Insts : Name(i) = Name(j) => i = j

Unasked == \E i \in Insts : AskedCpu(i) = -1

PlaceInv ==
  /\ pc \in {"index", "config"} => \A i \in Insts : affinity[i] = program.affinity[i]
  /\ pc = "check" => \A i \in Insts : affinity[i] = AskedCpu(i)
  /\ pc \in {"allocate", "run"} => \A i \in Insts : affinity[i] = IF Unasked THEN 0 ELSE AskedCpu(i)

CheckedInv ==
  /\ pc = "allocate" => \A p \in Ports : WellFormed(p)
  /\ pc \in {"allocate", "run"} => \A i \in Insts : affinity[i] # -1

\* Every instance is in the list of one CPU, once, and no list is empty.
Placed ==
  /\ actors \in Seq(Seq(Insts)) /\ Len(actors) # 0 /\ Len(cpus) = Len(actors)
  /\ \A c \in 1 .. Len(actors) :
       /\ actors[c] # <<>>
       /\ \A m, n \in 1 .. Len(actors[c]) : actors[c][m] = actors[c][n] => m = n
  /\ \A i \in Insts : \E c \in 1 .. Len(actors) : i \in ToSet(actors[c])
  /\ \A c, d \in 1 .. Len(actors) : \A i \in ToSet(actors[c]) : i \in ToSet(actors[d]) => c = d

\* What the threads are given, and what generate_config reads.
RunInv ==
  /\ \A s \in DOMAIN reader : reader[s] \in Inputs \union {NoPort}
  /\ Len(actors) <= CpuSetSize
  /\ pc = "run" => Placed /\ readers \in [Outputs -> Nat] /\ firstReader \in [Outputs -> Nat]
  /\ WiredAsDeclared /\ CapacityRight /\ PlacedAsAsked

IInv ==
  /\ ControlInv /\ InstancesInv /\ PortsInv /\ CallsInv /\ CapacityInv /\ NamesInv
  /\ PlaceInv /\ CheckedInv /\ RunInv

LEMMA FixedProgram ==
  ASSUME program' = program
  PROVE  /\ Insts' = Insts /\ Inputs' = Inputs /\ Outputs' = Outputs /\ Ports' = Ports
         /\ \A p : Feeding(p)' = Feeding(p) /\ Declared(p)' = Declared(p) /\ Fed(p)' = Fed(p)
         /\ \A i : Class(i)' = Class(i) /\ SetCall(i)' = SetCall(i)
         /\ \A p : Desc(p)' = Desc(p)
         /\ Asking' = Asking /\ Others' = Others /\ Legal' = Legal
<1>1. /\ Insts' = Insts /\ Inputs' = Inputs /\ Outputs' = Outputs
      /\ \A p : Feeding(p)' = Feeding(p) /\ Fed(p)' = Fed(p)
      /\ \A i : Class(i)' = Class(i) /\ SetCall(i)' = SetCall(i)
      /\ \A p : Desc(p)' = Desc(p)
  BY DEF Insts, Inputs, Outputs, Feeding, Fed, Class, SetCall, Desc
<1>2. Ports' = Ports /\ \A p : Declared(p)' = Declared(p)
  BY <1>1 DEF Ports, Declared
<1>3. Asking' = Asking
  BY <1>1 DEF Asking
<1>4. \A p : Create(p)' = Create(p)
  BY <1>1 DEF Create
<1>5. Others' = Others
  BY <1>1, <1>2, <1>3, <1>4 DEF Others, Wires
<1>6. Legal' = Legal
  BY <1>1, <1>5 DEF Legal, CreateCall
<1> QED BY <1>1, <1>2, <1>3, <1>5, <1>6

LEMMA NoInstance == ToSet(<<>>) = {} /\ DOMAIN <<>> = {} /\ Len(<<>>) = 0 /\ \A X : <<>> \in Seq(X)
BY DEF ToSet

LEMMA IInvInit == Init => IInv
<1> SUFFICES ASSUME Init PROVE IInv
  OBVIOUS
<1>1. ProgramInv /\ process = 1 /\ pc = "start" /\ instances = <<>>
  BY DEF Init, ProgramInv
<1>2. FileOK(file)
  <2>1. FileOK(NoFile)
    BY NoInstance DEF FileOK, NoFile
  <2>2. file \in Files \/ file = NoFile
    BY DEF Init
  <2> QED BY <2>1, <2>2, SetupAssumption
<1>3. ControlInv
  BY <1>1, <1>2 DEF ControlInv
<1>4. InstancesInv
  BY <1>1, NoInstance DEF InstancesInv, Init
<1>5. PortsInv
  <2>1. Made = {}
    BY <1>1, NoInstance DEF Made
  <2> QED BY <2>1, NoInstance DEF PortsInv, Init
<1>6. CallsInv /\ CapacityInv /\ NamesInv /\ PlaceInv /\ CheckedInv
  BY <1>1 DEF CallsInv, CapacityInv, NamesInv, PlaceInv, CheckedInv
<1>7. RunInv
  <2>1. DOMAIN reader = {} /\ Len(actors) = 0
    BY NoInstance DEF Init
  <2>2. 0 <= CpuSetSize
    BY SetupAssumption
  <2> QED BY <1>1, <2>1, <2>2 DEF RunInv, WiredAsDeclared, CapacityRight, PlacedAsAsked
<1> QED BY <1>3, <1>4, <1>5, <1>6, <1>7 DEF IInv

-----------------------------------------------------------------------------
(* The calls of main keep it.                                              *)

\* What a call leaves alone, and which call it is.
LEMMA CallFrame ==
  ASSUME IInv, NEW op, Call(op)
  PROVE  /\ program' = program /\ pc = "main" /\ pc' = "main"
         /\ ControlInv' /\ NamesInv' /\ PlaceInv' /\ CheckedInv' /\ RunInv'
         /\ Script(calls) /\ calls # <<>> /\ calls' = Tail(calls) /\ Script(calls)'
         /\ Head(calls) \in Legal /\ Head(calls).op = op
<1>1. /\ program' = program /\ pc = "main" /\ pc' = "main" /\ file' = file /\ process' = process
      /\ reader' = reader /\ actors' = actors /\ calls # <<>> /\ calls' = Tail(calls) /\ Head(calls).op = op
  BY DEF Call, networkVars
<1>2. ControlInv'
  BY <1>1 DEF IInv, ControlInv, ProgramInv
<1>3. NamesInv' /\ PlaceInv' /\ CheckedInv'
  BY <1>1 DEF NamesInv, PlaceInv, CheckedInv
<1>4. RunInv'
  BY <1>1, FixedProgram DEF IInv, RunInv, WiredAsDeclared, CapacityRight, PlacedAsAsked
<1>5. Script(calls)
  BY <1>1 DEF IInv, CallsInv
<1>6. Script(Tail(calls)) /\ Head(calls) \in Legal
  BY <1>1, <1>5, ScriptTail
<1>7. Script(calls)'
  BY <1>1, <1>6, FixedProgram DEF Script, CreateCall
<1> QED BY <1>1, <1>2, <1>3, <1>4, <1>5, <1>6, <1>7

\* An instance is appended that was not there.
LEMMA Appended ==
  ASSUME NEW X, NEW s \in Seq(X), NEW i \in X, i \notin ToSet(s), \A m, n \in 1 .. Len(s) : s[m] = s[n] => m = n
  PROVE  LET t == Append(s, i)
         IN  /\ t \in Seq(X) /\ ToSet(t) = ToSet(s) \union {i}
             /\ \A m, n \in 1 .. Len(t) : t[m] = t[n] => m = n
<1> DEFINE t == Append(s, i)
<1>1. PICK k \in Nat : k = Len(s)
  OBVIOUS
<1>2. /\ t \in Seq(X) /\ Len(t) = k + 1 /\ t[k + 1] = i
      /\ \A n \in 1 .. k : t[n] = s[n] /\ n \in 1 .. k + 1 /\ s[n] \in ToSet(s)
  BY <1>1 DEF ToSet
<1>3. \A n \in 1 .. k + 1 : n \in 1 .. k \/ n = k + 1
  OBVIOUS
<1>4. ToSet(s) = {s[n] : n \in 1 .. k} /\ ToSet(t) = {t[n] : n \in 1 .. k + 1}
  BY <1>1, <1>2 DEF ToSet
<1> HIDE DEF t
<1>7. k + 1 \in 1 .. k + 1
  OBVIOUS
<1>5. ToSet(t) = ToSet(s) \union {i}
  BY <1>2, <1>3, <1>4, <1>7
<1>6. ASSUME NEW m \in 1 .. k + 1, NEW n \in 1 .. k + 1, t[m] = t[n] PROVE m = n
  BY <1>1, <1>2, <1>3, <1>6
<1> QED BY <1>2, <1>5, <1>6 DEF t

LEMMA ListedIn == \A X : \A s \in Seq(X) : \A x \in ToSet(s) : x \in X /\ \E n \in 1 .. Len(s) : s[n] = x
BY DEF ToSet

LEMMA InstanceStep == IInv /\ createActorInstance => IInv'
<1> SUFFICES ASSUME IInv, createActorInstance PROVE IInv'
  OBVIOUS
<1>1. Call("createActorInstance")
  BY DEF createActorInstance
<1>2. /\ program' = program /\ pc = "main" /\ pc' = "main"
      /\ ControlInv' /\ NamesInv' /\ PlaceInv' /\ CheckedInv' /\ RunInv'
      /\ Script(calls) /\ calls # <<>> /\ calls' = Tail(calls) /\ Script(calls)'
      /\ Head(calls) \in Legal /\ Head(calls).op = "createActorInstance"
  BY <1>1, CallFrame
<1>3. PICK i \in Insts : Head(calls) = CreateCall(i) /\ Head(calls).instance = i
  BY <1>2, CallKinds
<1>4. PICK ins, outs : /\ ins = InputsOf(program, i) /\ outs = OutputsOf(program, i)
  OBVIOUS
<1>5. /\ instances' = Append(instances, i)
      /\ \E n \in Fresh : index' = With(index, {i}, n)
      /\ affinity' = With(affinity, {i}, -1)
      /\ created' = With(created, ins \union outs, 0)
      /\ capacity' = With(capacity, ins \union outs, 0)
      /\ numberOfReaders' = With(numberOfReaders, outs, 0)
      /\ output' = With(output, ins, NoPort)
  BY <1>3, <1>4 DEF createActorInstance
<1>6. ProgramInv
  BY DEF IInv, ControlInv
<1>7. /\ ins = {p \in Inputs : p[1] = i} /\ outs = {p \in Outputs : p[1] = i}
      /\ ins \union outs = {p \in Ports : p[1] = i} /\ Inputs \intersect Outputs = {}
      /\ Ports = Inputs \union Outputs
  BY <1>4, <1>6, PortFacts DEF Ports
<1>8. i \notin ToSet(instances)
  BY <1>2, <1>3, ScriptTail DEF IInv, CallsInv
<1>9. /\ instances \in Seq(Insts) /\ \A m, n \in 1 .. Len(instances) : instances[m] = instances[n] => m = n
      /\ DOMAIN index = ToSet(instances) /\ DOMAIN affinity = ToSet(instances)
      /\ \A j \in ToSet(instances) : index[j] \in Int /\ affinity[j] \in -1 .. CpuSetSize - 1
  BY DEF IInv, InstancesInv
<1>10. /\ instances' \in Seq(Insts) /\ ToSet(instances') = ToSet(instances) \union {i}
       /\ \A m, n \in 1 .. Len(instances') : instances'[m] = instances'[n] => m = n
  BY <1>5, <1>8, <1>9, Appended
<1>11. -1 \in -1 .. CpuSetSize - 1 /\ Fresh \subseteq Int
  BY SetupAssumption
<1>12. /\ DOMAIN affinity' = ToSet(instances') /\ affinity'[i] = -1
       /\ \A j \in ToSet(instances) : affinity'[j] = affinity[j]
  BY <1>5, <1>8, <1>9, <1>10 DEF With
<1>13. /\ DOMAIN index' = ToSet(instances') /\ index'[i] \in Int
       /\ \A j \in ToSet(instances) : index'[j] = index[j]
  BY <1>5, <1>8, <1>9, <1>10, <1>11 DEF With
<1>14. InstancesInv'
  BY <1>2, <1>9, <1>10, <1>11, <1>12, <1>13, FixedProgram DEF InstancesInv
<1>15. Made' = Made \union (ins \union outs) /\ Made \intersect (ins \union outs) = {}
  <2>1. Made' = {p \in Ports : p[1] \in ToSet(instances')}
    BY <1>2, FixedProgram DEF Made
  <2> QED BY <1>7, <1>8, <1>10, <2>1 DEF Made
<1>16. /\ DOMAIN created = Made /\ DOMAIN capacity = Made
       /\ DOMAIN numberOfReaders = Made \intersect Outputs /\ DOMAIN output = Made \intersect Inputs
  BY DEF IInv, PortsInv
<1>17. /\ DOMAIN created' = Made' /\ DOMAIN capacity' = Made'
       /\ \A p \in ins \union outs : created'[p] = 0 /\ capacity'[p] = 0
       /\ \A p \in Made : created'[p] = created[p] /\ capacity'[p] = capacity[p]
  BY <1>5, <1>15, <1>16 DEF With
<1>18. /\ DOMAIN numberOfReaders' = Made' \intersect Outputs
       /\ \A p \in outs : numberOfReaders'[p] = 0
       /\ \A p \in Made \intersect Outputs : numberOfReaders'[p] = numberOfReaders[p]
  BY <1>5, <1>7, <1>15, <1>16 DEF With
<1>19. /\ DOMAIN output' = Made' \intersect Inputs
       /\ \A p \in ins : output'[p] = NoPort
       /\ \A p \in Made \intersect Inputs : output'[p] = output[p]
  BY <1>5, <1>7, <1>15, <1>16 DEF With
<1>20. PortsInv'
  <2>1. \A p \in Made' : created'[p] \in Nat /\ capacity'[p] \in Nat
    BY <1>15, <1>17 DEF IInv, PortsInv
  <2>2. \A p \in Made' \intersect Inputs : output'[p] \in {NoPort, Declared(p)}
    BY <1>7, <1>15, <1>19 DEF IInv, PortsInv
  <2>3. ASSUME NEW p \in Made' \intersect Outputs
        PROVE  numberOfReaders'[p] \in Nat /\ (created'[p] > 0 => numberOfReaders'[p] = Cardinality(Fed(p)))
    <3>1. CASE p \in Made
      BY <1>17, <1>18, <3>1 DEF IInv, PortsInv
    <3>2. CASE p \in outs
      BY <1>17, <1>18, <3>2
    <3> QED BY <1>7, <1>15, <3>1, <3>2
  <2> QED BY <1>2, <1>17, <1>18, <1>19, <2>1, <2>2, <2>3, FixedProgram DEF PortsInv
<1>21. CallsInv'
  <2>1. \A j \in Insts : j \in ToSet(instances') <=> ~Creates(calls', j)
    <3> SUFFICES ASSUME NEW j \in Insts PROVE j \in ToSet(instances') <=> ~Creates(calls', j)
      OBVIOUS
    <3>1. CASE j = i
      BY <1>2, <1>3, <1>10, <3>1, ScriptTail
    <3>2. CASE j # i
      <4>1. Head(calls) # CreateCall(j)
        BY <1>3, <3>2, CallKinds
      <4>2. Creates(calls, j) <=> Creates(calls', j)
        BY <1>2, <4>1, ScriptTail
      <4> QED BY <1>2, <1>10, <3>2, <4>2 DEF IInv, CallsInv
    <3> QED BY <3>1, <3>2
  <2>2. ASSUME NEW j \in ToSet(instances')
        PROVE  \/ affinity'[j] = program.affinity[j]
               \/ affinity'[j] = -1 /\ \E y \in 1 .. Len(calls') : calls'[y] = SetCall(j)
    <3>1. CASE j = i
      <4>1. CASE i \in Asking
        <5>1. \E y \in 1 .. Len(Tail(calls)) : Tail(calls)[y] = SetCall(i)
          BY <1>2, <1>3, <4>1, ScriptTail
        <5> QED BY <1>2, <1>12, <3>1, <5>1
      <4>2. CASE i \notin Asking
        BY <1>12, <3>1, <4>2 DEF Asking
      <4> QED BY <4>1, <4>2
    <3>2. CASE j # i
      <4>1. j \in ToSet(instances) /\ j \in Insts /\ affinity'[j] = affinity[j]
        <5>1. j \in ToSet(instances)
          BY <1>10, <3>2
        <5> QED BY <1>9, <1>12, <5>1, ListedIn
      <4>2. \/ affinity[j] = program.affinity[j]
            \/ affinity[j] = -1 /\ \E y \in 1 .. Len(calls) : calls[y] = SetCall(j)
        BY <1>2, <4>1 DEF IInv, CallsInv
      <4>3. CASE j \in Asking
        <5>1. Head(calls) # SetCall(j)
          BY <1>2 DEF SetCall
        <5>2. (\E y \in 1 .. Len(calls) : calls[y] = SetCall(j))
              => \E y \in 1 .. Len(calls') : calls'[y] = SetCall(j)
          BY <1>2, <4>3, <5>1, ScriptTail
        <5> QED BY <4>1, <4>2, <5>2
      <4>4. CASE j \notin Asking
        BY <4>1, <4>2, <4>4 DEF Asking
      <4> QED BY <4>3, <4>4
    <3> QED BY <3>1, <3>2
  <2> QED BY <1>2, <2>1, <2>2, FixedProgram DEF CallsInv, Creates, CreateCall
<1>22. CapacityInv'
  <2>1. ASSUME NEW p \in Made'
        PROVE  IF p \in Inputs THEN created'[p] > 0 => capacity'[p] = program.wires[Feeding(p)].size
                               ELSE capacity'[p] = 0
    <3>1. CASE p \in Made
      BY <1>2, <1>17, <3>1 DEF IInv, CapacityInv
    <3>2. CASE p \in ins \union outs
      BY <1>17, <3>2
    <3> QED BY <1>15, <3>1, <3>2
  <2> QED BY <1>2, <2>1, FixedProgram DEF CapacityInv
<1> QED BY <1>2, <1>14, <1>20, <1>21, <1>22 DEF IInv

\* A call that does not create an instance.
LEMMA OtherCall ==
  ASSUME IInv, NEW op, Call(op), op # "createActorInstance", instances' = instances
  PROVE  /\ Made' = Made
         /\ \A i \in Insts : i \in ToSet(instances) <=> ~Creates(calls', i)
         /\ \A i \in Asking : (\E y \in 1 .. Len(calls) : calls[y] = SetCall(i)) =>
              Head(calls) = SetCall(i) \/ \E y \in 1 .. Len(calls') : calls'[y] = SetCall(i)
         /\ \A i \in ToSet(instances) :
              \/ affinity[i] = program.affinity[i]
              \/ i \in Asking /\ affinity[i] = -1 /\ \E y \in 1 .. Len(calls) : calls[y] = SetCall(i)
<1>1. /\ program' = program /\ pc = "main" /\ Script(calls) /\ calls # <<>> /\ calls' = Tail(calls)
      /\ Head(calls).op = op
  BY CallFrame
<1>2. Made' = Made
  BY <1>1, FixedProgram DEF Made
<1>3. ASSUME NEW i \in Insts PROVE i \in ToSet(instances) <=> ~Creates(calls', i)
  <2>1. Head(calls) # CreateCall(i)
    BY <1>1 DEF CreateCall
  <2>2. Creates(calls, i) <=> Creates(calls', i)
    BY <1>1, <2>1, ScriptTail
  <2> QED BY <1>1, <2>2 DEF IInv, CallsInv
<1>4. \A i \in Asking : (\E y \in 1 .. Len(calls) : calls[y] = SetCall(i)) =>
        Head(calls) = SetCall(i) \/ \E y \in 1 .. Len(calls') : calls'[y] = SetCall(i)
  BY <1>1, ScriptTail
<1>5. ASSUME NEW i \in ToSet(instances)
      PROVE  \/ affinity[i] = program.affinity[i]
             \/ i \in Asking /\ affinity[i] = -1 /\ \E y \in 1 .. Len(calls) : calls[y] = SetCall(i)
  <2>1. i \in Insts
    BY ListedIn DEF IInv, InstancesInv
  <2>2. \/ affinity[i] = program.affinity[i]
        \/ affinity[i] = -1 /\ \E y \in 1 .. Len(calls) : calls[y] = SetCall(i)
    BY <1>1 DEF IInv, CallsInv
  <2> QED BY <2>1, <2>2 DEF Asking
<1> QED BY <1>2, <1>3, <1>4, <1>5

LEMMA ParameterStep == IInv /\ setParameter => IInv'
<1> SUFFICES ASSUME IInv, setParameter PROVE IInv'
  OBVIOUS
<1>1. Call("setParameter") /\ instances' = instances /\ index' = index /\ portVars' = portVars
  BY DEF setParameter
<1>2. /\ program' = program /\ pc = "main" /\ pc' = "main"
      /\ ControlInv' /\ NamesInv' /\ PlaceInv' /\ CheckedInv' /\ RunInv'
      /\ Script(calls)' /\ Head(calls) \in Legal /\ Head(calls).op = "setParameter"
  BY <1>1, CallFrame
<1>3. PICK i \in Insts : Head(calls) = SetCall(i) /\ Head(calls).instance = i /\ Head(calls).value = program.affinity[i]
  BY <1>2, CallKinds
<1>4. affinity' = [affinity EXCEPT ![i] = program.affinity[i]]
  BY <1>3 DEF setParameter
<1>5. /\ Made' = Made
      /\ \A j \in Insts : j \in ToSet(instances) <=> ~Creates(calls', j)
      /\ \A j \in Asking : (\E y \in 1 .. Len(calls) : calls[y] = SetCall(j)) =>
              Head(calls) = SetCall(j) \/ \E y \in 1 .. Len(calls') : calls'[y] = SetCall(j)
      /\ \A j \in ToSet(instances) :
              \/ affinity[j] = program.affinity[j]
              \/ j \in Asking /\ affinity[j] = -1 /\ \E y \in 1 .. Len(calls) : calls[y] = SetCall(j)
  BY <1>1, OtherCall
<1>6. program.affinity \in [Insts -> -1 .. CpuSetSize - 1]
  BY ProgramIs DEF IInv, ControlInv
<1>7. InstancesInv'
  <2>1. DOMAIN affinity' = ToSet(instances)
    BY <1>4 DEF IInv, InstancesInv
  <2>2. \A j \in ToSet(instances) : affinity'[j] \in -1 .. CpuSetSize - 1
    BY <1>4, <1>6 DEF IInv, InstancesInv
  <2> QED BY <1>1, <1>2, <2>1, <2>2, FixedProgram DEF IInv, InstancesInv
<1>8. PortsInv' /\ CapacityInv'
  <2>1. created' = created /\ capacity' = capacity /\ numberOfReaders' = numberOfReaders /\ output' = output
    BY <1>1 DEF portVars
  <2> QED BY <1>2, <1>5, <2>1, FixedProgram DEF IInv, PortsInv, CapacityInv
<1>9. CallsInv'
  <2>1. ASSUME NEW j \in ToSet(instances)
        PROVE  \/ affinity'[j] = program.affinity[j]
               \/ affinity'[j] = -1 /\ \E y \in 1 .. Len(calls') : calls'[y] = SetCall(j)
    <3>1. CASE j = i
      BY <1>4, <3>1 DEF IInv, InstancesInv
    <3>2. CASE j # i
      <4>1. affinity'[j] = affinity[j]
        BY <1>4, <3>2 DEF IInv, InstancesInv
      <4>2. Head(calls) # SetCall(j)
        BY <1>3, <3>2 DEF SetCall
      <4> QED BY <1>5, <4>1, <4>2
    <3> QED BY <3>1, <3>2
  <2> QED BY <1>1, <1>2, <1>5, <2>1, FixedProgram DEF CallsInv, Creates, CreateCall
<1> QED BY <1>2, <1>7, <1>8, <1>9 DEF IInv

\* The affinities and instances are as they were.
LEMMA PortCall ==
  ASSUME IInv, NEW op, Call(op), op \in {"createPort", "connectPorts"}, instanceVars' = instanceVars
  PROVE  InstancesInv' /\ CallsInv' /\ Made' = Made
<1>1. instances' = instances /\ index' = index /\ affinity' = affinity /\ op # "createActorInstance"
  BY DEF instanceVars
<1>2. program' = program /\ pc = "main" /\ Script(calls)' /\ Head(calls).op = op
  BY CallFrame
<1>3. /\ Made' = Made
      /\ \A j \in Insts : j \in ToSet(instances) <=> ~Creates(calls', j)
      /\ \A j \in Asking : (\E y \in 1 .. Len(calls) : calls[y] = SetCall(j)) =>
              Head(calls) = SetCall(j) \/ \E y \in 1 .. Len(calls') : calls'[y] = SetCall(j)
      /\ \A j \in ToSet(instances) :
              \/ affinity[j] = program.affinity[j]
              \/ j \in Asking /\ affinity[j] = -1 /\ \E y \in 1 .. Len(calls) : calls[y] = SetCall(j)
  BY <1>1, OtherCall
<1>4. InstancesInv'
  BY <1>1, <1>2, FixedProgram DEF IInv, InstancesInv
<1>5. \A j \in Asking : Head(calls) # SetCall(j)
  BY <1>2 DEF SetCall
<1>6. CallsInv'
  BY <1>1, <1>2, <1>3, <1>5, FixedProgram DEF CallsInv, Creates, CreateCall
<1> QED BY <1>3, <1>4, <1>6

LEMMA InputPortStep == IInv /\ createInputPort => IInv'
<1> SUFFICES ASSUME IInv, createInputPort PROVE IInv'
  OBVIOUS
<1>1. /\ Call("createPort") /\ instanceVars' = instanceVars /\ numberOfReaders' = numberOfReaders /\ output' = output
      /\ Head(calls).port \in Inputs
  BY DEF createInputPort
<1>2. /\ program' = program /\ pc = "main" /\ pc' = "main"
      /\ ControlInv' /\ NamesInv' /\ PlaceInv' /\ CheckedInv' /\ RunInv'
      /\ Head(calls) \in Legal /\ Head(calls).op = "createPort"
  BY <1>1, CallFrame
<1>3. PICK p \in Inputs : p = Head(calls).port /\ Head(calls) = Create(p)
  BY <1>1, <1>2, CallKinds
<1>4. ProgramInv
  BY DEF IInv, ControlInv
<1>5. Head(calls).argument = program.wires[Feeding(p)].size /\ program.wires[Feeding(p)].size \in Nat
  <2>1. p[2] = "in"
    BY <1>4, PortFacts
  <2>2. program.wires[Feeding(p)].size \in Nat
    BY <1>4, WireFacts
  <2> QED BY <1>3, <2>1, <2>2 DEF Create
<1>6. PICK k \in Nat : k = program.wires[Feeding(p)].size
  BY <1>5
<1>7. created' = [created EXCEPT ![p] = @ + 1] /\ capacity' = [capacity EXCEPT ![p] = k]
  BY <1>3, <1>5, <1>6 DEF createInputPort
<1>8. InstancesInv' /\ CallsInv' /\ Made' = Made
  BY <1>1, PortCall
<1>9. /\ DOMAIN created = Made /\ DOMAIN capacity = Made
      /\ \A q \in Made : created[q] \in Nat /\ capacity[q] \in Nat
  BY DEF IInv, PortsInv
<1>10. /\ DOMAIN created' = Made /\ DOMAIN capacity' = Made
       /\ \A q \in Made : created'[q] \in Nat /\ capacity'[q] \in Nat
       /\ \A q \in Made : q # p => created'[q] = created[q] /\ capacity'[q] = capacity[q]
       /\ p \in Made => capacity'[p] = k
  BY <1>7, <1>9
<1>11. PortsInv'
  <2>1. \A q \in Made \intersect Outputs : q # p
    BY <1>4, PortFacts
  <2> QED BY <1>1, <1>2, <1>8, <1>10, <2>1, FixedProgram DEF IInv, PortsInv
<1>12. CapacityInv'
  BY <1>2, <1>6, <1>8, <1>10, FixedProgram DEF IInv, CapacityInv
<1> QED BY <1>2, <1>8, <1>11, <1>12 DEF IInv

LEMMA OutputPortStep == IInv /\ createOutputPort => IInv'
<1> SUFFICES ASSUME IInv, createOutputPort PROVE IInv'
  OBVIOUS
<1>1. /\ Call("createPort") /\ instanceVars' = instanceVars /\ capacity' = capacity /\ output' = output
      /\ Head(calls).port \in Outputs
  BY DEF createOutputPort
<1>2. /\ program' = program /\ pc = "main" /\ pc' = "main"
      /\ ControlInv' /\ NamesInv' /\ PlaceInv' /\ CheckedInv' /\ RunInv'
      /\ Head(calls) \in Legal /\ Head(calls).op = "createPort"
  BY <1>1, CallFrame
<1>3. PICK p \in Outputs : p = Head(calls).port /\ Head(calls) = Create(p)
  BY <1>1, <1>2, CallKinds
<1>4. ProgramInv
  BY DEF IInv, ControlInv
<1>5. Head(calls).argument = Cardinality(Fed(p)) /\ Cardinality(Fed(p)) \in Nat
  BY <1>3, <1>4, PortFacts, WireFacts DEF Create
<1>6. PICK k \in Nat : k = Cardinality(Fed(p))
  BY <1>5
<1>7. created' = [created EXCEPT ![p] = @ + 1] /\ numberOfReaders' = [numberOfReaders EXCEPT ![p] = k]
  BY <1>3, <1>5, <1>6 DEF createOutputPort
<1>8. InstancesInv' /\ CallsInv' /\ Made' = Made
  BY <1>1, PortCall
<1>9. /\ DOMAIN created = Made /\ \A q \in Made : created[q] \in Nat
      /\ DOMAIN numberOfReaders = Made \intersect Outputs
      /\ \A q \in Made \intersect Outputs :
           numberOfReaders[q] \in Nat /\ (created[q] > 0 => numberOfReaders[q] = Cardinality(Fed(q)))
  BY DEF IInv, PortsInv
<1>10. /\ DOMAIN created' = Made /\ \A q \in Made : created'[q] \in Nat /\ (q # p => created'[q] = created[q])
       /\ DOMAIN numberOfReaders' = Made \intersect Outputs
       /\ \A q \in Made \intersect Outputs : numberOfReaders'[q] = IF q = p THEN k ELSE numberOfReaders[q]
  BY <1>7, <1>9
<1>11. PortsInv'
  <2>1. \A q \in Made \intersect Outputs :
           numberOfReaders'[q] \in Nat /\ (created'[q] > 0 => numberOfReaders'[q] = Cardinality(Fed(q)))
    BY <1>6, <1>9, <1>10
  <2> QED BY <1>1, <1>2, <1>8, <1>10, <2>1, FixedProgram DEF IInv, PortsInv
<1>12. CapacityInv'
  <2>1. \A q \in Inputs : q # p
    BY <1>4, PortFacts
  <2> QED BY <1>1, <1>2, <1>8, <1>10, <2>1, FixedProgram DEF IInv, CapacityInv
<1> QED BY <1>2, <1>8, <1>11, <1>12 DEF IInv

LEMMA ConnectStep == IInv /\ connectPorts => IInv'
<1> SUFFICES ASSUME IInv, connectPorts PROVE IInv'
  OBVIOUS
<1>1. /\ Call("connectPorts") /\ instanceVars' = instanceVars /\ capacity' = capacity /\ created' = created
      /\ numberOfReaders' = numberOfReaders
      /\ output' = [output EXCEPT ![Head(calls).to] = Head(calls).from]
  BY DEF connectPorts
<1>2. /\ program' = program /\ pc = "main" /\ pc' = "main"
      /\ ControlInv' /\ NamesInv' /\ PlaceInv' /\ CheckedInv' /\ RunInv'
      /\ Head(calls) \in Legal /\ Head(calls).op = "connectPorts"
  BY <1>1, CallFrame
<1>3. PICK n \in Wires : Head(calls).from = program.wires[n].from /\ Head(calls).to = program.wires[n].to
  BY <1>2, CallKinds
<1>4. ProgramInv
  BY DEF IInv, ControlInv
<1>5. PICK p \in Inputs : p = Head(calls).to /\ Head(calls).from = Declared(p)
  BY <1>3, <1>4, WireFacts DEF Declared
<1>6. output' = [output EXCEPT ![p] = Declared(p)]
  BY <1>1, <1>5
<1>7. InstancesInv' /\ CallsInv' /\ Made' = Made
  BY <1>1, PortCall
<1>8. PortsInv'
  BY <1>1, <1>2, <1>6, <1>7, FixedProgram DEF IInv, PortsInv
<1>9. CapacityInv'
  BY <1>1, <1>2, <1>7, FixedProgram DEF IInv, CapacityInv
<1> QED BY <1>2, <1>7, <1>8, <1>9 DEF IInv

-----------------------------------------------------------------------------
(* So do the steps of executeNetwork.                                      *)

LEMMA NotRunning ==
  ASSUME IInv, networkVars' = networkVars, program' = program, pc' # "run"
  PROVE  RunInv'
<1>1. reader' = reader /\ actors' = actors
  BY DEF networkVars
<1> QED BY <1>1, FixedProgram DEF IInv, RunInv, WiredAsDeclared, CapacityRight, PlacedAsAsked

\* Ports and instances are as they were.
LEMMA SameArrays ==
  ASSUME IInv, program' = program, instanceVars' = instanceVars, portVars' = portVars
  PROVE  InstancesInv' /\ PortsInv' /\ Made' = Made
<1>1. /\ instances' = instances /\ index' = index /\ affinity' = affinity /\ created' = created
      /\ capacity' = capacity /\ numberOfReaders' = numberOfReaders /\ output' = output
  BY DEF instanceVars, portVars
<1>2. Made' = Made
  BY <1>1, FixedProgram DEF Made
<1> QED BY <1>1, <1>2, FixedProgram DEF IInv, InstancesInv, PortsInv

LEMMA StartStep == IInv /\ Start => IInv'
<1> SUFFICES ASSUME IInv, Start PROVE IInv'
  OBVIOUS
<1>1. /\ program' = program /\ pc' = "main" /\ instanceVars' = instanceVars /\ portVars' = portVars
      /\ networkVars' = networkVars /\ file' = file /\ process' = process /\ instances = <<>>
      /\ calls' \in {Calls} \union FaultyCalls
  BY DEF Start, IInv, ControlInv
<1>2. InstancesInv' /\ PortsInv' /\ Made' = Made /\ RunInv'
  BY <1>1, SameArrays, NotRunning
<1>3. ProgramInv /\ ControlInv'
  BY <1>1 DEF IInv, ControlInv, ProgramInv
<1>4. NamesInv' /\ PlaceInv' /\ CheckedInv'
  BY <1>1 DEF NamesInv, PlaceInv, CheckedInv
<1>5. instances' = <<>> /\ ToSet(instances') = {}
  BY <1>1, NoInstance DEF instanceVars
<1>6. CallsInv'
  <2>1. Script(calls') /\ \A i \in Insts : Creates(calls', i)
    BY <1>1, <1>3, StartCalls
  <2> QED BY <1>1, <1>5, <2>1, FixedProgram DEF CallsInv, Script, Creates, CreateCall
<1>7. CapacityInv'
  <2>1. Made' = {}
    BY <1>5 DEF Made
  <2> QED BY <1>1, <2>1 DEF CapacityInv
<1> QED BY <1>2, <1>3, <1>4, <1>6, <1>7 DEF IInv

LEMMA OptionsStep == IInv /\ ParseOptions => IInv'
<1> SUFFICES ASSUME IInv, ParseOptions PROVE IInv'
  OBVIOUS
<1>1. /\ program' = program /\ instanceVars' = instanceVars /\ portVars' = portVars
      /\ networkVars' = networkVars /\ file' = file /\ process' = process
      /\ pc = "main" /\ calls = <<>> /\ pc' \in {"exit", "index"}
  BY DEF ParseOptions
<1>2. InstancesInv' /\ PortsInv' /\ Made' = Made /\ RunInv'
  BY <1>1, SameArrays, NotRunning
<1>3. ToSet(instances) = Insts /\ \A i \in Insts : affinity[i] = program.affinity[i]
  <2>1. \A i \in Insts : ~Creates(calls, i) /\ ~\E y \in 1 .. Len(calls) : calls[y] = SetCall(i)
    BY <1>1, NoInstance DEF Creates
  <2>2. Insts \subseteq ToSet(instances)
    BY <1>1, <2>1 DEF IInv, CallsInv
  <2>3. ToSet(instances) \subseteq Insts
    BY ListedIn DEF IInv, InstancesInv
  <2> QED BY <1>1, <2>1, <2>2, <2>3 DEF IInv, CallsInv
<1>4. ControlInv'
  BY <1>1, <1>3, FixedProgram DEF IInv, ControlInv, ProgramInv, instanceVars
<1>5. CallsInv' /\ NamesInv' /\ CheckedInv'
  BY <1>1 DEF CallsInv, NamesInv, CheckedInv
<1>6. PlaceInv'
  BY <1>1, <1>3, FixedProgram DEF PlaceInv, instanceVars
<1>7. CapacityInv'
  BY <1>1, <1>2, FixedProgram DEF IInv, CapacityInv, portVars
<1> QED BY <1>2, <1>4, <1>5, <1>6, <1>7 DEF IInv

\* Two of a class are not numbered alike.
LEMMA NumberedApart ==
  ASSUME ProgramInv, NEW i \in Insts, NEW j \in Insts, i < j, program.classes[i] = program.classes[j]
  PROVE  /\ Min(SameClass(i) \union {i}) = Min(SameClass(j) \union {j})
         /\ Cardinality(SameClass(i)) \in Int /\ Cardinality(SameClass(j)) \in Int
         /\ Cardinality(SameClass(i)) < Cardinality(SameClass(j))
<1> DEFINE S == SameClass(i) \union {i}
           T == SameClass(j) \union {j}
<1>1. PICK k \in Nat : Insts = 1 .. k
  BY ProgramIs DEF Insts
<1>2. IsFiniteSet(Insts) /\ Insts \subseteq Nat
  BY <1>1, PrefixCount
<1>3. S \subseteq SameClass(j) /\ i \notin SameClass(i) /\ SameClass(j) \subseteq Insts
  BY <1>1 DEF SameClass
<1>4. \A x \in T : x <= i => x \in S
  BY <1>1 DEF SameClass
<1>5. PICK m : m = Min(S)
  OBVIOUS
<1>6. PICK n : n = Min(T)
  OBVIOUS
<1>7. m \in S /\ \A x \in S : m <= x
  BY <1>2, <1>3, <1>5, MinFacts
<1>8. n \in T /\ \A x \in T : n <= x
  BY <1>2, <1>3, <1>6, MinFacts
<1>9. n <= i /\ n \in S /\ n <= m /\ m <= n /\ m \in Nat /\ n \in Nat
  BY <1>2, <1>3, <1>4, <1>7, <1>8
<1>10. m = n
  BY <1>9
<1>11. IsFiniteSet(SameClass(i)) /\ IsFiniteSet(SameClass(j)) /\ IsFiniteSet(S)
  BY <1>2, <1>3, FS_Subset
<1>12. Cardinality(S) = Cardinality(SameClass(i)) + 1
  BY <1>3, <1>11, FS_AddElement
<1>13. Cardinality(S) <= Cardinality(SameClass(j))
  BY <1>3, <1>11, FS_Subset
<1>14. Cardinality(SameClass(i)) \in Int /\ Cardinality(SameClass(j)) \in Int /\ Cardinality(S) \in Int
  BY <1>11, FS_CardinalityType
<1> QED BY <1>5, <1>6, <1>10, <1>12, <1>13, <1>14

LEMMA IndexStep == IInv /\ index_nodes => IInv'
<1> SUFFICES ASSUME IInv, index_nodes PROVE IInv'
  OBVIOUS
<1>1. /\ program' = program /\ instances' = instances /\ affinity' = affinity /\ portVars' = portVars
      /\ networkVars' = networkVars /\ file' = file /\ process' = process
      /\ pc = "index" /\ pc' = "config"
      /\ index' = [i \in Insts |-> index[Min(SameClass(i) \union {i})] + Cardinality(SameClass(i))]
  BY DEF index_nodes
<1>2. ProgramInv /\ ToSet(instances) = Insts
  BY <1>1 DEF IInv, ControlInv
<1>3. RunInv'
  BY <1>1, NotRunning
<1>4. ControlInv' /\ CallsInv' /\ CheckedInv'
  BY <1>1, FixedProgram DEF IInv, ControlInv, ProgramInv, CallsInv, CheckedInv
<1>5. Made' = Made
  BY <1>1, FixedProgram DEF Made
<1>6. PortsInv' /\ CapacityInv'
  BY <1>1, <1>5, FixedProgram DEF IInv, PortsInv, CapacityInv, portVars
<1>7. PlaceInv'
  BY <1>1, FixedProgram DEF IInv, PlaceInv
<1>8. ASSUME NEW i \in Insts
      PROVE  index[Min(SameClass(i) \union {i})] \in Int /\ Cardinality(SameClass(i)) \in Int
  <2>1. PICK k \in Nat : Insts = 1 .. k
    BY <1>2, ProgramIs DEF Insts
  <2>2. SameClass(i) \union {i} \subseteq Insts /\ Insts \subseteq Nat /\ IsFiniteSet(Insts)
    BY <2>1, PrefixCount DEF SameClass
  <2>3. Min(SameClass(i) \union {i}) \in Insts
    BY <2>2, MinFacts
  <2>4. Cardinality(SameClass(i)) \in Int
    BY <2>2, FS_Subset, FS_CardinalityType
  <2> QED BY <1>2, <2>3, <2>4 DEF IInv, InstancesInv
<1>9. InstancesInv'
  <2>1. DOMAIN index' = ToSet(instances) /\ \A i \in Insts : index'[i] \in Int
    BY <1>1, <1>2, <1>8
  <2> QED BY <1>1, <1>2, <2>1, FixedProgram DEF IInv, InstancesInv
<1>10. NamesInv'
  <2>1. ASSUME NEW i \in Insts, NEW j \in Insts, i < j, program.classes[i] = program.classes[j]
        PROVE  index'[i] # index'[j]
    <3>1. /\ Min(SameClass(i) \union {i}) = Min(SameClass(j) \union {j})
          /\ Cardinality(SameClass(i)) < Cardinality(SameClass(j))
      BY <1>2, <2>1, NumberedApart
    <3> QED BY <1>1, <1>8, <3>1
  <2>2. ASSUME NEW i \in Insts, NEW j \in Insts, <<program.classes[i], index'[i]>> = <<program.classes[j], index'[j]>>
        PROVE  i = j
    <3>1. program.classes[i] = program.classes[j] /\ index'[i] = index'[j]
      BY <2>2
    <3>2. i \in Int /\ j \in Int
      BY DEF Insts
    <3>3. ~(i < j) /\ ~(j < i)
      BY <2>1, <3>1
    <3> QED BY <3>2, <3>3
  <2> QED BY <1>1, <2>2, FixedProgram DEF NamesInv, Name
<1> QED BY <1>3, <1>4, <1>6, <1>7, <1>9, <1>10 DEF IInv

LEMMA CheckStep == IInv /\ check_network => IInv'
<1> SUFFICES ASSUME IInv, check_network PROVE IInv'
  OBVIOUS
<1>1. /\ program' = program /\ instances' = instances /\ index' = index /\ portVars' = portVars
      /\ networkVars' = networkVars /\ file' = file /\ process' = process
      /\ pc = "check" /\ pc' \in {"allocate", "exit"}
      /\ affinity' = [i \in Insts |-> IF Forced THEN 0 ELSE affinity[i]]
      /\ pc' = "allocate" => \A p \in Ports : WellFormed(p)
  BY DEF check_network, Ports
<1>2. ProgramInv /\ ToSet(instances) = Insts
  BY <1>1 DEF IInv, ControlInv
<1>3. RunInv'
  BY <1>1, NotRunning
<1>4. ControlInv' /\ CallsInv'
  BY <1>1, FixedProgram DEF IInv, ControlInv, ProgramInv, CallsInv
<1>5. Made' = Made
  BY <1>1, FixedProgram DEF Made
<1>6. \A i : Name(i)' = Name(i)
  BY <1>1 DEF Name
<1>7. PortsInv' /\ NamesInv'
  BY <1>1, <1>5, <1>6, FixedProgram DEF IInv, PortsInv, NamesInv, portVars
<1>8. \A p : Asked(p)' = Asked(p)
  BY <1>1, <1>6, FixedProgram DEF Asked, Sizes
<1>9. CapacityInv'
  BY <1>1, <1>8, FixedProgram DEF IInv, CapacityInv, portVars
<1>10. \A i \in Insts : affinity[i] \in -1 .. CpuSetSize - 1 /\ affinity[i] = AskedCpu(i)
  BY <1>1, <1>2 DEF IInv, InstancesInv, PlaceInv
<1>11. Forced <=> Unasked
  BY <1>10 DEF Forced, Unasked
<1>12. Unasked' = Unasked /\ \A i : AskedCpu(i)' = AskedCpu(i)
  <2>1. \A i : AskedCpu(i)' = AskedCpu(i)
    BY <1>1, <1>6 DEF AskedCpu
  <2> QED BY <1>1, <2>1, FixedProgram DEF Unasked
<1>13. PlaceInv'
  BY <1>1, <1>10, <1>11, <1>12, FixedProgram DEF PlaceInv
<1>14. CheckedInv'
  <2>1. \A p : WellFormed(p)' = WellFormed(p)
    BY <1>1, FixedProgram DEF WellFormed, portVars
  <2>2. \A i \in Insts : affinity'[i] # -1
    BY <1>1, <1>10 DEF Forced
  <2> QED BY <1>1, <2>1, <2>2, FixedProgram DEF CheckedInv
<1>15. InstancesInv'
  <2>1. DOMAIN affinity' = Insts /\ 0 \in -1 .. CpuSetSize - 1
    BY <1>1, SetupAssumption
  <2>2. \A i \in Insts : affinity'[i] \in -1 .. CpuSetSize - 1
    BY <1>1, <1>10, <2>1
  <2> QED BY <1>1, <1>2, <2>1, <2>2, FixedProgram DEF IInv, InstancesInv
<1> QED BY <1>3, <1>4, <1>7, <1>9, <1>13, <1>14, <1>15 DEF IInv

-----------------------------------------------------------------------------
(* The configuration file.                                                 *)

LEMMA Cut ==
  ASSUME NEW X, NEW s \in Seq(X), NEW m \in Nat
  PROVE  LET t == SubSeq(s, 1, Min({m, Len(s)}))
         IN  /\ t \in Seq(X) /\ Len(t) \in Nat /\ DOMAIN t = 1 .. Len(t) /\ Len(t) <= Len(s) /\ Len(t) <= m
             /\ Len(t) = m \/ Len(t) = Len(s)
             /\ \A x \in 1 .. Len(t) : t[x] = s[x]
<1>1. PICK l \in Nat : l = Len(s)
  OBVIOUS
<1>2. PICK k : k = Min({m, l})
  OBVIOUS
<1>3. k \in {m, l} /\ k <= m /\ k <= l /\ k \in Nat
  <2>1. m \in Int /\ l \in Int
    OBVIOUS
  <2>2. Min({m, l}) \in {m, l} /\ Min({m, l}) <= m /\ Min({m, l}) <= l
    BY <2>1, MinOfTwo
  <2> QED BY <1>2, <2>2
<1>4. PICK t : t = SubSeq(s, 1, k)
  OBVIOUS
<1>5. \A i \in 1 .. k : s[i] \in X
  BY <1>1, <1>3
<1>6. /\ t \in Seq(X) /\ Len(t) = IF 1 <= k THEN k - 1 + 1 ELSE 0
      /\ \A i \in 1 .. k - 1 + 1 : t[i] = s[1 + i - 1]
  <2>1. k \in Int /\ 1 \in Int
    BY <1>3
  <2> QED BY <1>4, <1>5, <2>1, SubSeqProperties
<1>7. t \in Seq(X) /\ Len(t) = k /\ \A i \in 1 .. k : t[i] = s[i]
  BY <1>3, <1>6
<1>8. DOMAIN t = 1 .. Len(t)
  BY <1>7, LenProperties
<1>9. t = SubSeq(s, 1, Min({m, Len(s)}))
  BY <1>1, <1>2, <1>4
<1>10. /\ t \in Seq(X) /\ Len(t) \in Nat /\ DOMAIN t = 1 .. Len(t) /\ Len(t) <= Len(s) /\ Len(t) <= m
       /\ Len(t) = m \/ Len(t) = Len(s)
       /\ \A x \in 1 .. Len(t) : t[x] = s[x]
  BY <1>1, <1>3, <1>7, <1>8
<1> QED BY <1>9, <1>10

IsPartition(n) == file.elements[n].tag = "Partition"

\* Entry number x is name number at[x] of element number of[x].
Lists(k, of, at) ==
  /\ DOMAIN Entries = 1 .. k /\ Len(Entries) = k
  /\ \A x \in 1 .. k :
       /\ of[x] \in 1 .. Len(file.elements) /\ IsPartition(of[x]) /\ at[x] \in 1 .. Len(file.elements[of[x]].names)
       /\ Entries[x].name = file.elements[of[x]].names[at[x]] /\ Entries[x].part = file.elements[of[x]]
  /\ \A n \in 1 .. Len(file.elements) : IsPartition(n) => \A j \in 1 .. Len(file.elements[n].names) :
       \/ \E x \in 1 .. k : of[x] = n /\ at[x] = j
       \/ \A x \in 1 .. k : of[x] <= n
  /\ \A x, y \in 1 .. k : x < y => of[x] <= of[y]

LEMMA FileFacts ==
  ASSUME FileOK(file)
  PROVE  /\ file.elements \in Seq(ToSet(file.elements)) /\ Len(file.elements) \in Nat
         /\ DOMAIN file.elements = 1 .. Len(file.elements)
         /\ \A n \in 1 .. Len(file.elements) :
              /\ file.elements[n] \in ToSet(file.elements)
              /\ IsPartition(n) => /\ file.elements[n].names \in Seq(ToSet(file.elements[n].names))
                                   /\ Len(file.elements[n].names) \in Nat
                                   /\ DOMAIN file.elements[n].names = 1 .. Len(file.elements[n].names)
                                   /\ "id" \in DOMAIN file.elements[n] => file.elements[n].id \in -1 .. CpuSetSize - 1
              /\ file.elements[n].tag = "Connection" /\ Complete(file.elements[n]) => file.elements[n].size \in Nat
<1>1. PICK T : T = ToSet(file.elements)
  OBVIOUS
<1>2. /\ file.elements \in Seq(T)
      /\ \A e \in T : /\ e.tag = "Partition" =>
                           e.names \in Seq(ToSet(e.names)) /\ ("id" \in DOMAIN e => e.id \in -1 .. CpuSetSize - 1)
                      /\ e.tag = "Connection" /\ Complete(e) => e.size \in Nat
  BY <1>1 DEF FileOK
<1>3. Len(file.elements) \in Nat /\ DOMAIN file.elements = 1 .. Len(file.elements)
  BY <1>2
<1>4. \A n \in 1 .. Len(file.elements) : file.elements[n] \in T
  BY <1>2, <1>3, ElementOfSeq
<1>5. ASSUME NEW n \in 1 .. Len(file.elements), IsPartition(n)
      PROVE  /\ file.elements[n].names \in Seq(ToSet(file.elements[n].names))
             /\ Len(file.elements[n].names) \in Nat
             /\ DOMAIN file.elements[n].names = 1 .. Len(file.elements[n].names)
             /\ "id" \in DOMAIN file.elements[n] => file.elements[n].id \in -1 .. CpuSetSize - 1
  <2>1. /\ file.elements[n].names \in Seq(ToSet(file.elements[n].names))
        /\ "id" \in DOMAIN file.elements[n] => file.elements[n].id \in -1 .. CpuSetSize - 1
    BY <1>2, <1>4, <1>5 DEF IsPartition
  <2>2. PICK q, Q : q = file.elements[n].names /\ Q = ToSet(file.elements[n].names)
    OBVIOUS
  <2>3. q \in Seq(Q)
    BY <2>1, <2>2
  <2> QED BY <2>1, <2>2, <2>3, LenProperties
<1>6. \A n \in 1 .. Len(file.elements) :
         file.elements[n].tag = "Connection" /\ Complete(file.elements[n]) => file.elements[n].size \in Nat
  BY <1>2, <1>4
<1> QED BY <1>1, <1>2, <1>3, <1>4, <1>5, <1>6

LEMMA EntriesFacts ==
  ASSUME FileOK(file)
  PROVE  \E k \in Nat : \E of, at : Lists(k, of, at)
<1> DEFINE N == Len(file.elements)
           ss == [n \in 1 .. N |-> LET part == file.elements[n]
                                   IN  IF part.tag # "Partition" THEN <<>>
                                       ELSE [y \in DOMAIN Listed(part) |-> [name |-> Listed(part)[y], part |-> part]]]
<1>1. /\ N \in Nat /\ DOMAIN file.elements = 1 .. N
      /\ \A n \in 1 .. N : IsPartition(n) => /\ Len(file.elements[n].names) \in Nat
                                             /\ DOMAIN file.elements[n].names = 1 .. Len(file.elements[n].names)
  BY FileFacts
<1>2. ASSUME NEW n \in 1 .. N, IsPartition(n)
      PROVE  ss[n] = [y \in 1 .. Len(file.elements[n].names) |->
                        [name |-> file.elements[n].names[y], part |-> file.elements[n]]]
  BY <1>1, <1>2 DEF IsPartition, Listed
<1>3. ASSUME NEW n \in 1 .. N, ~IsPartition(n) PROVE ss[n] = <<>>
  BY <1>3 DEF IsPartition
<1>4. PICK X : X = UNION {ToSet(ss[n]) : n \in 1 .. N}
  OBVIOUS
<1>5. PICK all : all = FlattenSeq(ss)
  OBVIOUS
<1>6. Entries = SubSeq(all, 1, Min({MaxActors, Len(all)}))
  BY <1>1, <1>5 DEF Entries
<1>7. DOMAIN ss = 1 .. N /\ ss = [n \in 1 .. N |-> ss[n]]
  OBVIOUS
<1> HIDE DEF ss
<1>8. ASSUME NEW n \in 1 .. N
      PROVE  /\ ss[n] \in Seq(X)
             /\ IsPartition(n) => /\ Len(ss[n]) = Len(file.elements[n].names)
                                  /\ \A y \in 1 .. Len(ss[n]) : /\ ss[n][y].name = file.elements[n].names[y]
                                                                /\ ss[n][y].part = file.elements[n]
             /\ ~IsPartition(n) => Len(ss[n]) = 0
  <2>1. CASE IsPartition(n)
    <3>1. PICK q : q = file.elements[n].names
      OBVIOUS
    <3>2. PICK l \in Nat : l = Len(q)
      BY <1>1, <2>1, <3>1
    <3>3. PICK e : e = file.elements[n]
      OBVIOUS
    <3>4. ss[n] = [y \in 1 .. l |-> [name |-> q[y], part |-> e]]
      BY <1>2, <2>1, <3>1, <3>2, <3>3
    <3>5. PICK f : f = ss[n]
      OBVIOUS
    <3>6. ToSet(f) \subseteq X
      BY <1>4, <3>5
    <3>7. f \in Seq(ToSet(f)) /\ Len(f) = l /\ \A y \in 1 .. l : f[y].name = q[y] /\ f[y].part = e
      BY <3>2, <3>4, <3>5 DEF ToSet
    <3>8. f \in Seq(X)
      BY <3>6, <3>7, SeqMonotonic
    <3> QED BY <2>1, <3>1, <3>2, <3>3, <3>5, <3>7, <3>8
  <2>2. CASE ~IsPartition(n)
    BY <1>3, <2>2, NoInstance
  <2> QED BY <2>1, <2>2
<1>9. ss \in [1 .. N -> Seq(X)]
  BY <1>7, <1>8
<1>10. all \in Seq(X) /\ \E of, at : Spread(ss, N, all, of, at)
  BY <1>1, <1>5, <1>9, FlattenFacts
<1>11. PICK of, at : Spread(ss, N, all, of, at)
  BY <1>10
<1>12. PICK es : es = Entries
  OBVIOUS
<1>13. /\ Len(es) \in Nat /\ DOMAIN es = 1 .. Len(es) /\ Len(es) <= Len(all)
       /\ \A x \in 1 .. Len(es) : es[x] = all[x]
  BY <1>6, <1>10, <1>12, SetupAssumption, Cut
<1>14. PICK k \in Nat, l \in Nat : k = Len(es) /\ l = Len(all)
  BY <1>10, <1>13, LenProperties
<1>15. \A x \in 1 .. k : x \in 1 .. l /\ es[x] = all[x]
  BY <1>13, <1>14
<1>16. /\ \A x \in 1 .. l : of[x] \in 1 .. N /\ at[x] \in 1 .. Len(ss[of[x]]) /\ all[x] = ss[of[x]][at[x]]
       /\ \A n \in 1 .. N : \A j \in 1 .. Len(ss[n]) : \E x \in 1 .. l : of[x] = n /\ at[x] = j
       /\ \A x, y \in 1 .. l : x < y => of[x] < of[y] \/ (of[x] = of[y] /\ at[x] < at[y])
  BY SMTT(30), <1>11, <1>14 DEF Spread
<1>17. ASSUME NEW x \in 1 .. l
       PROVE  /\ of[x] \in 1 .. N /\ IsPartition(of[x]) /\ at[x] \in 1 .. Len(file.elements[of[x]].names)
              /\ all[x].name = file.elements[of[x]].names[at[x]] /\ all[x].part = file.elements[of[x]]
  <2>1. of[x] \in 1 .. N /\ at[x] \in 1 .. Len(ss[of[x]]) /\ all[x] = ss[of[x]][at[x]]
    BY <1>16
  <2>2. IsPartition(of[x])
    BY <1>8, <2>1
  <2> QED BY SMTT(30), <1>8, <2>1, <2>2
<1>18. \A x, y \in 1 .. l : x < y => of[x] <= of[y]
  <2> SUFFICES ASSUME NEW x \in 1 .. l, NEW y \in 1 .. l, x < y PROVE of[x] <= of[y]
    OBVIOUS
  <2>1. of[x] \in Int /\ of[y] \in Int
    BY <1>16
  <2>2. of[x] < of[y] \/ of[x] = of[y]
    BY <1>16
  <2> QED BY <2>1, <2>2
<1>19. ASSUME NEW n \in 1 .. N, IsPartition(n), NEW j \in 1 .. Len(file.elements[n].names)
       PROVE  (\E x \in 1 .. k : of[x] = n /\ at[x] = j) \/ \A x \in 1 .. k : of[x] <= n
  <2>1. j \in 1 .. Len(ss[n])
    BY <1>8, <1>19
  <2>2. PICK y \in 1 .. l : of[y] = n /\ at[y] = j
    BY <1>16, <2>1
  <2>3. y \in 1 .. k \/ \A x \in 1 .. k : x < y
    BY <2>2
  <2> QED BY <1>15, <1>18, <2>2, <2>3
<1>20. DOMAIN Entries = 1 .. k /\ Len(Entries) = k /\ \A x \in 1 .. k : Entries[x] = all[x]
  BY <1>12, <1>13, <1>14
<1>21. Lists(k, of, at)
  BY <1>15, <1>17, <1>18, <1>19, <1>20 DEF Lists
<1> QED BY <1>21

Named(i) == {x \in DOMAIN Entries : Entries[x].name = Name(i)}

Free(it, n) ==
  {x \in DOMAIN Entries : Entries[x].name = Name(instances[n]) /\ \A l \in 1 .. n - 1 : it[l] # x}

\* It is the first entry with the name, for no other instance has this name.
LEMMA EntryFacts ==
  ASSUME NEW k \in Nat, DOMAIN Entries = 1 .. k, NEW N \in Nat, Len(instances) = N,
         \A m, n \in 1 .. N : Name(instances[m]) = Name(instances[n]) => m = n
  PROVE  \A n \in 1 .. N : Entry[n] = IF Named(instances[n]) = {} THEN 0 ELSE Min(Named(instances[n]))
<1> DEFINE Body(it, n) == IF Free(it, n) = {} THEN 0 ELSE Min(Free(it, n))
           Right(it) == it = [n \in 1 .. N |-> Body(it, n)]
           target == [n \in 1 .. N |-> IF Named(instances[n]) = {} THEN 0 ELSE Min(Named(instances[n]))]
<1>1. ASSUME NEW S, S \subseteq DOMAIN Entries PROVE (IF S = {} THEN 0 ELSE Min(S)) \in {0} \union S
  <2>1. CASE S = {}
    BY <2>1
  <2>2. CASE S # {}
    <3>1. S \subseteq Nat
      BY <1>1
    <3>2. Min(S) \in S
      BY <2>2, <3>1, MinFacts
    <3> QED BY <2>2, <3>2
  <2> QED BY <2>1, <2>2
<1>2. \A it : \A n : Free(it, n) \subseteq Named(instances[n]) /\ Named(instances[n]) \subseteq DOMAIN Entries
  BY DEF Free, Named
<1>3. \A m, n \in 1 .. N : m # n => Named(instances[m]) \intersect Named(instances[n]) = {}
  BY DEF Named
<1>4. \A n \in 1 .. N : 0 \notin Named(instances[n])
  BY DEF Named
<1>5. ASSUME NEW it, \A l \in 1 .. N : it[l] \in {0} \union Named(instances[l]), NEW n \in 1 .. N
      PROVE  Free(it, n) = Named(instances[n])
  <2>1. \A l \in 1 .. n - 1 : l \in 1 .. N /\ l # n
    OBVIOUS
  <2>2. \A x \in Named(instances[n]) : \A l \in 1 .. n - 1 : it[l] # x
    BY <1>3, <1>4, <1>5, <2>1
  <2> QED BY <2>2 DEF Free, Named
<1>6. \A n \in 1 .. N : target[n] \in {0} \union Named(instances[n])
  BY <1>1, <1>2
<1>7. Right(target)
  <2>1. \A n \in 1 .. N : target[n] = IF Named(instances[n]) = {} THEN 0 ELSE Min(Named(instances[n]))
    OBVIOUS
  <2>2. target = [n \in 1 .. N |-> target[n]]
    OBVIOUS
  <2> HIDE DEF target
  <2>3. \A n \in 1 .. N : Free(target, n) = Named(instances[n])
    BY <1>5, <1>6
  <2>4. \A n \in 1 .. N : target[n] = Body(target, n)
    BY <2>1, <2>3
  <2> QED BY <2>2, <2>4
<1>8. Entry = CHOOSE it : Right(it)
  BY DEF Entry, Free
<1>9. Right(Entry)
  <2> HIDE DEF Right, target
  <2> QED BY <1>7, <1>8
<1>10. ASSUME NEW n \in 1 .. N PROVE Entry[n] = IF Named(instances[n]) = {} THEN 0 ELSE Min(Named(instances[n]))
  <2>1. PICK it : it = Entry
    OBVIOUS
  <2>2. \A l \in 1 .. N : it[l] = Body(it, l)
    BY <1>9, <2>1
  <2>3. \A l \in 1 .. N : it[l] \in {0} \union Named(instances[l])
    <3> SUFFICES ASSUME NEW l \in 1 .. N PROVE it[l] \in {0} \union Named(instances[l])
      OBVIOUS
    <3>1. PICK S : S = Free(it, l)
      OBVIOUS
    <3>2. S \subseteq DOMAIN Entries /\ S \subseteq Named(instances[l])
      BY <1>2, <3>1
    <3>3. it[l] = IF S = {} THEN 0 ELSE Min(S)
      BY <2>2, <3>1
    <3>4. it[l] \in {0} \union S
      BY <1>1, <3>2, <3>3
    <3> QED BY <3>2, <3>4
  <2>4. Free(it, n) = Named(instances[n])
    BY SMTT(30), <1>5, <2>3
  <2> QED BY <2>1, <2>2, <2>4
<1> QED BY <1>10

\* The partition in which it is listed first.
LEMMA FirstListed ==
  ASSUME FileOK(file), NEW k \in Nat, NEW of, NEW at, Lists(k, of, at), NEW i, Named(i) # {}
  PROVE  /\ Min(Named(i)) \in 1 .. k
         /\ Entries[Min(Named(i))].part =
              file.elements[Min({x \in DOMAIN file.elements :
                              /\ file.elements[x].tag = "Partition"
                              /\ Name(i) \in ToSet(file.elements[x].names)})]
<1> DEFINE parts == {x \in DOMAIN file.elements : file.elements[x].tag = "Partition"
                                                  /\ Name(i) \in ToSet(file.elements[x].names)}
<1>1. PICK m : m = Min(Named(i))
  OBVIOUS
<1>2. Named(i) = {x \in 1 .. k : Entries[x].name = Name(i)}
  BY DEF Named, Lists
<1>3. m \in Named(i) /\ \A x \in Named(i) : m <= x
  <2>1. Named(i) \subseteq Nat
    BY <1>2
  <2> QED BY <1>1, <2>1, MinFacts
<1>4. m \in 1 .. k /\ Entries[m].name = Name(i) /\ \A x \in 1 .. k : Entries[x].name = Name(i) => m <= x
  BY <1>2, <1>3
<1>5. /\ DOMAIN file.elements = 1 .. Len(file.elements) /\ Len(file.elements) \in Nat
      /\ \A n \in 1 .. Len(file.elements) :
           IsPartition(n) => DOMAIN file.elements[n].names = 1 .. Len(file.elements[n].names)
  BY FileFacts
<1>6. \A n \in 1 .. Len(file.elements) : n \in parts <=>
        IsPartition(n) /\ \E j \in 1 .. Len(file.elements[n].names) : file.elements[n].names[j] = Name(i)
  BY <1>5 DEF ToSet, IsPartition
<1>7. parts \subseteq 1 .. Len(file.elements)
  BY <1>5
<1> HIDE DEF parts
<1>8. /\ of[m] \in 1 .. Len(file.elements) /\ IsPartition(of[m]) /\ at[m] \in 1 .. Len(file.elements[of[m]].names)
      /\ file.elements[of[m]].names[at[m]] = Name(i) /\ Entries[m].part = file.elements[of[m]]
  BY <1>4 DEF Lists
<1>9. of[m] \in parts
  BY <1>6, <1>8
<1>10. ASSUME NEW n \in parts PROVE of[m] <= n
  <2>1. n \in 1 .. Len(file.elements) /\ IsPartition(n)
    BY <1>6, <1>7
  <2>2. PICK j \in 1 .. Len(file.elements[n].names) : file.elements[n].names[j] = Name(i)
    BY <1>6, <2>1
  <2>3. (\E x \in 1 .. k : of[x] = n /\ at[x] = j) \/ \A x \in 1 .. k : of[x] <= n
    BY <2>1 DEF Lists
  <2>4. CASE \A x \in 1 .. k : of[x] <= n
    BY <1>4, <2>4
  <2>5. CASE \E x \in 1 .. k : of[x] = n /\ at[x] = j
    <3>1. PICK x \in 1 .. k : of[x] = n /\ at[x] = j
      BY <2>5
    <3>2. Entries[x].name = Name(i)
      BY <2>2, <3>1 DEF Lists
    <3>3. m = x \/ m < x
      BY <1>4, <3>2
    <3>4. n <= n
      BY <2>1
    <3> QED BY <1>4, <3>1, <3>3, <3>4 DEF Lists
  <2> QED BY <2>3, <2>4, <2>5
<1>11. PICK o : o = of[m]
  OBVIOUS
<1>12. PICK q : q = Min(parts)
  OBVIOUS
<1>13. q \in parts /\ \A n \in parts : q <= n
  <2>1. parts \subseteq Nat /\ parts # {}
    BY <1>5, <1>7, <1>9
  <2> QED BY <1>12, <2>1, MinFacts
<1>14. o <= q /\ q <= o /\ o \in Int /\ q \in Int
  <2>1. o <= q /\ q <= o
    BY <1>9, <1>10, <1>11, <1>13
  <2>2. PICK l \in Nat : parts \subseteq 1 .. l
    BY <1>5, <1>7
  <2>3. o \in 1 .. l /\ q \in 1 .. l
    BY <1>9, <1>11, <1>13, <2>2
  <2> QED BY <2>1, <2>3
<1>15. o = q
  BY <1>14
<1> QED BY <1>1, <1>4, <1>8, <1>11, <1>12, <1>15 DEF parts

\* The last size given for an input, of those for which there is room.
LEMMA LastSize ==
  ASSUME FileOK(file), NEW p, p[2] = "in"
  PROVE  /\ Sized(p) = IF Sizes(p) = {} THEN capacity[p] ELSE file.elements[Max(Sizes(p))].size
         /\ Sizes(p) # {} => file.elements[Max(Sizes(p))].size \in Nat
<1> DEFINE P == {x \in DOMAIN file.elements : /\ file.elements[x].tag = "Connection"
                                             /\ Complete(file.elements[x])}
           For(e) == e.dst = Name(p[1]) /\ e.port = p[3]
           sizes == {x \in DOMAIN Connects : /\ Connects[x].dst = Name(p[1])
                                             /\ p[2] = "in" /\ Connects[x].port = p[3]}
           Before(n) == {l \in 1 .. n - 1 : /\ file.elements[l].tag = "Connection"
                                            /\ Complete(file.elements[l])}
<1>1. PICK s, X : s = file.elements /\ X = ToSet(file.elements)
  OBVIOUS
<1>2. s \in Seq(X) /\ DOMAIN s = 1 .. Len(s)
  BY <1>1, FileFacts
<1>3. PICK all : all = Picked(s, P)
  OBVIOUS
<1>4. all \in Seq(X) /\ \E h : Picks(s, P, all, h)
  BY <1>2, <1>3, PickedFacts
<1>5. PICK h : Picks(s, P, all, h)
  BY <1>4
<1>6. PICK t : t = Connects
  OBVIOUS
<1>10. PICK M \in Nat : M = MaxConnects
  BY SetupAssumption
<1>7. t = SubSeq(all, 1, Min({M, Len(all)}))
  BY <1>1, <1>3, <1>6, <1>10 DEF Connects
<1>8. /\ Len(t) \in Nat /\ DOMAIN t = 1 .. Len(t) /\ Len(t) <= Len(all) /\ Len(t) <= M
      /\ Len(t) = M \/ Len(t) = Len(all)
      /\ \A x \in 1 .. Len(t) : t[x] = all[x]
  <2> HIDE DEF P
  <2>1. all \in Seq(X)
    BY <1>4
  <2>2. /\ Len(SubSeq(all, 1, Min({M, Len(all)}))) \in Nat
        /\ DOMAIN SubSeq(all, 1, Min({M, Len(all)})) = 1 .. Len(SubSeq(all, 1, Min({M, Len(all)})))
        /\ Len(SubSeq(all, 1, Min({M, Len(all)}))) <= Len(all) /\ Len(SubSeq(all, 1, Min({M, Len(all)}))) <= M
        /\ Len(SubSeq(all, 1, Min({M, Len(all)}))) = M \/ Len(SubSeq(all, 1, Min({M, Len(all)}))) = Len(all)
        /\ \A x \in 1 .. Len(SubSeq(all, 1, Min({M, Len(all)}))) : SubSeq(all, 1, Min({M, Len(all)}))[x] = all[x]
    BY ZenonT(40), <2>1, Cut
  <2> QED BY <1>7, <2>2
<1>9. PICK c \in Nat, l \in Nat, N \in Nat : c = Len(t) /\ l = Len(all) /\ N = Len(s)
  BY <1>2, <1>4, <1>8, LenProperties
<1>11. c <= l /\ c <= M /\ (c = M \/ c = l)
  BY <1>8, <1>9
<1>12. /\ h \in [1 .. l -> 1 .. N] /\ \A x \in 1 .. l : h[x] \in P /\ all[x] = s[h[x]]
       /\ \A n \in 1 .. N : n \in P => \E x \in 1 .. l : h[x] = n
       /\ \A x, y \in 1 .. l : x < y => h[x] < h[y]
  BY <1>5, <1>9 DEF Picks
<1>13. P \subseteq 1 .. N
  BY <1>1, <1>2, <1>9
<1>14. \A x \in 1 .. l : Cardinality(Before(h[x])) = x - 1
  <2> SUFFICES ASSUME NEW x \in 1 .. l PROVE Cardinality(Before(h[x])) = x - 1
    OBVIOUS
  <2>1. Earlier(P, h[x]) = Before(h[x])
    <3>1. \A n \in 1 .. h[x] - 1 : n \in DOMAIN file.elements
      BY <1>1, <1>2, <1>9, <1>12
    <3> QED BY <3>1 DEF Earlier
  <2> HIDE DEF P, Before
  <2>2. x \in 1 .. Len(all)
    BY <1>9
  <2>3. Cardinality(Earlier(P, h[x])) = x - 1
    <3>1. all \in Seq(X) /\ s \in Seq(X)
      BY SMTT(30), <1>2, <1>4
    <3> QED BY ONLY <1>5, <2>2, <3>1, PickRank
  <2> QED BY <2>1, <2>3
<1>15. sizes = {x \in 1 .. c : For(s[h[x]])}
  <2> HIDE DEF P
  <2>1. ASSUME NEW x \in 1 .. c PROVE t[x] = s[h[x]]
    <3>1. x \in 1 .. l /\ x \in 1 .. Len(t)
      BY <1>9, <1>11
    <3> QED BY <1>8, <1>12, <3>1
  <2> QED BY ZenonT(40), <1>6, <1>8, <1>9, <2>1
<1>16. Sizes(p) = {n \in P : Cardinality(Before(n)) < M /\ For(s[n])}
  BY <1>1, <1>10 DEF Sizes
<1> HIDE DEF P, Before, For, sizes
<1>17. \A x \in sizes : h[x] \in Sizes(p) /\ x \in 1 .. l /\ x \in 1 .. c
  <2> SUFFICES ASSUME NEW x \in sizes PROVE h[x] \in Sizes(p) /\ x \in 1 .. l /\ x \in 1 .. c
    OBVIOUS
  <2>1. x \in 1 .. c /\ For(s[h[x]])
    BY <1>15
  <2>2. x \in 1 .. l /\ x - 1 < M
    BY <1>11, <2>1
  <2> QED BY <1>12, <1>14, <1>16, <2>1, <2>2
<1>18. \A n \in Sizes(p) : \E x \in sizes : h[x] = n
  <2> SUFFICES ASSUME NEW n \in Sizes(p) PROVE \E x \in sizes : h[x] = n
    OBVIOUS
  <2>1. n \in P /\ Cardinality(Before(n)) < M /\ For(s[n])
    BY <1>16
  <2>2. PICK x \in 1 .. l : h[x] = n
    BY <1>12, <1>13, <2>1
  <2>3. x - 1 < M
    BY <1>14, <2>1, <2>2
  <2>4. x \in 1 .. c
    BY <1>11, <2>3
  <2> QED BY <1>15, <2>1, <2>2, <2>4
<1>19. Sized(p) = IF sizes = {} THEN capacity[p] ELSE t[Max(sizes)].size
  BY <1>6 DEF Sized, sizes
<1>20. sizes = {} <=> Sizes(p) = {}
  BY <1>17, <1>18
<1>21. ASSUME sizes # {}
       PROVE  t[Max(sizes)] = s[Max(Sizes(p))] /\ Max(Sizes(p)) \in P
  <2>1. PICK m : m = Max(sizes)
    OBVIOUS
  <2>2. sizes \subseteq 1 .. c
    BY <1>17
  <2>3. IsFiniteSet(sizes) /\ sizes \subseteq Int
    <3>1. IsFiniteSet(1 .. c) /\ 1 .. c \subseteq Int
      BY PrefixCount
    <3>2. IsFiniteSet(sizes)
      BY <2>2, <3>1, FS_Subset
    <3> QED BY <2>2, <3>1, <3>2
  <2>4. m \in sizes /\ \A x \in sizes : x <= m
    BY <1>21, <2>1, <2>3, MaxFacts
  <2>5. m \in 1 .. l /\ h[m] \in Sizes(p) /\ m \in 1 .. c
    BY <1>17, <2>4
  <2>6. \A n \in Sizes(p) : n <= h[m]
    <3> SUFFICES ASSUME NEW n \in Sizes(p) PROVE n <= h[m]
      OBVIOUS
    <3>1. PICK x \in sizes : h[x] = n
      BY <1>18
    <3>2. x \in 1 .. l /\ (x < m \/ x = m)
      BY <1>17, <2>4, <2>5
    <3>3. h[x] \in Int /\ h[m] \in Int
      BY <1>12, <2>5, <3>2
    <3>4. h[x] < h[m] \/ h[x] = h[m]
      BY <1>12, <2>5, <3>2
    <3> QED BY <3>1, <3>3, <3>4
  <2>7. Sizes(p) \subseteq Int
    <3>1. Sizes(p) \subseteq P
      BY <1>16
    <3>2. P \subseteq Int
      BY <1>13
    <3> QED BY <3>1, <3>2
  <2>8. PICK q : q = h[m]
    OBVIOUS
  <2>9. Max(Sizes(p)) = q
    BY <2>5, <2>6, <2>7, <2>8, MaxIs
  <2>10. t[m] = s[q] /\ q \in P
    BY <1>8, <1>9, <1>12, <2>5, <2>8
  <2> QED BY <2>1, <2>9, <2>10
<1>22. \A n \in P : s[n].size \in Nat
  BY <1>1, <1>2, FileFacts DEF P
<1> QED BY <1>1, <1>19, <1>20, <1>21, <1>22

LEMMA StoppedStep ==
  ASSUME IInv, program' = program, file' = file, process' = process, pc' \in {"exit", "crash"},
         instanceVars' = instanceVars, portVars' = portVars, networkVars' = networkVars
  PROVE  IInv'
<1>1. InstancesInv' /\ PortsInv' /\ RunInv'
  BY SameArrays, NotRunning
<1>2. ControlInv'
  BY DEF IInv, ControlInv, ProgramInv
<1>3. CallsInv' /\ CapacityInv' /\ NamesInv' /\ PlaceInv' /\ CheckedInv'
  BY DEF CallsInv, CapacityInv, NamesInv, PlaceInv, CheckedInv
<1> QED BY <1>1, <1>2, <1>3 DEF IInv

\* Without a file, the program is asked.
LEMMA NoFileStep ==
  ASSUME IInv, pc = "config", file = NoFile, program' = program, file' = file, process' = process, pc' = "check",
         instanceVars' = instanceVars, portVars' = portVars, networkVars' = networkVars
  PROVE  IInv'
<1>1. InstancesInv' /\ PortsInv' /\ RunInv' /\ Made' = Made
  BY SameArrays, NotRunning
<1>2. /\ instances' = instances /\ index' = index /\ affinity' = affinity /\ created' = created
      /\ capacity' = capacity
  BY DEF instanceVars, portVars
<1>3. ControlInv' /\ CallsInv' /\ CheckedInv'
  BY <1>2, FixedProgram DEF IInv, ControlInv, ProgramInv, CallsInv, CheckedInv
<1>4. \A i : Name(i)' = Name(i)
  BY <1>2 DEF Name
<1>5. NamesInv'
  BY <1>4, FixedProgram DEF IInv, NamesInv
<1>6. PlaceInv'
  <2>1. \A i \in Insts : AskedCpu(i)' = program.affinity[i]
    BY DEF AskedCpu
  <2> QED BY <1>2, <2>1, FixedProgram DEF IInv, PlaceInv
<1>7. CapacityInv'
  <2>1. DOMAIN file'.elements = {}
    BY NoInstance DEF NoFile
  <2>2. \A p : Sizes(p)' = {}
    BY <2>1 DEF Sizes
  <2>3. \A p : Asked(p)' = program.wires[Feeding(p)].size
    BY <2>2, FixedProgram DEF Asked
  <2>4. Ports \subseteq Made
    <3>1. ToSet(instances) = Insts /\ ProgramInv
      BY DEF IInv, ControlInv
    <3> QED BY <3>1, PortFacts DEF Made, Ports
  <2> QED BY <1>2, <2>3, <2>4, FixedProgram DEF IInv, CapacityInv
<1> QED BY <1>1, <1>3, <1>5, <1>6, <1>7 DEF IInv

\* An injection of a prefix into itself takes every value.
LEMMA Permuted ==
  ASSUME NEW n \in Nat, NEW f \in [1 .. n -> 1 .. n], \A x, y \in 1 .. n : f[x] = f[y] => x = y
  PROVE  \A y \in 1 .. n : \E x \in 1 .. n : f[x] = y
<1>1. PICK S : S = 1 .. n
  OBVIOUS
<1>2. IsFiniteSet(S)
  BY <1>1, PrefixCount
<1>3. f \in Injection(S, S)
  BY <1>1 DEF Injection, IsInjective
<1>4. f \in Surjection(S, S)
  BY <1>2, <1>3, FS_Injection
<1> QED BY <1>1, <1>4 DEF Surjection

\* The instances are put in the order of the entries, and get the affinities that
\* are asked for.
Reordered == [x \in DOMAIN instances |-> instances[CHOOSE n \in DOMAIN instances : Entry[n] = x]]
EntryCpu(i) == Entries[Entry[CHOOSE n \in DOMAIN instances : instances[n] = i]].part.id

LEMMA AcceptedFile ==
  ASSUME IInv, pc = "config", file # NoFile, ParserResult = "parsed",
         \A n \in DOMAIN instances : Entry[n] # 0
  PROVE  /\ Reordered \in Seq(Insts) /\ ToSet(Reordered) = Insts
         /\ \A m, n \in 1 .. Len(Reordered) : Reordered[m] = Reordered[n] => m = n
         /\ \A i \in Insts : EntryCpu(i) = AskedCpu(i) /\ EntryCpu(i) \in -1 .. CpuSetSize - 1
<1>0. PICK inst : inst = Reordered
  OBVIOUS
<1>1. /\ ProgramInv /\ FileOK(file) /\ ToSet(instances) = Insts /\ instances \in Seq(Insts)
      /\ \A m, n \in 1 .. Len(instances) : instances[m] = instances[n] => m = n
      /\ \A i, j \in Insts : Name(i) = Name(j) => i = j
  BY DEF IInv, ControlInv, InstancesInv, NamesInv
<1>2. PICK N \in Nat : N = Len(instances) /\ DOMAIN instances = 1 .. N
  BY <1>1, LenProperties
<1>3. /\ \A n \in 1 .. N : instances[n] \in Insts
      /\ \A m, n \in 1 .. N : instances[m] = instances[n] => m = n
      /\ \A i \in Insts : \E n \in 1 .. N : instances[n] = i
  BY <1>1, <1>2, ElementOfSeq, ListedIn
<1>4. PICK k \in Nat : \E of, at : Lists(k, of, at)
  BY <1>1, EntriesFacts
<1>5. PICK of, at : Lists(k, of, at)
  BY <1>4
<1>6. DOMAIN Entries = 1 .. k /\ Len(Entries) = k
  BY <1>5 DEF Lists
<1>7. k = N /\ \A x \in 1 .. N : "id" \in DOMAIN Entries[x].part
  BY <1>2, <1>6 DEF ParserResult
<1>8. \A m, n \in 1 .. N : Name(instances[m]) = Name(instances[n]) => m = n
  BY <1>1, <1>3
<1>9. \A n \in 1 .. N : Entry[n] = IF Named(instances[n]) = {} THEN 0 ELSE Min(Named(instances[n]))
  BY <1>2, <1>6, <1>7, <1>8, EntryFacts
<1>10. \A n \in 1 .. N : Named(instances[n]) # {} /\ Entry[n] = Min(Named(instances[n]))
  BY <1>2, <1>9
<1>11. ASSUME NEW n \in 1 .. N PROVE Entry[n] \in 1 .. N /\ Entries[Entry[n]].name = Name(instances[n])
  <2>1. Named(instances[n]) \subseteq Nat
    BY <1>6 DEF Named
  <2>2. Min(Named(instances[n])) \in Named(instances[n])
    BY <1>10, <2>1, MinFacts
  <2>3. Entry[n] \in Named(instances[n])
    BY <1>10, <2>2
  <2> QED BY <1>6, <1>7, <2>3 DEF Named
<1>12. PICK f : f = [n \in 1 .. N |-> Entry[n]]
  OBVIOUS
<1>13. f \in [1 .. N -> 1 .. N] /\ \A n \in 1 .. N : f[n] = Entry[n]
  BY <1>11, <1>12
<1>14. \A m, n \in 1 .. N : f[m] = f[n] => m = n
  BY <1>8, <1>11, <1>13
<1>15. \A x \in 1 .. N : \E n \in 1 .. N : f[n] = x
  BY <1>13, <1>14, Permuted
<1>17. inst = [x \in 1 .. N |-> instances[CHOOSE n \in 1 .. N : Entry[n] = x]]
  BY <1>0, <1>2 DEF Reordered
<1>16. ASSUME NEW x \in 1 .. N PROVE \E n \in 1 .. N : Entry[n] = x /\ inst[x] = instances[n]
  <2>1. \E n \in 1 .. N : Entry[n] = x
    BY <1>13, <1>15
  <2>2. PICK n : n = CHOOSE m \in 1 .. N : Entry[m] = x
    OBVIOUS
  <2>3. n \in 1 .. N /\ Entry[n] = x
    BY <2>1, <2>2
  <2>4. inst[x] = instances[n]
    BY <1>17, <2>2
  <2> QED BY <2>3, <2>4
<1>18. \A x \in 1 .. N : inst[x] \in Insts
  BY <1>3, <1>16
<1>19. inst \in Seq(Insts) /\ Len(inst) = N /\ DOMAIN inst = 1 .. N
  <2>1. inst \in [1 .. N -> Insts]
    BY <1>17, <1>18
  <2> QED BY <2>1
<1>20. ASSUME NEW x \in 1 .. N, NEW y \in 1 .. N, inst[x] = inst[y] PROVE x = y
  <2>1. PICK m \in 1 .. N : Entry[m] = x /\ inst[x] = instances[m]
    BY ONLY <1>16
  <2>2. PICK n \in 1 .. N : Entry[n] = y /\ inst[y] = instances[n]
    BY ONLY <1>16
  <2>3. m = n
    BY ONLY ZenonT(40), <1>3, <1>20, <2>1, <2>2
  <2> QED BY ONLY <2>1, <2>2, <2>3
<1>21. ASSUME NEW n \in 1 .. N PROVE Entry[n] \in 1 .. N /\ inst[Entry[n]] = instances[n]
  <2>1. PICK x \in 1 .. N : x = Entry[n]
    BY <1>11
  <2>2. PICK m \in 1 .. N : Entry[m] = x /\ inst[x] = instances[m]
    BY ONLY <1>16
  <2>3. m = n
    BY ONLY <1>13, <1>14, <2>1, <2>2
  <2> QED BY ONLY <2>1, <2>2, <2>3
<1>22. ToSet(inst) = Insts
  <2>1. \A i \in Insts : \E x \in 1 .. N : inst[x] = i
    BY ONLY <1>3, <1>21
  <2>2. PICK t : t = inst
    OBVIOUS
  <2>3. ToSet(t) = Insts
    BY ONLY <1>18, <1>19, <2>1, <2>2 DEF ToSet
  <2> QED BY <2>2, <2>3
<1>23. ASSUME NEW i \in Insts
       PROVE  EntryCpu(i) = AskedCpu(i) /\ EntryCpu(i) \in -1 .. CpuSetSize - 1
  <2>1. PICK n : n = CHOOSE m \in DOMAIN instances : instances[m] = i
    OBVIOUS
  <2>2. n \in 1 .. N /\ instances[n] = i
    BY <1>2, <1>3, <2>1
  <2>3. PICK e : e = Entry[n]
    OBVIOUS
  <2>4. e \in 1 .. N /\ e = Min(Named(i)) /\ Named(i) # {}
    BY <1>10, <1>11, <2>2, <2>3
  <2>5. Entries[e].part.id = AskedCpu(i)
    <3>1. Entries[Min(Named(i))].part =
              file.elements[Min({x \in DOMAIN file.elements :
                              /\ file.elements[x].tag = "Partition"
                              /\ Name(i) \in ToSet(file.elements[x].names)})]
      BY <1>1, <1>5, <2>4, FirstListed
    <3> QED BY <2>4, <3>1 DEF AskedCpu
  <2>6. Entries[e].part.id \in -1 .. CpuSetSize - 1
    <3>1. of[e] \in 1 .. Len(file.elements) /\ IsPartition(of[e]) /\ Entries[e].part = file.elements[of[e]]
      BY <1>5, <1>7, <2>4 DEF Lists
    <3>2. "id" \in DOMAIN Entries[e].part
      BY <1>7, <2>4
    <3> QED BY <1>1, <3>1, <3>2, FileFacts
  <2> QED BY <2>1, <2>3, <2>5, <2>6 DEF EntryCpu
<1>24. \A m, n \in 1 .. Len(inst) : inst[m] = inst[n] => m = n
  BY ONLY <1>19, <1>20
<1> QED BY <1>0, <1>19, <1>22, <1>23, <1>24

LEMMA AcceptedStep ==
  ASSUME IInv, set_config, file # NoFile, ParserResult = "parsed", \A n \in DOMAIN instances : Entry[n] # 0
  PROVE  IInv'
<1>1. /\ program' = program /\ index' = index /\ created' = created /\ numberOfReaders' = numberOfReaders
      /\ output' = output /\ networkVars' = networkVars /\ file' = file /\ process' = process
      /\ pc = "config" /\ pc' = "check"
      /\ affinity' = [i \in Insts |-> EntryCpu(i)] /\ instances' = Reordered
      /\ capacity' = [p \in Ports |-> Sized(p)]
  BY DEF set_config, Ports, EntryCpu, Reordered
<1>2. ProgramInv /\ FileOK(file) /\ ToSet(instances) = Insts
  BY <1>1 DEF IInv, ControlInv
<1>3. PICK inst : inst = Reordered
  OBVIOUS
<1>4. /\ inst \in Seq(Insts) /\ ToSet(inst) = Insts
      /\ \A m, n \in 1 .. Len(inst) : inst[m] = inst[n] => m = n
      /\ \A i \in Insts : EntryCpu(i) = AskedCpu(i) /\ EntryCpu(i) \in -1 .. CpuSetSize - 1
  BY <1>1, <1>3, AcceptedFile
<1>5. instances' = inst
  BY <1>1, <1>3
<1>6. \A i \in Insts : affinity'[i] = AskedCpu(i) /\ affinity'[i] \in -1 .. CpuSetSize - 1
  BY <1>1, <1>4
<1>7. RunInv'
  BY <1>1, NotRunning
<1>8. ControlInv' /\ CallsInv' /\ CheckedInv'
  BY <1>1, <1>4, <1>5, FixedProgram DEF IInv, ControlInv, ProgramInv, CallsInv, CheckedInv
<1>9. InstancesInv'
  <2>1. DOMAIN affinity' = Insts /\ DOMAIN index' = Insts /\ \A i \in Insts : index'[i] \in Int
    BY <1>1, <1>2 DEF IInv, InstancesInv
  <2> QED BY <1>1, <1>4, <1>5, <1>6, <2>1, FixedProgram DEF InstancesInv
<1>10. \A i : Name(i)' = Name(i)
  BY <1>1 DEF Name
<1>11. NamesInv' /\ PlaceInv'
  <2>1. \A i : AskedCpu(i)' = AskedCpu(i)
    BY <1>1, <1>10 DEF AskedCpu
  <2> QED BY <1>1, <1>6, <1>10, <2>1, FixedProgram DEF IInv, NamesInv, PlaceInv
<1>12. Made = Ports /\ Made' = Ports
  <2>1. \A p \in Ports : p[1] \in Insts
    BY <1>2, PortFacts DEF Ports
  <2> QED BY <1>1, <1>2, <1>4, <1>5, <2>1, FixedProgram DEF Made
<1>13. \A p : Asked(p)' = Asked(p)
  BY <1>1, <1>10, FixedProgram DEF Asked, Sizes
<1>14. /\ \A p \in Ports : created[p] \in Nat /\ capacity[p] \in Nat
       /\ \A p \in Ports : IF p \in Inputs THEN created[p] > 0 => capacity[p] = program.wires[Feeding(p)].size
                                           ELSE capacity[p] = 0
  BY <1>1, <1>12 DEF IInv, PortsInv, CapacityInv
<1>15. ASSUME NEW p \in Inputs PROVE Sized(p) \in Nat /\ (created[p] > 0 => Sized(p) = Asked(p))
  <2>1. p[2] = "in" /\ p \in Ports
    BY <1>2, PortFacts DEF Ports
  <2>2. /\ Sized(p) = IF Sizes(p) = {} THEN capacity[p] ELSE file.elements[Max(Sizes(p))].size
        /\ Sizes(p) # {} => file.elements[Max(Sizes(p))].size \in Nat
    BY <1>2, <2>1, LastSize
  <2> QED BY <1>14, <2>1, <2>2 DEF Asked
<1>16. ASSUME NEW p \in Outputs PROVE Sized(p) = 0
  <2>1. p[2] # "in" /\ p \in Ports /\ p \notin Inputs
    BY <1>2, PortFacts DEF Ports
  <2>2. Sized(p) = capacity[p]
    BY <2>1 DEF Sized
  <2> QED BY <1>14, <2>1, <2>2
<1>17. \A p \in Ports : capacity'[p] = Sized(p) /\ (p \in Inputs \/ p \in Outputs)
  BY <1>1 DEF Ports
<1>18. PortsInv'
  <2>1. \A p \in Ports : capacity'[p] \in Nat
    BY <1>15, <1>16, <1>17
  <2>2. DOMAIN capacity' = Ports
    BY <1>1
  <2> QED BY <1>1, <1>12, <2>1, <2>2, FixedProgram DEF IInv, PortsInv
<1>19. CapacityInv'
  BY <1>1, <1>13, <1>15, <1>16, <1>17, FixedProgram DEF CapacityInv
<1> QED BY <1>7, <1>8, <1>9, <1>11, <1>18, <1>19 DEF IInv

LEMMA ConfigStep == IInv /\ set_config => IInv'
<1> SUFFICES ASSUME IInv, set_config PROVE IInv'
  OBVIOUS
<1>1. /\ pc = "config" /\ program' = program /\ file' = file /\ process' = process /\ networkVars' = networkVars
      /\ index' = index /\ created' = created /\ numberOfReaders' = numberOfReaders /\ output' = output
  BY DEF set_config
<1>2. CASE file # NoFile /\ ParserResult = "parsed" /\ \A n \in DOMAIN instances : Entry[n] # 0
  BY <1>2, AcceptedStep
<1>3. CASE file = NoFile
  <2>1. pc' = "check" /\ instanceVars' = instanceVars /\ portVars' = portVars
    BY <1>1, <1>3 DEF set_config, instanceVars, portVars
  <2> QED BY <1>1, <1>3, <2>1, NoFileStep
<1>4. CASE file # NoFile /\ (ParserResult # "parsed" \/ \E n \in DOMAIN instances : Entry[n] = 0)
  <2>1. pc' \in {"exit", "crash"} /\ instanceVars' = instanceVars /\ portVars' = portVars
    BY <1>1, <1>4 DEF set_config, instanceVars, portVars
  <2> QED BY <1>1, <2>1, StoppedStep
<1> QED BY <1>2, <1>3, <1>4

-----------------------------------------------------------------------------
(* allocate_network.                                                       *)

\* s has every element of S once.
Enumerates(s, S) ==
  /\ s \in Seq(S)
  /\ \A m, n \in 1 .. Len(s) : s[m] = s[n] => m = n
  /\ \A x \in S : \E n \in 1 .. Len(s) : s[n] = x

LEMMA FlatEnumerates ==
  ASSUME NEW N \in Nat, NEW S, NEW ss \in [1 .. N -> Seq(S)],
         \A m, n \in 1 .. N : \A i \in 1 .. Len(ss[m]) : \A j \in 1 .. Len(ss[n]) :
           ss[m][i] = ss[n][j] => m = n /\ i = j,
         \A p \in S : \E n \in 1 .. N : \E j \in 1 .. Len(ss[n]) : ss[n][j] = p
  PROVE  Enumerates(FlattenSeq(ss), S)
<1>1. PICK s : s = FlattenSeq(ss)
  OBVIOUS
<1>2. s \in Seq(S) /\ \E of, at : Spread(ss, N, s, of, at)
  BY <1>1, FlattenFacts
<1>3. PICK of, at : Spread(ss, N, s, of, at)
  BY <1>2
<1>4. PICK l \in Nat : l = Len(s)
  BY <1>2, LenProperties
<1>5. of \in [1 .. l -> 1 .. N] /\ at \in [1 .. l -> Nat]
  BY <1>3, <1>4 DEF Spread
<1>6. \A x \in 1 .. l : at[x] \in 1 .. Len(ss[of[x]]) /\ s[x] = ss[of[x]][at[x]]
  BY <1>3, <1>4 DEF Spread
<1>7. \A n \in 1 .. N : \A j \in 1 .. Len(ss[n]) : \E x \in 1 .. l : of[x] = n /\ at[x] = j
  BY <1>3, <1>4 DEF Spread
<1>8. \A x, y \in 1 .. l : x < y => of[x] < of[y] \/ (of[x] = of[y] /\ at[x] < at[y])
  BY <1>3, <1>4 DEF Spread
<1>9. ASSUME NEW x \in 1 .. l, NEW y \in 1 .. l, s[x] = s[y] PROVE x = y
  <2>1. of[x] \in 1 .. N /\ of[y] \in 1 .. N
    BY <1>5
  <2>2. ss[of[x]][at[x]] = ss[of[y]][at[y]] /\ at[x] \in 1 .. Len(ss[of[x]]) /\ at[y] \in 1 .. Len(ss[of[y]])
    BY <1>6, <1>9
  <2>3. of[x] = of[y] /\ at[x] = at[y]
    <3>1. PICK m \in 1 .. N, n \in 1 .. N : m = of[x] /\ n = of[y]
      BY <2>1
    <3>2. PICK i, j : i = at[x] /\ j = at[y]
      OBVIOUS
    <3>3. i \in 1 .. Len(ss[m]) /\ j \in 1 .. Len(ss[n]) /\ ss[m][i] = ss[n][j]
      BY <2>2, <3>1, <3>2
    <3>4. m = n /\ i = j
      BY <3>3
    <3> QED BY <3>1, <3>2, <3>4
  <2>4. PICK n \in Int, m \in Int : n = of[x] /\ m = at[x]
    BY <1>5
  <2>5. (x < y => n < n \/ m < m) /\ (y < x => n < n \/ m < m)
    BY <1>8, <2>3, <2>4, Zenon
  <2> QED BY <2>4, <2>5
<1>10. ASSUME NEW p \in S PROVE \E x \in 1 .. l : s[x] = p
  <2>1. PICK n \in 1 .. N : \E j \in 1 .. Len(ss[n]) : ss[n][j] = p
    OBVIOUS
  <2>2. PICK j \in 1 .. Len(ss[n]) : ss[n][j] = p
    BY <2>1
  <2>3. PICK x \in 1 .. l : of[x] = n /\ at[x] = j
    BY <1>7
  <2> QED BY <1>6, <2>2, <2>3
<1>11. Enumerates(s, S)
  BY <1>2, <1>4, <1>9, <1>10 DEF Enumerates
<1> QED BY <1>1, <1>11

LEMMA InOrderFacts ==
  ASSUME ProgramInv, Enumerates(instances, Insts)
  PROVE  Enumerates(InOrder("ins"), Inputs) /\ Enumerates(InOrder("outs"), Outputs)
<1>1. PICK N \in Nat : N = Len(instances) /\ DOMAIN instances = 1 .. N
  BY LenProperties DEF Enumerates
<1>2. PICK q : q = instances
  OBVIOUS
<1>3. /\ \A n \in 1 .. N : q[n] \in Insts
      /\ \A m, n \in 1 .. N : q[m] = q[n] => m = n
      /\ \A i \in Insts : \E n \in 1 .. N : q[n] = i
  BY <1>1, <1>2, ElementOfSeq DEF Enumerates
<1>4. Enumerates(InOrder("ins"), Inputs)
  <2>1. PICK ss : ss = [n \in 1 .. N |-> [j \in 1 .. Len(Class(q[n]).ins) |-> <<q[n], "in", j>>]]
    OBVIOUS
  <2>2. ASSUME NEW n \in 1 .. N
        PROVE  /\ ss[n] \in Seq(Inputs) /\ Len(ss[n]) = Len(Class(q[n]).ins)
               /\ \A j \in 1 .. Len(ss[n]) : ss[n][j] = <<q[n], "in", j>>
    <3>1. PICK k \in Nat : k = Len(Class(q[n]).ins)
      BY <1>3, ClassFacts
    <3>2. PICK i \in Insts : i = q[n]
      BY <1>3
    <3>3. PICK f : f = [j \in 1 .. k |-> <<i, "in", j>>]
      OBVIOUS
    <3>4. ss[n] = f
      BY <2>1, <3>1, <3>2, <3>3
    <3>5. \A j \in 1 .. k : <<i, "in", j>> \in Inputs
      BY <3>1, <3>2, PortFacts
    <3>6. f \in [1 .. k -> Inputs] /\ \A j \in 1 .. k : f[j] = <<i, "in", j>>
      BY <3>3, <3>5
    <3>7. f \in Seq(Inputs) /\ Len(f) = k
      BY <3>3, <3>6
    <3> QED BY <3>1, <3>2, <3>4, <3>6, <3>7
  <2>3. ss \in [1 .. N -> Seq(Inputs)]
    <3>1. ss = [n \in 1 .. N |-> ss[n]]
      BY <2>1
    <3> QED BY <2>2, <3>1
  <2>4. ASSUME NEW m \in 1 .. N, NEW n \in 1 .. N, NEW i \in 1 .. Len(ss[m]), NEW j \in 1 .. Len(ss[n]), ss[m][i] = ss[n][j]
        PROVE  m = n /\ i = j
    <3>1. <<q[m], "in", i>> = <<q[n], "in", j>>
      BY <2>2, <2>4
    <3>2. q[m] = q[n] /\ i = j
      BY <3>1
    <3> QED BY <1>3, <3>2
  <2>5. ASSUME NEW p \in Inputs PROVE \E n \in 1 .. N : \E j \in 1 .. Len(ss[n]) : ss[n][j] = p
    <3>1. p[1] \in Insts /\ p[3] \in 1 .. Len(Class(p[1]).ins) /\ p = <<p[1], "in", p[3]>>
      BY PortFacts
    <3>2. PICK n \in 1 .. N : q[n] = p[1]
      BY <1>3, <3>1
    <3>3. p[3] \in 1 .. Len(ss[n]) /\ ss[n][p[3]] = p
      BY <2>2, <3>1, <3>2
    <3> QED BY <3>3
  <2>6. Enumerates(FlattenSeq(ss), Inputs)
    BY SMTT(30), <2>3, <2>4, <2>5, FlatEnumerates
  <2>7. InOrder("ins") = FlattenSeq(ss)
    BY <1>1, <1>2, <2>1 DEF InOrder
  <2> QED BY <2>6, <2>7
<1>5. Enumerates(InOrder("outs"), Outputs)
  <2>1. PICK ss : ss = [n \in 1 .. N |-> [j \in 1 .. Len(Class(q[n]).outs) |-> <<q[n], "out", j>>]]
    OBVIOUS
  <2>2. ASSUME NEW n \in 1 .. N
        PROVE  /\ ss[n] \in Seq(Outputs) /\ Len(ss[n]) = Len(Class(q[n]).outs)
               /\ \A j \in 1 .. Len(ss[n]) : ss[n][j] = <<q[n], "out", j>>
    <3>1. PICK k \in Nat : k = Len(Class(q[n]).outs)
      BY <1>3, ClassFacts
    <3>2. PICK i \in Insts : i = q[n]
      BY <1>3
    <3>3. PICK f : f = [j \in 1 .. k |-> <<i, "out", j>>]
      OBVIOUS
    <3>4. ss[n] = f
      BY <2>1, <3>1, <3>2, <3>3
    <3>5. \A j \in 1 .. k : <<i, "out", j>> \in Outputs
      BY <3>1, <3>2, PortFacts
    <3>6. f \in [1 .. k -> Outputs] /\ \A j \in 1 .. k : f[j] = <<i, "out", j>>
      BY <3>3, <3>5
    <3>7. f \in Seq(Outputs) /\ Len(f) = k
      BY <3>3, <3>6
    <3> QED BY <3>1, <3>2, <3>4, <3>6, <3>7
  <2>3. ss \in [1 .. N -> Seq(Outputs)]
    <3>1. ss = [n \in 1 .. N |-> ss[n]]
      BY <2>1
    <3> QED BY <2>2, <3>1
  <2>4. ASSUME NEW m \in 1 .. N, NEW n \in 1 .. N, NEW i \in 1 .. Len(ss[m]), NEW j \in 1 .. Len(ss[n]), ss[m][i] = ss[n][j]
        PROVE  m = n /\ i = j
    <3>1. <<q[m], "out", i>> = <<q[n], "out", j>>
      BY <2>2, <2>4
    <3>2. q[m] = q[n] /\ i = j
      BY <3>1
    <3> QED BY <1>3, <3>2
  <2>5. ASSUME NEW p \in Outputs PROVE \E n \in 1 .. N : \E j \in 1 .. Len(ss[n]) : ss[n][j] = p
    <3>1. p[1] \in Insts /\ p[3] \in 1 .. Len(Class(p[1]).outs) /\ p = <<p[1], "out", p[3]>>
      BY PortFacts
    <3>2. PICK n \in 1 .. N : q[n] = p[1]
      BY <1>3, <3>1
    <3>3. p[3] \in 1 .. Len(ss[n]) /\ ss[n][p[3]] = p
      BY <2>2, <3>1, <3>2
    <3> QED BY <3>3
  <2>6. Enumerates(FlattenSeq(ss), Outputs)
    BY <2>3, <2>4, <2>5, FlatEnumerates
  <2>7. InOrder("outs") = FlattenSeq(ss)
    BY <1>1, <1>2, <2>1 DEF InOrder
  <2> QED BY <2>6, <2>7
<1> QED BY <1>4, <1>5

LEMMA PlaceFacts ==
  ASSUME NEW s, NEW S, Enumerates(s, S)
  PROVE  /\ Len(s) \in Nat /\ DOMAIN s = 1 .. Len(s)
         /\ \A n \in 1 .. Len(s) : s[n] \in S /\ Place(s, s[n]) = n
         /\ \A x \in S : Place(s, x) \in 1 .. Len(s) /\ s[Place(s, x)] = x
         /\ IsFiniteSet(S) /\ Cardinality(S) = Len(s)
<1>1. s \in Seq(S) /\ Len(s) \in Nat /\ DOMAIN s = 1 .. Len(s)
  BY SMTT(30), LenProperties DEF Enumerates
<1>2. PICK k \in Nat : k = Len(s)
  BY <1>1
<1>3. /\ \A n \in 1 .. k : s[n] \in S
      /\ \A m, n \in 1 .. k : s[m] = s[n] => m = n
      /\ \A x \in S : \E n \in 1 .. k : s[n] = x
  BY <1>1, <1>2, ElementOfSeq DEF Enumerates
<1>4. \A x : Place(s, x) = CHOOSE n \in 1 .. k : s[n] = x
  BY <1>1, <1>2 DEF Place
<1>5. \A x \in S : Place(s, x) \in 1 .. k /\ s[Place(s, x)] = x
  BY <1>3, <1>4
<1>6. \A n \in 1 .. k : Place(s, s[n]) = n
  <2> SUFFICES ASSUME NEW n \in 1 .. k PROVE Place(s, s[n]) = n
    OBVIOUS
  <2>1. PICK m : m = Place(s, s[n])
    OBVIOUS
  <2>2. m \in 1 .. k /\ s[m] = s[n]
    BY <1>3, <1>5, <2>1
  <2> QED BY <1>3, <2>1, <2>2
<1>7. PICK g : g = [x \in S |-> Place(s, x)]
  OBVIOUS
<1>8. IsFiniteSet(S) /\ Cardinality(S) = k
  <2>1. PICK I : I = 1 .. k
    OBVIOUS
  <2>2. IsFiniteSet(I) /\ Cardinality(I) = k
    BY <2>1, PrefixCount
  <2>3. /\ g \in [S -> I] /\ \A x, y \in S : g[x] = g[y] => x = y
        /\ \A n \in I : \E x \in S : g[x] = n
    BY <1>3, <1>5, <1>6, <1>7, <2>1
  <2>4. IsFiniteSet(S) /\ Cardinality(S) = Cardinality(I)
    BY ONLY <2>2, <2>3, Paired
  <2> QED BY <2>2, <2>4
<1> QED BY <1>1, <1>2, <1>3, <1>5, <1>6, <1>8

Reads(out) == {p \in Inputs : output[p] = out}

LEMMA ReadsFacts ==
  ASSUME ProgramInv, \A p \in Inputs : output[p] = Declared(p), IsFiniteSet(Inputs), NEW out \in Outputs
  PROVE  /\ Reads(out) = {program.wires[n].to : n \in Fed(out)}
         /\ IsFiniteSet(Reads(out)) /\ Cardinality(Reads(out)) = Cardinality(Fed(out))
         /\ Cardinality(Reads(out)) \in Nat \ {0} /\ Reads(out) # {}
<1>1. PICK to : to = [n \in Fed(out) |-> program.wires[n].to]
  OBVIOUS
<1>2. ASSUME NEW n \in Fed(out) PROVE to[n] \in Reads(out) /\ to[n] = program.wires[n].to
  <2>1. n \in Wires /\ program.wires[n].from = out
    BY DEF Fed, Wires
  <2>2. PICK p \in Inputs : p = program.wires[n].to
    BY <2>1, WireFacts
  <2>3. n = Feeding(p)
    BY <2>1, <2>2, WireFacts
  <2>4. output[p] = out
    BY <2>1, <2>3 DEF Declared
  <2> QED BY <1>1, <2>2, <2>4 DEF Reads
<1>3. ASSUME NEW p \in Reads(out) PROVE Feeding(p) \in Fed(out) /\ to[Feeding(p)] = p
  <2>1. p \in Inputs /\ Declared(p) = out
    BY DEF Reads
  <2> QED BY <1>2, <2>1, WireFacts
<1>4. ASSUME NEW m \in Fed(out), NEW n \in Fed(out), to[m] = to[n] PROVE m = n
  <2>1. m \in Wires /\ n \in Wires
    BY DEF Fed, Wires
  <2>2. PICK p \in Inputs : p = program.wires[n].to
    BY <2>1, WireFacts
  <2> QED BY <1>2, <1>4, <2>1, <2>2, WireFacts
<1>5. Reads(out) = {program.wires[n].to : n \in Fed(out)}
  BY <1>2, <1>3
<1>6. IsFiniteSet(Reads(out))
  <2>1. Reads(out) \subseteq Inputs
    BY DEF Reads
  <2> QED BY <2>1, FS_Subset
<1>7. Cardinality(Reads(out)) = Cardinality(Fed(out))
  <2>1. to \in [Fed(out) -> Reads(out)]
    BY <1>1, <1>2
  <2>2. \A p \in Reads(out) : \E n \in Fed(out) : to[n] = p
    BY <1>3
  <2>3. PICK S, T : S = Fed(out) /\ T = Reads(out)
    OBVIOUS
  <2>4. /\ to \in [S -> T] /\ \A m, n \in S : to[m] = to[n] => m = n
        /\ \A p \in T : \E n \in S : to[n] = p
    BY <1>4, <2>1, <2>2, <2>3
  <2>5. IsFiniteSet(T)
    BY <1>6, <2>3
  <2>6. Cardinality(S) = Cardinality(T)
    BY ONLY <2>4, <2>5, Paired
  <2> QED BY <2>3, <2>6
<1>8. Cardinality(Fed(out)) \in Nat \ {0}
  BY WireFacts
<1>9. Reads(out) # {}
  BY <1>7, <1>8, FS_EmptySet
<1> QED BY <1>5, <1>6, <1>7, <1>8, <1>9

\* The inputs that read one of the first n outputs.
Below(outs, n) == {p \in Inputs : Place(outs, output[p]) <= n}

LEMMA BelowFacts ==
  ASSUME NEW outs, Enumerates(outs, Outputs), \A p \in Inputs : output[p] \in Outputs, IsFiniteSet(Inputs),
         NEW n \in Nat
  PROVE  /\ IsFiniteSet(Below(outs, n)) /\ Below(outs, n) \subseteq Inputs
         /\ Cardinality(Below(outs, n)) \in Nat /\ Cardinality(Below(outs, n)) <= Cardinality(Inputs)
         /\ n + 1 <= Len(outs) =>
              Cardinality(Below(outs, n + 1)) = Cardinality(Below(outs, n)) + Cardinality(Reads(outs[n + 1]))
         /\ \A m \in Nat : n <= m => Cardinality(Below(outs, n)) <= Cardinality(Below(outs, m))
         /\ Below(outs, 0) = {}
<1>1. \A p \in Inputs : Place(outs, output[p]) \in 1 .. Len(outs) /\ outs[Place(outs, output[p])] = output[p]
  BY PlaceFacts
<1>2. Len(outs) \in Nat /\ \A m \in 1 .. Len(outs) : Place(outs, outs[m]) = m
  BY PlaceFacts
<1>3. \A m : Below(outs, m) \subseteq Inputs
  BY DEF Below
<1>4. \A m : /\ IsFiniteSet(Below(outs, m)) /\ Cardinality(Below(outs, m)) \in Nat
             /\ Cardinality(Below(outs, m)) <= Cardinality(Inputs)
  BY <1>3, FS_Subset, FS_CardinalityType
<1>5. ASSUME n + 1 <= Len(outs)
      PROVE  Cardinality(Below(outs, n + 1)) = Cardinality(Below(outs, n)) + Cardinality(Reads(outs[n + 1]))
  <2>1. n + 1 \in 1 .. Len(outs)
    BY <1>2, <1>5
  <2>2. \A p \in Inputs : output[p] = outs[n + 1] <=> Place(outs, output[p]) = n + 1
    BY <1>1, <1>2, <2>1
  <2>3. \A p \in Inputs : Place(outs, output[p]) <= n + 1 <=>
                          Place(outs, output[p]) <= n \/ Place(outs, output[p]) = n + 1
    BY <1>1
  <2>4. Below(outs, n + 1) = Below(outs, n) \union Reads(outs[n + 1])
    BY <2>2, <2>3 DEF Below, Reads
  <2>5. Below(outs, n) \intersect Reads(outs[n + 1]) = {}
    <3>1. ~(n + 1 <= n)
      OBVIOUS
    <3> QED BY <2>2, <3>1 DEF Below, Reads
  <2>6. IsFiniteSet(Reads(outs[n + 1]))
    <3>1. Reads(outs[n + 1]) \subseteq Inputs
      BY DEF Reads
    <3> QED BY <3>1, FS_Subset
  <2>7. PICK A, B : A = Below(outs, n) /\ B = Reads(outs[n + 1])
    OBVIOUS
  <2>8. IsFiniteSet(A) /\ IsFiniteSet(B) /\ A \intersect B = {}
    BY <1>4, <2>5, <2>6, <2>7
  <2>9. Cardinality(A \union B) = Cardinality(A) + Cardinality(B) - Cardinality(A \intersect B)
    BY ONLY <2>8, FS_Union
  <2>10. Cardinality({}) = 0
    BY FS_EmptySet
  <2>11. Cardinality(A) \in Int /\ Cardinality(B) \in Int
    BY <2>8, FS_CardinalityType
  <2>12. Cardinality(A \union B) = Cardinality(A) + Cardinality(B)
    <3>1. PICK a \in Int, b \in Int : a = Cardinality(A) /\ b = Cardinality(B)
      BY <2>11
    <3>2. Cardinality(A \intersect B) = 0
      BY <2>8, <2>10
    <3>3. Cardinality(A \union B) = a + b - 0
      BY ONLY <2>9, <3>1, <3>2
    <3>4. a + b - 0 = a + b
      OBVIOUS
    <3> QED BY ONLY <3>1, <3>3, <3>4
  <2> QED BY <2>4, <2>7, <2>12
<1>6. ASSUME NEW m \in Nat, n <= m PROVE Cardinality(Below(outs, n)) <= Cardinality(Below(outs, m))
  <2>1. \A p \in Inputs : Place(outs, output[p]) <= n => Place(outs, output[p]) <= m
    BY <1>1, <1>6
  <2>2. Below(outs, n) \subseteq Below(outs, m)
    BY <2>1 DEF Below
  <2> QED BY <1>4, <2>2, FS_Subset
<1>7. Below(outs, 0) = {}
  BY <1>1 DEF Below
<1> QED BY <1>3, <1>4, <1>5, <1>6, <1>7

LEMMA RoomFacts ==
  ASSUME NEW outs, outs = InOrder("outs"), Enumerates(outs, Outputs), \A p \in Inputs : output[p] \in Outputs,
         IsFiniteSet(Inputs), \A out \in Outputs : numberOfReaders[out] = Cardinality(Reads(out)), NEW out \in Outputs
  PROVE  RoomBefore(out) = Cardinality(Below(outs, Place(outs, out) - 1))
<1>1. /\ Len(outs) \in Nat /\ DOMAIN outs = 1 .. Len(outs) /\ \A n \in 1 .. Len(outs) : outs[n] \in Outputs
      /\ Place(outs, out) \in 1 .. Len(outs)
  BY PlaceFacts
<1>2. PICK M \in Nat : M = Len(outs)
  BY <1>1
<1>3. PICK f : f = [n \in 1 .. M |-> numberOfReaders[outs[n]]]
  OBVIOUS
<1>4. \A n \in 1 .. M : f[n] = Cardinality(Reads(outs[n])) /\ f[n] \in Int
  <2> SUFFICES ASSUME NEW n \in 1 .. M PROVE f[n] = Cardinality(Reads(outs[n])) /\ f[n] \in Int
    OBVIOUS
  <2>1. f[n] = Cardinality(Reads(outs[n]))
    BY <1>1, <1>2, <1>3
  <2>2. Reads(outs[n]) \subseteq Inputs
    BY DEF Reads
  <2>3. Cardinality(Reads(outs[n])) \in Int
    BY <2>2, FS_Subset, FS_CardinalityType
  <2> QED BY <2>1, <2>3
<1> DEFINE Good == {n \in Nat : n <= M => SumOf(f, 1 .. n) = Cardinality(Below(outs, n))}
<1>5. 0 \in Good
  <2>1. 1 .. 0 = {}
    OBVIOUS
  <2>2. SumOf(f, 1 .. 0) = 0
    BY <2>1, SumEmpty
  <2>3. Cardinality(Below(outs, 0)) = 0
    BY BelowFacts, FS_EmptySet
  <2> QED BY <2>2, <2>3
<1>6. ASSUME NEW n \in Good PROVE n + 1 \in Good
  <2>1. n \in Nat /\ n + 1 \in Nat
    OBVIOUS
  <2> SUFFICES ASSUME n + 1 <= M PROVE SumOf(f, 1 .. n + 1) = Cardinality(Below(outs, n + 1))
    BY <2>1
  <2>2. SumOf(f, 1 .. n) = Cardinality(Below(outs, n))
    BY <2>1
  <2>3. n + 1 \in 1 .. n + 1 /\ IsFiniteSet(1 .. n + 1) /\ (1 .. n + 1) \ {n + 1} = 1 .. n
    <3>1. IsFiniteSet(1 .. n + 1)
      BY <2>1, PrefixCount
    <3>2. (1 .. n + 1) \ {n + 1} = 1 .. n
      BY <2>1, PrefixTake
    <3>3. n + 1 \in 1 .. n + 1
      BY <2>1
    <3> QED BY <3>1, <3>2, <3>3
  <2>4. \A x \in 1 .. n + 1 : f[x] \in Int
    BY <1>4, <2>1
  <2>5. PICK S : S = 1 .. n + 1
    OBVIOUS
  <2>6. SumOf(f, S) = f[n + 1] + SumOf(f, S \ {n + 1})
    <3>1. IsFiniteSet(S) /\ \A x \in S : f[x] \in Int
      BY <2>3, <2>4, <2>5
    <3>2. n + 1 \in S
      BY <2>3, <2>5
    <3> HIDE DEF Good
    <3> QED BY ONLY <3>1, <3>2, SumTake
  <2>7. f[n + 1] = Cardinality(Reads(outs[n + 1])) /\ f[n + 1] \in Int
    BY <1>4, <2>1
  <2>8. Cardinality(Below(outs, n + 1)) = Cardinality(Below(outs, n)) + Cardinality(Reads(outs[n + 1]))
    BY <1>2, <2>1, BelowFacts
  <2>9. Cardinality(Below(outs, n)) \in Int
    BY <2>1, BelowFacts
  <2>10. SumOf(f, S) = f[n + 1] + SumOf(f, 1 .. n)
    BY <2>3, <2>5, <2>6
  <2> HIDE DEF Good
  <2> QED BY <2>2, <2>5, <2>7, <2>8, <2>9, <2>10
<1>7. Good = Nat
  <2>1. Good \subseteq Nat
    OBVIOUS
  <2> HIDE DEF Good
  <2> QED BY <1>5, <1>6, <2>1, Induction
<1>8. PICK q \in 1 .. M : q = Place(outs, out)
  BY <1>1, <1>2
<1>9. q - 1 \in Nat /\ q - 1 <= M
  OBVIOUS
<1>10. SumOf(f, 1 .. q - 1) = Cardinality(Below(outs, q - 1))
  BY <1>7, <1>9
<1>11. RoomBefore(out) = SumOf(f, 1 .. q - 1)
  BY <1>1, <1>2, <1>3, <1>8 DEF RoomBefore, SumOf
<1> QED BY <1>8, <1>10, <1>11

\* The readers of an output are stored from where its room begins, without a gap.
LEMMA RankFacts ==
  ASSUME NEW ins, ins = InOrder("ins"), Enumerates(ins, Inputs), NEW start, NEW out, start[out] \in Nat
  PROVE  /\ \A p \in Reads(out) : Slot(p, start) \in start[out] .. start[out] + Cardinality(Reads(out)) - 1
         /\ \A p, q \in Reads(out) : Slot(p, start) = Slot(q, start) => p = q
         /\ \A s \in start[out] .. start[out] + Cardinality(Reads(out)) - 1 :
              \E p \in Reads(out) : Slot(p, start) = s
<1> DEFINE P == {n \in 1 .. Len(ins) : output[ins[n]] = out}
<1>1. /\ Len(ins) \in Nat /\ \A n \in 1 .. Len(ins) : ins[n] \in Inputs /\ Place(ins, ins[n]) = n
      /\ \A p \in Inputs : Place(ins, p) \in 1 .. Len(ins) /\ ins[Place(ins, p)] = p
      /\ ins \in Seq(Inputs)
  BY PlaceFacts DEF Enumerates
<1>2. PICK t : t = Picked(ins, P)
  OBVIOUS
<1>3. t \in Seq(Inputs) /\ \E h : Picks(ins, P, t, h)
  BY <1>1, <1>2, PickedFacts
<1>4. PICK h : Picks(ins, P, t, h)
  BY <1>3
<1>5. PICK k \in Nat, L \in Nat : k = Len(t) /\ L = Len(ins)
  BY <1>1, <1>3, LenProperties
<1>6. /\ h \in [1 .. k -> 1 .. L] /\ \A x \in 1 .. k : h[x] \in P /\ t[x] = ins[h[x]]
      /\ \A n \in 1 .. L : n \in P => \E x \in 1 .. k : h[x] = n
      /\ \A x, y \in 1 .. k : x < y => h[x] < h[y]
  BY <1>4, <1>5 DEF Picks
<1>7. \A n \in 1 .. L : n \in P <=> ins[n] \in Reads(out)
  BY <1>1, <1>5 DEF Reads
<1>8. ASSUME NEW x \in 1 .. k
      PROVE  t[x] \in Reads(out) /\ Place(ins, t[x]) = h[x] /\ Slot(t[x], start) = start[out] + (x - 1)
  <2>1. h[x] \in 1 .. L /\ t[x] = ins[h[x]] /\ t[x] \in Reads(out)
    BY <1>6, <1>7
  <2>2. Place(ins, t[x]) = h[x]
    BY <1>1, <1>5, <2>1
  <2>3. output[t[x]] = out
    BY <2>1 DEF Reads
  <2>4. {n \in 1 .. h[x] - 1 : output[ins[n]] = out} = Earlier(P, h[x])
    <3>1. \A n \in 1 .. h[x] - 1 : n \in 1 .. Len(ins)
      BY <1>5, <2>1
    <3> QED BY <3>1 DEF Earlier
  <2>5. Slot(t[x], start) = start[out] + Cardinality({n \in 1 .. h[x] - 1 : output[ins[n]] = out})
    BY <2>2, <2>3 DEF Slot
  <2>6. Cardinality(Earlier(P, h[x])) = x - 1
    <3> HIDE DEF P
    <3>1. x \in 1 .. Len(t) /\ ins \in Seq(Inputs) /\ t \in Seq(Inputs)
      BY <1>1, <1>3, <1>5
    <3> QED BY ONLY <1>4, <3>1, PickRank
  <2> QED BY <2>1, <2>2, <2>4, <2>5, <2>6
<1> HIDE DEF P
<1>9. ASSUME NEW p \in Reads(out) PROVE \E x \in 1 .. k : t[x] = p
  <2>1. p \in Inputs
    BY DEF Reads
  <2>2. PICK n \in 1 .. L : ins[n] = p
    BY <1>1, <1>5, <2>1
  <2>3. n \in P
    BY <1>7, <2>2
  <2>4. PICK x \in 1 .. k : h[x] = n
    BY <1>6, <2>3
  <2> QED BY <1>6, <2>2, <2>4
<1>10. ASSUME NEW x \in 1 .. k, NEW y \in 1 .. k, t[x] = t[y] PROVE x = y
  <2>1. start[out] + (x - 1) = start[out] + (y - 1)
    BY <1>8, <1>10
  <2> QED BY <2>1
<1>11. Cardinality(Reads(out)) = k
  <2>1. PICK I, T : I = 1 .. k /\ T = Reads(out)
    OBVIOUS
  <2>2. PICK g : g = [x \in I |-> t[x]]
    OBVIOUS
  <2>3. IsFiniteSet(T)
    <3>1. IsFiniteSet(I)
      BY <2>1, PrefixCount
    <3>2. T = {t[x] : x \in I}
      BY <1>8, <1>9, <2>1
    <3> QED BY <3>1, <3>2, ImageFinite
  <2>4. /\ g \in [I -> T] /\ \A x, y \in I : g[x] = g[y] => x = y
        /\ \A p \in T : \E x \in I : g[x] = p
    BY <1>8, <1>9, <1>10, <2>1, <2>2
  <2>5. Cardinality(I) = Cardinality(T)
    BY ONLY <2>3, <2>4, Paired
  <2>6. Cardinality(I) = k
    BY <2>1, PrefixCount
  <2> QED BY <2>1, <2>5, <2>6
<1>12. PICK b \in Nat : b = start[out]
  OBVIOUS
<1>13. ASSUME NEW p \in Reads(out) PROVE Slot(p, start) \in b .. b + k - 1
  <2>1. PICK x \in 1 .. k : t[x] = p
    BY <1>9
  <2>2. Slot(p, start) = b + (x - 1)
    BY <1>8, <1>12, <2>1
  <2> QED BY <2>2
<1>14. ASSUME NEW p \in Reads(out), NEW q \in Reads(out), Slot(p, start) = Slot(q, start) PROVE p = q
  <2>1. PICK x \in 1 .. k : t[x] = p
    BY <1>9
  <2>2. PICK y \in 1 .. k : t[y] = q
    BY <1>9
  <2>3. b + (x - 1) = b + (y - 1)
    BY <1>8, <1>12, <1>14, <2>1, <2>2
  <2>4. x = y
    BY <2>3
  <2> QED BY <2>1, <2>2, <2>4
<1>15. ASSUME NEW s \in b .. b + k - 1 PROVE \E p \in Reads(out) : Slot(p, start) = s
  <2>1. PICK x \in 1 .. k : b + (x - 1) = s
    <3>1. s - b + 1 \in 1 .. k /\ b + ((s - b + 1) - 1) = s
      OBVIOUS
    <3> QED BY <3>1
  <2>2. t[x] \in Reads(out) /\ Slot(t[x], start) = s
    BY <1>8, <1>12, <2>1
  <2> QED BY <2>2
<1> QED BY <1>11, <1>12, <1>13, <1>14, <1>15

\* What allocate_network begins with, for a network that check_network has accepted.
Accepted ==
  /\ ProgramInv /\ Enumerates(instances, Insts)
  /\ \A p \in Inputs : output[p] = Declared(p)
  /\ \A out \in Outputs : numberOfReaders[out] = Cardinality(Fed(out))

Room(out) == RoomBefore(out) .. RoomBefore(out) + Cardinality(Reads(out)) - 1

\* Each input has a place of its own, in the room of the output that it reads.
LEMMA SlotFacts ==
  ASSUME Accepted, NEW start, start = [out \in Outputs |-> RoomBefore(out)],
         NEW ins, ins = InOrder("ins")
  PROVE  /\ Enumerates(ins, Inputs) /\ Len(ins) \in Nat /\ DOMAIN ins = 1 .. Len(ins)
         /\ \A n \in 1 .. Len(ins) : ins[n] \in Inputs /\ Place(ins, ins[n]) = n
         /\ \A p \in Inputs : Place(ins, p) \in 1 .. Len(ins) /\ ins[Place(ins, p)] = p
         /\ \A out \in Outputs :
              /\ RoomBefore(out) \in Nat /\ Cardinality(Reads(out)) \in Nat \ {0}
              /\ \A s \in Room(out) : s \in 0 .. Len(ins) - 1 /\ \E p \in Reads(out) : Slot(p, start) = s
              /\ \A p \in Reads(out) : Slot(p, start) \in Room(out)
         /\ \A p, q \in Inputs : Slot(p, start) = Slot(q, start) => p = q
         /\ \A o, out \in Outputs : o # out => Room(o) \intersect Room(out) = {}
<1>1. /\ ProgramInv /\ Enumerates(instances, Insts)
      /\ \A p \in Inputs : output[p] = Declared(p)
      /\ \A out \in Outputs : numberOfReaders[out] = Cardinality(Fed(out))
  BY DEF Accepted
<1>2. PICK outs : outs = InOrder("outs")
  OBVIOUS
<1>3. Enumerates(ins, Inputs) /\ Enumerates(outs, Outputs)
  BY <1>1, <1>2, InOrderFacts
<1>4. /\ Len(ins) \in Nat /\ DOMAIN ins = 1 .. Len(ins) /\ IsFiniteSet(Inputs) /\ Cardinality(Inputs) = Len(ins)
      /\ \A n \in 1 .. Len(ins) : ins[n] \in Inputs /\ Place(ins, ins[n]) = n
      /\ \A p \in Inputs : Place(ins, p) \in 1 .. Len(ins) /\ ins[Place(ins, p)] = p
  BY <1>3, PlaceFacts
<1>5. /\ Len(outs) \in Nat /\ \A n \in 1 .. Len(outs) : outs[n] \in Outputs
      /\ \A out \in Outputs : Place(outs, out) \in 1 .. Len(outs) /\ outs[Place(outs, out)] = out
  BY <1>3, PlaceFacts
<1>6. \A p \in Inputs : output[p] \in Outputs
  BY <1>1, WireFacts
<1>7. \A out \in Outputs : Cardinality(Reads(out)) = Cardinality(Fed(out)) /\ Cardinality(Reads(out)) \in Nat \ {0}
  BY <1>1, <1>4, ReadsFacts
<1>8. PICK L \in Nat : L = Len(ins)
  BY <1>4
<1>9. ASSUME NEW out \in Outputs
      PROVE  LET q == Place(outs, out)
             IN  /\ RoomBefore(out) \in Nat
                 /\ RoomBefore(out) = Cardinality(Below(outs, q - 1))
                 /\ RoomBefore(out) + Cardinality(Reads(out)) = Cardinality(Below(outs, q))
                 /\ RoomBefore(out) + Cardinality(Reads(out)) <= L
  <2>1. PICK q \in 1 .. Len(outs) : q = Place(outs, out) /\ outs[q] = out
    BY <1>5
  <2>2. PICK n \in Nat : q = n + 1 /\ q - 1 = n /\ n + 1 <= Len(outs)
    <3>1. q - 1 \in Nat /\ q = (q - 1) + 1 /\ (q - 1) + 1 <= Len(outs)
      BY <1>5, <2>1
    <3> QED BY <3>1
  <2>3. /\ Cardinality(Below(outs, n)) \in Nat
        /\ Cardinality(Below(outs, n + 1)) = Cardinality(Below(outs, n)) + Cardinality(Reads(outs[n + 1]))
    BY <1>3, <1>4, <1>6, <2>2, BelowFacts
  <2>4. Cardinality(Below(outs, n + 1)) <= L
    <3>1. n + 1 \in Nat
      OBVIOUS
    <3>2. Cardinality(Below(outs, n + 1)) <= Cardinality(Inputs)
      BY <1>3, <1>4, <1>6, <3>1, BelowFacts
    <3> QED BY <1>4, <1>8, <3>2
  <2>5. RoomBefore(out) = Cardinality(Below(outs, q - 1))
    BY <1>1, <1>2, <1>3, <1>4, <1>6, <1>7, <2>1, RoomFacts
  <2>6. outs[n + 1] = out
    BY <2>1, <2>2
  <2> QED BY <2>1, <2>2, <2>3, <2>4, <2>5, <2>6
<1>10. ASSUME NEW out \in Outputs
       PROVE  /\ \A p \in Reads(out) : Slot(p, start) \in Room(out)
              /\ \A p, q \in Reads(out) : Slot(p, start) = Slot(q, start) => p = q
              /\ \A s \in Room(out) : s \in 0 .. Len(ins) - 1 /\ \E p \in Reads(out) : Slot(p, start) = s
  <2>1. start[out] = RoomBefore(out) /\ start[out] \in Nat
    BY <1>9
  <2>2. /\ \A p \in Reads(out) : Slot(p, start) \in start[out] .. start[out] + Cardinality(Reads(out)) - 1
        /\ \A p, q \in Reads(out) : Slot(p, start) = Slot(q, start) => p = q
        /\ \A s \in start[out] .. start[out] + Cardinality(Reads(out)) - 1 :
              \E p \in Reads(out) : Slot(p, start) = s
    BY <1>3, <2>1, RankFacts
  <2>3. \A s \in Room(out) : s \in 0 .. L - 1
    BY <1>7, <1>9 DEF Room
  <2> QED BY <1>8, <2>1, <2>2, <2>3 DEF Room
<1>11. ASSUME NEW o \in Outputs, NEW out \in Outputs, o # out PROVE Room(o) \intersect Room(out) = {}
  <2>1. ASSUME NEW a \in Outputs, NEW b \in Outputs, Place(outs, a) < Place(outs, b), NEW s \in Room(a), s \in Room(b)
        PROVE  FALSE
    <3>1. PICK m \in Nat, n \in Nat : m = Place(outs, a) /\ n = Place(outs, b) - 1 /\ m <= n
      <4>1. Place(outs, a) \in Nat /\ Place(outs, b) - 1 \in Nat /\ Place(outs, a) <= Place(outs, b) - 1
        BY <1>5, <2>1
      <4> QED BY <4>1
    <3>2. /\ RoomBefore(a) + Cardinality(Reads(a)) = Cardinality(Below(outs, m))
          /\ RoomBefore(b) = Cardinality(Below(outs, n))
      BY <1>9, <3>1
    <3>3. Cardinality(Below(outs, m)) <= Cardinality(Below(outs, n))
      BY <1>3, <1>4, <1>6, <3>1, BelowFacts
    <3>4. RoomBefore(a) \in Nat /\ RoomBefore(b) \in Nat /\ Cardinality(Reads(a)) \in Nat /\ Cardinality(Reads(b)) \in Nat
      BY <1>7, <1>9
    <3>5. s \in RoomBefore(a) .. RoomBefore(a) + Cardinality(Reads(a)) - 1
      BY <2>1 DEF Room
    <3>6. s \in RoomBefore(b) .. RoomBefore(b) + Cardinality(Reads(b)) - 1
      BY <2>1 DEF Room
    <3>7. RoomBefore(a) + Cardinality(Reads(a)) <= RoomBefore(b)
      BY <3>2, <3>3
    <3> QED BY <3>4, <3>5, <3>6, <3>7
  <2>2. Place(outs, o) # Place(outs, out) /\ Place(outs, o) \in Int /\ Place(outs, out) \in Int
    BY <1>5, <1>11
  <2>3. Place(outs, o) < Place(outs, out) \/ Place(outs, out) < Place(outs, o)
    BY <2>2
  <2> QED BY <2>1, <2>3
<1>12. ASSUME NEW p \in Inputs, NEW q \in Inputs, Slot(p, start) = Slot(q, start) PROVE p = q
  <2>1. PICK o \in Outputs : p \in Reads(o)
    BY <1>6 DEF Reads
  <2>2. PICK out \in Outputs : q \in Reads(out)
    BY <1>6 DEF Reads
  <2>3. o = out
    BY <1>10, <1>11, <1>12, <2>1, <2>2
  <2> QED BY <1>10, <1>12, <2>1, <2>2, <2>3
<1> QED BY <1>3, <1>4, <1>7, <1>9, <1>10, <1>11, <1>12

LEMMA AcceptedNetwork ==
  ASSUME IInv, pc = "allocate"
  PROVE  /\ Accepted /\ ToSet(instances) = Insts /\ Made = Ports
         /\ \A p \in Ports : created[p] = 1
         /\ \A p \in Inputs : capacity[p] = Asked(p) /\ Asked(p) \in Nat
         /\ \A p \in Outputs : capacity[p] = 0
         /\ \A i \in Insts : affinity[i] \in 0 .. CpuSetSize - 1
<1>1. ProgramInv /\ ToSet(instances) = Insts
  BY DEF IInv, ControlInv
<1>2. Made = Ports
  BY <1>1, PortFacts DEF Made, Ports
<1>3. \A p \in Ports : created[p] = 1 /\ (p \in Inputs => output[p] # NoPort)
  BY DEF IInv, CheckedInv, WellFormed
<1>4. \A p \in Inputs : output[p] = Declared(p)
  BY <1>2, <1>3 DEF IInv, PortsInv, Ports
<1>5. \A out \in Outputs : numberOfReaders[out] = Cardinality(Fed(out))
  <2>1. \A out \in Outputs : created[out] > 0
    BY <1>3 DEF Ports
  <2> QED BY <1>2, <2>1 DEF IInv, PortsInv, Ports
<1>6. ASSUME NEW p \in Inputs PROVE capacity[p] = Asked(p) /\ Asked(p) \in Nat
  <2>1. created[p] > 0 /\ p \in Ports
    BY <1>3 DEF Ports
  <2>2. capacity[p] \in Nat
    BY <1>2, <2>1 DEF IInv, PortsInv
  <2> QED BY <2>1, <2>2 DEF IInv, CapacityInv
<1>7. \A p \in Outputs : capacity[p] = 0
  BY <1>1, PortFacts DEF IInv, CapacityInv, Ports
<1>8. Enumerates(instances, Insts)
  <2>1. instances \in Seq(Insts) /\ \A m, n \in 1 .. Len(instances) : instances[m] = instances[n] => m = n
    BY DEF IInv, InstancesInv
  <2>2. \A i \in Insts : \E n \in 1 .. Len(instances) : instances[n] = i
    BY <1>1, <2>1, ListedIn
  <2> QED BY <2>1, <2>2 DEF Enumerates
<1>9. \A i \in Insts : affinity[i] \in 0 .. CpuSetSize - 1
  <2>1. \A i \in Insts : affinity[i] \in -1 .. CpuSetSize - 1 /\ affinity[i] # -1
    BY <1>1 DEF IInv, InstancesInv, CheckedInv
  <2> QED BY <2>1
<1> QED BY <1>1, <1>2, <1>3, <1>4, <1>5, <1>6, <1>7, <1>8, <1>9 DEF Accepted

\* The readers of an output are where the program has connected it, and nowhere else.
LEMMA WiredStep ==
  ASSUME Accepted, \A p \in Ports : created[p] = 1, allocate_network
  PROVE  /\ WiredAsDeclared' /\ \A s \in DOMAIN reader' : reader'[s] \in Inputs \union {NoPort}
         /\ readers' \in [Outputs -> Nat] /\ firstReader' \in [Outputs -> Nat]
<1>1. ProgramInv /\ \A p \in Inputs : output[p] = Declared(p)
  BY DEF Accepted
<1>2. PICK ins, start : ins = InOrder("ins") /\ start = [out \in Outputs |-> RoomBefore(out)]
  OBVIOUS
<1> DEFINE stored(s) == {n \in DOMAIN ins : Slot(ins[n], start) = s}
<1>3. /\ program' = program /\ output' = output /\ created' = created /\ firstReader' = start
      /\ reader' = [s \in 0 .. Len(ins) - 1 |-> IF stored(s) = {} THEN NoPort ELSE ins[Max(stored(s))]]
      /\ readers' = [out \in Outputs |-> Cardinality(Reads(out))]
  BY <1>2 DEF allocate_network, Reads
<1>4. /\ Enumerates(ins, Inputs) /\ Len(ins) \in Nat /\ DOMAIN ins = 1 .. Len(ins)
      /\ \A n \in 1 .. Len(ins) : ins[n] \in Inputs /\ Place(ins, ins[n]) = n
      /\ \A p \in Inputs : Place(ins, p) \in 1 .. Len(ins) /\ ins[Place(ins, p)] = p
      /\ \A out \in Outputs :
           /\ RoomBefore(out) \in Nat /\ Cardinality(Reads(out)) \in Nat \ {0}
           /\ \A s \in Room(out) : s \in 0 .. Len(ins) - 1 /\ \E p \in Reads(out) : Slot(p, start) = s
           /\ \A p \in Reads(out) : Slot(p, start) \in Room(out)
      /\ \A p, q \in Inputs : Slot(p, start) = Slot(q, start) => p = q
      /\ \A o, out \in Outputs : o # out => Room(o) \intersect Room(out) = {}
  BY SMTT(30), <1>2, SlotFacts
<1>5. PICK L \in Nat : L = Len(ins)
  BY <1>4
<1>6. ASSUME NEW p \in Inputs PROVE Max(stored(Slot(p, start))) = Place(ins, p) /\ stored(Slot(p, start)) # {}
  <2>1. PICK n \in 1 .. L : n = Place(ins, p) /\ ins[n] = p
    BY <1>4, <1>5
  <2>2. stored(Slot(p, start)) = {n}
    BY <1>4, <1>5, <2>1
  <2>3. Max({n}) = n
    <3>1. {n} \subseteq Int /\ n \in {n} /\ \A y \in {n} : y <= n
      OBVIOUS
    <3> QED BY <3>1, MaxIs
  <2> QED BY <2>1, <2>2, <2>3
<1>7. ASSUME NEW out \in Outputs, NEW s \in Room(out) PROVE s \in DOMAIN reader' /\ reader'[s] \in Reads(out) /\ Slot(reader'[s], start) = s
  <2>1. PICK p \in Reads(out) : Slot(p, start) = s
    BY <1>4, <1>7
  <2>2. p \in Inputs /\ s \in 0 .. Len(ins) - 1
    BY <1>4, <1>7 DEF Reads
  <2>3. reader'[s] = ins[Max(stored(s))]
    BY <1>3, <1>6, <2>1, <2>2
  <2>4. reader'[s] = p
    BY <1>4, <1>6, <2>1, <2>2, <2>3
  <2> QED BY <1>3, <2>1, <2>2, <2>4
<1>8. ASSUME NEW s \in DOMAIN reader' PROVE reader'[s] \in Inputs \union {NoPort}
  <2>1. s \in 0 .. Len(ins) - 1
    BY <1>3
  <2>2. CASE stored(s) = {}
    BY <1>3, <2>1, <2>2
  <2>3. CASE stored(s) # {}
    <3>1. PICK n \in 1 .. L : Slot(ins[n], start) = s
      BY <1>4, <1>5, <2>3
    <3>2. ins[n] \in Inputs
      BY <1>4, <1>5
    <3>3. reader'[s] = ins[n]
      BY <1>3, <1>4, <1>6, <2>1, <2>3, <3>1, <3>2
    <3> QED BY <3>2, <3>3
  <2> QED BY <2>2, <2>3
<1> HIDE DEF stored
<1>9. ASSUME NEW out \in Outputs PROVE ReaderSlots(out)' = Room(out)
  BY <1>2, <1>3, <1>4 DEF ReaderSlots, Room
<1>10. ASSUME NEW out \in Outputs
       PROVE  {reader[s] : s \in ReaderSlots(out)}' = {program.wires[n].to : n \in Fed(out)}
  <2>1. IsFiniteSet(Inputs)
    BY <1>4, PlaceFacts
  <2>2. Reads(out) = {program.wires[n].to : n \in Fed(out)}
    BY <1>1, <2>1, ReadsFacts
  <2>3. {reader'[s] : s \in Room(out)} = Reads(out)
    <3>1. ASSUME NEW p \in Reads(out) PROVE \E s \in Room(out) : reader'[s] = p
      <4>1. PICK s \in Room(out) : s = Slot(p, start)
        BY <1>4, <3>1
      <4>2. p \in Inputs /\ reader'[s] \in Inputs /\ Slot(reader'[s], start) = Slot(p, start)
        BY <1>7, <4>1 DEF Reads
      <4> QED BY <1>4, <4>2
    <3> QED BY <1>7, <3>1
  <2>4. {reader[s] : s \in ReaderSlots(out)}' = {reader'[s] : s \in Room(out)}
    BY <1>9
  <2> QED BY <2>2, <2>3, <2>4
<1>11. WiredAsDeclared'
  <2>1. \A p \in Inputs' \union Outputs' : created'[p] = 1
    BY <1>3, FixedProgram DEF Ports
  <2>2. \A p \in Inputs' : output'[p] = program'.wires[Feeding(p)'].from
    BY <1>1, <1>3, FixedProgram DEF Declared
  <2>3. \A out \in Outputs : {reader[s] : s \in ReaderSlots(out)}' = {program'.wires[n].to : n \in Fed(out)'}
    BY <1>3, <1>10, FixedProgram
  <2>4. \A o, out \in Outputs : o # out => ReaderSlots(o)' \intersect ReaderSlots(out)' = {}
    BY <1>4, <1>9
  <2> QED BY <1>3, <2>1, <2>2, <2>3, <2>4, FixedProgram DEF WiredAsDeclared
<1>12. readers' \in [Outputs -> Nat] /\ firstReader' \in [Outputs -> Nat]
  BY <1>2, <1>3, <1>4
<1> QED BY <1>8, <1>11, <1>12

LEMMA Quotient ==
  ASSUME NEW a \in Nat, NEW b \in Nat \ {0}
  PROVE  a \div b \in Nat /\ (b <= a => 1 <= a \div b) /\ (a <= b => a \div b <= 1)
OBVIOUS

LEMMA Multiple ==
  ASSUME NEW k \in Nat, NEW b \in Nat \ {0}
  PROVE  k * b \in Nat /\ (k * b) \div b = k /\ (k * b) % b = 0
OBVIOUS

LEMMA Cancel ==
  ASSUME NEW k \in Nat, NEW l \in Nat, NEW b \in Nat \ {0}
  PROVE  k * b <= l * b <=> k <= l
OBVIOUS

Unit(d) == IF d.isBytes THEN d.tokenSize ELSE 1

\* Tokens that an input is to have room for.
Wanted(p) == IF Asked(p) = 0 THEN Max({1, FifoSize \div Desc(p).tokenSize}) ELSE Asked(p)

LEMMA DescFacts ==
  ASSUME ProgramInv
  PROVE  /\ \A p \in Ports : /\ Desc(p).isBytes \in BOOLEAN /\ Desc(p).tokenSize \in Nat \ {0}
                             /\ Unit(Desc(p)) \in Nat \ {0}
         /\ \A p \in Inputs : Desc(p) = Desc(Declared(p))
<1>1. ASSUME NEW p \in Ports PROVE Desc(p) \in Descs
  <2>1. CASE p \in Inputs
    <3>1. p[1] \in Insts /\ p[2] = "in" /\ p[3] \in 1 .. Len(Class(p[1]).ins)
      BY <2>1, PortFacts
    <3>2. Class(p[1]).ins \in Seq(Descs)
      BY <3>1, ClassFacts
    <3>3. Class(p[1]).ins[p[3]] \in Descs
      BY ONLY <3>1, <3>2, ElementOfSeq
    <3> QED BY <3>1, <3>3 DEF Desc, DescIn, Class
  <2>2. CASE p \in Outputs
    <3>1. p[1] \in Insts /\ p[2] = "out" /\ p[3] \in 1 .. Len(Class(p[1]).outs)
      BY <2>2, PortFacts
    <3>2. Class(p[1]).outs \in Seq(Descs)
      BY <3>1, ClassFacts
    <3>3. Class(p[1]).outs[p[3]] \in Descs
      BY ONLY <3>1, <3>2, ElementOfSeq
    <3>4. "out" # "in"
      OBVIOUS
    <3> QED BY <3>1, <3>3, <3>4 DEF Desc, DescIn, Class
  <2> QED BY <2>1, <2>2 DEF Ports
<1>2. ASSUME NEW p \in Ports
      PROVE  /\ Desc(p).isBytes \in BOOLEAN /\ Desc(p).tokenSize \in Nat \ {0} /\ Unit(Desc(p)) \in Nat \ {0}
  <2>1. PICK d \in Descs : d = Desc(p)
    BY <1>1
  <2>2. d.isBytes \in BOOLEAN /\ d.tokenSize \in Nat \ {0}
    BY DEF Descs
  <2> QED BY <2>1, <2>2 DEF Unit
<1>3. ASSUME NEW p \in Inputs PROVE Desc(p) = Desc(Declared(p))
  <2>1. Feeding(p) \in DOMAIN program.wires /\ program.wires[Feeding(p)].to = p
    BY WireFacts DEF Wires
  <2> QED BY <2>1, ProgramIs DEF ProgramOK, Desc, Declared
<1> QED BY <1>2, <1>3

LEMMA RequestedFacts ==
  ASSUME ProgramInv, NEW p \in Inputs, capacity[p] = Asked(p), Asked(p) \in Nat
  PROVE  /\ Wanted(p) \in Nat \ {0} /\ Asked(p) <= Wanted(p)
         /\ Requested(p) = Wanted(p) * Unit(Desc(p))
<1>1. PICK d : d = Desc(p)
  OBVIOUS
<1>2. d.isBytes \in BOOLEAN /\ d.tokenSize \in Nat \ {0} /\ FifoSize \in Nat
  BY <1>1, DescFacts, SetupAssumption DEF Ports
<1>3. PICK ts \in Nat \ {0}, F \in Nat, c \in Nat : ts = d.tokenSize /\ F = FifoSize /\ c = capacity[p]
  BY <1>2
<1>4. Scaled(p) = c * Unit(d)
  BY <1>1, <1>3 DEF Scaled, Unit
<1>5. Unit(d) \in Nat \ {0}
  BY <1>2 DEF Unit
<1>6. CASE c = 0
  <2>1. Scaled(p) = 0
    BY <1>4, <1>5, <1>6
  <2>2. PICK m \in Nat : m = F \div ts
    BY Quotient
  <2>3. Max({1, m}) \in {1, m} /\ 1 <= Max({1, m}) /\ m <= Max({1, m})
    <3>1. 1 \in Int /\ m \in Int
      OBVIOUS
    <3> QED BY <3>1, MaxOfTwo
  <2>4. PICK n : n = IF ts < F THEN m ELSE 1
    OBVIOUS
  <2>5. Max({1, m}) = n
    <3>1. (ts <= F => 1 <= m) /\ (F <= ts => m <= 1)
      BY <2>2, Quotient
    <3> QED BY <2>3, <2>4, <3>1
  <2>6. Wanted(p) = n
    BY <1>1, <1>3, <1>6, <2>2, <2>5 DEF Wanted
  <2>7. Default(d) = n * Unit(d)
    <3>1. n \in Nat
      BY <2>4
    <3>2. n * 1 = n
      BY <3>1
    <3> QED BY <1>3, <2>2, <2>4, <3>2 DEF Default, Unit
  <2>8. n \in Nat \ {0}
    BY <2>3, <2>5
  <2> QED BY <1>1, <1>3, <1>6, <2>1, <2>6, <2>7, <2>8 DEF Requested
<1>7. CASE c # 0
  <2>1. Wanted(p) = c
    BY <1>3, <1>7 DEF Wanted
  <2>2. Scaled(p) # 0
    BY <1>4, <1>5, <1>7
  <2> QED BY <1>1, <1>3, <1>4, <1>7, <2>1, <2>2 DEF Requested
<1> QED BY <1>6, <1>7

\* A FIFO gets what one of its readers wants, and none wants more.
LEMMA MaximalFacts ==
  ASSUME Accepted, IsFiniteSet(Inputs), \A p \in Inputs : capacity[p] = Asked(p) /\ Asked(p) \in Nat,
         \A p \in Outputs : capacity[p] = 0, NEW out \in Outputs
  PROVE  /\ \E q \in Reads(out) : Maximal(out) = Wanted(q) * Unit(Desc(out))
         /\ \A q \in Reads(out) : Wanted(q) * Unit(Desc(out)) <= Maximal(out) /\ Desc(q) = Desc(out)
<1>1. ProgramInv /\ \A p \in Inputs : output[p] = Declared(p)
  BY DEF Accepted
<1>2. PICK u \in Nat \ {0} : u = Unit(Desc(out))
  BY <1>1, DescFacts DEF Ports
<1>3. \A q \in Reads(out) : Desc(q) = Desc(out) /\ q \in Inputs
  BY <1>1, DescFacts DEF Reads
<1>4. \A q \in Reads(out) : Wanted(q) \in Nat \ {0} /\ Requested(q) = Wanted(q) * u
  BY <1>1, <1>2, <1>3, RequestedFacts
<1>5. Scaled(out) = 0
  <2>1. Desc(out).tokenSize \in Nat
    BY <1>1, DescFacts DEF Ports
  <2>2. 0 * Desc(out).tokenSize = 0
    BY <2>1
  <2> QED BY <2>2 DEF Scaled
<1>6. IsFiniteSet(Reads(out)) /\ Reads(out) # {}
  BY <1>1, ReadsFacts
<1>7. PICK R : R = {Requested(q) : q \in Reads(out)}
  OBVIOUS
<1>8. IsFiniteSet({0} \union R)
  <2>1. PICK f : f = [q \in Reads(out) |-> Requested(q)]
    OBVIOUS
  <2>2. R = {f[q] : q \in Reads(out)}
    BY <1>7, <2>1
  <2>3. IsFiniteSet(R)
    BY <1>6, <2>2, ImageFinite
  <2> QED BY <2>3, FS_Singleton, FS_Union
<1>9. {0} \union R \subseteq Int /\ \A r \in R : r > 0
  <2>1. \A q \in Reads(out) : Wanted(q) * u \in Nat \ {0}
    BY <1>4
  <2> QED BY <1>4, <1>7, <2>1
<1>10. PICK m : m = Max({0} \union R)
  OBVIOUS
<1>11. m \in {0} \union R /\ \A r \in {0} \union R : r <= m
  BY <1>8, <1>9, <1>10, MaxFacts
<1>12. m \in R
  <2>1. PICK r \in R : r > 0 /\ r <= m
    BY <1>6, <1>7, <1>9, <1>11
  <2>2. ~(0 > 0)
    OBVIOUS
  <2>3. r \in Int
    BY <1>9
  <2> QED BY <1>11, <2>1, <2>3
<1>13. m = Maximal(out)
  BY <1>5, <1>7, <1>10 DEF Maximal, Reads
<1> QED BY <1>2, <1>3, <1>4, <1>7, <1>11, <1>12, <1>13

LEMMA CapacityStep ==
  ASSUME Accepted, IsFiniteSet(Inputs), \A p \in Inputs : capacity[p] = Asked(p) /\ Asked(p) \in Nat,
         \A p \in Outputs : capacity[p] = 0, allocate_network
  PROVE  /\ CapacityRight' /\ DOMAIN capacity' = Ports /\ \A p \in Ports : capacity'[p] \in Nat
<1>1. ProgramInv /\ \A p \in Inputs : output[p] = Declared(p) /\ output[p] \in Outputs
  BY ZenonT(40), WireFacts DEF Accepted
<1>2. /\ program' = program /\ file' = file /\ index' = index /\ output' = output
      /\ capacity' = [p \in Ports |-> Maximal(IF p \in Inputs THEN output[p] ELSE p)]
  BY DEF allocate_network, instanceVars, Ports
<1>3. \A out \in Outputs : capacity'[out] = Maximal(out)
  BY <1>1, <1>2, PortFacts DEF Ports
<1>4. \A p \in Inputs : capacity'[p] = Maximal(output[p])
  BY <1>2 DEF Ports
<1>5. \A i : Name(i)' = Name(i)
  BY <1>2 DEF Name
<1>6. \A p : Asked(p)' = Asked(p)
  BY <1>2, <1>5, FixedProgram DEF Asked, Sizes
<1>7. \A out \in Outputs : \A q \in Reads(out) : Wanted(q) \in Nat \ {0} /\ Asked(q) <= Wanted(q)
  BY <1>1, RequestedFacts DEF Reads
<1>8. ASSUME NEW p \in Inputs
      PROVE  /\ capacity'[p] = capacity'[output[p]]
             /\ Desc(p).isBytes => capacity'[p] % Desc(p).tokenSize = 0
             /\ TokensOf(p)' >= Asked(p) /\ TokensOf(p)' >= 1
             /\ \E q \in Inputs : output[q] = output[p] /\ TokensOf(p)' = Wanted(q)
  <2>1. PICK out \in Outputs : out = output[p]
    BY <1>1
  <2>2. p \in Reads(out)
    BY <2>1 DEF Reads
  <2>3. PICK q \in Reads(out) : Maximal(out) = Wanted(q) * Unit(Desc(out))
    BY MaximalFacts
  <2>4. Wanted(p) * Unit(Desc(out)) <= Maximal(out) /\ Desc(p) = Desc(out)
    BY <2>2, MaximalFacts
  <2>5. Desc(out).isBytes \in BOOLEAN /\ Desc(out).tokenSize \in Nat \ {0} /\ Unit(Desc(out)) \in Nat \ {0}
    BY <1>1, DescFacts DEF Ports
  <2>6. PICK ts \in Nat \ {0}, u \in Nat \ {0}, k \in Nat \ {0}, l \in Nat \ {0} :
          ts = Desc(out).tokenSize /\ u = Unit(Desc(out)) /\ k = Wanted(q) /\ l = Wanted(p)
    BY <1>7, <2>2, <2>5
  <2>7. capacity'[p] = k * u /\ capacity'[out] = k * u
    BY <1>3, <1>4, <2>1, <2>3, <2>6
  <2>8. l <= k
    <3>1. l * u <= k * u
      BY <2>3, <2>4, <2>6
    <3> QED BY <3>1, Cancel
  <2>9. TokensOf(p)' = IF Desc(out).isBytes THEN capacity'[p] \div ts ELSE capacity'[p]
    BY <1>2, <2>1, <2>6, FixedProgram DEF TokensOf
  <2>10. TokensOf(p)' = k /\ (Desc(out).isBytes => capacity'[p] % ts = 0)
    <3>1. CASE Desc(out).isBytes
      <4>1. u = ts
        BY <2>6, <3>1 DEF Unit
      <4>2. (k * ts) \div ts = k /\ (k * ts) % ts = 0
        BY Multiple
      <4> QED BY <2>7, <2>9, <3>1, <4>1, <4>2
    <3>2. CASE ~Desc(out).isBytes
      <4>1. u = 1
        BY <2>6, <3>2 DEF Unit
      <4>2. k * 1 = k
        OBVIOUS
      <4> QED BY <2>7, <2>9, <3>2, <4>1, <4>2
    <3> QED BY <3>1, <3>2
  <2>11. Asked(p) <= l /\ Asked(p) \in Nat
    BY <1>7, <2>2, <2>6
  <2>12. q \in Inputs /\ output[q] = output[p]
    BY <2>1 DEF Reads
  <2>13. k >= Asked(p) /\ k >= 1
    BY <2>8, <2>11
  <2> QED BY <2>1, <2>4, <2>6, <2>7, <2>10, <2>12, <2>13
<1>9. CapacityRight'
  <2>1. Inputs' = Inputs /\ \A p : Desc(p)' = Desc(p)
    BY <1>2, FixedProgram
  <2>2. \A q : Wanted(q)' = Wanted(q)
    BY <1>6, <2>1 DEF Wanted
  <2>3. \A p \in Inputs' :
          /\ capacity'[p] = capacity'[output'[p]]
          /\ Desc(p)'.isBytes => capacity'[p] % Desc(p)'.tokenSize = 0
          /\ TokensOf(p)' >= Asked(p)' /\ TokensOf(p)' >= 1
          /\ \E q \in Inputs' : output'[q] = output'[p] /\ TokensOf(p)' = Wanted(q)'
    BY <1>2, <1>6, <1>8, <2>1, <2>2
  <2> QED BY ONLY <2>3 DEF CapacityRight, Wanted
<1>10. ASSUME NEW out \in Outputs PROVE Maximal(out) \in Nat
  <2>1. PICK q \in Reads(out) : Maximal(out) = Wanted(q) * Unit(Desc(out))
    BY MaximalFacts
  <2>2. PICK k \in Nat, u \in Nat : k = Wanted(q) /\ u = Unit(Desc(out))
    BY <1>1, <1>7, DescFacts DEF Ports
  <2>3. k * u \in Nat
    OBVIOUS
  <2> QED BY <2>1, <2>2, <2>3
<1>11. \A p \in Ports : capacity'[p] \in Nat
  BY <1>1, <1>3, <1>4, <1>10 DEF Ports
<1>12. DOMAIN capacity' = Ports
  BY <1>2
<1> QED BY <1>9, <1>11, <1>12

\* The CPUs used are those that an instance asks for, by number.
LEMMA UsedFacts ==
  ASSUME \A i \in Insts : affinity[i] \in 0 .. CpuSetSize - 1
  PROVE  /\ Len(Used) \in Nat /\ Len(Used) <= CpuSetSize /\ DOMAIN Used = 1 .. Len(Used)
         /\ \A c \in 1 .. Len(Used) : Used[c] \in Nat /\ \E i \in Insts : affinity[i] = Used[c]
         /\ \A c, d \in 1 .. Len(Used) : c < d => Used[c] < Used[d]
         /\ \A i \in Insts : \E c \in 1 .. Len(Used) : Used[c] = affinity[i]
<1>1. PICK K \in Nat : K = CpuSetSize
  BY SetupAssumption
<1>2. PICK s, P : s = [n \in 1 .. K |-> n - 1] /\ P = {n \in 1 .. K : InUse(n - 1)}
  OBVIOUS
<1>3. s \in Seq(Nat) /\ Len(s) = K /\ \A n \in 1 .. K : s[n] = n - 1
  BY <1>2
<1>4. Used = Picked(s, P)
  BY <1>1, <1>2 DEF Used
<1>5. Used \in Seq(Nat) /\ \E h : Picks(s, P, Used, h)
  BY <1>3, <1>4, PickedFacts
<1>6. PICK h : Picks(s, P, Used, h)
  BY <1>5
<1>7. PICK k \in Nat : k = Len(Used) /\ DOMAIN Used = 1 .. k
  BY <1>5, LenProperties
<1>8. /\ h \in [1 .. k -> 1 .. K] /\ \A x \in 1 .. k : h[x] \in P /\ Used[x] = s[h[x]]
      /\ \A n \in 1 .. K : n \in P => \E x \in 1 .. k : h[x] = n
      /\ \A x, y \in 1 .. k : x < y => h[x] < h[y]
  BY <1>3, <1>6, <1>7 DEF Picks
<1>9. \A x \in 1 .. k : h[x] \in 1 .. K /\ Used[x] = h[x] - 1
  BY <1>3, <1>8
<1>10. ASSUME NEW x \in 1 .. k PROVE Used[x] \in Nat /\ \E i \in Insts : affinity[i] = Used[x]
  <2>1. InUse(h[x] - 1)
    BY <1>2, <1>8
  <2> QED BY <1>9, <2>1 DEF InUse
<1>11. ASSUME NEW x \in 1 .. k, NEW y \in 1 .. k, x < y PROVE Used[x] < Used[y]
  <2>1. h[x] < h[y]
    BY <1>8, <1>11
  <2> QED BY <1>9, <2>1
<1>12. ASSUME NEW i \in Insts PROVE \E x \in 1 .. k : Used[x] = affinity[i]
  <2>1. affinity[i] + 1 \in 1 .. K /\ (affinity[i] + 1) - 1 = affinity[i]
    BY <1>1
  <2>2. affinity[i] + 1 \in P
    BY <1>2, <2>1 DEF InUse
  <2>3. PICK x \in 1 .. k : h[x] = affinity[i] + 1
    BY <1>8, <2>1, <2>2
  <2> QED BY <1>9, <2>1, <2>3
<1>13. k <= K
  <2>1. PICK I, T : I = 1 .. k /\ T = 1 .. K
    OBVIOUS
  <2>2. IsFiniteSet(T) /\ Cardinality(T) = K /\ Cardinality(I) = k
    BY <2>1, PrefixCount
  <2>3. \A x, y \in I : h[x] = h[y] => x = y
    <3> SUFFICES ASSUME NEW x \in 1 .. k, NEW y \in 1 .. k, h[x] = h[y] PROVE x = y
      BY <2>1
    <3>1. ~(h[x] < h[y]) /\ ~(h[y] < h[x])
      BY <1>9
    <3>2. ~(x < y) /\ ~(y < x)
      BY <1>8, <3>1
    <3> QED BY <3>2
  <2>4. h \in Injection(I, T)
    BY <1>8, <2>1, <2>3 DEF Injection, IsInjective
  <2>5. Cardinality(I) <= Cardinality(T)
    BY ONLY <2>2, <2>4, FS_Injection
  <2> QED BY <2>2, <2>5
<1> QED BY <1>1, <1>7, <1>10, <1>11, <1>12, <1>13

\* A CPU gets the instances that ask for it.
LEMMA PlacedStep ==
  ASSUME ProgramInv, Enumerates(instances, Insts), \A i \in Insts : affinity[i] \in 0 .. CpuSetSize - 1,
         allocate_network
  PROVE  /\ Placed' /\ Len(actors') <= CpuSetSize /\ Len(actors') = Len(Used)
         /\ \A i \in Insts : RunsOn(i)' \in 1 .. Len(Used) /\ Used[RunsOn(i)'] = affinity[i]
<1>1. /\ Len(Used) \in Nat /\ Len(Used) <= CpuSetSize /\ DOMAIN Used = 1 .. Len(Used)
      /\ \A c \in 1 .. Len(Used) : Used[c] \in Nat /\ \E i \in Insts : affinity[i] = Used[c]
      /\ \A c, d \in 1 .. Len(Used) : c < d => Used[c] < Used[d]
      /\ \A i \in Insts : \E c \in 1 .. Len(Used) : Used[c] = affinity[i]
  BY SMTT(30), UsedFacts
<1>2. PICK k \in Nat : k = Len(Used)
  BY <1>1
<1> DEFINE On(c) == {n \in DOMAIN instances : affinity[instances[n]] = Used[c]}
<1>3. /\ actors' = [c \in 1 .. k |-> Picked(instances, On(c))] /\ cpus' = Used /\ program' = program
  BY <1>1, <1>2 DEF allocate_network
<1>4. instances \in Seq(Insts)
  BY DEF Enumerates
<1>5. PICK l \in Nat : l = Len(instances) /\ DOMAIN instances = 1 .. l
  BY <1>4, LenProperties
<1>6. /\ \A n \in 1 .. l : instances[n] \in Insts
      /\ \A m, n \in 1 .. l : instances[m] = instances[n] => m = n
      /\ \A i \in Insts : \E n \in 1 .. l : instances[n] = i
  BY <1>4, <1>5, ElementOfSeq DEF Enumerates
<1>7. \A c, d \in 1 .. k : Used[c] = Used[d] => c = d
  <2> SUFFICES ASSUME NEW c \in 1 .. k, NEW d \in 1 .. k, Used[c] = Used[d] PROVE c = d
    OBVIOUS
  <2>1. Used[c] \in Int /\ Used[d] \in Int /\ (c < d => Used[c] < Used[d]) /\ (d < c => Used[d] < Used[c])
    BY SMTT(30), <1>1, <1>2
  <2>2. ~(c < d) /\ ~(d < c)
    BY <2>1
  <2> QED BY <2>2
<1>8. ASSUME NEW c \in 1 .. k
      PROVE  /\ actors'[c] \in Seq(Insts) /\ Len(actors'[c]) \in Nat
             /\ \A m, n \in 1 .. Len(actors'[c]) : actors'[c][m] = actors'[c][n] => m = n
             /\ \A i : i \in ToSet(actors'[c]) <=> i \in Insts /\ affinity[i] = Used[c]
  <2>1. PICK t, P : t = Picked(instances, P) /\ P = On(c) /\ t = actors'[c]
    BY <1>3
  <2> HIDE DEF On
  <2>2. t \in Seq(Insts) /\ \E h : Picks(instances, P, t, h)
    BY <1>4, <2>1, PickedFacts
  <2>3. PICK h : Picks(instances, P, t, h)
    BY <2>2
  <2>4. PICK q \in Nat : q = Len(t) /\ DOMAIN t = 1 .. q
    BY <2>2, LenProperties
  <2>5. /\ h \in [1 .. q -> 1 .. l] /\ \A x \in 1 .. q : h[x] \in P /\ t[x] = instances[h[x]]
        /\ \A n \in 1 .. l : n \in P => \E x \in 1 .. q : h[x] = n
        /\ \A x, y \in 1 .. q : x < y => h[x] < h[y]
    BY <1>5, <2>3, <2>4 DEF Picks
  <2>6. \A n \in 1 .. l : n \in P <=> affinity[instances[n]] = Used[c]
    BY <1>5, <2>1 DEF On
  <2>7. \A m, n \in 1 .. q : t[m] = t[n] => m = n
    <3> SUFFICES ASSUME NEW m \in 1 .. q, NEW n \in 1 .. q, t[m] = t[n] PROVE m = n
      OBVIOUS
    <3>1. h[m] = h[n] /\ h[m] \in Int
      <4>1. h[m] \in 1 .. l /\ h[n] \in 1 .. l
        BY <2>5
      <4>2. t[m] = instances[h[m]] /\ t[n] = instances[h[n]]
        BY <2>5
      <4>3. \A x, y \in 1 .. l : instances[x] = instances[y] => x = y
        BY <1>6
      <4>4. h[m] = h[n]
        <5>1. instances[h[m]] = instances[h[n]]
          BY <4>2
        <5> QED BY ONLY <4>1, <4>3, <5>1
      <4> QED BY <4>1, <4>4
    <3>2. ~(m < n) /\ ~(n < m)
      BY <2>5, <3>1
    <3> QED BY <3>2
  <2>8. \A i : i \in ToSet(t) <=> \E x \in 1 .. q : t[x] = i
    BY <2>4 DEF ToSet
  <2>9. ASSUME NEW i \in ToSet(t) PROVE i \in Insts /\ affinity[i] = Used[c]
    <3>1. PICK x \in 1 .. q : t[x] = i
      BY <2>8
    <3> QED BY SMTT(30), <1>6, <2>5, <2>6, <3>1
  <2>10. ASSUME NEW i \in Insts, affinity[i] = Used[c] PROVE i \in ToSet(t)
    <3>1. PICK n \in 1 .. l : instances[n] = i
      BY <1>6
    <3>2. PICK x \in 1 .. q : h[x] = n
      BY <2>5, <2>6, <2>10, <3>1
    <3> QED BY <2>5, <2>8, <3>1, <3>2
  <2> QED BY <2>1, <2>2, <2>4, <2>7, <2>9, <2>10
<1>9. actors' \in Seq(Seq(Insts)) /\ Len(actors') = k
  <2> HIDE DEF On
  <2>1. \A c \in 1 .. k : actors'[c] \in Seq(Insts)
    BY <1>8
  <2>2. PICK S, a : S = Seq(Insts) /\ a = actors'
    OBVIOUS
  <2>3. a = [c \in 1 .. k |-> a[c]] /\ \A c \in 1 .. k : a[c] \in S
    BY <1>3, <2>1, <2>2
  <2>4. a \in Seq(S) /\ Len(a) = k
    BY ONLY <2>3
  <2> QED BY <2>2, <2>4
<1> HIDE DEF On
<1>10. ASSUME NEW i \in Insts
       PROVE  \E c \in 1 .. k : /\ Used[c] = affinity[i] /\ i \in ToSet(actors'[c])
                                /\ \A d \in 1 .. k : i \in ToSet(actors'[d]) => d = c
  <2>1. PICK c \in 1 .. k : Used[c] = affinity[i]
    BY <1>1, <1>2
  <2> QED BY <1>7, <1>8, <2>1
<1>11. ASSUME NEW i \in Insts PROVE RunsOn(i)' \in 1 .. k /\ Used[RunsOn(i)'] = affinity[i]
  <2>1. PICK c \in 1 .. k : /\ Used[c] = affinity[i] /\ i \in ToSet(actors'[c])
                            /\ \A d \in 1 .. k : i \in ToSet(actors'[d]) => d = c
    BY <1>10
  <2>2. DOMAIN actors' = 1 .. k
    BY <1>3
  <2>3. RunsOn(i)' = c
    BY <2>1, <2>2 DEF RunsOn
  <2> QED BY <2>1, <2>3
<1>12. Placed'
  <2>1. Insts' = Insts
    BY <1>3, FixedProgram
  <2>2. k # 0
    <3>1. 1 \in Insts
      BY ProgramIs DEF Insts
    <3>2. \E c \in 1 .. k : TRUE
      BY <1>10, <3>1
    <3> QED BY <3>2
  <2>3. ASSUME NEW c \in 1 .. k PROVE actors'[c] # <<>>
    <3>1. PICK i \in Insts : affinity[i] = Used[c]
      BY <1>1, <1>2
    <3>2. i \in ToSet(actors'[c])
      BY <1>8, <3>1
    <3> QED BY <3>2, NoInstance
  <2>4. \A c, d \in 1 .. k : \A i \in ToSet(actors'[c]) : i \in ToSet(actors'[d]) => c = d
    BY <1>7, <1>8
  <2> QED BY <1>2, <1>3, <1>8, <1>9, <1>10, <2>1, <2>2, <2>3, <2>4 DEF Placed
<1> QED BY <1>1, <1>2, <1>9, <1>11, <1>12

LEMMA AllocateStep == IInv /\ allocate_network => IInv'
<1> SUFFICES ASSUME IInv, allocate_network PROVE IInv'
  OBVIOUS
<1>1. /\ program' = program /\ process' = process /\ file' = file /\ instances' = instances /\ index' = index
      /\ affinity' = affinity /\ created' = created /\ numberOfReaders' = numberOfReaders
      /\ output' = output /\ pc = "allocate" /\ pc' = "run"
  BY DEF allocate_network, instanceVars
<1>2. /\ Accepted /\ ToSet(instances) = Insts /\ Made = Ports
      /\ \A p \in Ports : created[p] = 1
      /\ \A p \in Inputs : capacity[p] = Asked(p) /\ Asked(p) \in Nat
      /\ \A p \in Outputs : capacity[p] = 0
      /\ \A i \in Insts : affinity[i] \in 0 .. CpuSetSize - 1
  BY <1>1, AcceptedNetwork
<1>3. ProgramInv /\ Enumerates(instances, Insts)
  BY <1>2 DEF Accepted
<1>4. IsFiniteSet(Inputs)
  <2>1. Enumerates(InOrder("ins"), Inputs)
    BY <1>3, InOrderFacts
  <2> QED BY <2>1, PlaceFacts
<1>5. /\ WiredAsDeclared' /\ \A s \in DOMAIN reader' : reader'[s] \in Inputs \union {NoPort}
      /\ readers' \in [Outputs -> Nat] /\ firstReader' \in [Outputs -> Nat]
  BY <1>2, WiredStep
<1>6. CapacityRight' /\ DOMAIN capacity' = Ports /\ \A p \in Ports : capacity'[p] \in Nat
  BY <1>2, <1>4, CapacityStep
<1>7. /\ Placed' /\ Len(actors') <= CpuSetSize /\ Len(actors') = Len(Used)
      /\ \A i \in Insts : RunsOn(i)' \in 1 .. Len(Used) /\ Used[RunsOn(i)'] = affinity[i]
  BY <1>2, <1>3, PlacedStep
<1>8. Made' = Made /\ \A i : Name(i)' = Name(i)
  BY <1>1, FixedProgram DEF Made, Name
<1>9. Unasked' = Unasked /\ \A i : AskedCpu(i)' = AskedCpu(i)
  <2>1. \A i : AskedCpu(i)' = AskedCpu(i)
    BY <1>1, <1>8 DEF AskedCpu
  <2> QED BY <1>1, <2>1, FixedProgram DEF Unasked
<1>10. PlacedAsAsked'
  <2>1. \A i \in Insts : affinity[i] = IF Unasked THEN 0 ELSE AskedCpu(i)
    BY <1>1 DEF IInv, PlaceInv
  <2>2. /\ Len(Used) \in Nat
        /\ \A c \in 1 .. Len(Used) : Used[c] \in Nat /\ \E i \in Insts : affinity[i] = Used[c]
        /\ \A c, d \in 1 .. Len(Used) : c < d => Used[c] < Used[d]
    BY <1>2, UsedFacts
  <2>3. ASSUME ~Unasked, NEW i \in Insts, NEW j \in Insts
        PROVE  RunsOn(i)' <= RunsOn(j)' <=> AskedCpu(i) <= AskedCpu(j)
    <3>1. PICK c \in 1 .. Len(Used), d \in 1 .. Len(Used) : c = RunsOn(i)' /\ d = RunsOn(j)'
      BY <1>7
    <3>2. Used[c] = AskedCpu(i) /\ Used[d] = AskedCpu(j)
      BY <1>7, <2>1, <2>3, <3>1
    <3>3. PICK a \in Nat, b \in Nat : a = Used[c] /\ b = Used[d]
      BY <2>2
    <3>4. (c < d => a < b) /\ (d < c => b < a) /\ (c = d => a = b)
      BY <2>2, <3>3
    <3>5. c <= d <=> a <= b
      BY <2>2, <3>4
    <3> QED BY <3>1, <3>2, <3>3, <3>5
  <2>4. ASSUME Unasked PROVE Len(actors') = 1
    <3>1. \A c \in 1 .. Len(Used) : Used[c] = 0
      BY <2>1, <2>2, <2>4
    <3>2. Len(Used) # 0
      <4>1. \E i \in Insts : TRUE
        BY <2>4 DEF Unasked
      <4> QED BY <1>7, <2>2, <4>1
    <3>3. ~(2 \in 1 .. Len(Used))
      <4> SUFFICES ASSUME 2 \in 1 .. Len(Used) PROVE FALSE
        OBVIOUS
      <4>1. 1 \in 1 .. Len(Used) /\ 1 < 2
        BY <2>2
      <4>2. Used[1] < Used[2] /\ Used[1] = 0 /\ Used[2] = 0
        BY <2>2, <3>1, <4>1
      <4> QED BY <4>2
    <3> QED BY <1>7, <2>2, <3>2, <3>3
  <2>5. Insts' = Insts
    BY <1>1, FixedProgram
  <2>6. Unasked <=> ~\A i \in Insts : AskedCpu(i) # -1
    BY DEF Unasked
  <2> QED BY <1>9, <2>3, <2>4, <2>5, <2>6 DEF PlacedAsAsked
<1>11. RunInv'
  <2>1. \A s \in DOMAIN reader' : reader'[s] \in Inputs' \union {NoPort}
    BY <1>1, <1>5, FixedProgram
  <2> QED BY <1>1, <1>5, <1>6, <1>7, <1>10, <2>1, FixedProgram DEF RunInv
<1>12. ControlInv'
  BY <1>1, <1>2, FixedProgram DEF IInv, ControlInv, ProgramInv
<1>13. InstancesInv'
  BY <1>1, FixedProgram DEF IInv, InstancesInv
<1>14. PortsInv'
  BY <1>1, <1>2, <1>6, <1>8, FixedProgram DEF IInv, PortsInv
<1>15. CallsInv' /\ CapacityInv'
  BY <1>1 DEF CallsInv, CapacityInv
<1>16. NamesInv'
  BY <1>1, <1>8, FixedProgram DEF IInv, NamesInv
<1>17. PlaceInv'
  BY <1>1, <1>9, FixedProgram DEF IInv, PlaceInv
<1>18. CheckedInv'
  BY <1>1, FixedProgram DEF IInv, CheckedInv
<1> QED BY <1>11, <1>12, <1>13, <1>14, <1>15, <1>16, <1>17, <1>18 DEF IInv

-----------------------------------------------------------------------------
(* generate_config, and the second process.                                *)

LEMMA Listing ==
  ASSUME NEW S, NEW k \in Nat, NEW f, DOMAIN f = 1 .. k, f = [n \in 1 .. k |-> f[n]], \A n \in 1 .. k : f[n] \in S
  PROVE  f \in Seq(S) /\ Len(f) = k
OBVIOUS

LEMMA SeqOfAll ==
  ASSUME NEW S, NEW s \in Seq(S)
  PROVE  s \in Seq(ToSet(s))
<1>1. PICK k \in Nat : k = Len(s) /\ DOMAIN s = 1 .. k
  BY LenProperties
<1>2. \A n \in 1 .. k : s[n] \in ToSet(s)
  BY <1>1 DEF ToSet
<1>3. s = [n \in 1 .. k |-> s[n]]
  BY <1>1
<1> QED BY <1>1, <1>2, <1>3, Listing

\* The outputs of the actors, and the readers of these, in the order of the file.
OutsOf(running) ==
  FlattenSeq([n \in DOMAIN running |-> [j \in 1 .. Len(Class(running[n]).outs) |-> <<running[n], "out", j>>]])
InsOf(outs) ==
  FlattenSeq([n \in DOMAIN outs |-> [r \in 1 .. readers[outs[n]] |-> reader[firstReader[outs[n]] + r - 1]]])
PartsOf(cut) ==
  [c \in DOMAIN actors |->
     [tag |-> "Partition", id |-> c - 1, names |-> [n \in DOMAIN actors[c] |-> Written(actors[c][n], cut)]]]
ConnectionsOf(ins, cut) ==
  [n \in DOMAIN ins |->
     [tag |-> "Connection", dst |-> Written(ins[n][1], cut), port |-> ins[n][3], size |-> TokensOf(ins[n])]]

LEMMA RunningFacts ==
  ASSUME IInv, pc = "run"
  PROVE  /\ FlattenSeq(actors) \in Seq(Insts)
         /\ \A running \in Seq(Insts) : OutsOf(running) \in Seq(Outputs)
         /\ \A outs \in Seq(Outputs) : InsOf(outs) \in Seq(Inputs)
<1>1. ProgramInv /\ Placed /\ readers \in [Outputs -> Nat] /\ firstReader \in [Outputs -> Nat] /\ WiredAsDeclared
  BY DEF IInv, ControlInv, RunInv
<1>2. FlattenSeq(actors) \in Seq(Insts)
  <2>1. PICK S, a : S = Insts /\ a = actors
    OBVIOUS
  <2>2. a \in Seq(Seq(S))
    BY <1>1, <2>1 DEF Placed
  <2>3. PICK N \in Nat : N = Len(a) /\ a \in [1 .. N -> Seq(S)]
    BY <2>2
  <2>4. \E t \in Seq(S) : t = FlattenSeq(a)
    BY ONLY <2>3, FlattenFacts
  <2> QED BY <2>1, <2>4
<1>3. ASSUME NEW running \in Seq(Insts) PROVE OutsOf(running) \in Seq(Outputs)
  <2>1. PICK N \in Nat : N = Len(running) /\ DOMAIN running = 1 .. N /\ \A n \in 1 .. N : running[n] \in Insts
    BY LenProperties
  <2>2. PICK ss : ss = [n \in 1 .. N |-> [j \in 1 .. Len(Class(running[n]).outs) |-> <<running[n], "out", j>>]]
    OBVIOUS
  <2>3. ASSUME NEW n \in 1 .. N PROVE ss[n] \in Seq(Outputs)
    <3>1. PICK k \in Nat : k = Len(Class(running[n]).outs)
      BY <1>1, <2>1, ClassFacts
    <3>2. ss[n] = [j \in 1 .. k |-> <<running[n], "out", j>>]
      BY <2>2, <3>1
    <3>3. \A j \in 1 .. k : <<running[n], "out", j>> \in Outputs
      BY <1>1, <2>1, <3>1, PortFacts
    <3> QED BY <3>2, <3>3, Listing
  <2>4. PICK S : S = Outputs
    OBVIOUS
  <2>5. ss \in [1 .. N -> Seq(S)]
    BY <2>2, <2>3, <2>4
  <2>6. \E t \in Seq(S) : t = FlattenSeq(ss)
    BY ONLY <2>5, FlattenFacts
  <2> QED BY <2>1, <2>2, <2>4, <2>6 DEF OutsOf
<1>4. ASSUME NEW outs \in Seq(Outputs) PROVE InsOf(outs) \in Seq(Inputs)
  <2>1. PICK N \in Nat : N = Len(outs) /\ DOMAIN outs = 1 .. N /\ \A n \in 1 .. N : outs[n] \in Outputs
    BY LenProperties
  <2>2. PICK ss : ss = [n \in 1 .. N |-> [r \in 1 .. readers[outs[n]] |-> reader[firstReader[outs[n]] + r - 1]]]
    OBVIOUS
  <2>3. ASSUME NEW n \in 1 .. N PROVE ss[n] \in Seq(Inputs)
    <3>1. PICK out \in Outputs : out = outs[n]
      BY <2>1
    <3>2. PICK k \in Nat, b \in Nat : k = readers[out] /\ b = firstReader[out]
      BY <1>1
    <3>3. ss[n] = [r \in 1 .. k |-> reader[b + r - 1]]
      BY <2>2, <3>1, <3>2
    <3>4. \A r \in 1 .. k : b + r - 1 \in ReaderSlots(out)
      BY <3>2 DEF ReaderSlots
    <3>5. \A s \in ReaderSlots(out) : reader[s] \in {program.wires[m].to : m \in Fed(out)}
      BY <1>1 DEF WiredAsDeclared
    <3>6. \A m \in Fed(out) : program.wires[m].to \in Inputs
      BY <1>1, WireFacts DEF Fed, Wires
    <3>7. \A r \in 1 .. k : reader[b + r - 1] \in Inputs
      BY <3>4, <3>5, <3>6
    <3>8. PICK f : f = [r \in 1 .. k |-> reader[b + r - 1]]
      OBVIOUS
    <3>9. DOMAIN f = 1 .. k /\ f = [r \in 1 .. k |-> f[r]] /\ \A r \in 1 .. k : f[r] \in Inputs
      BY <3>7, <3>8
    <3> QED BY SMTT(30), <3>3, <3>8, <3>9, Listing
  <2>4. PICK S : S = Inputs
    OBVIOUS
  <2>5. ss \in [1 .. N -> Seq(S)]
    BY <2>2, <2>3, <2>4
  <2>6. \E t \in Seq(S) : t = FlattenSeq(ss)
    BY ONLY <2>5, FlattenFacts
  <2> QED BY <2>1, <2>2, <2>4, <2>6 DEF InsOf
<1> QED BY <1>2, <1>3, <1>4

LEMMA TokensFacts ==
  ASSUME IInv, pc = "run", NEW p \in Inputs
  PROVE  TokensOf(p) \in Nat
<1>1. ProgramInv /\ WiredAsDeclared /\ Made = Ports
  <2>1. ProgramInv /\ WiredAsDeclared /\ ToSet(instances) = Insts
    BY DEF IInv, ControlInv, RunInv
  <2> QED BY <2>1, PortFacts DEF Made, Ports
<1>2. PICK out \in Outputs : out = output[p]
  BY <1>1, WireFacts DEF WiredAsDeclared, Declared
<1>3. PICK c \in Nat : c = capacity[p]
  BY <1>1 DEF IInv, PortsInv, Ports
<1>4. PICK ts \in Nat \ {0} : ts = Desc(out).tokenSize
  BY <1>1, DescFacts DEF Ports
<1>5. c \div ts \in Nat
  BY Quotient
<1> QED BY <1>2, <1>3, <1>4, <1>5 DEF TokensOf

\* What is written can be read.
LEMMA GeneratedFile ==
  ASSUME IInv, pc = "run", NEW cut
  PROVE  FileOK(Generated(cut))
<1>1. PICK outs, ins, parts, connections :
        /\ outs = OutsOf(FlattenSeq(actors)) /\ ins = InsOf(outs)
        /\ parts = PartsOf(cut) /\ connections = ConnectionsOf(ins, cut)
  OBVIOUS
<1>2. ins \in Seq(Inputs)
  BY SMTT(30), <1>1, RunningFacts
<1>3. PICK a \in Nat, b \in Nat : /\ a = Len(actors) /\ DOMAIN actors = 1 .. a /\ a <= CpuSetSize
                                  /\ b = Len(ins) /\ DOMAIN ins = 1 .. b
  <2>1. Len(actors) \in Nat /\ DOMAIN actors = 1 .. Len(actors) /\ Len(actors) <= CpuSetSize
    <3>1. actors \in Seq(Seq(Insts)) /\ Len(actors) <= CpuSetSize
      BY DEF IInv, RunInv, Placed
    <3> QED BY <3>1, LenProperties
  <2>2. Len(ins) \in Nat /\ DOMAIN ins = 1 .. Len(ins)
    BY SMTT(30), <1>2, LenProperties
  <2> QED BY <2>1, <2>2
<1>4. Generated(cut) = [root |-> "Configuration", elements |-> parts \o connections]
  BY <1>1 DEF Generated, OutsOf, InsOf, PartsOf, ConnectionsOf
<1> DEFINE Right(e) ==
      /\ e.tag = "Partition" =>
            e.names \in Seq(ToSet(e.names)) /\ ("id" \in DOMAIN e => e.id \in -1 .. CpuSetSize - 1)
      /\ e.tag = "Connection" /\ Complete(e) => e.size \in Nat
<1>5. ASSUME NEW c \in 1 .. a PROVE Right(parts[c])
  <2>1. PICK names : names = [n \in DOMAIN actors[c] |-> Written(actors[c][n], cut)]
    OBVIOUS
  <2>2. parts[c] = [tag |-> "Partition", id |-> c - 1, names |-> names]
    BY <1>1, <1>3, <2>1 DEF PartsOf
  <2>3. names \in Seq(ToSet(names))
    <3>1. actors[c] \in Seq(Insts)
      BY <1>3 DEF IInv, RunInv, Placed
    <3>2. PICK k \in Nat : DOMAIN actors[c] = 1 .. k
      BY <3>1, LenProperties
    <3>3. DOMAIN names = 1 .. k /\ names = [n \in 1 .. k |-> names[n]] /\ \A n \in 1 .. k : names[n] \in ToSet(names)
      BY <2>1, <3>2 DEF ToSet
    <3> QED BY <3>3, Listing
  <2>4. c - 1 \in -1 .. CpuSetSize - 1
    BY <1>3, SetupAssumption
  <2>5. "Partition" # "Connection"
    OBVIOUS
  <2> QED BY <2>2, <2>3, <2>4, <2>5
<1>6. ASSUME NEW n \in 1 .. b PROVE Right(connections[n])
  <2>1. ins[n] \in Inputs
    BY <1>2, <1>3, ElementOfSeq
  <2>2. TokensOf(ins[n]) \in Nat
    BY <2>1, TokensFacts
  <2>3. connections[n] = [tag |-> "Connection", dst |-> Written(ins[n][1], cut), port |-> ins[n][3],
                          size |-> TokensOf(ins[n])]
    BY <1>1, <1>3 DEF ConnectionsOf
  <2>4. "Partition" # "Connection"
    OBVIOUS
  <2> QED BY <2>2, <2>3, <2>4
<1> DEFINE X == {parts[c] : c \in 1 .. a} \union {connections[n] : n \in 1 .. b}
<1>7. \A e \in X : Right(e)
  BY <1>5, <1>6
<1> HIDE DEF Right
<1>8. parts \in Seq(X) /\ connections \in Seq(X)
  <2>1. DOMAIN parts = 1 .. a /\ parts = [c \in 1 .. a |-> parts[c]] /\ \A c \in 1 .. a : parts[c] \in X
    BY <1>1, <1>3 DEF PartsOf
  <2>2. /\ DOMAIN connections = 1 .. b /\ connections = [n \in 1 .. b |-> connections[n]]
        /\ \A n \in 1 .. b : connections[n] \in X
    BY <1>1, <1>3 DEF ConnectionsOf
  <2> HIDE DEF X
  <2> QED BY <2>1, <2>2, Listing
<1> HIDE DEF X
<1>9. PICK s : s = parts \o connections
  OBVIOUS
<1>10. s \in Seq(X)
  BY ONLY <1>8, <1>9, ConcatProperties
<1>11. s \in Seq(ToSet(s)) /\ \A e \in ToSet(s) : Right(e)
  BY <1>7, <1>10, SeqOfAll, ListedIn
<1> QED BY <1>4, <1>9, <1>11 DEF FileOK, Right

LEMMA RerunStep == IInv /\ Rerun => IInv'
<1> SUFFICES ASSUME IInv, Rerun PROVE IInv'
  OBVIOUS
<1>1. /\ program' = program /\ process' = 2 /\ pc = "run" /\ pc' = "start" /\ instances' = <<>>
      /\ index' = <<>> /\ affinity' = <<>> /\ created' = <<>> /\ capacity' = <<>>
      /\ numberOfReaders' = <<>> /\ output' = <<>> /\ actors' = <<>> /\ reader' = <<>>
  BY DEF Rerun
<1>2. FileOK(file')
  <2>1. PICK cut : file' = Generated(cut)
    BY DEF Rerun
  <2> QED BY <1>1, <2>1, GeneratedFile
<1>3. ControlInv'
  BY <1>1, <1>2 DEF IInv, ControlInv, ProgramInv
<1>4. InstancesInv'
  BY <1>1, NoInstance DEF InstancesInv
<1>5. PortsInv'
  <2>1. Made' = {}
    BY <1>1, NoInstance DEF Made
  <2> QED BY <1>1, <2>1, NoInstance DEF PortsInv
<1>6. CallsInv' /\ CapacityInv' /\ NamesInv' /\ PlaceInv' /\ CheckedInv'
  BY <1>1 DEF CallsInv, CapacityInv, NamesInv, PlaceInv, CheckedInv
<1>7. RunInv'
  <2>1. DOMAIN reader' = {} /\ Len(actors') = 0
    BY <1>1, NoInstance
  <2>2. 0 <= CpuSetSize
    BY SetupAssumption
  <2> QED BY <1>1, <2>1, <2>2 DEF RunInv, WiredAsDeclared, CapacityRight, PlacedAsAsked
<1> QED BY <1>3, <1>4, <1>5, <1>6, <1>7 DEF IInv

-----------------------------------------------------------------------------
(* What holds of every program.                                            *)

LEMMA IInvNext == IInv /\ [Next]_vars => IInv'
<1> SUFFICES ASSUME IInv, [Next]_vars PROVE IInv'
  OBVIOUS
<1>1. CASE Ended \/ UNCHANGED vars
  <2>1. /\ program' = program /\ calls' = calls /\ process' = process /\ pc' = pc /\ file' = file
        /\ instances' = instances /\ index' = index /\ affinity' = affinity /\ created' = created
        /\ capacity' = capacity /\ numberOfReaders' = numberOfReaders /\ output' = output /\ cpus' = cpus
        /\ actors' = actors /\ readers' = readers /\ reader' = reader /\ firstReader' = firstReader
    BY <1>1 DEF Ended, vars, instanceVars, portVars, networkVars
  <2>2. InstancesInv' /\ PortsInv' /\ Made' = Made
    BY <2>1, SameArrays DEF instanceVars, portVars
  <2>3. ControlInv'
    BY <2>1, FixedProgram DEF IInv, ControlInv, ProgramInv
  <2>4. CallsInv'
    BY <2>1, FixedProgram DEF IInv, CallsInv, Script, Creates, CreateCall
  <2>5. \A i : Name(i)' = Name(i)
    BY <2>1 DEF Name
  <2>6. \A i : AskedCpu(i)' = AskedCpu(i)
    BY <2>1, <2>5 DEF AskedCpu
  <2>7. \A p : Asked(p)' = Asked(p)
    BY <2>1, <2>5, FixedProgram DEF Asked, Sizes
  <2>8. CapacityInv' /\ NamesInv'
    BY <2>1, <2>2, <2>5, <2>7, FixedProgram DEF IInv, CapacityInv, NamesInv
  <2>9. PlaceInv' /\ Unasked' = Unasked
    <3>1. Unasked' = Unasked
      BY <2>1, <2>6, FixedProgram DEF Unasked
    <3> QED BY <2>1, <2>6, <3>1, FixedProgram DEF IInv, PlaceInv
  <2>10. CheckedInv'
    BY <2>1, FixedProgram DEF IInv, CheckedInv, WellFormed
  <2>11. RunInv'
    <3>1. WiredAsDeclared'
      <4> SUFFICES ASSUME pc = "run" PROVE WiredAsDeclared'
        BY <2>1 DEF WiredAsDeclared
      <4>1. WiredAsDeclared
        BY DEF IInv, RunInv
      <4>2. \A out : ReaderSlots(out)' = ReaderSlots(out)
        BY <2>1 DEF ReaderSlots
      <4>3. \A p \in Inputs' \union Outputs' : created'[p] = 1
        BY <2>1, <4>1, FixedProgram DEF WiredAsDeclared
      <4>4. \A p \in Inputs' : output'[p] = program'.wires[Feeding(p)'].from
        BY <2>1, <4>1, FixedProgram DEF WiredAsDeclared
      <4>5. \A out \in Outputs' : {reader[s] : s \in ReaderSlots(out)}' = {program'.wires[n].to : n \in Fed(out)'}
        <5> SUFFICES ASSUME NEW out \in Outputs
                     PROVE  {reader[s] : s \in ReaderSlots(out)}' = {program'.wires[n].to : n \in Fed(out)'}
          BY <2>1, FixedProgram
        <5>1. {reader[s] : s \in ReaderSlots(out)}' = {reader[s] : s \in ReaderSlots(out)}
          BY <2>1, <4>2
        <5>2. {program'.wires[n].to : n \in Fed(out)'} = {program.wires[n].to : n \in Fed(out)}
          BY <2>1, FixedProgram
        <5> QED BY <4>1, <5>1, <5>2 DEF WiredAsDeclared
      <4>6. \A out \in Outputs' : \A o \in Outputs' \ {out} : ReaderSlots(o)' \intersect ReaderSlots(out)' = {}
        BY <2>1, <4>1, <4>2, FixedProgram DEF WiredAsDeclared
      <4> QED BY ONLY <4>3, <4>4, <4>5, <4>6 DEF WiredAsDeclared
    <3>2. CapacityRight'
      <4> SUFFICES ASSUME pc = "run" PROVE CapacityRight'
        BY <2>1 DEF CapacityRight
      <4>1. \A p : TokensOf(p)' = TokensOf(p) /\ Wanted(p)' = Wanted(p) /\ Desc(p)' = Desc(p)
        BY <2>1, <2>7, FixedProgram DEF TokensOf, Wanted
      <4>2. \A p \in Inputs :
              /\ capacity[p] = capacity[output[p]]
              /\ Desc(p).isBytes => capacity[p] % Desc(p).tokenSize = 0
              /\ TokensOf(p) >= Asked(p) /\ TokensOf(p) >= 1
              /\ \E q \in Inputs : output[q] = output[p] /\ TokensOf(p) = Wanted(q)
        BY DEF IInv, RunInv, CapacityRight, Wanted
      <4>3. \A p \in Inputs' :
              /\ capacity'[p] = capacity'[output'[p]]
              /\ Desc(p)'.isBytes => capacity'[p] % Desc(p)'.tokenSize = 0
              /\ TokensOf(p)' >= Asked(p)' /\ TokensOf(p)' >= 1
              /\ \E q \in Inputs' : output'[q] = output'[p] /\ TokensOf(p)' = Wanted(q)'
        BY <2>1, <2>7, <4>1, <4>2, FixedProgram
      <4> QED BY ONLY <4>3 DEF CapacityRight, Wanted
    <3>3. PlacedAsAsked' = PlacedAsAsked
      <4>1. \A i : RunsOn(i)' = RunsOn(i)
        BY <2>1 DEF RunsOn
      <4> QED BY <2>1, <2>6, <4>1, FixedProgram DEF PlacedAsAsked
    <3> QED BY <2>1, <3>1, <3>2, <3>3, FixedProgram DEF IInv, RunInv, Placed
  <2> QED BY <2>2, <2>3, <2>4, <2>8, <2>9, <2>10, <2>11 DEF IInv
<1>2. CASE createActorInstance \/ setParameter \/ createInputPort \/ createOutputPort \/ connectPorts
  BY <1>2, InstanceStep, ParameterStep, InputPortStep, OutputPortStep, ConnectStep
<1>3. CASE Start \/ ParseOptions \/ index_nodes \/ set_config \/ check_network \/ allocate_network \/ Rerun
  BY <1>3, StartStep, OptionsStep, IndexStep, ConfigStep, CheckStep, AllocateStep, RerunStep
<1> QED BY <1>1, <1>2, <1>3 DEF Next

LEMMA Invariant == Spec => []IInv
BY IInvInit, IInvNext, PTL DEF Spec

\* Every field has a value of its type, an affinity is a CPU that there is, and a
\* reader is an input of the program.
THEOREM SetupTypes == Spec => []TypeOK
<1>1. IInv => TypeOK
  <2> SUFFICES ASSUME IInv PROVE TypeOK
    OBVIOUS
  <2>1. /\ program \in Programs /\ process \in {1, 2}
        /\ pc \in {"start", "main", "index", "config", "check", "allocate", "run", "exit", "crash"}
    BY DEF IInv, ControlInv, ProgramInv
  <2>2. \A n \in DOMAIN instances : instances[n] \in Insts
    BY DEF IInv, InstancesInv
  <2>3. /\ DOMAIN index = ToSet(instances) /\ DOMAIN affinity = ToSet(instances)
        /\ \A i \in DOMAIN index : index[i] \in Int /\ affinity[i] \in -1 .. CpuSetSize - 1
    BY DEF IInv, InstancesInv
  <2>4. pc \in {"allocate", "run"} => \A i \in Insts : affinity[i] # -1
    BY DEF IInv, CheckedInv
  <2>5. \A p \in DOMAIN created : created[p] \in Nat /\ capacity[p] \in Nat
    BY DEF IInv, PortsInv
  <2>6. \A p \in DOMAIN output : output[p] \in Outputs \union {NoPort}
    BY <2>1, WireFacts DEF IInv, PortsInv, ProgramInv
  <2>7. \A s \in DOMAIN reader : reader[s] \in Inputs \union {NoPort}
    BY DEF IInv, RunInv
  <2> QED BY <2>1, <2>2, <2>3, <2>4, <2>5, <2>6, <2>7 DEF TypeOK
<1> QED BY <1>1, Invariant, PTL

\* A network that runs has the connections that main declares and no others, and the
\* readers of two outputs are stored apart: check_network lets nothing else through,
\* and allocate_network fills the array of readers without a gap.
THEOREM WiringIsDeclared == Spec => []WiredAsDeclared
<1>1. IInv => WiredAsDeclared
  BY DEF IInv, RunInv
<1> QED BY <1>1, Invariant, PTL

\* A FIFO has as many tokens as each of its readers asks for, whether the file or
\* main asks, and no more than one of them asks for or has by default.
THEOREM CapacityIsAsked == Spec => []CapacityRight
<1>1. IInv => CapacityRight
  BY DEF IInv, RunInv
<1> QED BY <1>1, Invariant, PTL

\* Instances run together when they have one affinity, and CPUs are in the order of
\* the affinities; with one instance that has none there is one CPU.
THEOREM PlacementIsAsked == Spec => []PlacedAsAsked
<1>1. IInv => PlacedAsAsked
  BY DEF IInv, RunInv
<1> QED BY <1>1, Invariant, PTL

\* An instance does not read an output on two of its inputs.
ReadsOnce(prog) ==
  \A m, n \in DOMAIN prog.wires :
    /\ prog.wires[m].from = prog.wires[n].from
    /\ prog.wires[m].to[1] = prog.wires[n].to[1]
    => m = n
LEMMA RunningCpus ==
  ASSUME IInv, pc = "run"
  PROVE  /\ Len(actors) \in Nat \ {0} /\ DOMAIN actors = 1 .. Len(actors) /\ Len(cpus) = Len(actors)
         /\ \A c \in 1 .. Len(actors) :
              /\ actors[c] \in Seq(Insts) /\ actors[c] # <<>>
              /\ \A m, n \in 1 .. Len(actors[c]) : actors[c][m] = actors[c][n] => m = n
              /\ \A n \in 1 .. Len(actors[c]) : actors[c][n] \in Insts /\ RunsOn(actors[c][n]) = c
         /\ \A i \in Insts : /\ RunsOn(i) \in 1 .. Len(actors)
                             /\ \E n \in 1 .. Len(actors[RunsOn(i)]) : actors[RunsOn(i)][n] = i
<1>1. /\ actors \in Seq(Seq(Insts)) /\ Len(actors) # 0 /\ Len(cpus) = Len(actors)
      /\ \A c \in 1 .. Len(actors) :
           /\ actors[c] # <<>>
           /\ \A m, n \in 1 .. Len(actors[c]) : actors[c][m] = actors[c][n] => m = n
      /\ \A i \in Insts : \E c \in 1 .. Len(actors) : i \in ToSet(actors[c])
      /\ \A c, d \in 1 .. Len(actors) : \A i \in ToSet(actors[c]) : i \in ToSet(actors[d]) => c = d
  BY DEF IInv, RunInv, Placed
<1>2. PICK k \in Nat \ {0} : k = Len(actors) /\ DOMAIN actors = 1 .. k
  BY <1>1, LenProperties
<1>3. \A c \in 1 .. k : actors[c] \in Seq(Insts)
  BY <1>1, <1>2, ElementOfSeq
<1>4. \A i \in Insts : \A c \in 1 .. k : i \in ToSet(actors[c]) => RunsOn(i) = c
  BY <1>1, <1>2 DEF RunsOn
<1>5. ASSUME NEW c \in 1 .. k, NEW n \in 1 .. Len(actors[c])
      PROVE  actors[c][n] \in Insts /\ RunsOn(actors[c][n]) = c
  <2>1. actors[c][n] \in Insts
    BY <1>3, <1>5, ElementOfSeq
  <2>2. actors[c][n] \in ToSet(actors[c])
    BY <1>3, <1>5, LenProperties DEF ToSet
  <2> QED BY <1>4, <2>1, <2>2
<1>6. ASSUME NEW i \in Insts
      PROVE  RunsOn(i) \in 1 .. k /\ \E n \in 1 .. Len(actors[RunsOn(i)]) : actors[RunsOn(i)][n] = i
  <2>1. PICK c \in 1 .. k : i \in ToSet(actors[c])
    BY <1>1, <1>2
  <2>2. RunsOn(i) = c
    BY <1>4, <2>1
  <2> QED BY <1>3, <2>1, <2>2, ListedIn
<1> QED BY <1>1, <1>2, <1>3, <1>5, <1>6

LEMMA RunningPorts ==
  ASSUME IInv, pc = "run", ReadsOnce(program)
  PROVE  /\ \A i \in Insts : \A j \in 1 .. Len(Class(i).ins) :
              /\ output[<<i, "in", j>>] \in Outputs
              /\ \A l \in 1 .. Len(Class(i).ins) : output[<<i, "in", j>>] = output[<<i, "in", l>>] => j = l
         /\ \A out \in Outputs : capacity[out] \in Nat \ {0}
<1>1. /\ ProgramInv /\ WiredAsDeclared /\ CapacityRight /\ ToSet(instances) = Insts
  BY DEF IInv, ControlInv, RunInv
<1>2. \A p \in Inputs : output[p] = Declared(p) /\ output[p] \in Outputs
  BY <1>1, WireFacts DEF WiredAsDeclared, Declared
<1>3. ASSUME NEW i \in Insts, NEW j \in 1 .. Len(Class(i).ins)
      PROVE  /\ output[<<i, "in", j>>] \in Outputs
             /\ \A l \in 1 .. Len(Class(i).ins) : output[<<i, "in", j>>] = output[<<i, "in", l>>] => j = l
  <2>1. \A l \in 1 .. Len(Class(i).ins) : <<i, "in", l>> \in Inputs
    BY <1>1, PortFacts
  <2>2. ASSUME NEW l \in 1 .. Len(Class(i).ins), output[<<i, "in", j>>] = output[<<i, "in", l>>]
        PROVE  j = l
    <3>1. PICK p \in Inputs, q \in Inputs : p = <<i, "in", j>> /\ q = <<i, "in", l>> /\ output[p] = output[q]
      BY <2>1, <2>2
    <3>2. p[1] = i /\ q[1] = i /\ p[3] = j /\ q[3] = l
      BY <3>1
    <3>3. /\ Feeding(p) \in DOMAIN program.wires /\ Feeding(q) \in DOMAIN program.wires
          /\ program.wires[Feeding(p)].to = p /\ program.wires[Feeding(q)].to = q
          /\ program.wires[Feeding(p)].from = program.wires[Feeding(q)].from
      BY <1>1, <1>2, <3>1, WireFacts DEF Declared, Wires
    <3>4. Feeding(p) = Feeding(q)
      BY <3>2, <3>3 DEF ReadsOnce
    <3>5. p = q
      BY <3>3, <3>4
    <3> QED BY <3>2, <3>5
  <2> QED BY <1>2, <2>1, <2>2
<1>4. ASSUME NEW out \in Outputs PROVE capacity[out] \in Nat \ {0}
  <2>1. Made = Ports
    BY <1>1, PortFacts DEF Made, Ports
  <2>2. PICK c \in Nat : c = capacity[out]
    BY <2>1 DEF IInv, PortsInv, Ports
  <2>3. PICK n \in Fed(out) : TRUE
    <3>1. IsFiniteSet(Fed(out)) /\ Cardinality(Fed(out)) # 0
      BY <1>1, WireFacts
    <3> QED BY <3>1, FS_EmptySet
  <2>4. PICK p \in Inputs : output[p] = out
    <3>1. PICK p \in Inputs : p = program.wires[n].to /\ n \in Wires /\ program.wires[n].from = out
      BY <1>1, WireFacts DEF Fed, Wires
    <3>2. n = Feeding(p)
      BY <1>1, <3>1, WireFacts
    <3> QED BY <1>2, <3>1, <3>2 DEF Declared
  <2>5. capacity[p] = c /\ TokensOf(p) >= 1
    BY <1>1, <2>2, <2>4 DEF CapacityRight
  <2>6. PICK ts \in Nat \ {0} : ts = Desc(out).tokenSize
    BY <1>1, DescFacts DEF Ports
  <2>7. TokensOf(p) = IF Desc(out).isBytes THEN c \div ts ELSE c
    BY <2>4, <2>5, <2>6 DEF TokensOf
  <2>8. 0 \div ts = 0
    OBVIOUS
  <2>9. c # 0
    BY <2>5, <2>7, <2>8
  <2> QED BY <2>2, <2>9
<1> QED BY <1>3, <1>4

\* The shape of a network of k CPUs, as Network has it.
Shaped(k, on, at, ins, outs, writer, cap) ==
  /\ k \in Nat \ {0}
  /\ IsFiniteSet(Insts)
  /\ on \in [0 .. k - 1 -> Seq(Insts)]
  /\ at \in [Insts -> 0 .. k - 1]
  /\ \A c \in 0 .. k - 1 :
       /\ on[c] # <<>>
       /\ \A m, n \in DOMAIN on[c] : on[c][m] = on[c][n] => m = n
       /\ \A n \in 1 .. Len(on[c]) : at[on[c][n]] = c
  /\ \A i \in Insts : \E n \in 1 .. Len(on[at[i]]) : on[at[i]][n] = i
  /\ ins \in [Insts -> Seq(Outputs)]
  /\ outs \in [Insts -> Seq(Outputs)]
  /\ writer \in [Outputs -> Insts]
  /\ \A i \in Insts :
       /\ \A m, n \in DOMAIN ins[i] : ins[i][m] = ins[i][n] => m = n
       /\ \A m, n \in DOMAIN outs[i] : outs[i][m] = outs[i][n] => m = n
       /\ \A n \in 1 .. Len(outs[i]) : writer[outs[i][n]] = i
  /\ \A out \in Outputs : \E n \in 1 .. Len(outs[writer[out]]) : outs[writer[out]][n] = out
  /\ cap \in [Outputs -> Nat \ {0}]

LEMMA ShapeOfNetwork ==
  ASSUME IInv, \A prog \in Programs : ReadsOnce(prog)
  PROVE  ShapeHolds
<1> SUFFICES ASSUME pc = "run" PROVE Built!ShapeAssumption
  BY DEF ShapeHolds
<1>1. ProgramInv /\ ReadsOnce(program)
  BY SMTT(30) DEF IInv, ControlInv, ProgramInv
<1>2. PICK k \in Nat \ {0} : k = Len(actors) /\ Len(cpus) = k
  BY RunningCpus
<1>3. IsFiniteSet(Insts)
  BY <1>1, ProgramIs, PrefixCount DEF Insts
<1>13. PICK on, at : /\ on = [c \in 0 .. Len(cpus) - 1 |-> actors[c + 1]]
                     /\ at = [i \in Insts |-> RunsOn(i) - 1]
  OBVIOUS
<1>14. PICK ins, outs : /\ ins = [i \in Insts |-> [j \in 1 .. Len(Class(i).ins) |-> output[<<i, "in", j>>]]]
                        /\ outs = [i \in Insts |-> [j \in 1 .. Len(Class(i).outs) |-> <<i, "out", j>>]]
  OBVIOUS
<1>15. PICK writer, cap : /\ writer = [out \in Outputs |-> out[1]]
                          /\ cap = [out \in Outputs |-> capacity[out]]
  OBVIOUS
<1>4. ASSUME NEW c \in 0 .. k - 1
      PROVE  /\ on[c] \in Seq(Insts) /\ on[c] # <<>>
             /\ \A m, n \in DOMAIN on[c] : on[c][m] = on[c][n] => m = n
             /\ \A n \in 1 .. Len(on[c]) : at[on[c][n]] = c
  <2>1. c + 1 \in 1 .. k /\ (c + 1) - 1 = c
    OBVIOUS
  <2>2. on[c] = actors[c + 1]
    BY <1>2, <1>13
  <2>3. actors[c + 1] \in Seq(Insts) /\ DOMAIN actors[c + 1] = 1 .. Len(actors[c + 1])
    BY <1>2, <2>1, RunningCpus, LenProperties
  <2>4. /\ actors[c + 1] # <<>>
        /\ \A m, n \in 1 .. Len(actors[c + 1]) : actors[c + 1][m] = actors[c + 1][n] => m = n
        /\ \A n \in 1 .. Len(actors[c + 1]) : actors[c + 1][n] \in Insts /\ RunsOn(actors[c + 1][n]) = c + 1
    BY <1>2, <2>1, RunningCpus
  <2>5. \A n \in 1 .. Len(on[c]) : at[on[c][n]] = c
    BY <1>13, <2>1, <2>2, <2>4
  <2> QED BY <2>2, <2>3, <2>4, <2>5
<1>5. on \in [0 .. k - 1 -> Seq(Insts)]
  BY <1>2, <1>4, <1>13
<1>6. ASSUME NEW i \in Insts PROVE at[i] \in 0 .. k - 1 /\ \E n \in 1 .. Len(on[at[i]]) : on[at[i]][n] = i
  <2>1. PICK c \in 1 .. k : c = RunsOn(i)
    BY <1>2, RunningCpus
  <2>2. at[i] = c - 1 /\ c - 1 \in 0 .. k - 1 /\ (c - 1) + 1 = c
    BY <1>13, <2>1
  <2>3. on[at[i]] = actors[c]
    BY <1>2, <1>13, <2>2
  <2>4. \E n \in 1 .. Len(actors[c]) : actors[c][n] = i
    BY <2>1, RunningCpus
  <2> QED BY <2>2, <2>3, <2>4
<1>7. ASSUME NEW i \in Insts
      PROVE  /\ ins[i] \in Seq(Outputs) /\ \A m, n \in DOMAIN ins[i] : ins[i][m] = ins[i][n] => m = n
             /\ outs[i] \in Seq(Outputs) /\ \A m, n \in DOMAIN outs[i] : outs[i][m] = outs[i][n] => m = n
             /\ \A n \in 1 .. Len(outs[i]) : writer[outs[i][n]] = i
             /\ Len(outs[i]) = Len(Class(i).outs)
  <2>1. PICK a \in Nat, b \in Nat : a = Len(Class(i).ins) /\ b = Len(Class(i).outs)
    BY <1>1, ClassFacts
  <2>2. PICK f, g : f = [j \in 1 .. a |-> output[<<i, "in", j>>]] /\ g = [j \in 1 .. b |-> <<i, "out", j>>]
    OBVIOUS
  <2>3. ins[i] = f /\ outs[i] = g
    BY <1>14, <2>1, <2>2
  <2>4. \A j \in 1 .. a : f[j] \in Outputs /\ \A l \in 1 .. a : f[j] = f[l] => j = l
    BY <1>1, <2>1, <2>2, RunningPorts
  <2>5. DOMAIN f = 1 .. a /\ f = [j \in 1 .. a |-> f[j]] /\ \A j \in 1 .. a : f[j] \in Outputs
    BY <2>2, <2>4
  <2>6. f \in Seq(Outputs)
    BY <2>5, Listing
  <2>7. \A j \in 1 .. b : g[j] \in Outputs /\ g[j] = <<i, "out", j>>
    BY <1>1, <2>1, <2>2, PortFacts
  <2>8. DOMAIN g = 1 .. b /\ g = [j \in 1 .. b |-> g[j]] /\ \A j \in 1 .. b : g[j] \in Outputs
    BY <2>2, <2>7
  <2>9. g \in Seq(Outputs) /\ Len(g) = b
    BY <2>8, Listing
  <2>10. \A m, n \in 1 .. b : g[m] = g[n] => m = n
    BY <2>7
  <2>11. \A n \in 1 .. b : writer[g[n]] = i
    BY <1>15, <2>7
  <2> QED BY ZenonT(40), <2>1, <2>3, <2>4, <2>5, <2>6, <2>8, <2>9, <2>10, <2>11
<1>8. writer \in [Outputs -> Insts]
  BY <1>1, <1>15, PortFacts
<1>9. ASSUME NEW out \in Outputs PROVE \E n \in 1 .. Len(outs[writer[out]]) : outs[writer[out]][n] = out
  <2>1. out[1] \in Insts /\ out[3] \in 1 .. Len(Class(out[1]).outs) /\ out = <<out[1], "out", out[3]>>
    BY <1>1, PortFacts
  <2>2. writer[out] = out[1] /\ Len(outs[out[1]]) = Len(Class(out[1]).outs)
    BY <1>7, <1>15, <2>1
  <2>3. outs[out[1]][out[3]] = <<out[1], "out", out[3]>>
    BY <1>14, <2>1
  <2> QED BY <2>1, <2>2, <2>3
<1>10. cap \in [Outputs -> Nat \ {0}]
  BY <1>1, <1>15, RunningPorts
<1>11. ins \in [Insts -> Seq(Outputs)] /\ outs \in [Insts -> Seq(Outputs)] /\ at \in [Insts -> 0 .. k - 1]
  BY <1>6, <1>7, <1>13, <1>14
<1>12. Shaped(k, on, at, ins, outs, writer, cap)
  BY <1>3, <1>4, <1>5, <1>6, <1>7, <1>8, <1>9, <1>10, <1>11 DEF Shaped
<1>16. Shaped(Len(cpus), [c \in 0 .. Len(cpus) - 1 |-> actors[c + 1]], [i \in Insts |-> RunsOn(i) - 1],
              [i \in Insts |-> [j \in 1 .. Len(Class(i).ins) |-> output[<<i, "in", j>>]]],
              [i \in Insts |-> [j \in 1 .. Len(Class(i).outs) |-> <<i, "out", j>>]],
              [out \in Outputs |-> out[1]], [out \in Outputs |-> capacity[out]])
  BY ONLY <1>2, <1>12, <1>13, <1>14, <1>15
<1>17. Built!IsFiniteSet(Insts) <=> IsFiniteSet(Insts)
  BY DEF Built!IsFiniteSet, IsFiniteSet
<1> QED BY ONLY <1>16, <1>17, Zenon DEF Shaped, Built!ShapeAssumption, Built!Cpu, Built!OneToOne

\* If no instance reads an output twice, the network that the threads are given is one
\* as the models of the threads assume: each instance is on one CPU, no CPU has none,
\* every FIFO has one writer, and room for a token.
THEOREM NetworkHasShape ==
  ASSUME \A prog \in Programs : ReadsOnce(prog)
  PROVE  Spec => []ShapeHolds
<1>1. IInv => ShapeHolds
  BY ShapeOfNetwork
<1> QED BY <1>1, Invariant, PTL
=============================================================================

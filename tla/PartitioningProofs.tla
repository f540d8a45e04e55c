------------------------- MODULE PartitioningProofs -------------------------
(***************************************************************************)
(* What a compilation of PartitioningPhase writes, for every network,      *)
(* every profile and every script of configurations.                       *)
(***************************************************************************)
EXTENDS PartitioningPhase, FoldFacts, SequenceTheorems

-----------------------------------------------------------------------------
(* The numbering of the sets of instances on the accelerator.              *)

Sets == (SUBSET Names) \ {{}}
Maps == UNION {[I -> Nat] : I \in SUBSET (Nat \X Nat)}

\* What uniqueHardwarePartitions, solutionCount and solutionToUniqueHwMap hold.
Numberings ==
  {acc \in [unique : Seq(Sets), count : Nat, map : Maps] :
     /\ acc.count = Len(acc.unique) /\ IsInjective(acc.unique)
     /\ \A id \in DOMAIN acc.map : acc.map[id] \in 0 .. acc.count - 1}

\* The set that an entry of the map stands for.
Hardware(acc, id) == acc.unique[acc.map[id] + 1]

Solved(s) == s.id \in Nat \X Nat /\ s.hardware \in Sets

LEMMA NumberSolutionMap ==
  ASSUME NEW acc \in Numberings, NEW s, Solved(s)
  PROVE  /\ DOMAIN NumberSolution(acc, s).map = DOMAIN acc.map \union {s.id}
         /\ \A id \in DOMAIN acc.map \ {s.id} : NumberSolution(acc, s).map[id] = acc.map[id]
<1> DEFINE r == NumberSolution(acc, s)
           known == {n \in DOMAIN acc.unique : acc.unique[n] = s.hardware}
           index == IF known = {} THEN acc.count ELSE Min(known) - 1
<1>1. r.map = Over([id \in {s.id} |-> index], acc.map)
  BY DEF NumberSolution
<1> HIDE DEF index, r
<1> QED BY <1>1 DEF r, Over

LEMMA NumberSolutionIndex ==
  ASSUME NEW acc \in Numberings, NEW s, Solved(s)
  PROVE  LET r == NumberSolution(acc, s)
         IN /\ r.map[s.id] \in 0 .. r.count - 1
            /\ r.unique[r.map[s.id] + 1] = s.hardware
            /\ r.unique \in Seq(Sets) /\ r.count = Len(r.unique) /\ IsInjective(r.unique)
            /\ acc.count <= r.count /\ \A n \in 1 .. acc.count : r.unique[n] = acc.unique[n]
<1> DEFINE r == NumberSolution(acc, s)
           known == {n \in DOMAIN acc.unique : acc.unique[n] = s.hardware}
           index == IF known = {} THEN acc.count ELSE Min(known) - 1
<1>0. /\ acc.unique \in Seq(Sets) /\ acc.count \in Nat /\ acc.count = Len(acc.unique)
      /\ \A n, m \in 1 .. acc.count : acc.unique[n] = acc.unique[m] => n = m
      /\ DOMAIN acc.unique = 1 .. acc.count /\ s.hardware \in Sets
  BY DEF Numberings, IsInjective, Solved
<1>1. r.map[s.id] = index
  <2>1. r.map = Over([id \in {s.id} |-> index], acc.map)
    BY DEF NumberSolution
  <2> HIDE DEF index, r
  <2> QED BY <2>1 DEF Over
<1>2. CASE known = {}
  <2>1. r.unique = Append(acc.unique, s.hardware) /\ r.count = acc.count + 1 /\ index = acc.count
    BY <1>2 DEF NumberSolution
  <2>2. /\ r.unique \in Seq(Sets) /\ Len(r.unique) = acc.count + 1
        /\ \A n \in 1 .. acc.count : r.unique[n] = acc.unique[n]
        /\ r.unique[acc.count + 1] = s.hardware
        /\ DOMAIN r.unique = 1 .. acc.count + 1
    BY <1>0, <2>1
  <2>3. \A n \in 1 .. acc.count : acc.unique[n] # s.hardware
    BY <1>0, <1>2
  <2> HIDE DEF r, known, index
  <2>4. ASSUME NEW n \in DOMAIN r.unique, NEW m \in DOMAIN r.unique, r.unique[n] = r.unique[m]
        PROVE  n = m
    <3>1. CASE n \in 1 .. acc.count /\ m \in 1 .. acc.count
      BY <1>0, <2>2, <2>4, <3>1
    <3>2. CASE n = acc.count + 1 \/ m = acc.count + 1
      BY <1>0, <2>2, <2>3, <2>4, <3>2
    <3> QED BY <1>0, <2>2, <3>1, <3>2
  <2>5. IsInjective(r.unique)
    BY <2>4 DEF IsInjective
  <2> QED BY <1>0, <1>1, <2>1, <2>2, <2>5 DEF r
<1>3. CASE known # {}
  <2>1. known \subseteq Nat
    BY <1>0
  <2>2. Min(known) \in known
    BY <1>3, <2>1, MinFacts
  <2>3. PICK m \in 1 .. acc.count : m = Min(known) /\ acc.unique[m] = s.hardware
    BY <1>0, <2>2
  <2>4. r.unique = acc.unique /\ r.count = acc.count /\ index = m - 1
    BY <1>3, <2>3 DEF NumberSolution
  <2>5. IsInjective(acc.unique)
    BY DEF Numberings
  <2> HIDE DEF r, known, index
  <2>6. index \in 0 .. r.count - 1 /\ index + 1 = m
    BY <1>0, <2>4
  <2> QED BY <1>0, <1>1, <2>3, <2>4, <2>5, <2>6 DEF r
<1> QED BY <1>2, <1>3

\* Numbering a solution gives its set an index and leaves what is numbered.
LEMMA NumberSolutionFacts ==
  ASSUME NEW acc \in Numberings, NEW s, Solved(s)
  PROVE  LET r == NumberSolution(acc, s)
         IN /\ r \in Numberings
            /\ DOMAIN r.map = DOMAIN acc.map \union {s.id}
            /\ Hardware(r, s.id) = s.hardware
            /\ \A id \in DOMAIN acc.map \ {s.id} : Hardware(r, id) = Hardware(acc, id)
<1> DEFINE r == NumberSolution(acc, s)
<1>0. /\ acc.count \in Nat /\ \A id \in DOMAIN acc.map : acc.map[id] \in 0 .. acc.count - 1
      /\ DOMAIN acc.map \subseteq Nat \X Nat /\ s.id \in Nat \X Nat
  BY DEF Numberings, Maps, Solved
<1>1. /\ DOMAIN r.map = DOMAIN acc.map \union {s.id}
      /\ \A id \in DOMAIN acc.map \ {s.id} : r.map[id] = acc.map[id]
  BY NumberSolutionMap
<1>2. /\ r.map[s.id] \in 0 .. r.count - 1
      /\ r.unique[r.map[s.id] + 1] = s.hardware
      /\ r.unique \in Seq(Sets) /\ r.count = Len(r.unique) /\ IsInjective(r.unique)
      /\ acc.count <= r.count /\ \A n \in 1 .. acc.count : r.unique[n] = acc.unique[n]
  BY NumberSolutionIndex
<1>3. r.map = [x \in DOMAIN r.map |-> r.map[x]] /\ r = [unique |-> r.unique, count |-> r.count, map |-> r.map]
  BY DEF NumberSolution, Over
<1> HIDE DEF r
<1>4. r.count \in Nat
  BY <1>2
<1>5. ASSUME NEW id \in DOMAIN r.map PROVE r.map[id] \in 0 .. r.count - 1
  <2>1. CASE id = s.id
    BY <1>2, <2>1
  <2>2. CASE id # s.id
    <3>1. r.map[id] = acc.map[id] /\ acc.map[id] \in 0 .. acc.count - 1
      BY <1>0, <1>1, <2>2
    <3> QED BY <1>0, <1>2, <1>4, <3>1
  <2> QED BY <2>1, <2>2
<1>6. r.map \in Maps
  <2>1. DOMAIN r.map \in SUBSET (Nat \X Nat)
    BY <1>0, <1>1
  <2>2. r.map \in [DOMAIN r.map -> Nat]
    BY <1>3, <1>5
  <2> QED BY <2>1, <2>2 DEF Maps
<1>7. r \in Numberings
  BY <1>2, <1>3, <1>4, <1>5, <1>6 DEF Numberings
<1>8. ASSUME NEW id \in DOMAIN acc.map \ {s.id} PROVE Hardware(r, id) = Hardware(acc, id)
  <2>1. r.map[id] = acc.map[id] /\ acc.map[id] + 1 \in 1 .. acc.count
    BY <1>0, <1>1
  <2> QED BY <1>2, <2>1 DEF Hardware
<1> QED BY <1>1, <1>2, <1>7, <1>8 DEF Hardware, r

\* What NumberHardware folds, and the recursive function that does it.
Row(pool, n) == [id |-> <<cores, n - 1>>, hardware |-> pool[n].partitions[cores]]
Rows(pool) == [n \in DOMAIN pool |-> Row(pool, n)]
Numbers(pool, it) ==
  it = [s \in SUBSET DOMAIN Rows(pool) |->
          IF s = {} THEN numbering ELSE NumberSolution(it[s \ {Max(s)}], Rows(pool)[Max(s)])]

LEMMA NumberHardwareIs ==
  \A pool : NumberHardware(pool) = (CHOOSE it : Numbers(pool, it))[DOMAIN Rows(pool)]
BY DEF NumberHardware, FoldLeft, MapThenFoldSet, Numbers, Rows, Row

PoolOK(pool, N) ==
  /\ N \in Nat /\ cores \in Nat /\ numbering \in Numberings
  /\ DOMAIN pool = 1 .. N /\ \A n \in 1 .. N : pool[n].partitions[cores] \in Sets

\* The numberings after each solution.
Steps(acc, pool, N) ==
  /\ acc \in [0 .. N -> Numberings] /\ acc[0] = numbering
  /\ \A i \in 0 .. N - 1 : acc[i + 1] = NumberSolution(acc[i], Row(pool, i + 1))

LEMMA NumbersDefined ==
  ASSUME NEW pool, NEW N, PoolOK(pool, N)
  PROVE  \E it : Numbers(pool, it)
<1> DEFINE F == [p \in (1 .. N) \X Numberings |-> NumberSolution(p[2], Row(pool, p[1]))]
<1>0. /\ N \in Nat /\ cores \in Nat /\ numbering \in Numberings
      /\ DOMAIN pool = 1 .. N /\ \A n \in 1 .. N : pool[n].partitions[cores] \in Sets
  BY DEF PoolOK
<1>1. DOMAIN Rows(pool) = 1 .. N /\ \A n \in 1 .. N : Rows(pool)[n] = Row(pool, n)
  BY <1>0 DEF Rows
<1>2. \A n \in 1 .. N : Solved(Row(pool, n))
  BY <1>0 DEF Solved, Row
<1>3. \A n \in 1 .. N, d \in Numberings :
        F[<<n, d>>] \in Numberings /\ F[<<n, d>>] = NumberSolution(d, Row(pool, n))
  BY <1>2, NumberSolutionFacts
<1> HIDE DEF F
<1>4. PICK it : IsLeftFold(it, N, Numberings, numbering, F)
  <2>1. FoldsLeft(N, Numberings, numbering, F)
    BY <1>0, <1>3 DEF FoldsLeft
  <2> QED BY <2>1, LeftFoldExists
<1>5. ASSUME NEW s \in SUBSET (1 .. N), s # {}
      PROVE  F[<<Max(s), it[s \ {Max(s)}]>>] = NumberSolution(it[s \ {Max(s)}], Rows(pool)[Max(s)])
  <2>1. Max(s) \in s
    <3>1. IsFiniteSet(1 .. N)
      BY <1>0, FS_Interval
    <3>2. IsFiniteSet(s)
      BY <3>1, FS_Subset
    <3>3. s \subseteq Int
      OBVIOUS
    <3> QED BY <1>5, <3>2, <3>3, MaxFacts
  <2>2. s \ {Max(s)} \in SUBSET (1 .. N) /\ it[s \ {Max(s)}] \in Numberings
    BY <1>4 DEF IsLeftFold
  <2> QED BY <1>1, <1>3, <2>1, <2>2
<1>6. it = [s \in SUBSET DOMAIN Rows(pool) |->
             IF s = {} THEN numbering ELSE F[<<Max(s), it[s \ {Max(s)}]>>]]
  BY <1>1, <1>4 DEF IsLeftFold
<1>7. it = [s \in SUBSET DOMAIN Rows(pool) |->
             IF s = {} THEN numbering ELSE NumberSolution(it[s \ {Max(s)}], Rows(pool)[Max(s)])]
  BY <1>1, <1>5, <1>6
<1> QED BY <1>7 DEF Numbers

LEMMA NumberHardwareSteps ==
  ASSUME NEW pool, NEW N, PoolOK(pool, N)
  PROVE  \E acc : Steps(acc, pool, N) /\ NumberHardware(pool) = acc[N]
<1>0. /\ N \in Nat /\ cores \in Nat /\ numbering \in Numberings
      /\ DOMAIN pool = 1 .. N /\ \A n \in 1 .. N : pool[n].partitions[cores] \in Sets
  BY DEF PoolOK
<1>1. DOMAIN Rows(pool) = 1 .. N /\ \A n \in 1 .. N : Rows(pool)[n] = Row(pool, n) /\ Solved(Row(pool, n))
  BY <1>0 DEF Rows, Row, Solved
<1>2. PICK it : Numbers(pool, it) /\ NumberHardware(pool) = it[1 .. N]
  BY <1>1, NumbersDefined, NumberHardwareIs
<1> DEFINE acc == [i \in 0 .. N |-> it[1 .. i]]
           Good == {i \in Nat : i <= N => acc[i] \in Numberings}
<1>3. acc[0] = numbering /\ acc[N] = it[1 .. N]
  <2>1. 1 .. 0 = {} /\ {} \in SUBSET DOMAIN Rows(pool)
    OBVIOUS
  <2>2. it[{}] = numbering
    BY <1>2, <2>1 DEF Numbers
  <2> QED BY <1>0, <2>1, <2>2
<1>4. ASSUME NEW i \in 0 .. N - 1 PROVE acc[i + 1] = NumberSolution(acc[i], Row(pool, i + 1))
  <2>1. i + 1 \in Nat \ {0} /\ i + 1 \in 0 .. N /\ i \in 0 .. N /\ i + 1 \in 1 .. N
    BY <1>0
  <2>2. /\ Max(1 .. i + 1) = i + 1 /\ (1 .. i + 1) \ {i + 1} = 1 .. i
        /\ 1 .. i + 1 # {} /\ 1 .. i + 1 \in SUBSET DOMAIN Rows(pool)
    <3>1. Max(1 .. i + 1) = i + 1
      BY <2>1, MaxPrefix
    <3>2. (1 .. i + 1) \ {i + 1} = 1 .. i /\ 1 .. i + 1 # {}
      <4>1. i \in Nat
        BY <1>0
      <4> QED BY ONLY <4>1, PrefixTake
    <3>3. 1 .. i + 1 \subseteq 1 .. N
      BY <1>0, <2>1
    <3> QED BY <1>1, <3>1, <3>2, <3>3
  <2>3. PICK s \in SUBSET DOMAIN Rows(pool) : s = 1 .. i + 1
    BY <2>2
  <2>4. it[s] = NumberSolution(it[s \ {Max(s)}], Rows(pool)[Max(s)])
    BY <1>2, <2>2, <2>3 DEF Numbers
  <2>5. it[s] = NumberSolution(it[1 .. i], Row(pool, i + 1))
    BY ONLY <1>1, <2>1, <2>2, <2>3, <2>4
  <2>6. acc[i + 1] = it[s] /\ acc[i] = it[1 .. i]
    BY <2>1, <2>3
  <2> HIDE DEF acc
  <2> QED BY ONLY <2>5, <2>6
<1> HIDE DEF acc
<1>5. 0 \in Good
  BY <1>0, <1>3
<1>6. ASSUME NEW i \in Good PROVE i + 1 \in Good
  <2> SUFFICES ASSUME i + 1 <= N PROVE acc[i + 1] \in Numberings
    OBVIOUS
  <2>1. i \in 0 .. N - 1 /\ i + 1 \in 1 .. N /\ acc[i] \in Numberings
    BY <1>0
  <2>2. NumberSolution(acc[i], Row(pool, i + 1)) \in Numberings
    BY <1>1, <2>1, NumberSolutionFacts
  <2> QED BY <1>4, <2>1, <2>2
<1>7. Good = Nat
  <2>1. Good \subseteq Nat
    OBVIOUS
  <2> HIDE DEF Good
  <2> QED BY <1>5, <1>6, <2>1, Induction
<1>8. acc \in [0 .. N -> Numberings]
  <2>1. \A i \in 0 .. N : acc[i] \in Numberings
    BY <1>0, <1>7
  <2> QED BY <2>1 DEF acc
<1>9. Steps(acc, pool, N)
  BY <1>3, <1>4, <1>8 DEF Steps
<1> QED BY <1>2, <1>3, <1>9

\* Numbering the solutions of one call of the solver numbers all of them, and
\* leaves what earlier calls of the compilation numbered.
LEMMA NumberHardwareFacts ==
  ASSUME NEW pool, NEW N, PoolOK(pool, N)
  PROVE  LET r == NumberHardware(pool)
         IN /\ r \in Numberings
            /\ DOMAIN r.map = DOMAIN numbering.map \union ({cores} \X (0 .. N - 1))
            /\ \A n \in 1 .. N : Hardware(r, <<cores, n - 1>>) = pool[n].partitions[cores]
            /\ \A id \in DOMAIN numbering.map :
                 id[1] # cores => Hardware(r, id) = Hardware(numbering, id)
<1>0. /\ N \in Nat /\ cores \in Nat /\ numbering \in Numberings
      /\ DOMAIN pool = 1 .. N /\ \A n \in 1 .. N : pool[n].partitions[cores] \in Sets
  BY DEF PoolOK
<1>1. PICK acc : Steps(acc, pool, N) /\ NumberHardware(pool) = acc[N]
  BY NumberHardwareSteps
<1>2. /\ acc \in [0 .. N -> Numberings] /\ acc[0] = numbering
      /\ \A i \in 0 .. N - 1 : acc[i + 1] = NumberSolution(acc[i], Row(pool, i + 1))
  BY <1>1 DEF Steps
<1> DEFINE Ids(i) == {<<cores, n - 1>> : n \in 1 .. i}
           Right(i) ==
             /\ DOMAIN acc[i].map = DOMAIN numbering.map \union Ids(i)
             /\ \A n \in 1 .. i : Hardware(acc[i], <<cores, n - 1>>) = pool[n].partitions[cores]
             /\ \A id \in DOMAIN numbering.map :
                  id[1] # cores => Hardware(acc[i], id) = Hardware(numbering, id)
           Good == {i \in Nat : i <= N => Right(i)}
<1>3. 0 \in Good
  <2>1. Ids(0) = {}
    OBVIOUS
  <2> QED BY <1>2, <2>1
<1>4. ASSUME NEW i \in Good PROVE i + 1 \in Good
  <2> SUFFICES ASSUME i + 1 <= N PROVE Right(i + 1)
    OBVIOUS
  <2>1. i \in 0 .. N - 1 /\ i + 1 \in 1 .. N /\ i \in 0 .. N /\ i + 1 \in 0 .. N /\ i \in Nat
    BY <1>0
  <2>2. Right(i)
    BY <2>1
  <2> DEFINE s == Row(pool, i + 1)
             r == acc[i + 1]
  <2>3. Solved(s) /\ s.id = <<cores, i>> /\ s.hardware = pool[i + 1].partitions[cores]
    BY <1>0, <2>1 DEF Solved, Row
  <2>4. acc[i] \in Numberings /\ r = NumberSolution(acc[i], s)
    BY <1>2, <2>1
  <2> HIDE DEF Good, Right, s, r
  <2>5. /\ DOMAIN r.map = DOMAIN acc[i].map \union {s.id}
        /\ Hardware(r, s.id) = s.hardware
        /\ \A id \in DOMAIN acc[i].map \ {s.id} : Hardware(r, id) = Hardware(acc[i], id)
    BY <2>3, <2>4, NumberSolutionFacts
  <2>6. Ids(i + 1) = Ids(i) \union {<<cores, i>>}
    <3>1. \A n \in 1 .. i + 1 : n \in 1 .. i \/ n = i + 1
      BY <2>1
    <3>2. i + 1 \in 1 .. i + 1 /\ (i + 1) - 1 = i /\ \A n \in 1 .. i : n \in 1 .. i + 1
      BY <2>1
    <3> QED BY <3>1, <3>2
  <2>7. DOMAIN r.map = DOMAIN numbering.map \union Ids(i + 1)
    BY <2>2, <2>3, <2>5, <2>6 DEF Right
  <2>8. ASSUME NEW n \in 1 .. i + 1 PROVE Hardware(r, <<cores, n - 1>>) = pool[n].partitions[cores]
    <3>1. CASE n = i + 1
      <4>1. n - 1 = i
        BY <2>1, <3>1
      <4> QED BY <2>3, <2>5, <3>1, <4>1
    <3>2. CASE n # i + 1
      <4>1. n \in 1 .. i /\ n - 1 # i
        BY <2>1, <3>2
      <4>2. <<cores, n - 1>> \in DOMAIN acc[i].map \ {s.id}
        BY <2>2, <2>3, <4>1 DEF Right
      <4> QED BY <2>2, <2>5, <4>1, <4>2 DEF Right
    <3> QED BY <3>1, <3>2
  <2>9. ASSUME NEW id \in DOMAIN numbering.map, id[1] # cores
        PROVE  Hardware(r, id) = Hardware(numbering, id)
    <3>1. id \in DOMAIN acc[i].map \ {s.id}
      BY <2>2, <2>3, <2>9 DEF Right
    <3> QED BY <2>2, <2>5, <2>9, <3>1 DEF Right
  <2> QED BY <2>7, <2>8, <2>9 DEF Right, r
<1>5. Good = Nat
  <2>1. Good \subseteq Nat
    OBVIOUS
  <2> HIDE DEF Good
  <2> QED BY <1>3, <1>4, <2>1, Induction
<1>6. Right(N) /\ acc[N] \in Numberings
  BY <1>0, <1>2, <1>5
<1>7. Ids(N) = {cores} \X (0 .. N - 1)
  <2>1. \A n \in 1 .. N : n - 1 \in 0 .. N - 1
    BY <1>0
  <2>2. \A n \in 0 .. N - 1 : n + 1 \in 1 .. N /\ n = (n + 1) - 1
    BY <1>0
  <2>3. \A id \in {cores} \X (0 .. N - 1) : \E n \in 1 .. N : id = <<cores, n - 1>>
    BY <2>2
  <2> QED BY <2>1, <2>3
<1> HIDE DEF Ids
<1> QED BY <1>1, <1>6, <1>7

-----------------------------------------------------------------------------
(* What the calls of the solver and the end of execute write.              *)

\* A pool is a sequence of solutions.
LEMMA PoolFacts ==
  ASSUME NEW S, NEW pool \in Pools(S)
  PROVE  pool \in Seq(S) /\ Len(pool) \in Nat /\ DOMAIN pool = 1 .. Len(pool)
<1>1. PICK m \in 0 .. PoolSize : pool \in [1 .. m -> S]
  BY DEF Pools, SeqOf
<1>2. m \in Nat
  BY PhaseAssumption
<1> QED BY <1>1, <1>2

LEMMA OverFacts ==
  ASSUME NEW new, NEW old
  PROVE  /\ DOMAIN Over(new, old) = DOMAIN new \union DOMAIN old
         /\ \A x \in DOMAIN new : Over(new, old)[x] = new[x]
         /\ \A x \in DOMAIN old \ DOMAIN new : Over(new, old)[x] = old[x]
BY DEF Over

LEMMA FileFacts ==
  ASSUME NEW d, NEW kind, NEW k, NEW n, NEW e, NEW other, NEW l, NEW m
  PROVE  /\ File(d, kind, k, n) = File(e, other, l, m) <=> d = e /\ kind = other /\ k = l /\ n = m
         /\ File(d, kind, k, n).dir = d /\ File(d, kind, k, n).kind = kind
         /\ File(d, kind, k, n).cores = k /\ File(d, kind, k, n).index = n
BY DEF File

Xcf(k, n) == File("heterogeneous", "xcf", k, n)
Config(k, n) == File("heterogeneous", "config", k, n)
Csv(k) == File("heterogeneous", "solutions.csv", k, 0)

LEMMA HeterogeneousFilesFacts ==
  ASSUME NEW S, NEW pool \in Pools(S)
  PROVE  LET new == HeterogeneousFiles(pool)
         IN /\ DOMAIN new = {Xcf(cores, n) : n \in 0 .. Len(pool) - 1} \union
                            {Config(cores, n) : n \in 0 .. Len(pool) - 1} \union {Csv(cores)}
            /\ \A n \in 0 .. Len(pool) - 1 :
                 /\ new[Xcf(cores, n)] = HeterogeneousXcf(pool[n + 1])
                 /\ new[Config(cores, n)] = ConfigFile(SoftwareSide(pool[n + 1]))
            /\ new[Csv(cores)] = [n \in 0 .. Len(pool) - 1 |-> pool[n + 1].times]
<1> DEFINE A == [f \in {File("heterogeneous", kind, cores, n) :
                          kind \in {"config", "xcf"}, n \in 0 .. Len(pool) - 1} |->
                   IF f.kind = "config" THEN ConfigFile(SoftwareSide(pool[f.index + 1]))
                                        ELSE HeterogeneousXcf(pool[f.index + 1])]
           B == SolutionsFile("heterogeneous", pool)
<1>1. /\ DOMAIN A = {Xcf(cores, n) : n \in 0 .. Len(pool) - 1} \union
                    {Config(cores, n) : n \in 0 .. Len(pool) - 1}
      /\ \A n \in 0 .. Len(pool) - 1 :
           /\ A[Xcf(cores, n)] = HeterogeneousXcf(pool[n + 1])
           /\ A[Config(cores, n)] = ConfigFile(SoftwareSide(pool[n + 1]))
  BY FileFacts DEF Xcf, Config
<1>2. DOMAIN B = {Csv(cores)} /\ B[Csv(cores)] = [n \in 0 .. Len(pool) - 1 |-> pool[n + 1].times]
  BY DEF SolutionsFile, Csv
<1>3. Csv(cores) \notin DOMAIN A
  BY <1>1, FileFacts DEF Csv, Xcf, Config
<1>4. HeterogeneousFiles(pool) = Over(A, B)
  BY DEF HeterogeneousFiles
<1> HIDE DEF A, B
<1>5. /\ DOMAIN Over(A, B) = DOMAIN A \union DOMAIN B
      /\ \A x \in DOMAIN A : Over(A, B)[x] = A[x]
      /\ \A x \in DOMAIN B \ DOMAIN A : Over(A, B)[x] = B[x]
  BY OverFacts
<1> QED BY ONLY <1>1, <1>2, <1>3, <1>4, <1>5

LEMMA MulticoreFilesFacts ==
  ASSUME NEW S, NEW pool \in Pools(S)
  PROVE  LET new == MulticoreFiles(pool)
             config_(n) == File("homogeneous", "config", cores, n)
             csv == File("homogeneous", "solutions.csv", cores, 0)
         IN /\ DOMAIN new = {config_(n) : n \in 0 .. Len(pool) - 1} \union {csv}
            /\ \A n \in 0 .. Len(pool) - 1 : new[config_(n)] = ConfigFile(pool[n + 1].partitions)
            /\ new[csv] = [n \in 0 .. Len(pool) - 1 |-> pool[n + 1].times]
<1> DEFINE config_(n) == File("homogeneous", "config", cores, n)
           csv == File("homogeneous", "solutions.csv", cores, 0)
           A == [f \in {config_(n) : n \in 0 .. Len(pool) - 1} |-> ConfigFile(pool[f.index + 1].partitions)]
           B == SolutionsFile("homogeneous", pool)
<1>1. /\ DOMAIN A = {config_(n) : n \in 0 .. Len(pool) - 1}
      /\ \A n \in 0 .. Len(pool) - 1 : A[config_(n)] = ConfigFile(pool[n + 1].partitions)
  BY FileFacts
<1>2. DOMAIN B = {csv} /\ B[csv] = [n \in 0 .. Len(pool) - 1 |-> pool[n + 1].times]
  BY DEF SolutionsFile
<1>3. csv \notin DOMAIN A
  BY <1>1, FileFacts
<1>4. MulticoreFiles(pool) = Over(A, B)
  BY DEF MulticoreFiles
<1> HIDE DEF A, B, config_, csv
<1>5. /\ DOMAIN Over(A, B) = DOMAIN A \union DOMAIN B
      /\ \A x \in DOMAIN A : Over(A, B)[x] = A[x]
      /\ \A x \in DOMAIN B \ DOMAIN A : Over(A, B)[x] = B[x]
  BY OverFacts
<1>6. /\ DOMAIN MulticoreFiles(pool) = {config_(n) : n \in 0 .. Len(pool) - 1} \union {csv}
      /\ \A n \in 0 .. Len(pool) - 1 : MulticoreFiles(pool)[config_(n)] = ConfigFile(pool[n + 1].partitions)
      /\ MulticoreFiles(pool)[csv] = [n \in 0 .. Len(pool) - 1 |-> pool[n + 1].times]
  BY <1>1, <1>2, <1>3, <1>4, <1>5
<1> QED BY <1>6 DEF config_, csv

\* The index of a set in a list of different sets is its place.
LEMMA UniqueFilesFacts ==
  ASSUME numbering \in Numberings
  PROVE  /\ DOMAIN UniqueFiles = {Unique(n) : n \in 0 .. numbering.count - 1}
         /\ \A n \in 0 .. numbering.count - 1 :
              UniqueFiles[Unique(n)] = XcfFile(Names \ numbering.unique[n + 1], numbering.unique[n + 1])
<1> DEFINE count == numbering.count
           unique == numbering.unique
           Index(h) == Min({n \in DOMAIN unique : unique[n] = h}) - 1
           Of(f) == CHOOSE h \in ToSet(unique) : f = Unique(Index(h))
<1>1. /\ count \in Nat /\ DOMAIN unique = 1 .. count /\ \A n \in 1 .. count : unique[n] \in Sets
      /\ \A n, m \in 1 .. count : unique[n] = unique[m] => n = m
  BY DEF Numberings, IsInjective
<1>2. UniqueFiles = [f \in {Unique(Index(h)) : h \in ToSet(unique)} |-> XcfFile(Names \ Of(f), Names \cap Of(f))]
  BY DEF UniqueFiles
<1>3. ASSUME NEW n \in 0 .. count - 1 PROVE n + 1 \in 1 .. count /\ Index(unique[n + 1]) = n
  <2>1. n + 1 \in 1 .. count
    BY <1>1
  <2> DEFINE at == {m \in DOMAIN unique : unique[m] = unique[n + 1]}
  <2>2. at = {n + 1}
    BY <1>1, <2>1
  <2>3. Min({n + 1}) = n + 1
    <3>1. {n + 1} \subseteq Nat /\ {n + 1} # {}
      BY <2>1
    <3>2. Min({n + 1}) \in {n + 1}
      BY <3>1, MinFacts
    <3> QED BY <3>2
  <2> QED BY <2>1, <2>2, <2>3
<1> HIDE DEF count, unique, Index
<1>4. ToSet(unique) = {unique[n + 1] : n \in 0 .. count - 1}
  <2>1. \A m \in 1 .. count : m - 1 \in 0 .. count - 1 /\ (m - 1) + 1 = m
    BY <1>1
  <2>2. ToSet(unique) = {unique[m] : m \in 1 .. count}
    BY <1>1 DEF ToSet
  <2>3. ASSUME NEW h \in ToSet(unique) PROVE \E n \in 0 .. count - 1 : h = unique[n + 1]
    <3>1. PICK m \in 1 .. count : h = unique[m]
      BY <2>2
    <3>2. PICK n \in 0 .. count - 1 : m = n + 1
      BY <2>1
    <3> QED BY <3>1, <3>2
  <2> QED BY <1>3, <2>2, <2>3
<1>5. ASSUME NEW n \in 0 .. count - 1 PROVE Of(Unique(n)) = unique[n + 1]
  <2>1. unique[n + 1] \in ToSet(unique) /\ Unique(n) = Unique(Index(unique[n + 1]))
    BY <1>3, <1>4
  <2>2. Of(Unique(n)) \in ToSet(unique) /\ Unique(n) = Unique(Index(Of(Unique(n))))
    BY <2>1
  <2> HIDE DEF Of
  <2>3. PICK m \in 0 .. count - 1 : Of(Unique(n)) = unique[m + 1]
    BY <1>4, <2>2
  <2>4. Unique(n) = Unique(m)
    BY <1>3, <2>2, <2>3
  <2>5. n = m
    BY <2>4, FileFacts DEF Unique
  <2> QED BY <2>3, <2>5
<1> HIDE DEF Of
<1>6. DOMAIN UniqueFiles = {Unique(n) : n \in 0 .. count - 1}
  BY <1>2, <1>3, <1>4
<1>7. ASSUME NEW n \in 0 .. count - 1
      PROVE  UniqueFiles[Unique(n)] = XcfFile(Names \ unique[n + 1], unique[n + 1])
  <2>1. UniqueFiles[Unique(n)] = XcfFile(Names \ Of(Unique(n)), Names \cap Of(Unique(n)))
    BY <1>2, <1>6
  <2>2. Names \cap unique[n + 1] = unique[n + 1]
    BY <1>1, <1>3 DEF Sets
  <2> QED BY <1>5, <2>1, <2>2
<1> QED BY <1>6, <1>7 DEF count, unique

-----------------------------------------------------------------------------
(* The inductive invariant.                                                *)

\* network and inputs are those of a task, and the compilations the rest of a script.
TaskInv == \E t \in Tasks : network = t.network /\ inputs = t.inputs

ScriptInv ==
  \E s \in Scripts : \E m \in 1 .. Len(s) :
    config = s[m] /\ pending = SubSeq(s, m + 1, Len(s))

\* solveModel is called for the numbers of cores in turn.
CoresInv ==
  /\ status \in {"start", "solving", "done", "thrown"}
  /\ cores \in Nat /\ (cores <= 2 \/ cores <= MaxCores + 1)
  /\ status = "solving" => IF Heterogeneous THEN cores = 1 \/ cores \in 1 .. MaxCores + 1 ELSE cores >= 2

Databases == {"software", "settings", "fifo", "accel", "pcie"}

\* A database holds part of what the profile that it is read from holds.
ProfileInv ==
  /\ DOMAIN profile = Databases
  /\ \A part \in Databases :
       /\ DOMAIN profile[part] \subseteq DOMAIN inputs[part]
       /\ profile[part] = Restrict(inputs[part], DOMAIN profile[part])

ReportedInv ==
  reported \subseteq {"systemc", "opencl", "bandwidth", "software", "cores", "hardware.json"}

FilesInv ==
  \A f \in DOMAIN files :
    f.dir \in {"homogeneous", "heterogeneous", "unique"} /\ f.cores \in Nat /\ f.index \in Nat

\* What is numbered are the solutions of this compilation, for the numbers of
\* cores so far, and their files are there.
NumberedInv ==
  /\ numbering \in Numberings
  /\ status = "start" => numbering = NoHardware
  /\ status = "solving" /\ Heterogeneous =>
       /\ \A k \in 1 .. cores - 1 : Csv(k) \in DOMAIN files
       /\ DOMAIN numbering.map = UNION {{k} \X DOMAIN files[Csv(k)] : k \in 1 .. cores - 1}
       /\ \A id \in DOMAIN numbering.map :
            /\ Xcf(id[1], id[2]) \in DOMAIN files
            /\ files[Xcf(id[1], id[2])] =
                 XcfFile(Names \ Hardware(numbering, id), Hardware(numbering, id))

IInv ==
  /\ TaskInv /\ ScriptInv /\ CoresInv /\ ProfileInv /\ ReportedInv /\ FilesInv
  /\ NumberedInv /\ HardwareNumbered

\* The entries of a script.
LEMMA ScriptFacts ==
  ASSUME NEW s \in Scripts
  PROVE  /\ s \in Seq(ToSet(s)) /\ Len(s) \in Nat \ {0} /\ DOMAIN s = 1 .. Len(s)
         /\ \A n \in 1 .. Len(s) : s[n].cores \in Int
<1>1. s \in Seq(ToSet(s)) /\ s # <<>> /\ \A n \in DOMAIN s : s[n].cores \in Int
  BY PhaseAssumption
<1> QED BY <1>1

\* The next compilation is the next entry of the script.
LEMMA ScriptStep ==
  ASSUME NEW s \in Scripts, NEW m \in 1 .. Len(s), NEW rest,
         rest = SubSeq(s, m + 1, Len(s)), rest # <<>>
  PROVE  /\ m + 1 \in 1 .. Len(s) /\ Head(rest) = s[m + 1]
         /\ Tail(rest) = SubSeq(s, (m + 1) + 1, Len(s))
<1>1. s \in Seq(ToSet(s)) /\ Len(s) \in Nat
  BY ScriptFacts
<1>2. CASE m = Len(s)
  <2>1. m + 1 \in Int /\ Len(s) \in Int /\ Len(s) < m + 1
    BY <1>1, <1>2
  <2>2. rest = <<>>
    BY <2>1, SubSeqEmpty
  <2> QED BY <2>2
<1>3. CASE m # Len(s)
  <2>1. m + 1 \in 1 .. Len(s) /\ Len(s) \in m + 1 .. Len(s)
    BY <1>1, <1>3
  <2> QED BY <1>1, <2>1, HeadTailOfSubSeq
<1> QED BY <1>2, <1>3

LEMMA MaxCoresType ==
  ASSUME TaskInv, ScriptInv
  PROVE  MaxCores \in Int
<1>1. config.cores \in Int
  BY ScriptFacts DEF ScriptInv
<1>2. Len(network.instances) \in Nat
  <2>1. PICK t \in Tasks : network = t.network
    BY DEF TaskInv
  <2>2. t.network.instances \in Seq(ToSet(t.network.instances))
    BY PhaseAssumption DEF TaskOK
  <2> QED BY <2>1, <2>2
<1>3. Min({Len(network.instances), config.cores}) \in {Len(network.instances), config.cores}
  <2>1. PICK a \in Int, b \in Int : a = Len(network.instances) /\ b = config.cores
    BY <1>1, <1>2
  <2>2. Min({a, b}) \in {a, b}
    BY MinOfTwo
  <2> QED BY <2>1, <2>2
<1> QED BY <1>1, <1>2, <1>3 DEF MaxCores

LEMMA NoHardwareNumbers == NoHardware \in Numberings /\ DOMAIN NoHardware.map = {}
<1>1. <<>> \in [{} -> Nat]
  OBVIOUS
<1>2. <<>> \in Maps
  BY <1>1 DEF Maps
<1>3. <<>> \in Seq(Sets) /\ Len(<<>>) = 0 /\ IsInjective(<<>>) /\ DOMAIN <<>> = {}
  BY DEF IsInjective
<1> QED BY <1>2, <1>3 DEF NoHardware, Numberings

LEMMA InitInv == Init => IInv
<1> SUFFICES ASSUME Init PROVE IInv
  OBVIOUS
<1> USE DEF Init
<1>1. TaskInv
  BY DEF TaskInv
<1>2. ScriptInv
  <2>1. PICK s \in Scripts : config = Head(s) /\ pending = Tail(s)
    OBVIOUS
  <2>2. s \in Seq(ToSet(s)) /\ s # <<>> /\ 1 \in 1 .. Len(s)
    BY ScriptFacts, PhaseAssumption
  <2>3. Head(s) = s[1] /\ Tail(s) = SubSeq(s, 1 + 1, Len(s))
    BY <2>2, TailIsSubSeq
  <2> QED BY <2>1, <2>2, <2>3 DEF ScriptInv
<1>3. CoresInv /\ ReportedInv /\ FilesInv /\ HardwareNumbered
  BY DEF CoresInv, ReportedInv, FilesInv, HardwareNumbered
<1>4. ProfileInv
  BY DEF ProfileInv, NoProfile, Restrict, Databases
<1>5. NumberedInv
  BY NoHardwareNumbers DEF NumberedInv
<1> QED BY <1>1, <1>2, <1>3, <1>4, <1>5 DEF IInv

\* What is parsed is part of what there is.
LEMMA ParsedFacts ==
  ASSUME TaskInv, NEW s, NEW part \in Databases, NEW x \in Parsed(s, part)
  PROVE  DOMAIN x \subseteq DOMAIN inputs[part] /\ x = Restrict(inputs[part], DOMAIN x)
<1>1. PICK t \in Tasks : inputs = t.inputs
  BY DEF TaskInv
<1>2. TaskOK(t)
  BY PhaseAssumption
<1>3. inputs[part] = [y \in DOMAIN inputs[part] |-> inputs[part][y]]
  BY <1>1, <1>2 DEF TaskOK, Databases
<1>4. CASE x = <<>>
  BY <1>4 DEF Restrict
<1>5. CASE \E keys \in SUBSET DOMAIN inputs[part] : x = Restrict(inputs[part], keys)
  BY <1>5 DEF Restrict
<1>6. CASE x = inputs[part]
  BY <1>3, <1>6 DEF Restrict
<1>7. x = <<>> \/ (\E keys \in SUBSET DOMAIN inputs[part] : x = Restrict(inputs[part], keys)) \/ x = inputs[part]
  BY DEF Parsed
<1> QED BY <1>4, <1>5, <1>6, <1>7

LEMMA SetConfigInv == IInv /\ setConfig => IInv'
<1> SUFFICES ASSUME IInv, setConfig PROVE IInv'
  OBVIOUS
<1> USE DEF IInv
<1>0. /\ status = "start" /\ profile' \in Readings /\ status' = "solving"
      /\ cores' = IF Heterogeneous THEN 1 ELSE 2
      /\ reported' = CheckProfileData \union ParseErrors \union (IF config.cores = 0 THEN {"cores"} ELSE {})
      /\ UNCHANGED <<network, inputs, config, pending, numbering, files>>
  BY DEF setConfig
<1>1. TaskInv' /\ ScriptInv' /\ FilesInv'
  BY <1>0 DEF TaskInv, ScriptInv, FilesInv
<1>2. CoresInv'
  BY <1>0 DEF CoresInv, Heterogeneous
<1>3. ProfileInv'
  <2>1. /\ DOMAIN profile' = Databases
        /\ \A part \in Databases : \E s : profile'[part] \in Parsed(s, part)
    BY <1>0 DEF Readings, Databases
  <2>2. \A part \in Databases :
          /\ DOMAIN profile'[part] \subseteq DOMAIN inputs[part]
          /\ profile'[part] = Restrict(inputs[part], DOMAIN profile'[part])
    BY <2>1, ParsedFacts
  <2> QED BY <1>0, <2>1, <2>2 DEF ProfileInv
<1>4. ReportedInv'
  BY <1>0 DEF ReportedInv, CheckProfileData, ParseErrors, Needed
<1>5. NumberedInv'
  <2>1. numbering = NoHardware /\ numbering \in Numberings
    BY <1>0 DEF NumberedInv
  <2>2. numbering' \in Numberings'
    BY <1>0, <2>1 DEF Numberings, Sets, Maps, Names
  <2>3. ASSUME Heterogeneous' PROVE cores' = 1 /\ 1 .. cores' - 1 = {} /\ DOMAIN numbering'.map = {}
    BY <1>0, <2>1, <2>3, NoHardwareNumbers DEF Heterogeneous
  <2> QED BY <1>0, <2>2, <2>3 DEF NumberedInv
<1>6. HardwareNumbered'
  BY <1>0 DEF HardwareNumbered
<1> QED BY <1>1, <1>2, <1>3, <1>4, <1>5, <1>6

\* An action that leaves all but the status, which it makes "thrown".
LEMMA ThrowsInv ==
  ASSUME IInv, status' = "thrown",
         UNCHANGED <<network, inputs, profile, config, pending, reported, cores, numbering, files>>
  PROVE  IInv'
<1> USE DEF IInv
<1>1. TaskInv' /\ ScriptInv' /\ FilesInv' /\ ProfileInv' /\ ReportedInv' /\ HardwareNumbered'
  BY DEF TaskInv, ScriptInv, FilesInv, ProfileInv, ReportedInv, HardwareNumbered
<1>2. CoresInv'
  BY DEF CoresInv, MaxCores, Heterogeneous
<1>3. NumberedInv'
  BY DEF NumberedInv, Numberings, Sets, Maps, Names
<1> QED BY <1>1, <1>2, <1>3

LEMMA FilesStep ==
  ASSUME FilesInv, NEW new, files' = Over(new, files),
         \A f \in DOMAIN new :
           f.dir \in {"homogeneous", "heterogeneous", "unique"} /\ f.cores \in Nat /\ f.index \in Nat
  PROVE  FilesInv'
<1>1. DOMAIN files' = DOMAIN new \union DOMAIN files
  BY OverFacts
<1> QED BY <1>1 DEF FilesInv

LEMMA SolveMulticoreInv == IInv /\ solveMulticore => IInv'
<1> SUFFICES ASSUME IInv, solveMulticore PROVE IInv'
  OBVIOUS
<1> USE DEF IInv
<1>0. /\ status = "solving" /\ ~Heterogeneous /\ cores <= MaxCores /\ cores' = cores + 1
      /\ UNCHANGED <<network, inputs, profile, config, pending, status, reported, numbering>>
  BY DEF solveMulticore
<1>1. PICK pool \in Pools({MulticoreSolution(x, cores) : x \in MulticoreAssignments(cores)}) :
        files' = Over(MulticoreFiles(pool), files)
  BY DEF solveMulticore, Write
<1>2. TaskInv' /\ ScriptInv' /\ ProfileInv' /\ ReportedInv' /\ HardwareNumbered'
  BY <1>0 DEF TaskInv, ScriptInv, ProfileInv, ReportedInv, HardwareNumbered
<1>3. cores \in Nat
  BY DEF CoresInv
<1>4. CoresInv'
  <2>1. MaxCores' = MaxCores /\ Heterogeneous' = Heterogeneous /\ MaxCores \in Int
    BY <1>0, MaxCoresType DEF MaxCores, Heterogeneous
  <2>2. cores' \in Nat /\ cores' >= 2 /\ cores' <= MaxCores + 1
    BY <1>0, <1>3, <2>1 DEF CoresInv
  <2> QED BY <1>0, <2>1, <2>2 DEF CoresInv
<1>5. FilesInv'
  <2>1. DOMAIN MulticoreFiles(pool) =
          {File("homogeneous", "config", cores, n) : n \in 0 .. Len(pool) - 1} \union
          {File("homogeneous", "solutions.csv", cores, 0)}
    BY MulticoreFilesFacts
  <2>2. Len(pool) \in Nat
    BY PoolFacts
  <2>3. ASSUME NEW f \in DOMAIN MulticoreFiles(pool)
        PROVE  f.dir = "homogeneous" /\ f.cores \in Nat /\ f.index \in Nat
    <3>1. PICK kind \in {"config", "solutions.csv"}, n \in Nat : f = File("homogeneous", kind, cores, n)
      BY <2>1, <2>2
    <3> QED BY <1>3, <3>1 DEF File
  <2> QED BY <1>1, <2>3, FilesStep
<1>6. NumberedInv'
  <2>1. numbering \in Numberings /\ status' # "start" /\ ~Heterogeneous'
    BY <1>0 DEF NumberedInv, Heterogeneous
  <2>2. numbering' \in Numberings'
    BY <1>0, <2>1 DEF Numberings, Sets, Maps, Names
  <2> QED BY <2>1, <2>2 DEF NumberedInv
<1> QED BY <1>2, <1>4, <1>5, <1>6

\* A solution of the heterogeneous model has something on the accelerator, and
\* its file of instances the rest on the other side.
LEMMA HeterogeneousSolutionFacts ==
  ASSUME cores \in Nat, NEW on \in HeterogeneousAssignments(cores)
  PROVE  LET s == HeterogeneousSolution(on, cores)
         IN /\ s.partitions[cores] \in Sets
            /\ HeterogeneousXcf(s) = XcfFile(Names \ s.partitions[cores], s.partitions[cores])
<1> DEFINE s == HeterogeneousSolution(on, cores)
<1>1. /\ on \in [Names -> 0 .. cores]
      /\ \A p \in 0 .. cores : On(on, p) # {}
      /\ \A p \in 0 .. cores : s.partitions[p] = On(on, p)
  BY DEF HeterogeneousAssignments, HeterogeneousSolution
<1> HIDE DEF s
<1>2. cores \in 0 .. cores /\ Cores(cores) = (0 .. cores) \ {cores}
  BY DEF Cores
<1>3. UNION {s.partitions[p] : p \in Cores(cores)} = Names \ On(on, cores)
  BY <1>1, <1>2 DEF On
<1>4. On(on, cores) \in Sets
  BY <1>1, <1>2 DEF Sets, On
<1> QED BY <1>1, <1>2, <1>3, <1>4 DEF HeterogeneousXcf, s

\* NumberedInv without the number of cores, for those before k.
Numbered(num, fs, k) ==
  /\ num \in Numberings
  /\ \A j \in 1 .. k - 1 : Csv(j) \in DOMAIN fs
  /\ DOMAIN num.map = UNION {{j} \X DOMAIN fs[Csv(j)] : j \in 1 .. k - 1}
  /\ \A id \in DOMAIN num.map :
       /\ Xcf(id[1], id[2]) \in DOMAIN fs
       /\ fs[Xcf(id[1], id[2])] = XcfFile(Names \ Hardware(num, id), Hardware(num, id))

LEMMA NumberedStep ==
  ASSUME cores \in Nat \ {0}, Numbered(numbering, files, cores),
         NEW pool \in Pools({HeterogeneousSolution(on, cores) : on \in HeterogeneousAssignments(cores)})
  PROVE  Numbered(NumberHardware(pool), Over(HeterogeneousFiles(pool), files), cores + 1)
<1> DEFINE N == Len(pool)
           new == HeterogeneousFiles(pool)
           fs == Over(new, files)
           num == NumberHardware(pool)
           S == {HeterogeneousSolution(on, cores) : on \in HeterogeneousAssignments(cores)}
<1>1. N \in Nat /\ DOMAIN pool = 1 .. N /\ \A n \in 1 .. N : pool[n] \in S
  BY PoolFacts
<1>2. \A n \in 1 .. N :
        /\ pool[n].partitions[cores] \in Sets
        /\ HeterogeneousXcf(pool[n]) =
             XcfFile(Names \ pool[n].partitions[cores], pool[n].partitions[cores])
  BY <1>1, HeterogeneousSolutionFacts
<1>3. /\ numbering \in Numberings
      /\ \A j \in 1 .. cores - 1 : Csv(j) \in DOMAIN files
      /\ DOMAIN numbering.map = UNION {{j} \X DOMAIN files[Csv(j)] : j \in 1 .. cores - 1}
      /\ \A id \in DOMAIN numbering.map :
           /\ Xcf(id[1], id[2]) \in DOMAIN files
           /\ files[Xcf(id[1], id[2])] =
                XcfFile(Names \ Hardware(numbering, id), Hardware(numbering, id))
  BY DEF Numbered
<1>4. PoolOK(pool, N)
  BY <1>1, <1>2, <1>3 DEF PoolOK
<1> HIDE DEF N, num, new, fs, S
<1>5. /\ num \in Numberings
      /\ DOMAIN num.map = DOMAIN numbering.map \union ({cores} \X (0 .. N - 1))
      /\ \A n \in 1 .. N : Hardware(num, <<cores, n - 1>>) = pool[n].partitions[cores]
      /\ \A id \in DOMAIN numbering.map :
           id[1] # cores => Hardware(num, id) = Hardware(numbering, id)
  BY <1>4, NumberHardwareFacts DEF num
<1>6. /\ DOMAIN new = {Xcf(cores, n) : n \in 0 .. N - 1} \union
                      {Config(cores, n) : n \in 0 .. N - 1} \union {Csv(cores)}
      /\ \A n \in 0 .. N - 1 : new[Xcf(cores, n)] = HeterogeneousXcf(pool[n + 1])
      /\ DOMAIN new[Csv(cores)] = 0 .. N - 1
  BY HeterogeneousFilesFacts DEF new, N
<1>7. /\ DOMAIN fs = DOMAIN new \union DOMAIN files
      /\ \A x \in DOMAIN new : fs[x] = new[x]
      /\ \A x \in DOMAIN files \ DOMAIN new : fs[x] = files[x]
  BY OverFacts DEF fs
<1>8. \A f \in DOMAIN new : f.cores = cores
  BY <1>6, FileFacts DEF Xcf, Config, Csv
<1>9. ASSUME NEW j \in 1 .. cores - 1 PROVE Csv(j) \in DOMAIN fs /\ fs[Csv(j)] = files[Csv(j)]
  <2>1. Csv(j).cores = j /\ j # cores
    BY FileFacts DEF Csv
  <2> QED BY <1>3, <1>7, <1>8, <2>1
<1>10. Csv(cores) \in DOMAIN fs /\ DOMAIN fs[Csv(cores)] = 0 .. N - 1
  BY <1>6, <1>7
<1>11. (cores + 1) - 1 = cores /\ 1 .. cores = (1 .. cores - 1) \union {cores}
  OBVIOUS
<1>12. DOMAIN num.map = UNION {{j} \X DOMAIN fs[Csv(j)] : j \in 1 .. cores}
  <2>1. UNION {{j} \X DOMAIN fs[Csv(j)] : j \in 1 .. cores - 1} =
        UNION {{j} \X DOMAIN files[Csv(j)] : j \in 1 .. cores - 1}
    BY <1>9
  <2>2. UNION {{j} \X DOMAIN fs[Csv(j)] : j \in 1 .. cores} =
        (UNION {{j} \X DOMAIN fs[Csv(j)] : j \in 1 .. cores - 1}) \union ({cores} \X DOMAIN fs[Csv(cores)])
    BY <1>11
  <2> QED BY <1>3, <1>5, <1>10, <2>1, <2>2
<1>13. ASSUME NEW id \in DOMAIN num.map
       PROVE  /\ Xcf(id[1], id[2]) \in DOMAIN fs
              /\ fs[Xcf(id[1], id[2])] = XcfFile(Names \ Hardware(num, id), Hardware(num, id))
  <2>1. CASE id \in DOMAIN numbering.map
    <3>1. id[1] # cores
      BY <1>3, <2>1
    <3>2. Xcf(id[1], id[2]).cores = id[1]
      BY FileFacts DEF Xcf
    <3> QED BY <1>3, <1>5, <1>7, <1>8, <2>1, <3>1, <3>2
  <2>2. CASE id \in {cores} \X (0 .. N - 1)
    <3>1. PICK n \in 0 .. N - 1 : id = <<cores, n>>
      BY <2>2
    <3>2. n + 1 \in 1 .. N /\ (n + 1) - 1 = n
      BY <1>1
    <3>3. Hardware(num, id) = pool[n + 1].partitions[cores]
      BY <1>5, <3>1, <3>2
    <3>4. fs[Xcf(cores, n)] = HeterogeneousXcf(pool[n + 1]) /\ Xcf(cores, n) \in DOMAIN fs
      BY <1>6, <1>7
    <3> QED BY <1>2, <3>1, <3>2, <3>3, <3>4
  <2> QED BY <1>5, <2>1, <2>2
<1>14. Numbered(num, fs, cores + 1)
  BY <1>5, <1>9, <1>10, <1>11, <1>12, <1>13 DEF Numbered
<1> QED BY <1>14 DEF num, fs, new

LEMMA SolveHeterogeneousInv == IInv /\ solveHeterogeneous => IInv'
<1> SUFFICES ASSUME IInv, solveHeterogeneous PROVE IInv'
  OBVIOUS
<1>0. /\ status = "solving" /\ Heterogeneous /\ cores <= MaxCores /\ cores' = cores + 1
      /\ UNCHANGED <<network, inputs, profile, config, pending, status, reported>>
  BY DEF solveHeterogeneous
<1>1. PICK pool \in Pools({HeterogeneousSolution(on, cores) : on \in HeterogeneousAssignments(cores)}) :
        files' = Over(HeterogeneousFiles(pool), files) /\ numbering' = NumberHardware(pool)
  BY DEF solveHeterogeneous, Write
<1>2. TaskInv' /\ ScriptInv' /\ ProfileInv' /\ ReportedInv' /\ HardwareNumbered'
  BY <1>0 DEF IInv, TaskInv, ScriptInv, ProfileInv, ReportedInv, HardwareNumbered
<1>3. cores \in Nat \ {0} /\ MaxCores \in Int
  BY <1>0, MaxCoresType DEF IInv, CoresInv
<1>4. CoresInv'
  <2>1. MaxCores' = MaxCores /\ Heterogeneous' = Heterogeneous
    BY <1>0 DEF MaxCores, Heterogeneous
  <2>2. cores' \in Nat /\ cores' \in 1 .. MaxCores + 1
    BY <1>0, <1>3
  <2> QED BY <1>0, <1>3, <2>1, <2>2 DEF CoresInv
<1>5. FilesInv'
  <2>1. DOMAIN HeterogeneousFiles(pool) =
          {Xcf(cores, n) : n \in 0 .. Len(pool) - 1} \union
          {Config(cores, n) : n \in 0 .. Len(pool) - 1} \union {Csv(cores)}
    BY HeterogeneousFilesFacts
  <2>2. Len(pool) \in Nat
    BY PoolFacts
  <2>3. ASSUME NEW f \in DOMAIN HeterogeneousFiles(pool)
        PROVE  f.dir = "heterogeneous" /\ f.cores \in Nat /\ f.index \in Nat
    <3>1. PICK kind \in {"xcf", "config", "solutions.csv"}, n \in Nat : f = File("heterogeneous", kind, cores, n)
      BY <2>1, <2>2 DEF Xcf, Config, Csv
    <3> QED BY <1>3, <3>1 DEF File
  <2> QED BY <1>1, <2>3, FilesStep DEF IInv
<1>6. NumberedInv'
  <2>1. Numbered(numbering, files, cores)
    BY <1>0 DEF IInv, NumberedInv, Numbered
  <2>2. Numbered(numbering', files', cores')
    BY <1>0, <1>1, <1>3, <2>1, NumberedStep
  <2>3. Names' = Names
    BY <1>0 DEF Names
  <2>4. numbering' \in Numberings'
    BY <2>2, <2>3 DEF Numbered, Numberings, Sets, Maps
  <2>5. status' # "start"
    BY <1>0
  <2>6. /\ \A k \in 1 .. cores' - 1 : Csv(k) \in DOMAIN files'
        /\ DOMAIN numbering'.map = UNION {{k} \X DOMAIN files'[Csv(k)] : k \in 1 .. cores' - 1}
        /\ \A id \in DOMAIN numbering'.map :
             /\ Xcf(id[1], id[2]) \in DOMAIN files'
             /\ files'[Xcf(id[1], id[2])] =
                  XcfFile(Names' \ Hardware(numbering', id), Hardware(numbering', id))
    BY <2>2, <2>3 DEF Numbered
  <2> QED BY <2>4, <2>5, <2>6 DEF NumberedInv, Csv, Xcf, Hardware, XcfFile
<1> QED BY <1>2, <1>4, <1>5, <1>6 DEF IInv

\* What the end of a compilation with an accelerator leaves, when hardware.json is saved.
LEMMA SavedNumbered ==
  ASSUME Numbered(numbering, files, cores), cores \in Nat,
         NEW fs, fs = Over(Over([f \in {HardwareJson} |-> numbering.map], UniqueFiles), files)
  PROVE  LET json == fs[HardwareJson]
             Sides(id) == fs[Xcf(id[1], id[2])]
         IN /\ DOMAIN json = UNION {{k} \X DOMAIN fs[Csv(k)] : k \in 1 .. cores - 1}
            /\ \A id \in DOMAIN json : fs[Unique(json[id])] = Sides(id)
            /\ \A id, other \in DOMAIN json : json[id] = json[other] <=> Sides(id) = Sides(other)
<1> DEFINE count == numbering.count
           unique == numbering.unique
           json == numbering.map
           A == [f \in {HardwareJson} |-> numbering.map]
           new == Over(A, UniqueFiles)
<1>1. /\ numbering \in Numberings
      /\ \A j \in 1 .. cores - 1 : Csv(j) \in DOMAIN files
      /\ DOMAIN json = UNION {{j} \X DOMAIN files[Csv(j)] : j \in 1 .. cores - 1}
      /\ \A id \in DOMAIN json :
           /\ Xcf(id[1], id[2]) \in DOMAIN files
           /\ files[Xcf(id[1], id[2])] = XcfFile(Names \ Hardware(numbering, id), Hardware(numbering, id))
  BY DEF Numbered
<1>2. /\ count \in Nat /\ \A id \in DOMAIN json : json[id] \in 0 .. count - 1
      /\ \A n, m \in 1 .. count : unique[n] = unique[m] => n = m
  BY <1>1 DEF Numberings, IsInjective
<1>3. /\ DOMAIN UniqueFiles = {Unique(n) : n \in 0 .. count - 1}
      /\ \A n \in 0 .. count - 1 : UniqueFiles[Unique(n)] = XcfFile(Names \ unique[n + 1], unique[n + 1])
  BY <1>1, UniqueFilesFacts
<1> HIDE DEF count, unique, json
<1>4. /\ \A n \in 0 .. count - 1 : Unique(n) # HardwareJson
      /\ \A j : Csv(j) # HardwareJson /\ \A n \in 0 .. count - 1 : Csv(j) # Unique(n)
      /\ \A j, i : Xcf(j, i) # HardwareJson /\ \A n \in 0 .. count - 1 : Xcf(j, i) # Unique(n)
  BY FileFacts DEF HardwareJson, Unique, Csv, Xcf
<1>5. DOMAIN A = {HardwareJson} /\ A[HardwareJson] = json
  BY DEF json
<1>0. fs = Over(new, files)
  OBVIOUS
<1> HIDE DEF A
<1>6. /\ DOMAIN new = DOMAIN A \union DOMAIN UniqueFiles
      /\ \A x \in DOMAIN A : new[x] = A[x]
      /\ \A x \in DOMAIN UniqueFiles \ DOMAIN A : new[x] = UniqueFiles[x]
  BY OverFacts
<1> HIDE DEF new
<1>7. /\ DOMAIN fs = DOMAIN new \union DOMAIN files
      /\ \A x \in DOMAIN new : fs[x] = new[x]
      /\ \A x \in DOMAIN files \ DOMAIN new : fs[x] = files[x]
  <2>1. /\ DOMAIN Over(new, files) = DOMAIN new \union DOMAIN files
        /\ \A x \in DOMAIN new : Over(new, files)[x] = new[x]
        /\ \A x \in DOMAIN files \ DOMAIN new : Over(new, files)[x] = files[x]
    BY OverFacts
  <2> QED BY ONLY <1>0, <2>1
<1>8. fs[HardwareJson] = json
  BY <1>5, <1>6, <1>7
<1>9. \A j \in 1 .. cores - 1 : fs[Csv(j)] = files[Csv(j)]
  BY <1>1, <1>3, <1>4, <1>5, <1>6, <1>7
<1>10. \A id \in DOMAIN json :
         fs[Xcf(id[1], id[2])] = XcfFile(Names \ Hardware(numbering, id), Hardware(numbering, id))
  BY <1>1, <1>3, <1>4, <1>5, <1>6, <1>7
<1>11. DOMAIN json = UNION {{j} \X DOMAIN fs[Csv(j)] : j \in 1 .. cores - 1}
  BY <1>1, <1>9
<1>12. ASSUME NEW id \in DOMAIN json PROVE fs[Unique(json[id])] = fs[Xcf(id[1], id[2])]
  <2>1. PICK n \in 0 .. count - 1 : n = json[id]
    BY <1>2
  <2>2. fs[Unique(n)] = XcfFile(Names \ unique[n + 1], unique[n + 1])
    BY <1>3, <1>4, <1>5, <1>6, <1>7
  <2>3. Hardware(numbering, id) = unique[n + 1]
    BY <2>1 DEF Hardware, unique, json
  <2> QED BY <1>10, <2>1, <2>2, <2>3
<1>13. ASSUME NEW id \in DOMAIN json, NEW other \in DOMAIN json
       PROVE  json[id] = json[other] <=> fs[Xcf(id[1], id[2])] = fs[Xcf(other[1], other[2])]
  <2>1. PICK n \in 0 .. count - 1, m \in 0 .. count - 1 : n = json[id] /\ m = json[other]
    BY <1>2
  <2>2. Hardware(numbering, id) = unique[n + 1] /\ Hardware(numbering, other) = unique[m + 1]
    BY <2>1 DEF Hardware, unique, json
  <2>3. n + 1 \in 1 .. count /\ m + 1 \in 1 .. count
    BY <1>2
  <2>4. unique[n + 1] = unique[m + 1] => n = m
    BY <1>2, <2>3
  <2>5. fs[Xcf(id[1], id[2])].hardware = unique[n + 1] /\ fs[Xcf(other[1], other[2])].hardware = unique[m + 1]
    <3>1. \A a, b : XcfFile(a, b).hardware = b
      BY DEF XcfFile
    <3>2. /\ fs[Xcf(id[1], id[2])] = XcfFile(Names \ unique[n + 1], unique[n + 1])
          /\ fs[Xcf(other[1], other[2])] = XcfFile(Names \ unique[m + 1], unique[m + 1])
      BY <1>10, <2>2
    <3> QED BY <3>1, <3>2
  <2>6. ASSUME n = m PROVE fs[Xcf(id[1], id[2])] = fs[Xcf(other[1], other[2])]
    BY <1>10, <2>2, <2>6
  <2> QED BY <2>1, <2>4, <2>5, <2>6
<1> QED BY <1>8, <1>11, <1>12, <1>13

LEMMA EndHeterogeneousInv == IInv /\ endHeterogeneous => IInv'
<1> SUFFICES ASSUME IInv, endHeterogeneous PROVE IInv'
  OBVIOUS
<1>0. /\ status = "solving" /\ Heterogeneous /\ cores > MaxCores /\ status' = "done"
      /\ UNCHANGED <<network, inputs, profile, config, pending, cores, numbering>>
  BY DEF endHeterogeneous
<1> DEFINE new(saved) ==
      IF saved THEN Over([f \in {HardwareJson} |-> numbering.map], UniqueFiles) ELSE UniqueFiles
<1>1. PICK saved \in BOOLEAN :
        /\ files' = Over(new(saved), files)
        /\ reported' = IF saved THEN reported ELSE reported \union {"hardware.json"}
  BY DEF endHeterogeneous, Write
<1>2. TaskInv' /\ ScriptInv' /\ ProfileInv'
  BY <1>0 DEF IInv, TaskInv, ScriptInv, ProfileInv
<1>3. ReportedInv'
  BY <1>1 DEF IInv, ReportedInv
<1>4. CoresInv'
  BY <1>0 DEF IInv, CoresInv, MaxCores, Heterogeneous
<1>5. numbering \in Numberings /\ numbering' \in Numberings'
  BY <1>0 DEF IInv, NumberedInv, Numberings, Sets, Maps, Names
<1>6. NumberedInv'
  BY <1>0, <1>5 DEF NumberedInv
<1>7. FilesInv'
  <2>1. \A f \in DOMAIN UniqueFiles : f.dir = "unique" /\ f.cores \in Nat /\ f.index \in Nat
    <3>1. DOMAIN UniqueFiles = {Unique(n) : n \in 0 .. numbering.count - 1}
      BY <1>5, UniqueFilesFacts
    <3> QED BY <3>1 DEF Unique, File
  <2>2. HardwareJson.dir = "heterogeneous" /\ HardwareJson.cores = 0 /\ HardwareJson.index = 0
    BY DEF HardwareJson, File
  <2>3. \A f \in DOMAIN new(saved) : f = HardwareJson \/ f \in DOMAIN UniqueFiles
    BY DEF Over
  <2> HIDE DEF new
  <2>4. \A f \in DOMAIN new(saved) :
          f.dir \in {"homogeneous", "heterogeneous", "unique"} /\ f.cores \in Nat /\ f.index \in Nat
    BY <2>1, <2>2, <2>3
  <2> QED BY <1>1, <2>4, FilesStep DEF IInv
<1>8. HardwareNumbered'
  <2>1. CASE ~saved
    <3>1. "hardware.json" \in reported'
      BY <1>1, <2>1
    <3> QED BY <3>1 DEF HardwareNumbered
  <2>2. CASE saved
    <3>1. cores \in Nat /\ MaxCores \in Int /\ (cores = 1 \/ cores \in 1 .. MaxCores + 1)
      BY <1>0, MaxCoresType DEF IInv, CoresInv
    <3>2. 1 .. cores - 1 = 1 .. MaxCores
      BY <1>0, <3>1
    <3>3. Numbered(numbering, files, cores)
      BY <1>0 DEF IInv, NumberedInv, Numbered
    <3>4. files' = Over(Over([f \in {HardwareJson} |-> numbering.map], UniqueFiles), files)
      BY <1>1, <2>2
    <3>5. /\ DOMAIN files'[HardwareJson] = UNION {{k} \X DOMAIN files'[Csv(k)] : k \in 1 .. MaxCores}
          /\ \A id \in DOMAIN files'[HardwareJson] :
               files'[Unique(files'[HardwareJson][id])] = files'[Xcf(id[1], id[2])]
          /\ \A id, other \in DOMAIN files'[HardwareJson] :
               files'[HardwareJson][id] = files'[HardwareJson][other] <=>
                 files'[Xcf(id[1], id[2])] = files'[Xcf(other[1], other[2])]
      BY <3>1, <3>2, <3>3, <3>4, SavedNumbered
    <3>6. MaxCores' = MaxCores
      BY <1>0 DEF MaxCores, Heterogeneous
    <3> QED BY <3>5, <3>6 DEF HardwareNumbered, Csv, Xcf, HardwareJson, Unique, File
  <2> QED BY <2>1, <2>2
<1> QED BY <1>2, <1>3, <1>4, <1>6, <1>7, <1>8 DEF IInv

LEMMA EndThrowsInv == IInv /\ endHeterogeneousThrows => IInv'
<1> SUFFICES ASSUME IInv, endHeterogeneousThrows PROVE IInv'
  OBVIOUS
<1>0. /\ status' = "thrown"
      /\ UNCHANGED <<network, inputs, profile, config, pending, cores, numbering>>
  BY DEF endHeterogeneousThrows
<1>1. /\ files' = files \/ files' = Over([f \in {HardwareJson} |-> numbering.map], files)
      /\ reported' \in {reported, reported \union {"hardware.json"}}
  BY DEF endHeterogeneousThrows, Write
<1>2. TaskInv' /\ ScriptInv' /\ ProfileInv' /\ CoresInv' /\ HardwareNumbered'
  BY <1>0 DEF IInv, TaskInv, ScriptInv, ProfileInv, CoresInv, HardwareNumbered, MaxCores, Heterogeneous
<1>3. ReportedInv'
  BY <1>1 DEF IInv, ReportedInv
<1>4. NumberedInv'
  BY <1>0 DEF IInv, NumberedInv, Numberings, Sets, Maps, Names
<1>5. FilesInv'
  <2> DEFINE new == [f \in {HardwareJson} |-> numbering.map]
  <2>1. \A f \in DOMAIN new :
          f.dir \in {"homogeneous", "heterogeneous", "unique"} /\ f.cores \in Nat /\ f.index \in Nat
    BY DEF HardwareJson, File
  <2>2. files' = files => FilesInv'
    BY DEF IInv, FilesInv
  <2> HIDE DEF new
  <2>3. files' = Over(new, files) => FilesInv'
    BY <2>1, FilesStep DEF IInv
  <2> QED BY <1>1, <2>2, <2>3 DEF new
<1> QED BY <1>2, <1>3, <1>4, <1>5 DEF IInv

LEMMA EndMulticoreInv == IInv /\ endMulticore => IInv'
<1> SUFFICES ASSUME IInv, endMulticore PROVE IInv'
  OBVIOUS
<1>0. /\ status = "solving" /\ ~Heterogeneous /\ status' = "done"
      /\ UNCHANGED <<network, inputs, profile, config, pending, reported, cores, numbering, files>>
  BY DEF endMulticore
<1>1. TaskInv' /\ ScriptInv' /\ FilesInv' /\ ProfileInv' /\ ReportedInv'
  BY <1>0 DEF IInv, TaskInv, ScriptInv, FilesInv, ProfileInv, ReportedInv
<1>2. CoresInv' /\ HardwareNumbered'
  BY <1>0 DEF IInv, CoresInv, HardwareNumbered, MaxCores, Heterogeneous
<1>3. NumberedInv'
  BY <1>0 DEF IInv, NumberedInv, Numberings, Sets, Maps, Names
<1> QED BY <1>1, <1>2, <1>3 DEF IInv

LEMMA CompileAgainInv == IInv /\ compileAgain => IInv'
<1> SUFFICES ASSUME IInv, compileAgain PROVE IInv'
  OBVIOUS
<1>0. /\ pending # <<>> /\ config' = Head(pending) /\ pending' = Tail(pending) /\ status' = "start"
      /\ profile' = NoProfile /\ reported' = {} /\ cores' = 0 /\ numbering' = NoHardware
      /\ UNCHANGED <<network, inputs, files>>
  BY DEF compileAgain
<1>1. TaskInv' /\ FilesInv' /\ ReportedInv' /\ CoresInv' /\ HardwareNumbered'
  BY <1>0 DEF IInv, TaskInv, FilesInv, ReportedInv, CoresInv, HardwareNumbered
<1>2. ScriptInv'
  <2>1. PICK s \in Scripts : \E m \in 1 .. Len(s) : pending = SubSeq(s, m + 1, Len(s))
    BY DEF IInv, ScriptInv
  <2>2. PICK m \in 1 .. Len(s) : pending = SubSeq(s, m + 1, Len(s))
    BY <2>1
  <2>3. /\ m + 1 \in 1 .. Len(s) /\ Head(pending) = s[m + 1]
        /\ Tail(pending) = SubSeq(s, (m + 1) + 1, Len(s))
    BY <1>0, <2>2, ScriptStep
  <2> QED BY <1>0, <2>3 DEF ScriptInv
<1>3. ProfileInv'
  BY <1>0 DEF ProfileInv, NoProfile, Restrict, Databases
<1>4. NumberedInv'
  <2>1. NoHardware \in Numberings'
    BY <1>0, NoHardwareNumbers DEF Numberings, Sets, Maps, Names
  <2> QED BY <1>0, <2>1 DEF NumberedInv
<1> QED BY <1>1, <1>2, <1>3, <1>4 DEF IInv

LEMMA NextInv == IInv /\ [Next]_vars => IInv'
<1> SUFFICES ASSUME IInv, [Next]_vars PROVE IInv'
  OBVIOUS
<1>1. CASE setConfig
  BY <1>1, SetConfigInv
<1>2. CASE setConfigThrows
  BY <1>2, ThrowsInv DEF setConfigThrows
<1>3. CASE solveMulticore
  BY <1>3, SolveMulticoreInv
<1>4. CASE solveHeterogeneous
  BY <1>4, SolveHeterogeneousInv
<1>5. CASE solveThrows
  BY <1>5, ThrowsInv DEF solveThrows
<1>6. CASE endMulticore
  BY <1>6, EndMulticoreInv
<1>7. CASE endHeterogeneous
  BY <1>7, EndHeterogeneousInv
<1>8. CASE compileAgain
  BY <1>8, CompileAgainInv
<1>10. CASE endHeterogeneousThrows
  BY <1>10, EndThrowsInv
<1>9. CASE ended \/ UNCHANGED vars
  <2>1. UNCHANGED <<network, inputs, profile, config, pending, status, reported, cores, numbering, files>>
    BY <1>9 DEF ended, vars, phaseVars
  <2>2. TaskInv' /\ ScriptInv' /\ FilesInv' /\ ProfileInv' /\ ReportedInv'
    BY <2>1 DEF IInv, TaskInv, ScriptInv, FilesInv, ProfileInv, ReportedInv
  <2>3. CoresInv' /\ HardwareNumbered'
    BY <2>1 DEF IInv, CoresInv, HardwareNumbered, MaxCores, Heterogeneous
  <2>4. NumberedInv'
    <3>1. numbering' \in Numberings'
      BY <2>1 DEF IInv, NumberedInv, Numberings, Sets, Maps, Names
    <3>2. Names' = Names /\ Heterogeneous' = Heterogeneous
      BY <2>1 DEF Names, Heterogeneous
    <3>3. status' = "start" => numbering' = NoHardware
      BY <2>1 DEF IInv, NumberedInv
    <3>4. ASSUME status' = "solving", Heterogeneous'
          PROVE  /\ \A k \in 1 .. cores' - 1 : Csv(k) \in DOMAIN files'
                 /\ DOMAIN numbering'.map = UNION {{k} \X DOMAIN files'[Csv(k)] : k \in 1 .. cores' - 1}
                 /\ \A id \in DOMAIN numbering'.map :
                      /\ Xcf(id[1], id[2]) \in DOMAIN files'
                      /\ files'[Xcf(id[1], id[2])] =
                           XcfFile(Names' \ Hardware(numbering', id), Hardware(numbering', id))
      BY <2>1, <3>2, <3>4 DEF IInv, NumberedInv
    <3> QED BY <3>1, <3>3, <3>4 DEF NumberedInv, Csv, Xcf, Hardware, XcfFile
  <2> QED BY <2>2, <2>3, <2>4 DEF IInv
<1> QED BY <1>1, <1>2, <1>3, <1>4, <1>5, <1>6, <1>7, <1>8, <1>9, <1>10 DEF Next

LEMMA Invariant == Spec => []IInv
<1>1. Init => IInv
  BY InitInv
<1>2. IInv /\ [Next]_vars => IInv'
  BY NextInv
<1> QED BY <1>1, <1>2, PTL DEF Spec

\* When a compilation ends, hardware.json has an entry for each solution it found, and
\* the index of an entry is that of the file in unique/ with the two sides of its
\* solution, whatever earlier compilations left there (PartitioningAnalysisPhase.execute).
THEOREM HardwareIsNumbered == Spec => []HardwareNumbered
<1>1. IInv => HardwareNumbered
  BY DEF IInv
<1> QED BY <1>1, Invariant, PTL

LEMMA ReverseSuffix ==
  ASSUME NEW s \in Scripts, NEW m \in 1 .. Len(s)
  PROVE  IsSuffix(<<s[m]>> \o SubSeq(s, m + 1, Len(s)), s)
<1>1. s \in Seq(ToSet(s)) /\ Len(s) \in Nat
  BY ScriptFacts
<1>2. <<s[m]>> \o SubSeq(s, m + 1, Len(s)) = SubSeq(s, m, Len(s))
  BY <1>1, SubSeqRecursiveFirst
<1> DEFINE t == SubSeq(s, m, Len(s))
           L == Len(s) - m + 1
<1>3. Len(t) = L /\ L \in Nat /\ L <= Len(s) /\ \A i \in 1 .. L : t[i] = s[m + i - 1]
  BY <1>1, SubSeqProperties
<1> HIDE DEF t
<1>4. Reverse(t) \in Seq(ToSet(s)) /\ Len(Reverse(t)) = L /\ \A i \in 1 .. L : Reverse(t)[i] = s[Len(s) - i + 1]
  BY <1>1, <1>3 DEF Reverse
<1>5. /\ Reverse(s) \in Seq(ToSet(s)) /\ Len(Reverse(s)) = Len(s)
      /\ \A i \in 1 .. Len(s) : Reverse(s)[i] = s[Len(s) - i + 1]
  BY <1>1 DEF Reverse
<1>6. SubSeq(Reverse(t), 1, L) = SubSeq(Reverse(s), 1, L)
  <2>1. \A i \in 1 .. L : Reverse(t)[i] \in ToSet(s) /\ Reverse(s)[i] \in ToSet(s)
    BY <1>1, <1>3, <1>4, <1>5
  <2>2. \A i \in 1 .. L - 1 + 1 : 1 + i - 1 = i /\ i \in 1 .. L /\ i \in 1 .. Len(s)
    BY <1>1, <1>3
  <2>3. L \in Int /\ 1 \in Int
    BY <1>3
  <2>4. /\ SubSeq(Reverse(t), 1, L) \in Seq(ToSet(s))
        /\ Len(SubSeq(Reverse(t), 1, L)) = IF 1 <= L THEN L - 1 + 1 ELSE 0
        /\ \A i \in 1 .. L - 1 + 1 : SubSeq(Reverse(t), 1, L)[i] = Reverse(t)[1 + i - 1]
    BY <2>1, <2>3, SubSeqProperties
  <2>5. /\ SubSeq(Reverse(s), 1, L) \in Seq(ToSet(s))
        /\ Len(SubSeq(Reverse(s), 1, L)) = IF 1 <= L THEN L - 1 + 1 ELSE 0
        /\ \A i \in 1 .. L - 1 + 1 : SubSeq(Reverse(s), 1, L)[i] = Reverse(s)[1 + i - 1]
    BY <2>1, <2>3, SubSeqProperties
  <2>6. L - 1 + 1 = L /\ (IF 1 <= L THEN L ELSE 0) = L
    BY <1>3
  <2>7. \A i \in 1 .. L : SubSeq(Reverse(t), 1, L)[i] = SubSeq(Reverse(s), 1, L)[i]
    BY <1>4, <1>5, <2>2, <2>4, <2>5, <2>6
  <2> QED BY <2>4, <2>5, <2>6, <2>7, SeqEqual
<1> QED BY <1>2, <1>3, <1>4, <1>5, <1>6 DEF IsSuffix, IsPrefix, t

\* Every variable has its type, the indices of the sets of instances on the accelerator
\* are those of the list, and the names of the files are well formed.
THEOREM TypesAreRight == Spec => []TypeOK
<1>1. ASSUME IInv PROVE TypeOK
  <2>1. \E s \in Scripts : IsSuffix(<<config>> \o pending, s)
    BY <1>1, ReverseSuffix DEF IInv, ScriptInv
  <2>2. cores \in 0 .. Max({2, MaxCores + 1})
    <3>1. cores \in Nat /\ MaxCores + 1 \in Int /\ (cores <= 2 \/ cores <= MaxCores + 1)
      BY <1>1, MaxCoresType DEF IInv, CoresInv
    <3>2. PICK a \in Int : a = MaxCores + 1
      BY <3>1
    <3>3. PICK b \in Int : b = Max({2, a}) /\ 2 <= b /\ a <= b
      BY MaxOfTwo
    <3> QED BY <3>1, <3>2, <3>3
  <2>3. \A h \in ToSet(numbering.unique) : h # {} /\ h \subseteq Names
    BY <1>1 DEF IInv, NumberedInv, Numberings, Sets, ToSet
  <2>4. /\ numbering.count = Len(numbering.unique)
        /\ \A id \in DOMAIN numbering.map : numbering.map[id] \in 0 .. numbering.count - 1
    BY <1>1 DEF IInv, NumberedInv, Numberings
  <2> QED BY <1>1, <2>1, <2>2, <2>3, <2>4
          DEF TypeOK, IInv, TaskInv, CoresInv, ProfileInv, ReportedInv, FilesInv
<1> QED BY <1>1, Invariant, PTL

-----------------------------------------------------------------------------
(* The order of the instances, and numberings that grow by one at a time.  *)

Ordered == network.instances \in Seq(Names) /\ IsInjective(network.instances)

LEMMA TaskFacts ==
  ASSUME TaskInv
  PROVE  /\ Ordered /\ PLink \notin Names /\ IsFiniteSet(Connections)
         /\ \A c \in Connections : c.source \in Names /\ c.target \in Names
<1>1. PICK t \in Tasks : network = t.network
  BY DEF TaskInv
<1>2. ToSet(network.instances) = Names
  BY DEF ToSet, Names
<1>3. TaskOK(t)
  BY PhaseAssumption
<1> QED BY <1>1, <1>2, <1>3 DEF TaskOK, Ordered, Connections

LEMMA PositionFacts ==
  ASSUME Ordered
  PROVE  /\ IsFiniteSet(Names) /\ Cardinality(Names) = Len(network.instances)
         /\ \A i \in Names : Position(i) \in Nat \ {0}
         /\ \A i, j \in Names : Position(i) = Position(j) => i = j
<1> DEFINE ins == network.instances
           h == [i \in Names |-> Position(i)]
<1>1. ins \in Seq(Names) /\ Len(ins) \in Nat /\ DOMAIN ins = 1 .. Len(ins)
      /\ Names = {ins[n] : n \in DOMAIN ins}
      /\ \A n, m \in DOMAIN ins : ins[n] = ins[m] => n = m
  BY DEF Ordered, Names, IsInjective
<1>2. \A i \in Names : Position(i) \in DOMAIN ins /\ ins[Position(i)] = i
  BY <1>1 DEF Position
<1> HIDE DEF ins
<1>3. h \in [Names -> 1 .. Len(ins)] /\ \A i, j \in Names : h[i] = h[j] => i = j
  BY <1>1, <1>2
<1>4. ASSUME NEW n \in 1 .. Len(ins) PROVE ins[n] \in Names /\ h[ins[n]] = n
  BY <1>1, <1>2
<1>5. IsFiniteSet(1 .. Len(ins)) /\ Cardinality(1 .. Len(ins)) = Len(ins)
  BY <1>1, PrefixCount
<1> HIDE DEF h
<1>6. IsFiniteSet(Names) /\ Cardinality(Names) = Len(ins)
  <2>1. PICK T : T = 1 .. Len(ins)
    OBVIOUS
  <2>2. h \in [Names -> T] /\ \A t \in T : \E i \in Names : h[i] = t
    BY <1>3, <1>4, <2>1
  <2>3. IsFiniteSet(T) /\ Cardinality(T) = Len(ins)
    BY <1>5, <2>1
  <2> QED BY <1>3, <2>2, <2>3, Paired
<1>7. \A i \in Names : Position(i) \in Nat \ {0}
  BY <1>1, <1>2
<1> QED BY <1>2, <1>6, <1>7 DEF ins

\* Of instances there is a first one, before which there is none.
LEMMA FirstFacts ==
  ASSUME Ordered, NEW A \in SUBSET Names, A # {}
  PROVE  /\ FirstActor(A) \in A /\ Before(FirstActor(A), A) = {}
         /\ \A i \in A : i # FirstActor(A) => Position(FirstActor(A)) < Position(i)
<1> DEFINE at == {Position(i) : i \in A}
<1>1. at \subseteq Nat /\ at # {}
  BY PositionFacts
<1>2. PICK n \in at : \A m \in at : n <= m
  <2> HIDE DEF at
  <2> QED BY <1>1, LeastNatural
<1>3. PICK i \in A : n = Position(i)
  OBVIOUS
<1>4. \A j \in A : Position(i) <= Position(j) /\ Position(i) \in Nat /\ Position(j) \in Nat
  BY <1>2, <1>3, PositionFacts
<1>5. Before(i, A) = {}
  BY <1>4 DEF Before
<1>6. FirstActor(A) \in A /\ Before(FirstActor(A), A) = {}
  BY <1>5 DEF FirstActor
<1>7. ASSUME NEW j \in A, j # FirstActor(A) PROVE Position(FirstActor(A)) < Position(j)
  <2>1. ~(Position(j) < Position(FirstActor(A)))
    BY <1>6 DEF Before
  <2>2. Position(j) # Position(FirstActor(A)) /\ Position(j) \in Nat /\ Position(FirstActor(A)) \in Nat
    BY <1>6, <1>7, PositionFacts
  <2> QED BY <2>1, <2>2
<1> QED BY <1>6, <1>7

\* What holds of an instance when it holds of all before it holds of all.
LEMMA PositionInduction ==
  ASSUME Ordered, NEW A \in SUBSET Names, NEW T \in SUBSET A,
         \A i \in A : Before(i, A) \subseteq T => i \in T
  PROVE  T = A
<1> SUFFICES ASSUME A \ T # {} PROVE FALSE
  OBVIOUS
<1>1. PICK i \in A \ T : Before(i, A \ T) = {}
  BY FirstFacts
<1>2. Before(i, A) \subseteq T
  BY <1>1 DEF Before
<1> QED BY <1>1, <1>2

\* Numberings of A by which the solver breaks the symmetry of the cores.
Grown(A, k) == {a \in [A -> Cores(k)] : RestrictedGrowth(a, k)}

LEMMA GrownFacts ==
  ASSUME Ordered, NEW A \in SUBSET Names, A # {}, NEW k \in Nat, NEW a \in Grown(A, k)
  PROVE  /\ \A i \in A : a[i] \in Nat
         /\ a[FirstActor(A)] = 0
         /\ \A i \in A : i # FirstActor(A) =>
              \E m \in Before(i, A) : a[i] <= a[m] + 1 /\ \A j \in Before(i, A) : a[j] <= a[m]
         /\ \E i \in A : a[i] = k - 1
<1>1. /\ a \in [A -> Cores(k)] /\ DOMAIN a = A /\ a[FirstActor(A)] = 0
      /\ \A i \in A \ {FirstActor(A)} : a[i] <= Max({a[j] : j \in Before(i, A)}) + 1
      /\ Max({a[i] : i \in A}) = k - 1
  BY DEF Grown, RestrictedGrowth
<1>2. \A i \in A : a[i] \in Nat
  BY <1>1 DEF Cores
<1>3. IsFiniteSet(A)
  BY PositionFacts, FS_Subset
<1>4. ASSUME NEW B \in SUBSET A, B # {}
      PROVE  \E m \in B : a[m] = Max({a[j] : j \in B}) /\ \A j \in B : a[j] <= a[m]
  <2> DEFINE V == {a[j] : j \in B}
  <2>1. IsFiniteSet(V)
    <3>1. IsFiniteSet(B)
      BY <1>3, FS_Subset
    <3> QED BY <3>1, ImageFinite
  <2>2. V \subseteq Int /\ V # {}
    BY <1>2, <1>4
  <2>3. Max(V) \in V /\ \A v \in V : v <= Max(V)
    <3> HIDE DEF V
    <3> QED BY <2>1, <2>2, MaxFacts
  <2> QED BY <2>3
<1>5. ASSUME NEW i \in A, i # FirstActor(A)
      PROVE  \E m \in Before(i, A) : a[i] <= a[m] + 1 /\ \A j \in Before(i, A) : a[j] <= a[m]
  <2>1. FirstActor(A) \in Before(i, A)
    BY <1>5, FirstFacts DEF Before
  <2>2. PICK m \in Before(i, A) :
          a[m] = Max({a[j] : j \in Before(i, A)}) /\ \A j \in Before(i, A) : a[j] <= a[m]
    BY <1>4, <2>1 DEF Before
  <2> QED BY <1>1, <1>5, <2>2
<1>6. \E i \in A : a[i] = k - 1
  BY <1>1, <1>4
<1> QED BY <1>1, <1>2, <1>5, <1>6

\* Below the number of an instance, every number has come before.
LEMMA GrownBelow ==
  ASSUME Ordered, NEW A \in SUBSET Names, A # {}, NEW k \in Nat, NEW a \in Grown(A, k)
  PROVE  \A i \in A, v \in Nat : v < a[i] => \E j \in Before(i, A) : a[j] = v
<1> DEFINE T == {i \in A : \A v \in Nat : v < a[i] => \E j \in Before(i, A) : a[j] = v}
<1>1. ASSUME NEW i \in A, Before(i, A) \subseteq T PROVE i \in T
  <2> SUFFICES ASSUME NEW v \in Nat, v < a[i] PROVE \E j \in Before(i, A) : a[j] = v
    OBVIOUS
  <2>1. i # FirstActor(A)
    BY GrownFacts
  <2>2. PICK m \in Before(i, A) : a[i] <= a[m] + 1 /\ \A j \in Before(i, A) : a[j] <= a[m]
    BY <2>1, GrownFacts
  <2>3. m \in A /\ a[m] \in Nat /\ a[i] \in Nat /\ Position(m) < Position(i)
    BY <2>2, GrownFacts DEF Before
  <2>4. CASE v = a[m]
    BY <2>2, <2>4
  <2>5. CASE v < a[m]
    <3>1. PICK j \in Before(m, A) : a[j] = v
      BY <1>1, <2>2, <2>5
    <3>2. j \in A /\ Position(j) < Position(m)
      BY <3>1 DEF Before
    <3>3. Position(j) \in Nat /\ Position(m) \in Nat /\ Position(i) \in Nat
      BY <2>3, <3>2, PositionFacts
    <3>4. j \in Before(i, A)
      BY <2>3, <3>2, <3>3 DEF Before
    <3> QED BY <3>1, <3>4
  <2> QED BY <2>2, <2>3, <2>4, <2>5
<1>2. T = A
  <2>1. T \in SUBSET A
    OBVIOUS
  <2> HIDE DEF T
  <2> QED BY <1>1, <2>1, PositionInduction
<1> QED BY <1>2

LEMMA GrownOnto ==
  ASSUME Ordered, NEW A \in SUBSET Names, A # {}, NEW k \in Nat \ {0}, NEW a \in Grown(A, k)
  PROVE  \A p \in Cores(k) : \E i \in A : a[i] = p
<1> SUFFICES ASSUME NEW p \in Cores(k) PROVE \E i \in A : a[i] = p
  OBVIOUS
<1>1. PICK i \in A : a[i] = k - 1
  BY GrownFacts
<1>2. p \in Nat /\ p <= k - 1
  BY DEF Cores
<1>3. CASE p = k - 1
  BY <1>1, <1>3
<1>4. CASE p < k - 1
  <2>1. \E j \in Before(i, A) : a[j] = p
    <3>1. \A l \in A, v \in Nat : v < a[l] => \E j \in Before(l, A) : a[j] = v
      BY GrownBelow
    <3> QED BY <1>1, <1>2, <1>4, <3>1
  <2> QED BY <2>1 DEF Before
<1> QED BY <1>2, <1>3, <1>4

\* An instance with a number that none before it has has the next number.
LEMMA GrownNew ==
  ASSUME Ordered, NEW A \in SUBSET Names, A # {}, NEW k \in Nat, NEW a \in Grown(A, k),
         NEW i \in A, i # FirstActor(A), \A j \in Before(i, A) : a[j] # a[i]
  PROVE  \E m \in Before(i, A) : a[i] = a[m] + 1 /\ \A j \in Before(i, A) : a[j] <= a[m]
<1>1. PICK m \in Before(i, A) : a[i] <= a[m] + 1 /\ \A j \in Before(i, A) : a[j] <= a[m]
  BY GrownFacts
<1>2. m \in A /\ a[m] \in Nat /\ a[i] \in Nat /\ Position(m) < Position(i)
  BY <1>1, GrownFacts DEF Before
<1>3. ~(a[i] < a[m])
  <2> SUFFICES ASSUME a[i] < a[m] PROVE FALSE
    OBVIOUS
  <2>1. PICK j \in Before(m, A) : a[j] = a[i]
    <3>1. \A l \in A, v \in Nat : v < a[l] => \E j \in Before(l, A) : a[j] = v
      BY GrownBelow
    <3> QED BY <1>2, <3>1
  <2>2. j \in A /\ Position(j) < Position(m)
    BY <2>1 DEF Before
  <2>3. Position(j) \in Nat /\ Position(m) \in Nat /\ Position(i) \in Nat
    BY <1>2, <2>2, PositionFacts
  <2>4. j \in Before(i, A)
    BY <1>2, <2>2, <2>3 DEF Before
  <2> QED BY <2>1, <2>4
<1>4. a[m] # a[i]
  BY <1>1
<1>5. a[i] = a[m] + 1
  BY <1>1, <1>2, <1>3, <1>4
<1> QED BY <1>1, <1>5

\* Together on a core by a, and by b.
SameClasses(A, a, b) == \A i, j \in A : a[i] = a[j] <=> b[i] = b[j]

LEMMA GrownUnique ==
  ASSUME Ordered, NEW A \in SUBSET Names, A # {}, NEW k \in Nat,
         NEW a \in Grown(A, k), NEW b \in Grown(A, k), SameClasses(A, a, b)
  PROVE  a = b
<1> DEFINE T == {i \in A : a[i] = b[i]}
<1>1. ASSUME NEW i \in A, Before(i, A) \subseteq T PROVE i \in T
  <2>1. CASE i = FirstActor(A)
    BY <2>1, GrownFacts
  <2>2. CASE i # FirstActor(A) /\ \E j \in Before(i, A) : a[j] = a[i]
    <3>1. PICK j \in Before(i, A) : a[j] = a[i]
      BY <2>2
    <3>2. j \in A /\ a[j] = b[j]
      BY <1>1, <3>1 DEF Before
    <3>3. b[j] = b[i]
      BY <3>1, <3>2 DEF SameClasses
    <3> QED BY <3>1, <3>2, <3>3
  <2>3. CASE i # FirstActor(A) /\ \A j \in Before(i, A) : a[j] # a[i]
    <3>1. \A j \in Before(i, A) : b[j] # b[i]
      BY <2>3 DEF SameClasses, Before
    <3>2. PICK m \in Before(i, A) : a[i] = a[m] + 1 /\ \A j \in Before(i, A) : a[j] <= a[m]
      BY <2>3, GrownNew
    <3>3. PICK n \in Before(i, A) : b[i] = b[n] + 1 /\ \A j \in Before(i, A) : b[j] <= b[n]
      BY <2>3, <3>1, GrownNew
    <3>4. a[m] = b[m] /\ a[n] = b[n] /\ m \in A /\ n \in A
      BY <1>1, <3>2, <3>3 DEF Before
    <3>5. a[m] \in Nat /\ a[n] \in Nat
      BY <3>4, GrownFacts
    <3>6. a[n] <= a[m] /\ b[m] <= b[n]
      BY <3>2, <3>3
    <3>7. a[m] = b[n]
      BY <3>4, <3>5, <3>6
    <3> QED BY <3>2, <3>3, <3>7
  <2> QED BY <2>1, <2>2, <2>3
<1>2. T = A
  <2>1. T \in SUBSET A
    OBVIOUS
  <2> HIDE DEF T
  <2> QED BY <1>1, <2>1, PositionInduction
<1>3. a \in [A -> Cores(k)] /\ b \in [A -> Cores(k)]
  BY DEF Grown
<1> QED BY <1>2, <1>3

\* The first instance on the same core, and the cores that are used before it.
Leader(A, f, i) == CHOOSE j \in A : f[j] = f[i] /\ \A l \in A : f[l] = f[i] => Position(j) <= Position(l)
Earlier(A, f, i) == {f[j] : j \in Before(Leader(A, f, i), A)}

\* The numbering that counts the cores in the order in which they are first used.
Renumbered(A, f) == [i \in A |-> Cardinality(Earlier(A, f, i))]

LEMMA LeaderFacts ==
  ASSUME Ordered, NEW A \in SUBSET Names, NEW f, NEW i \in A
  PROVE  /\ Leader(A, f, i) \in A /\ f[Leader(A, f, i)] = f[i]
         /\ \A l \in A : f[l] = f[i] => Position(Leader(A, f, i)) <= Position(l)
<1> DEFINE B == {j \in A : f[j] = f[i]}
<1>1. PICK j \in B : \A l \in B : l # j => Position(j) < Position(l)
  <2>1. B \in SUBSET Names /\ B # {}
    OBVIOUS
  <2> HIDE DEF B
  <2> QED BY <2>1, FirstFacts
<1>2. \A l \in A : f[l] = f[i] => Position(j) <= Position(l)
  BY <1>1, PositionFacts
<1> QED BY <1>1, <1>2 DEF Leader

LEMMA RenumberedClasses ==
  ASSUME Ordered, NEW A \in SUBSET Names, NEW f
  PROVE  SameClasses(A, f, Renumbered(A, f))
<1> DEFINE a == Renumbered(A, f)
<1>1. \A i \in A : a[i] = Cardinality(Earlier(A, f, i))
  BY DEF Renumbered
<1>2. ASSUME NEW i \in A, NEW j \in A, f[i] = f[j] PROVE a[i] = a[j]
  <2> DEFINE l == Leader(A, f, i)
             m == Leader(A, f, j)
  <2>1. l \in A /\ m \in A /\ f[l] = f[i] /\ f[m] = f[j]
    BY LeaderFacts
  <2>2. Position(l) <= Position(m) /\ Position(m) <= Position(l)
    BY <1>2, <2>1, LeaderFacts
  <2>3. l = m
    BY <2>1, <2>2, PositionFacts
  <2> QED BY <1>1, <2>3 DEF Earlier
<1>3. \A i \in A : IsFiniteSet(Earlier(A, f, i)) /\ Cardinality(Earlier(A, f, i)) \in Nat
  <2> SUFFICES ASSUME NEW i \in A PROVE IsFiniteSet(Earlier(A, f, i)) /\ Cardinality(Earlier(A, f, i)) \in Nat
    OBVIOUS
  <2>1. Before(Leader(A, f, i), A) \in SUBSET Names
    BY DEF Before
  <2>2. IsFiniteSet(Before(Leader(A, f, i), A))
    BY <2>1, PositionFacts, FS_Subset
  <2>3. IsFiniteSet(Earlier(A, f, i))
    BY <2>2, ImageFinite DEF Earlier
  <2> QED BY <2>3, FS_CardinalityType
<1>4. ASSUME NEW i \in A, NEW j \in A, f[i] # f[j],
             Position(Leader(A, f, i)) <= Position(Leader(A, f, j))
      PROVE  a[i] < a[j]
  <2> DEFINE l == Leader(A, f, i)
             m == Leader(A, f, j)
  <2>1. l \in A /\ m \in A /\ f[l] = f[i] /\ f[m] = f[j]
    BY LeaderFacts
  <2>2. Position(l) \in Nat /\ Position(m) \in Nat /\ Position(l) < Position(m)
    BY <1>4, <2>1, PositionFacts
  <2>3. \A n \in Before(l, A) : n \in Before(m, A) /\ f[n] # f[i]
    <3> SUFFICES ASSUME NEW n \in Before(l, A) PROVE n \in Before(m, A) /\ f[n] # f[i]
      OBVIOUS
    <3>1. n \in A /\ Position(n) < Position(l) /\ Position(n) \in Nat
      BY PositionFacts DEF Before
    <3>2. n \in Before(m, A)
      BY <2>2, <3>1 DEF Before
    <3>3. f[n] = f[i] => Position(l) <= Position(n)
      BY <3>1, LeaderFacts
    <3> QED BY <2>2, <3>1, <3>2, <3>3
  <2>4. l \in Before(m, A)
    BY <2>1, <2>2 DEF Before
  <2>5. f[i] \notin Earlier(A, f, i) /\ Earlier(A, f, i) \union {f[i]} \subseteq Earlier(A, f, j)
    BY <2>1, <2>3, <2>4 DEF Earlier
  <2>6. Cardinality(Earlier(A, f, i) \union {f[i]}) = Cardinality(Earlier(A, f, i)) + 1
    BY <1>3, <2>5, FS_AddElement
  <2>7. Cardinality(Earlier(A, f, i) \union {f[i]}) <= Cardinality(Earlier(A, f, j))
    BY <1>3, <2>5, FS_Subset
  <2> QED BY <1>1, <1>3, <2>6, <2>7
<1>5. ASSUME NEW i \in A, NEW j \in A, a[i] = a[j] PROVE f[i] = f[j]
  <2>1. a[i] \in Nat /\ Position(Leader(A, f, i)) \in Nat /\ Position(Leader(A, f, j)) \in Nat
    BY <1>1, <1>3, LeaderFacts, PositionFacts
  <2> HIDE DEF a
  <2> QED BY <1>4, <1>5, <2>1
<1> QED BY <1>2, <1>5 DEF SameClasses

LEMMA RenumberedGrown ==
  ASSUME Ordered, NEW A \in SUBSET Names, A # {}, NEW k \in Nat \ {0},
         NEW f \in [A -> Cores(k)], \A p \in Cores(k) : \E i \in A : f[i] = p
  PROVE  Renumbered(A, f) \in Grown(A, k)
<1> DEFINE a == Renumbered(A, f)
<1>1. \A i \in A : a[i] = Cardinality(Earlier(A, f, i))
  BY DEF Renumbered
<1>2. IsFiniteSet(A) /\ IsFiniteSet(Cores(k)) /\ Cardinality(Cores(k)) = k
  <2>1. IsFiniteSet(A)
    BY PositionFacts, FS_Subset
  <2>2. IsFiniteSet(0 .. k - 1) /\ Cardinality(0 .. k - 1) = IF 0 > k - 1 THEN 0 ELSE k - 1 - 0 + 1
    BY FS_Interval
  <2>3. (IF 0 > k - 1 THEN 0 ELSE k - 1 - 0 + 1) = k
    OBVIOUS
  <2> QED BY <2>1, <2>2, <2>3 DEF Cores
<1>3. SameClasses(A, f, a)
  BY RenumberedClasses
<1>4. ASSUME NEW i \in A PROVE a[i] \in Cores(k)
  <2> DEFINE l == Leader(A, f, i)
  <2>1. l \in A /\ f[l] = f[i]
    BY LeaderFacts
  <2>2. \A n \in Before(l, A) : f[n] # f[i]
    <3> SUFFICES ASSUME NEW n \in Before(l, A), f[n] = f[i] PROVE FALSE
      OBVIOUS
    <3>1. n \in A /\ Position(n) < Position(l) /\ Position(l) <= Position(n)
      BY LeaderFacts DEF Before
    <3>2. Position(n) \in Nat /\ Position(l) \in Nat
      BY <2>1, <3>1, PositionFacts
    <3> QED BY <3>1, <3>2
  <2>3. Earlier(A, f, i) \in SUBSET (Cores(k) \ {f[i]})
    BY <2>2 DEF Earlier, Before
  <2>4. IsFiniteSet(Cores(k) \ {f[i]}) /\ Cardinality(Cores(k) \ {f[i]}) = k - 1
    BY <1>2, FS_RemoveElement
  <2>5. Cardinality(Earlier(A, f, i)) <= k - 1 /\ IsFiniteSet(Earlier(A, f, i))
    BY <2>3, <2>4, FS_Subset
  <2>6. Cardinality(Earlier(A, f, i)) \in Nat
    BY <2>5, FS_CardinalityType
  <2> QED BY <1>1, <2>5, <2>6 DEF Cores
<1>5. a \in [A -> Cores(k)]
  BY <1>4 DEF Renumbered
<1>6. a[FirstActor(A)] = 0
  <2>1. FirstActor(A) \in A /\ Before(FirstActor(A), A) = {}
    BY FirstFacts
  <2> DEFINE l == Leader(A, f, FirstActor(A))
  <2>2. l \in A /\ Position(l) <= Position(FirstActor(A))
    BY <2>1, LeaderFacts
  <2>3. l # FirstActor(A) => Position(FirstActor(A)) < Position(l)
    BY <2>2, FirstFacts
  <2>4. l = FirstActor(A)
    <3>1. Position(l) \in Nat /\ Position(FirstActor(A)) \in Nat
      BY <2>1, <2>2, PositionFacts
    <3> QED BY <2>2, <2>3, <3>1
  <2>5. Earlier(A, f, FirstActor(A)) = {}
    BY <2>1, <2>4 DEF Earlier
  <2> QED BY <1>1, <2>1, <2>5, FS_EmptySet
<1> HIDE DEF a
<1>7. ASSUME NEW i \in A, i # FirstActor(A)
      PROVE  a[i] <= Max({a[j] : j \in Before(i, A)}) + 1
  <2> DEFINE B == Before(i, A)
             V == {a[j] : j \in B}
             l == Leader(A, f, i)
  <2>1. FirstActor(A) \in B /\ B \in SUBSET A
    BY <1>7, FirstFacts DEF Before
  <2>2. V \in SUBSET Nat /\ V # {} /\ IsFiniteSet(B)
    <3>1. V # {}
      BY <2>1
    <3>2. V \in SUBSET Nat
      BY <1>4, <2>1 DEF Cores
    <3>3. IsFiniteSet(B)
      BY <1>2, <2>1, FS_Subset
    <3> QED BY <3>1, <3>2, <3>3
  <2>3. IsFiniteSet(V)
    BY <2>2, ImageFinite
  <2>4. Max(V) \in V /\ \A v \in V : v <= Max(V)
    <3>1. V \subseteq Int
      BY <2>2
    <3> HIDE DEF V
    <3> QED BY <2>2, <2>3, <3>1, MaxFacts
  <2>5. l \in A /\ f[l] = f[i] /\ Position(l) <= Position(i)
    BY LeaderFacts
  <2>6. CASE l # i
    <3>1. Position(l) \in Nat /\ Position(i) \in Nat /\ Position(l) # Position(i)
      BY <2>5, <2>6, PositionFacts
    <3>2. l \in B
      BY <2>5, <3>1 DEF Before
    <3>3. a[l] = a[i]
      BY <1>3, <2>5 DEF SameClasses
    <3>4. a[i] \in V /\ a[i] \in Nat /\ Max(V) \in Nat
      BY <2>2, <2>4, <3>2, <3>3
    <3> HIDE DEF V
    <3>5. a[i] <= Max(V)
      BY <2>4, <3>4
    <3>6. a[i] <= Max(V) + 1
      BY <3>4, <3>5
    <3> QED BY <3>6 DEF V
  <2>7. CASE l = i
    <3>1. a[i] = Cardinality({f[j] : j \in B})
      BY <1>1, <2>7 DEF Earlier
    <3>2. \A x, y \in B : f[x] = f[y] <=> a[x] = a[y]
      BY <1>3, <2>1 DEF SameClasses
    <3>3. Cardinality({f[j] : j \in B}) = Cardinality(V)
      BY <2>2, <3>2, SameFibers
    <3>4. Max(V) \in Nat
      BY <2>2, <2>4
    <3>5. Cardinality(V) <= Max(V) + 1
      BY <2>2, <2>4, <3>4, FS_BoundedSetOfNaturals
    <3> QED BY <3>1, <3>3, <3>5
  <2> QED BY <2>6, <2>7
<1>8. Max({a[i] : i \in A}) = k - 1
  <2> DEFINE V == {a[i] : i \in A}
  <2>1. V \in SUBSET Cores(k)
    BY <1>4
  <2>2. {f[i] : i \in A} = Cores(k)
    OBVIOUS
  <2>3. Cardinality({f[i] : i \in A}) = Cardinality(V)
    BY <1>2, <1>3, SameFibers DEF SameClasses
  <2>4. V = Cores(k)
    BY <1>2, <2>1, <2>2, <2>3, FS_Subset
  <2>5. k - 1 \in V /\ \A v \in V : v <= k - 1 /\ v \in Int
    BY <2>4 DEF Cores
  <2> HIDE DEF V
  <2>6. Max(V) = k - 1
    BY <2>5, MaxIs
  <2> QED BY <2>6 DEF V
<1>9. DOMAIN a = A
  BY DEF a, Renumbered
<1>10. RestrictedGrowth(a, k)
  BY <1>6, <1>7, <1>8, <1>9 DEF RestrictedGrowth
<1> QED BY <1>5, <1>10 DEF Grown, a

-----------------------------------------------------------------------------
(* The times of connections, and their sums.                               *)

LEMMA ProductNat == \A x, y \in Nat : x * y \in Nat
OBVIOUS

LEMMA QuotientNat == \A x \in Nat, y \in Nat \ {0} : x \div y \in Nat
OBVIOUS

LEMMA CommunicationTimeNat ==
  ASSUME TaskInv, ProfileInv, NEW c, HasFifoTicks(c), NEW kind \in {"Local", "Global"}
  PROVE  CommunicationTime(c, kind) \in Nat
<1>1. PICK t \in Tasks : inputs = t.inputs
  BY DEF TaskInv
<1>2. /\ inputs.settings \in [DOMAIN inputs.settings -> [depth : Nat, width : Nat, tokens : Nat]]
      /\ inputs.fifo \in [DOMAIN inputs.fifo -> [Local : Nat, Global : Nat]]
      /\ DOMAIN inputs.fifo \subseteq Nat \ {0}
  BY <1>1, PhaseAssumption DEF TaskOK
<1>3. profile.settings[c] \in [depth : Nat, width : Nat, tokens : Nat]
  <2>1. /\ c \in DOMAIN profile.settings /\ DOMAIN profile.settings \subseteq DOMAIN inputs.settings
        /\ profile.settings = Restrict(inputs.settings, DOMAIN profile.settings)
    BY DEF HasFifoTicks, ProfileInv, Databases
  <2> QED BY <1>2, <2>1 DEF Restrict
<1>4. FifoSize(c) \in Nat \ {0} /\ profile.fifo[FifoSize(c)] \in [Local : Nat, Global : Nat]
  <2>1. /\ FifoSize(c) \in DOMAIN profile.fifo /\ DOMAIN profile.fifo \subseteq DOMAIN inputs.fifo
        /\ profile.fifo = Restrict(inputs.fifo, DOMAIN profile.fifo)
    BY DEF HasFifoTicks, ProfileInv, Databases
  <2> HIDE DEF FifoSize
  <2> QED BY <1>2, <2>1 DEF Restrict
<1>5. BytesExchanged(c) \in Nat
  BY <1>3, ProductNat DEF BytesExchanged, Settings
<1>6. profile.fifo[FifoSize(c)][kind] \in Nat
  BY <1>4
<1>7. Unit \in Nat /\ SwPeriod \in Nat
  BY PartitioningAssumption
<1>8. Unit * SwPeriod * BytesExchanged(c) * profile.fifo[FifoSize(c)][kind] \in Nat
  <2>1. Unit * SwPeriod \in Nat
    BY <1>7, ProductNat
  <2>2. Unit * SwPeriod * BytesExchanged(c) \in Nat
    BY <1>5, <2>1, ProductNat
  <2> QED BY <1>6, <2>2, ProductNat
<1> QED BY <1>4, <1>8, QuotientNat DEF CommunicationTime

\* The times of all connections as a function, whose sums are those of Communication.
Weights(kind) == [c \in Connections |-> CommunicationTime(c, kind)]
Timed(kind) == IsFiniteSet(Connections) /\ \A c \in Connections : CommunicationTime(c, kind) \in Nat

LEMMA TimedFacts ==
  ASSUME TaskInv, ProfileInv, \A c \in Connections : HasFifoTicks(c), NEW kind \in {"Local", "Global"}
  PROVE  Timed(kind)
BY TaskFacts, CommunicationTimeNat DEF Timed

LEMMA CommunicationIs ==
  ASSUME NEW kind, Timed(kind), NEW C \in SUBSET Connections
  PROVE  /\ IsFiniteSet(C) /\ Communication(C, kind) = SumOf(Weights(kind), C)
         /\ Communication(C, kind) \in Nat
         /\ Communication(C, kind) <= Communication(Connections, kind)
<1> DEFINE W == Weights(kind)
           w(D) == [c \in D |-> CommunicationTime(c, kind)]
<1>1. IsFiniteSet(Connections) /\ \A c \in Connections : W[c] \in Nat
  BY DEF Timed, Weights
<1>2. ASSUME NEW D \in SUBSET Connections
      PROVE  IsFiniteSet(D) /\ Communication(D, kind) = SumOf(W, D)
  <2>1. IsFiniteSet(D)
    BY <1>1, FS_Subset
  <2>2. Communication(D, kind) = SumOf(w(D), D)
    BY DEF Communication, SumFunction, SumOf
  <2>3. \A c \in D : W[c] \in Int /\ w(D)[c] = W[c]
    BY <1>1 DEF Weights
  <2> HIDE DEF W, w
  <2>4. SumOf(W, D) = SumOf(w(D), D)
    BY <2>1, <2>3, SumSame
  <2> QED BY <2>1, <2>2, <2>4
<1> HIDE DEF W
<1>3. SumOf(W, C) \in Nat
  BY <1>1, <1>2, SumNat
<1>4. SumOf(W, C) <= SumOf(W, Connections)
  BY <1>1, SumLess
<1> QED BY <1>2, <1>3, <1>4 DEF W

-----------------------------------------------------------------------------
(* The solutions of the multicore model.                                   *)

LEMMA CoresFinite ==
  ASSUME NEW k \in Nat \ {0}
  PROVE  IsFiniteSet(Cores(k)) /\ Cores(k) # {} /\ Cores(k) \subseteq Nat
<1>1. IsFiniteSet(0 .. k - 1)
  BY FS_Interval
<1>2. 0 \in 0 .. k - 1
  OBVIOUS
<1> QED BY <1>1, <1>2 DEF Cores

LEMMA MaxBelow ==
  ASSUME NEW P, IsFiniteSet(P), P # {}, NEW f, NEW b \in Nat,
         \A p \in P : f[p] \in Nat /\ f[p] <= b
  PROVE  Max({f[p] : p \in P}) \in Nat /\ Max({f[p] : p \in P}) <= b
<1> DEFINE V == {f[p] : p \in P}
<1>1. IsFiniteSet(V)
  BY ImageFinite
<1>2. V \subseteq Int /\ V # {} /\ \A v \in V : v \in Nat /\ v <= b
  OBVIOUS
<1>3. Max(V) \in V
  <2> HIDE DEF V
  <2> QED BY <1>1, <1>2, MaxFacts
<1> QED BY <1>2, <1>3

LEMMA LocalFits ==
  ASSUME Timed("Local"), NEW k \in Nat \ {0}, NEW on
  PROVE  MulticoreTimes(on, k).local <= Communication(Connections, "Local")
<1> DEFINE f == [p \in Cores(k) |-> LocalTime(on, p)]
           b == Communication(Connections, "Local")
<1>1. \A p \in Cores(k) : f[p] \in Nat /\ f[p] <= b
  <2>1. \A p : Between(on, p, p) \in SUBSET Connections
    BY DEF Between
  <2> QED BY <2>1, CommunicationIs DEF LocalTime
<1>2. b \in Nat
  BY CommunicationIs
<1>3. IsFiniteSet(Cores(k)) /\ Cores(k) # {}
  BY CoresFinite
<1>4. {f[p] : p \in Cores(k)} = {LocalTime(on, p) : p \in Cores(k)}
  OBVIOUS
<1> HIDE DEF f, b
<1>5. Max({f[p] : p \in Cores(k)}) <= b
  BY <1>1, <1>2, <1>3, MaxBelow
<1> QED BY <1>4, <1>5 DEF MulticoreTimes, b

\* The variables a and d of a numbering: they are equal.
Labelled(a) == [number |-> a, on |-> a]

LEMMA CoreAssignmentsAre ==
  ASSUME NEW A \in SUBSET Names, NEW k \in Nat, k <= Cardinality(A), Cardinality(A) \in Nat
  PROVE  CoreAssignments(A, k) = {Labelled(a) : a \in Grown(A, k)}
<1>1. ~(Cardinality(A) < k)
  OBVIOUS
<1>2. CoreAssignments(A, k) =
        {x \in {[number |-> a, on |-> d] : a \in Grown(A, k), d \in [A -> Cores(k)]} :
           SymmetryBreaking(x.number, x.on)}
  BY <1>1 DEF CoreAssignments, Grown
<1>3. ASSUME NEW a \in Grown(A, k), NEW d \in [A -> Cores(k)], SymmetryBreaking(a, d)
      PROVE  a = d
  <2>1. a \in [A -> Cores(k)] /\ DOMAIN a = A
    BY DEF Grown
  <2> QED BY <1>3, <2>1 DEF SymmetryBreaking
<1>4. CoreAssignments(A, k) \subseteq {Labelled(a) : a \in Grown(A, k)}
  BY <1>2, <1>3 DEF Labelled
<1>5. ASSUME NEW a \in Grown(A, k) PROVE Labelled(a) \in CoreAssignments(A, k)
  <2>1. a \in [A -> Cores(k)] /\ SymmetryBreaking(a, a)
    BY DEF Grown, SymmetryBreaking
  <2> QED BY <1>2, <2>1 DEF Labelled
<1> QED BY <1>4, <1>5

LEMMA MulticoreAssignmentsAre ==
  ASSUME Timed("Local"), NEW k \in Nat \ {0}, k <= Cardinality(Names), Cardinality(Names) \in Nat
  PROVE  MulticoreAssignments(k) = {Labelled(a) : a \in Grown(Names, k)}
<1>1. CoreAssignments(Names, k) = {Labelled(a) : a \in Grown(Names, k)}
  BY CoreAssignmentsAre
<1>2. \A x : MulticoreTimes(x.on, k).local <= Communication(Connections, "Local")
  BY LocalFits
<1> QED BY <1>1, <1>2 DEF MulticoreAssignments

\* The sets of instances of A that a puts on the k cores.
Blocks(A, a, k) == {{i \in A : a[i] = p} : p \in Cores(k)}
Onto(A, a, k) == a \in [A -> Cores(k)] /\ \A p \in Cores(k) : \E i \in A : a[i] = p

LEMMA BlocksWithin ==
  ASSUME NEW A, NEW k, NEW a, NEW b, Onto(A, a, k), Onto(A, b, k), SameClasses(A, a, b)
  PROVE  Blocks(A, a, k) \subseteq Blocks(A, b, k)
<1> SUFFICES ASSUME NEW p \in Cores(k) PROVE {i \in A : a[i] = p} \in Blocks(A, b, k)
  BY DEF Blocks
<1>1. PICK i \in A : a[i] = p
  BY DEF Onto
<1>2. {j \in A : a[j] = p} = {j \in A : b[j] = b[i]}
  BY <1>1 DEF SameClasses
<1>3. b[i] \in Cores(k)
  BY DEF Onto
<1> QED BY <1>2, <1>3 DEF Blocks

LEMMA BlocksJoin ==
  ASSUME NEW A, NEW k, NEW a, NEW b, Onto(A, a, k), Blocks(A, a, k) \subseteq Blocks(A, b, k)
  PROVE  \A i, j \in A : a[i] = a[j] => b[i] = b[j]
<1> SUFFICES ASSUME NEW i \in A, NEW j \in A, a[i] = a[j] PROVE b[i] = b[j]
  OBVIOUS
<1>1. {l \in A : a[l] = a[i]} \in Blocks(A, b, k)
  BY DEF Onto, Blocks
<1>2. PICK q \in Cores(k) : {l \in A : a[l] = a[i]} = {l \in A : b[l] = q}
  BY <1>1 DEF Blocks
<1> QED BY <1>2

LEMMA BlocksSame ==
  ASSUME NEW A, NEW k, NEW a, NEW b, Onto(A, a, k), Onto(A, b, k)
  PROVE  Blocks(A, a, k) = Blocks(A, b, k) <=> SameClasses(A, a, b)
<1>1. ASSUME SameClasses(A, a, b) PROVE Blocks(A, a, k) = Blocks(A, b, k)
  <2>1. SameClasses(A, b, a)
    BY <1>1 DEF SameClasses
  <2>2. Blocks(A, a, k) \subseteq Blocks(A, b, k)
    BY <1>1, BlocksWithin
  <2>3. Blocks(A, b, k) \subseteq Blocks(A, a, k)
    BY <2>1, BlocksWithin
  <2> QED BY <2>2, <2>3
<1>2. ASSUME Blocks(A, a, k) = Blocks(A, b, k) PROVE SameClasses(A, a, b)
  <2>1. \A i, j \in A : a[i] = a[j] => b[i] = b[j]
    BY <1>2, BlocksJoin
  <2>2. \A i, j \in A : b[i] = b[j] => a[i] = a[j]
    BY <1>2, BlocksJoin
  <2> QED BY <2>1, <2>2 DEF SameClasses
<1> QED BY <1>1, <1>2

LEMMA GrownIsOnto ==
  ASSUME Ordered, NEW A \in SUBSET Names, A # {}, NEW k \in Nat \ {0}, NEW a \in Grown(A, k)
  PROVE  Onto(A, a, k)
BY GrownOnto DEF Onto, Grown

\* Every numbering has one of its classes that breaks the symmetry.
LEMMA GrownExists ==
  ASSUME Ordered, NEW A \in SUBSET Names, A # {}, NEW k \in Nat \ {0}, NEW f, Onto(A, f, k)
  PROVE  \E a \in Grown(A, k) : SameClasses(A, f, a)
BY RenumberedGrown, RenumberedClasses DEF Onto

LEMMA SolutionIs ==
  ASSUME NEW k, NEW a
  PROVE  Range(MulticoreSolution(Labelled(a), k).partitions) = Blocks(Names, a, k)
BY DEF MulticoreSolution, Labelled, Blocks, Range, On

LEMMA SetPartitionsAre ==
  ASSUME NEW k \in Nat
  PROVE  SetPartitions(k) = {Blocks(Names, f, k) : f \in {f \in [Names -> Cores(k)] : Onto(Names, f, k)}}
<1>1. \A f \in [Names -> Cores(k)] : Range(f) = Cores(k) <=> Onto(Names, f, k)
  BY DEF Range, Onto
<1>2. \A f : {On(f, p) : p \in Cores(k)} = Blocks(Names, f, k)
  BY DEF On, Blocks
<1> QED BY <1>1, <1>2 DEF SetPartitions

LEMMA SolutionsOnce ==
  ASSUME Ordered, Timed("Local"), NEW k \in Nat \ {0}, k <= Cardinality(Names)
  PROVE  LET found == {MulticoreSolution(x, k) : x \in MulticoreAssignments(k)}
         IN /\ {Range(s.partitions) : s \in found} = SetPartitions(k)
            /\ Cardinality(found) = Cardinality(SetPartitions(k))
<1> DEFINE S(a) == MulticoreSolution(Labelled(a), k)
           found == {MulticoreSolution(x, k) : x \in MulticoreAssignments(k)}
           R == [s \in found |-> Range(s.partitions)]
<1>1. IsFiniteSet(Names) /\ Cardinality(Names) \in Nat /\ Names # {}
  BY PositionFacts, FS_CardinalityType, FS_EmptySet
<1>2. found = {S(a) : a \in Grown(Names, k)}
  BY <1>1, MulticoreAssignmentsAre
<1>3. \A a : Range(S(a).partitions) = Blocks(Names, a, k)
  BY SolutionIs
<1>4. \A a \in Grown(Names, k) : Onto(Names, a, k) /\ a \in [Names -> Cores(k)]
  BY <1>1, GrownIsOnto DEF Grown
<1> HIDE DEF S, found
<1>5. \A s \in found : R[s] \in SetPartitions(k)
  BY <1>2, <1>3, <1>4, SetPartitionsAre
<1>6. ASSUME NEW T \in SetPartitions(k) PROVE \E s \in found : R[s] = T
  <2>1. PICK f \in [Names -> Cores(k)] : Onto(Names, f, k) /\ T = Blocks(Names, f, k)
    BY SetPartitionsAre
  <2>2. PICK a \in Grown(Names, k) : SameClasses(Names, f, a)
    BY <1>1, <2>1, GrownExists
  <2>3. Blocks(Names, f, k) = Blocks(Names, a, k)
    BY <1>4, <2>1, <2>2, BlocksSame
  <2>4. S(a) \in found /\ R[S(a)] = Blocks(Names, a, k)
    BY <1>2, <1>3
  <2> QED BY <2>1, <2>3, <2>4
<1>7. ASSUME NEW s \in found, NEW t \in found, R[s] = R[t] PROVE s = t
  <2>1. PICK a \in Grown(Names, k) : s = S(a)
    BY <1>2
  <2>2. PICK b \in Grown(Names, k) : t = S(b)
    BY <1>2
  <2>3. Blocks(Names, a, k) = Blocks(Names, b, k)
    BY <1>3, <1>7, <2>1, <2>2
  <2>4. SameClasses(Names, a, b)
    BY <1>4, <2>3, BlocksSame
  <2>5. a = b
    BY <1>1, <2>4, GrownUnique
  <2> QED BY <2>1, <2>2, <2>5
<1>8. {Range(s.partitions) : s \in found} = SetPartitions(k)
  BY <1>5, <1>6
<1>9. IsFiniteSet(SetPartitions(k))
  <2>1. IsFiniteSet(SUBSET SUBSET Names)
    BY <1>1, FS_SUBSET
  <2>2. SetPartitions(k) \subseteq SUBSET SUBSET Names
    BY DEF SetPartitions, On
  <2> QED BY <2>1, <2>2, FS_Subset
<1>10. Cardinality(found) = Cardinality(SetPartitions(k))
  <2>1. R \in [found -> SetPartitions(k)]
    BY <1>5
  <2> HIDE DEF R
  <2> QED BY <1>6, <1>7, <1>9, <2>1, Paired
<1> QED BY <1>8, <1>10 DEF found

\* The multicore model is not asked for more cores than there are instances.
LEMMA CoresWithin ==
  ASSUME IInv, status = "solving", ~Heterogeneous, cores <= MaxCores
  PROVE  cores \in Nat \ {0, 1} /\ cores <= Cardinality(Names)
<1>1. cores \in Nat \ {0, 1}
  BY DEF IInv, CoresInv
<1>2. Ordered
  BY TaskFacts DEF IInv
<1>3. Len(network.instances) \in Int /\ config.cores \in Int
  BY <1>2, ScriptFacts DEF IInv, ScriptInv, Ordered
<1>4. PICK a \in Int : a = Len(network.instances)
  BY <1>3
<1>5. PICK b \in Int : b = config.cores
  BY <1>3
<1>6. PICK m \in Int : m = Min({a, b}) /\ m <= a
  BY MinOfTwo
<1>7. cores <= m
  BY <1>4, <1>5, <1>6 DEF MaxCores
<1>8. Cardinality(Names) = a
  BY <1>2, <1>4, PositionFacts
<1> QED BY <1>1, <1>6, <1>7, <1>8

\* For any network and any number of cores, the constraints of the multicore model leave
\* exactly one solution for every way of putting the instances on all cores, the order of
\* the cores apart (MulticorePerformanceModel: restrictedGrowthConstraint with the upper
\* bound of the local time, and createSolution).
THEOREM PartitionsAreFoundOnce == Spec => []EveryPartitionOnce
<1>1. ASSUME IInv PROVE EveryPartitionOnce
  <2> SUFFICES ASSUME CallsMulticore
               PROVE  LET found == {MulticoreSolution(x, cores) : x \in MulticoreAssignments(cores)}
                      IN /\ {Range(s.partitions) : s \in found} = SetPartitions(cores)
                         /\ Cardinality(found) = Cardinality(SetPartitions(cores))
    BY DEF EveryPartitionOnce
  <2>1. status = "solving" /\ ~Heterogeneous /\ cores <= MaxCores /\ ~MulticoreThrows
    BY DEF CallsMulticore
  <2>2. Ordered /\ Timed("Local")
    BY <1>1, <2>1, TaskFacts, TimedFacts DEF IInv, MulticoreThrows
  <2>3. cores \in Nat \ {0} /\ cores <= Cardinality(Names)
    BY <1>1, <2>1, CoresWithin
  <2> QED BY <2>2, <2>3, SolutionsOnce
<1> QED BY <1>1, Invariant, PTL

-----------------------------------------------------------------------------
(* The accelerator's instances pinned, or chosen.                          *)

LEMMA CommunicationUnion ==
  ASSUME NEW kind, Timed(kind), NEW C \in SUBSET Connections, NEW D \in SUBSET Connections, C \cap D = {}
  PROVE  Communication(C \union D, kind) = Communication(C, kind) + Communication(D, kind)
<1> DEFINE W == Weights(kind)
<1>1. C \union D \in SUBSET Connections
  OBVIOUS
<1>2. /\ IsFiniteSet(C) /\ IsFiniteSet(D)
      /\ Communication(C, kind) = SumOf(W, C) /\ Communication(D, kind) = SumOf(W, D)
      /\ Communication(C \union D, kind) = SumOf(W, C \union D)
  BY <1>1, CommunicationIs
<1>3. \A c \in C \union D : W[c] \in Int
  BY DEF Timed, Weights
<1> HIDE DEF W
<1>4. SumOf(W, C \union D) = SumOf(W, C) + SumOf(W, D)
  BY <1>2, <1>3, SumUnion
<1> QED BY <1>2, <1>4

\* The time of the PLink with core 0 is the same in both models.
LEMMA ToPLinkIs ==
  ASSUME NEW kind, Timed(kind), NEW k \in Nat \ {0}, NEW on, NEW p \in Cores(k)
  PROVE  ToPLinkTime(on, k, p, kind) = Communication(Between(on, p, k) \union Between(on, k, p), kind)
<1>1. {c \in HardwareSoftware(on, k) : on[c.target] = p} = Between(on, k, p)
  BY DEF HardwareSoftware, Between
<1>2. {c \in SoftwareHardware(on, k) : on[c.source] = p} = Between(on, p, k)
  BY DEF SoftwareHardware, Between
<1>3. p # k
  BY DEF Cores
<1>4. Between(on, k, p) \cap Between(on, p, k) = {}
  BY <1>3 DEF Between
<1>5. /\ Between(on, k, p) \in SUBSET Connections /\ Between(on, p, k) \in SUBSET Connections
      /\ Between(on, k, p) \union Between(on, p, k) = Between(on, p, k) \union Between(on, k, p)
  BY DEF Between
<1>6. Communication(Between(on, k, p) \union Between(on, p, k), kind) =
        Communication(Between(on, k, p), kind) + Communication(Between(on, p, k), kind)
  BY <1>4, <1>5, CommunicationUnion
<1> QED BY <1>1, <1>2, <1>5, <1>6 DEF ToPLinkTime

LEMMA PinnedLocal ==
  ASSUME Timed("Local"), NEW k \in Nat \ {0}, NEW on
  PROVE  /\ PinnedTimes(on, k).local = HeterogeneousTimes(on, k).local
         /\ PinnedTimes(on, k).local <= Communication(Connections, "Local")
<1> DEFINE f == [p \in Cores(k) |-> LocalTime(on, p) + (IF p = 0 THEN PLinkLocalTime(on, k) ELSE 0)]
           b == Communication(Connections, "Local")
<1>1. 0 \in Cores(k)
  BY DEF Cores
<1>2. ToPLinkTime(on, k, 0, "Local") = PLinkLocalTime(on, k)
  BY <1>1, ToPLinkIs DEF PLinkLocalTime
<1>3. \A p \in Cores(k) :
        f[p] = LocalTime(on, p) + (IF p = 0 THEN ToPLinkTime(on, k, 0, "Local") ELSE 0)
  BY <1>2
<1>4. PinnedTimes(on, k).local = Max({f[p] : p \in Cores(k)})
  BY <1>3 DEF PinnedTimes
<1>5. HeterogeneousTimes(on, k).local = Max({f[p] : p \in Cores(k)})
  BY DEF HeterogeneousTimes
<1>6. \A p \in Cores(k) : f[p] \in Nat /\ f[p] <= b
  <2> SUFFICES ASSUME NEW p \in Cores(k) PROVE f[p] \in Nat /\ f[p] <= b
    OBVIOUS
  <2>1. Between(on, p, p) \in SUBSET Connections
    BY DEF Between
  <2>2. LocalTime(on, p) \in Nat /\ LocalTime(on, p) <= b
    BY <2>1, CommunicationIs DEF LocalTime
  <2>3. CASE p # 0
    BY <2>2, <2>3
  <2>4. CASE p = 0
    <3> DEFINE D == Between(on, 0, k) \union Between(on, k, 0)
               L == Between(on, 0, 0)
    <3>1. D \in SUBSET Connections /\ L \in SUBSET Connections /\ L \union D \in SUBSET Connections
      BY DEF Between
    <3>2. L \cap D = {}
      <4>1. k # 0
        OBVIOUS
      <4> QED BY <4>1 DEF Between
    <3>3. LocalTime(on, 0) = Communication(L, "Local") /\ PLinkLocalTime(on, k) = Communication(D, "Local")
      BY DEF LocalTime, PLinkLocalTime
    <3> HIDE DEF D, L
    <3>4. Communication(L \union D, "Local") = Communication(L, "Local") + Communication(D, "Local")
      BY <3>1, <3>2, CommunicationUnion
    <3>5. Communication(L \union D, "Local") \in Nat /\ Communication(L \union D, "Local") <= b
      BY <3>1, CommunicationIs
    <3>6. f[p] = LocalTime(on, 0) + PLinkLocalTime(on, k)
      BY <2>4
    <3> QED BY <3>3, <3>4, <3>5, <3>6
  <2> QED BY <2>3, <2>4
<1>7. b \in Nat
  BY CommunicationIs
<1>8. IsFiniteSet(Cores(k)) /\ Cores(k) # {}
  BY CoresFinite
<1> HIDE DEF f, b
<1>9. Max({f[p] : p \in Cores(k)}) <= b
  BY <1>6, <1>7, <1>8, MaxBelow
<1> QED BY <1>4, <1>5, <1>9 DEF b

\* Each connection of the PLink with another core is counted on one core.
LEMMA PinnedGlobal ==
  ASSUME Timed("Global"), NEW k \in Nat \ {0}, NEW on \in [Names -> 0 .. k],
         \A c \in Connections : c.source \in Names /\ c.target \in Names
  PROVE  PinnedTimes(on, k).global = HeterogeneousTimes(on, k).global
<1> DEFINE W == Weights("Global")
           P == Cores(k) \ {0}
           S == {c \in PLinkWrites(on, k) : on[c.source] # 0} \union
                {c \in PLinkReads(on, k) : on[c.target] # 0}
           g == [c \in S |-> IF on[c.source] = k THEN on[c.target] ELSE on[c.source]]
           F == [p \in P |-> SumOf(W, Fiber(S, g, p))]
           T == [p \in P |-> ToPLinkTime(on, k, p, "Global")]
<1>1. IsFiniteSet(P)
  BY CoresFinite, FS_Subset
<1>2. S \in SUBSET Connections /\ \A c \in S : W[c] \in Int /\ g[c] \in P
  <2>1. S \in SUBSET Connections
    BY DEF PLinkWrites, PLinkReads
  <2>2. \A c \in S : W[c] \in Int
    BY <2>1 DEF Timed, Weights
  <2>3. \A c \in S : /\ on[c.source] \in 0 .. k /\ on[c.target] \in 0 .. k
                     /\ \/ on[c.source] = k /\ on[c.target] # k /\ on[c.target] # 0
                        \/ on[c.source] # k /\ on[c.source] # 0 /\ on[c.target] = k
    BY <2>1 DEF PLinkWrites, PLinkReads
  <2>4. \A c \in S : g[c] \in P
    BY <2>3 DEF Cores
  <2> QED BY <2>1, <2>2, <2>4
<1>3. ASSUME NEW p \in P PROVE T[p] = F[p] /\ F[p] \in Int
  <2>1. p \in Cores(k) /\ p # 0 /\ p # k
    BY DEF Cores
  <2>2. Fiber(S, g, p) = Between(on, p, k) \union Between(on, k, p)
    BY <2>1 DEF Fiber, Between, PLinkWrites, PLinkReads
  <2>3. Between(on, p, k) \union Between(on, k, p) \in SUBSET Connections
    BY DEF Between
  <2>4. ToPLinkTime(on, k, p, "Global") = Communication(Between(on, p, k) \union Between(on, k, p), "Global")
    BY <2>1, ToPLinkIs
  <2>5. /\ Communication(Between(on, p, k) \union Between(on, k, p), "Global") =
             SumOf(W, Between(on, p, k) \union Between(on, k, p))
        /\ Communication(Between(on, p, k) \union Between(on, k, p), "Global") \in Nat
    BY <2>3, CommunicationIs
  <2>6. F[p] = SumOf(W, Fiber(S, g, p)) /\ T[p] = ToPLinkTime(on, k, p, "Global")
    OBVIOUS
  <2> HIDE DEF W, S, g, F, T
  <2> QED BY <2>2, <2>4, <2>5, <2>6
<1>4. Communication(S, "Global") = SumOf(W, S) /\ IsFiniteSet(S)
  BY <1>2, CommunicationIs
<1>5. PLinkGlobalTime(on, k) = Communication(S, "Global")
  BY DEF PLinkGlobalTime
<1>6. PartitionToPLinkTime(on, k) = SumOf(T, P)
  BY DEF PartitionToPLinkTime, SumFunction, SumOf
<1>7. F = [p \in P |-> SumOf(W, Fiber(S, g, p))]
  OBVIOUS
<1> HIDE DEF W, P, S, g, T, F
<1>8. SumOf(T, P) = SumOf(F, P)
  BY <1>1, <1>3, SumSame
<1>9. SumOf(F, P) = SumOf(W, S)
  <2>1. SumOf([p \in P |-> SumOf(W, Fiber(S, g, p))], P) = SumOf(W, S)
    BY <1>1, <1>2, <1>4, SumFibers
  <2> QED BY <1>7, <2>1
<1> QED BY <1>4, <1>5, <1>6, <1>8, <1>9 DEF PinnedTimes, HeterogeneousTimes

LEMMA BesideOn ==
  ASSUME NEW hardware \in SUBSET Names, NEW k \in Nat, NEW f \in [Names \ hardware -> Cores(k)]
  PROVE  /\ Beside(f, hardware, k) \in [Names -> 0 .. k]
         /\ \A p \in Cores(k) : On(Beside(f, hardware, k), p) = {i \in Names \ hardware : f[i] = p}
         /\ On(Beside(f, hardware, k), k) = hardware
<1>1. k \notin Cores(k) /\ Cores(k) \subseteq 0 .. k /\ k \in 0 .. k
  BY DEF Cores
<1> DEFINE on == Beside(f, hardware, k)
<1>2. \A i \in Names : on[i] = IF i \in hardware THEN k ELSE f[i]
  BY DEF Beside
<1>3. \A i \in Names : i \notin hardware => f[i] \in Cores(k) /\ f[i] # k
  BY <1>1
<1>4. on \in [Names -> 0 .. k]
  BY <1>1, <1>3 DEF Beside
<1> HIDE DEF on
<1>5. ASSUME NEW p \in Cores(k) PROVE On(on, p) = {i \in Names \ hardware : f[i] = p}
  <2>1. p # k
    BY <1>1
  <2> QED BY <1>2, <2>1 DEF On
<1>6. On(on, k) = hardware
  BY <1>2, <1>3 DEF On
<1> QED BY <1>4, <1>5, <1>6 DEF on

\* on uses all cores, and the accelerator for the hardware; f is its part in software.
Uses(on, hardware, k) ==
  k \in Nat /\ on \in [Names -> 0 .. k] /\ On(on, k) = hardware /\ \A p \in Cores(k) : On(on, p) # {}
SoftwareOf(f, on, hardware, k) ==
  /\ Onto(Names \ hardware, f, k) /\ on = Beside(f, hardware, k)
  /\ \A i \in Names \ hardware : f[i] = on[i]

LEMMA BesideAll ==
  ASSUME NEW k, NEW on, NEW hardware, Uses(on, hardware, k)
  PROVE  \E f : SoftwareOf(f, on, hardware, k)
<1>0. /\ k \in Nat /\ on \in [Names -> 0 .. k] /\ On(on, k) = hardware
      /\ \A p \in Cores(k) : On(on, p) # {}
  BY DEF Uses
<1> DEFINE f == [i \in Names \ hardware |-> on[i]]
<1>1. \A i \in Names : on[i] \in 0 .. k /\ (i \in hardware <=> on[i] = k)
  BY <1>0 DEF On
<1>2. \A i \in Names \ hardware : f[i] \in Cores(k)
  BY <1>0, <1>1 DEF Cores
<1>3. ASSUME NEW p \in Cores(k) PROVE \E i \in Names \ hardware : f[i] = p
  <2>1. PICK i \in Names : on[i] = p
    BY <1>0 DEF On
  <2>2. p # k
    BY <1>0 DEF Cores
  <2> QED BY <1>1, <2>1, <2>2
<1>4. Onto(Names \ hardware, f, k)
  BY <1>2, <1>3 DEF Onto
<1>5. on = Beside(f, hardware, k)
  <2>1. \A i \in Names : on[i] = (IF i \in hardware THEN k ELSE f[i])
    BY <1>0, <1>1
  <2> QED BY <1>0, <2>1 DEF Beside
<1>6. \A i \in Names \ hardware : f[i] = on[i]
  OBVIOUS
<1> HIDE DEF f
<1> QED BY <1>4, <1>5, <1>6 DEF SoftwareOf

\* The shape of a pinned assignment: its block on core 0, and the others.
LEMMA ShapeIs ==
  ASSUME NEW hardware \in SUBSET Names, NEW k \in Nat \ {0}, NEW f, Onto(Names \ hardware, f, k)
  PROVE  LET A == Names \ hardware
             first == {i \in A : f[i] = 0}
         IN /\ Shape(Beside(f, hardware, k), k) = <<first, Blocks(A, f, k) \ {first}>>
            /\ first \in Blocks(A, f, k)
<1> DEFINE A == Names \ hardware
           on == Beside(f, hardware, k)
           first == {i \in A : f[i] = 0}
<1>1. 0 \in Cores(k) /\ 1 .. k - 1 = Cores(k) \ {0}
  BY DEF Cores
<1>2. f \in [A -> Cores(k)] /\ \A p \in Cores(k) : \E i \in A : f[i] = p
  BY DEF Onto
<1>3. \A p \in Cores(k) : On(on, p) = {i \in A : f[i] = p}
  BY <1>2, BesideOn
<1>4. On(on, 0) = first /\ first \in Blocks(A, f, k)
  BY <1>1, <1>3 DEF Blocks
<1> HIDE DEF on
<1>5. {On(on, p) : p \in 1 .. k - 1} = {{i \in A : f[i] = p} : p \in Cores(k) \ {0}}
  BY <1>1, <1>3
<1>6. {{i \in A : f[i] = p} : p \in Cores(k) \ {0}} = Blocks(A, f, k) \ {first}
  <2> DEFINE B(p) == {i \in A : f[i] = p}
  <2>1. \A p, q \in Cores(k) : B(p) = B(q) => p = q
    BY <1>2
  <2>2. Blocks(A, f, k) = {B(p) : p \in Cores(k)} /\ first = B(0)
    BY DEF Blocks
  <2> HIDE DEF B, first
  <2>3. {B(p) : p \in Cores(k) \ {0}} = Blocks(A, f, k) \ {first}
    BY <1>1, <2>1, <2>2
  <2> QED BY <2>3 DEF B
<1> QED BY <1>4, <1>5, <1>6 DEF Shape, on

LEMMA ShapesSame ==
  ASSUME NEW hardware \in SUBSET Names, NEW k \in Nat \ {0}, NEW x \in Names \ hardware,
         NEW f, Onto(Names \ hardware, f, k), f[x] = 0, NEW g, Onto(Names \ hardware, g, k), g[x] = 0
  PROVE  Shape(Beside(f, hardware, k), k) = Shape(Beside(g, hardware, k), k)
           <=> SameClasses(Names \ hardware, f, g)
<1> DEFINE A == Names \ hardware
           a == {i \in A : f[i] = 0}
           b == {i \in A : g[i] = 0}
<1>1. /\ Shape(Beside(f, hardware, k), k) = <<a, Blocks(A, f, k) \ {a}>> /\ a \in Blocks(A, f, k)
      /\ Shape(Beside(g, hardware, k), k) = <<b, Blocks(A, g, k) \ {b}>> /\ b \in Blocks(A, g, k)
  <2>1. Shape(Beside(f, hardware, k), k) = <<a, Blocks(A, f, k) \ {a}>> /\ a \in Blocks(A, f, k)
    BY ONLY hardware \in SUBSET Names, k \in Nat \ {0}, Onto(Names \ hardware, f, k), ShapeIs
  <2>2. Shape(Beside(g, hardware, k), k) = <<b, Blocks(A, g, k) \ {b}>> /\ b \in Blocks(A, g, k)
    BY ONLY hardware \in SUBSET Names, k \in Nat \ {0}, Onto(Names \ hardware, g, k), ShapeIs
  <2> QED BY <2>1, <2>2
<1>2. Blocks(A, f, k) = Blocks(A, g, k) <=> SameClasses(A, f, g)
  BY BlocksSame
<1>3. SameClasses(A, f, g) => a = b
  BY DEF SameClasses
<1> HIDE DEF A, a, b
<1>4. ASSUME SameClasses(A, f, g)
      PROVE  Shape(Beside(f, hardware, k), k) = Shape(Beside(g, hardware, k), k)
  BY <1>1, <1>2, <1>3, <1>4
<1>5. ASSUME Shape(Beside(f, hardware, k), k) = Shape(Beside(g, hardware, k), k)
      PROVE  Blocks(A, f, k) = Blocks(A, g, k)
  <2>1. a = b /\ Blocks(A, f, k) \ {a} = Blocks(A, g, k) \ {b}
    BY <1>1, <1>5
  <2> QED BY <1>1, <2>1
<1> QED BY <1>2, <1>4, <1>5 DEF A

\* What the accelerator and the PLink do depends on what is on the accelerator only.
LEMMA AcceleratorSame ==
  ASSUME NEW k \in Nat, NEW on, NEW other, On(on, k) = On(other, k),
         \A c \in Connections : c.source \in Names /\ c.target \in Names
  PROVE  /\ Pinned(on, k) <=> Pinned(other, k)
         /\ Fits(on, k) <=> Fits(other, k)
         /\ ReadTime(on, k) = ReadTime(other, k) /\ WriteTime(on, k) = WriteTime(other, k)
<1>1. \A i \in Names : on[i] = k <=> other[i] = k
  BY DEF On
<1>2. PLinkReads(on, k) = PLinkReads(other, k) /\ PLinkWrites(on, k) = PLinkWrites(other, k)
  BY <1>1 DEF PLinkReads, PLinkWrites
<1>3. Pinned(on, k) <=> Pinned(other, k)
  BY <1>1 DEF Pinned
<1> QED BY <1>2, <1>3 DEF Fits, ReadTime, WriteTime

LEMMA PinnedAssignmentsAre ==
  ASSUME Ordered, Timed("Local"), NEW hardware \in SUBSET Names, NEW k \in Nat \ {0},
         NEW f, Onto(Names \ hardware, f, k)
  PROVE  PinnedAssignments(hardware, k) = {Labelled(a) : a \in Grown(Names \ hardware, k)}
<1> DEFINE A == Names \ hardware
<1>1. IsFiniteSet(A) /\ Cardinality(A) \in Nat
  BY PositionFacts, FS_Subset, FS_CardinalityType
<1>2. k <= Cardinality(A)
  <2>1. {f[i] : i \in A} = Cores(k)
    BY DEF Onto
  <2>2. Cardinality({f[i] : i \in A}) <= Cardinality(A)
    BY <1>1, ImageFinite
  <2>3. Cardinality(Cores(k)) = k
    <3>1. Cardinality(0 .. k - 1) = IF 0 > k - 1 THEN 0 ELSE k - 1 - 0 + 1
      BY FS_Interval
    <3>2. (IF 0 > k - 1 THEN 0 ELSE k - 1 - 0 + 1) = k
      OBVIOUS
    <3> QED BY <3>1, <3>2 DEF Cores
  <2> QED BY <2>1, <2>2, <2>3
<1>3. CoreAssignments(A, k) = {Labelled(a) : a \in Grown(A, k)}
  BY <1>1, <1>2, CoreAssignmentsAre
<1>4. \A x : PinnedTimes(Beside(x.on, hardware, k), k).local <= Communication(Connections, "Local")
  BY PinnedLocal
<1> QED BY <1>3, <1>4 DEF PinnedAssignments

\* What PinnedAgrees says of one set of instances on the accelerator.
PinnedWithChosen(hardware, k) ==
  LET chosen == {on \in HeterogeneousAssignments(k) :
                   /\ On(on, k) = hardware
                   /\ on[FirstActor(Names \ hardware)] = 0}
      pinned == {Beside(x.on, hardware, k) : x \in PinnedAssignments(hardware, k)}
  IN chosen # {} =>
       /\ {Shape(on, k) : on \in pinned} = {Shape(on, k) : on \in chosen}
       /\ Cardinality({Shape(on, k) : on \in pinned}) = Cardinality(pinned)
       /\ \A on \in pinned :
            /\ PinnedTimes(on, k).local = HeterogeneousTimes(on, k).local
            /\ PinnedTimes(on, k).global = HeterogeneousTimes(on, k).global

LEMMA PinnedAsChosen ==
  ASSUME Ordered, Timed("Local"), Timed("Global"),
         \A c \in Connections : c.source \in Names /\ c.target \in Names,
         NEW hardware \in SUBSET Names, NEW k \in Nat \ {0}
  PROVE  PinnedWithChosen(hardware, k)
<1> DEFINE A == Names \ hardware
           first == FirstActor(A)
           chosen == {on \in HeterogeneousAssignments(k) : On(on, k) = hardware /\ on[first] = 0}
           pinned == {Beside(x.on, hardware, k) : x \in PinnedAssignments(hardware, k)}
           B(a) == Beside(a, hardware, k)
           Sh(on) == Shape(on, k)
<1> SUFFICES ASSUME chosen # {}
             PROVE  /\ {Sh(on) : on \in pinned} = {Sh(on) : on \in chosen}
                    /\ Cardinality({Sh(on) : on \in pinned}) = Cardinality(pinned)
                    /\ \A on \in pinned :
                         /\ PinnedTimes(on, k).local = HeterogeneousTimes(on, k).local
                         /\ PinnedTimes(on, k).global = HeterogeneousTimes(on, k).global
  BY DEF PinnedWithChosen
<1>1. ASSUME NEW on \in chosen
      PROVE  /\ on \in [Names -> 0 .. k] /\ On(on, k) = hardware /\ on[first] = 0
             /\ \A p \in 0 .. k : On(on, p) # {}
             /\ Pinned(on, k) /\ Fits(on, k) /\ ReadTime(on, k) >= 0 /\ WriteTime(on, k) >= 0
  BY DEF HeterogeneousAssignments
<1>2. \A on \in [Names -> 0 .. k] :
        /\ On(on, k) = hardware /\ on[first] = 0
        /\ \A p \in 0 .. k : On(on, p) # {}
        /\ Pinned(on, k) /\ Fits(on, k) /\ ReadTime(on, k) >= 0 /\ WriteTime(on, k) >= 0
        => on \in chosen
  BY DEF HeterogeneousAssignments
<1> HIDE DEF chosen
<1>3. ASSUME NEW on \in chosen
      PROVE  \E f : Onto(A, f, k) /\ on = B(f) /\ f[first] = 0
  <2>1. /\ on \in [Names -> 0 .. k] /\ On(on, k) = hardware /\ on[first] = 0
        /\ \A p \in 0 .. k : On(on, p) # {}
    BY <1>1
  <2>2. \A p \in Cores(k) : On(on, p) # {}
    BY <2>1 DEF Cores
  <2>3. PICK f : Onto(A, f, k) /\ on = B(f) /\ \A i \in A : f[i] = on[i]
    <3>1. Uses(on, hardware, k)
      BY <2>1, <2>2 DEF Uses
    <3>2. \E f : SoftwareOf(f, on, hardware, k)
      BY <3>1, BesideAll
    <3> QED BY <3>2 DEF SoftwareOf
  <2>4. first \in A
    <3>1. 0 \in Cores(k)
      BY DEF Cores
    <3>2. A # {}
      BY <2>3, <3>1 DEF Onto
    <3> QED BY <3>2, FirstFacts
  <2> QED BY <2>1, <2>3, <2>4
<1>4. PICK o \in chosen : TRUE
  OBVIOUS
<1>5. PICK f : Onto(A, f, k)
  BY <1>3, <1>4
<1>6. A # {} /\ A \in SUBSET Names /\ first \in A
  <2>1. 0 \in Cores(k)
    BY DEF Cores
  <2>2. A # {}
    BY <1>5, <2>1 DEF Onto
  <2> QED BY <2>2, FirstFacts
<1>7. pinned = {B(a) : a \in Grown(A, k)}
  <2>1. PinnedAssignments(hardware, k) = {Labelled(a) : a \in Grown(A, k)}
    BY <1>5, PinnedAssignmentsAre
  <2>2. \A a : Labelled(a).on = a
    BY DEF Labelled
  <2> QED BY <2>1, <2>2
<1>8. \A a \in Grown(A, k) : Onto(A, a, k) /\ a \in [A -> Cores(k)] /\ a[first] = 0
  <2>1. \A a \in Grown(A, k) : Onto(A, a, k) /\ a \in [A -> Cores(k)]
    BY <1>6, GrownIsOnto DEF Grown
  <2>2. \A a \in Grown(A, k) : a[first] = 0
    BY <1>6, GrownFacts
  <2> QED BY <2>1, <2>2
<1>9. \A a \in Grown(A, k) : \A g : Onto(A, g, k) /\ g[first] = 0 =>
        (Sh(B(a)) = Sh(B(g)) <=> SameClasses(A, a, g))
  <2> SUFFICES ASSUME NEW a \in Grown(A, k), NEW g, Onto(A, g, k), g[first] = 0
               PROVE  Sh(B(a)) = Sh(B(g)) <=> SameClasses(A, a, g)
    OBVIOUS
  <2>1. Onto(A, a, k) /\ a[first] = 0 /\ first \in A
    BY <1>6, <1>8
  <2> QED BY <2>1, ShapesSame
<1> HIDE DEF pinned
<1>10. ASSUME NEW on \in pinned PROVE on \in chosen
  <2>1. PICK a \in Grown(A, k) : on = B(a)
    BY <1>7
  <2>2. a \in [A -> Cores(k)] /\ Onto(A, a, k) /\ a[first] = 0
    BY <1>8
  <2>3. /\ on \in [Names -> 0 .. k] /\ On(on, k) = hardware
        /\ \A p \in Cores(k) : On(on, p) = {i \in A : a[i] = p}
    BY <2>1, <2>2, BesideOn
  <2>4. \A p \in 0 .. k : On(on, p) # {}
    <3>1. \A p \in 0 .. k : p = k \/ p \in Cores(k)
      BY DEF Cores
    <3>2. On(on, k) # {}
      BY <1>1, <1>4, <2>3
    <3> QED BY <2>2, <2>3, <3>1, <3>2 DEF Onto
  <2>5. on[first] = 0
    BY <1>6, <2>1, <2>2 DEF Beside
  <2>6. On(on, k) = On(o, k)
    BY <1>1, <1>4, <2>3
  <2>7. Pinned(on, k) /\ Fits(on, k) /\ ReadTime(on, k) >= 0 /\ WriteTime(on, k) >= 0
    BY <1>1, <1>4, <2>6, AcceleratorSame
  <2> QED BY <1>2, <2>3, <2>4, <2>5, <2>7
<1>11. ASSUME NEW on \in chosen PROVE \E other \in pinned : Sh(other) = Sh(on)
  <2>1. PICK g : Onto(A, g, k) /\ on = B(g) /\ g[first] = 0
    BY <1>3
  <2>2. PICK a \in Grown(A, k) : SameClasses(A, g, a)
    BY <1>6, <2>1, GrownExists
  <2>3. SameClasses(A, a, g)
    BY <2>2 DEF SameClasses
  <2>4. Sh(B(a)) = Sh(B(g)) /\ B(a) \in pinned
    BY <1>7, <1>9, <2>1, <2>3
  <2> QED BY <2>1, <2>4
<1>12. ASSUME NEW on \in pinned, NEW other \in pinned, Sh(on) = Sh(other) PROVE on = other
  <2>1. PICK a \in Grown(A, k) : on = B(a)
    BY <1>7
  <2>2. PICK b \in Grown(A, k) : other = B(b)
    BY <1>7
  <2>3. SameClasses(A, a, b)
    BY <1>8, <1>9, <1>12, <2>1, <2>2
  <2>4. a = b
    BY <1>6, <2>3, GrownUnique
  <2> QED BY <2>1, <2>2, <2>4
<1>13. \A on \in pinned : Sh(on) \in (SUBSET Names) \X (SUBSET SUBSET Names)
  BY DEF Shape, On
<1>14. IsFiniteSet((SUBSET Names) \X (SUBSET SUBSET Names))
  <2>1. IsFiniteSet(Names)
    BY PositionFacts
  <2>2. IsFiniteSet(SUBSET Names) /\ IsFiniteSet(SUBSET SUBSET Names)
    BY <2>1, FS_SUBSET
  <2> QED BY <2>2, FS_Product
<1>15. \A on \in pinned :
         /\ PinnedTimes(on, k).local = HeterogeneousTimes(on, k).local
         /\ PinnedTimes(on, k).global = HeterogeneousTimes(on, k).global
  BY <1>1, <1>10, PinnedLocal, PinnedGlobal
<1> HIDE DEF Sh
<1>16. {Sh(on) : on \in pinned} = {Sh(on) : on \in chosen}
  BY <1>10, <1>11
<1>17. Cardinality({Sh(on) : on \in pinned}) = Cardinality(pinned)
  <2> DEFINE T == {Sh(on) : on \in pinned}
             h == [on \in pinned |-> Sh(on)]
  <2>1. IsFiniteSet(T)
    <3>1. T \subseteq (SUBSET Names) \X (SUBSET SUBSET Names)
      BY <1>13
    <3> QED BY <1>14, <3>1, FS_Subset
  <2>2. h \in [pinned -> T] /\ \A t \in T : \E on \in pinned : h[on] = t
    OBVIOUS
  <2>3. \A x, y \in pinned : h[x] = h[y] => x = y
    BY <1>12
  <2> HIDE DEF h
  <2>4. Cardinality(pinned) = Cardinality(T)
    BY <2>1, <2>2, <2>3, Paired
  <2> QED BY <2>4
<1> QED BY <1>15, <1>16, <1>17

\* For any network and any number of cores, PinnedHardwareModel and HeterogeneousModel agree
\* once the instances on the accelerator are given: the former has, each of them once, the
\* assignments of the latter with the first instance of the software on the PLink's core,
\* and both charge every connection the same (restrictedGrowthConstraint on the software of
\* the pinned model; getPartitionToPlinkTime and the PLink's times of the other).
THEOREM PinnedModelAgrees == Spec => []PinnedAgrees
<1>1. ASSUME IInv PROVE PinnedAgrees
  <2> SUFFICES ASSUME status = "solving", Heterogeneous, cores <= MaxCores, ~HeterogeneousThrows,
                      NEW hardware \in SUBSET Names
               PROVE  PinnedWithChosen(hardware, cores)
    BY DEF PinnedAgrees, PinnedWithChosen
  <2>1. \A c \in Connections : HasFifoTicks(c)
    BY DEF HeterogeneousThrows
  <2>2. Timed("Local") /\ Timed("Global")
    BY <1>1, <2>1, TimedFacts DEF IInv
  <2>3. cores \in Nat \ {0}
    BY <1>1 DEF IInv, CoresInv
  <2>4. Ordered /\ \A c \in Connections : c.source \in Names /\ c.target \in Names
    BY <1>1, TaskFacts DEF IInv
  <2> QED BY <2>2, <2>3, <2>4, PinnedAsChosen
<1> QED BY <1>1, Invariant, PTL

-----------------------------------------------------------------------------
(* The configurations.                                                     *)

JoinedName(c) == c.source \o c.sourcePort \o c.target \o c.targetPort

\* The name of a port of the PLink, four names put together, belongs to one connection.
NamesApart ==
  \A t \in Tasks : \A c, d \in t.network.connections : JoinedName(c) = JoinedName(d) => c = d

\* What the configuration of a network relies on.
Wired ==
  /\ PLink \notin Names /\ IsFiniteSet(Connections)
  /\ \A c \in Connections : c.source \in Names /\ c.target \in Names
  /\ \A c, d \in Connections : c.target = d.target /\ c.targetPort = d.targetPort => c = d
  /\ \A c, d \in Connections : JoinedName(c) = JoinedName(d) => c = d

LEMMA WiredFacts ==
  ASSUME TaskInv, NamesApart
  PROVE  Wired
<1>1. PICK t \in Tasks : network = t.network
  BY DEF TaskInv
<1>2. TaskOK(t)
  BY PhaseAssumption
<1>3. /\ \A c, d \in Connections : c.target = d.target /\ c.targetPort = d.targetPort => c = d
      /\ \A c, d \in Connections : JoinedName(c) = JoinedName(d) => c = d
  BY <1>1, <1>2 DEF TaskOK, Connections, NamesApart
<1> QED BY <1>3, TaskFacts DEF Wired

Crossing(hardware) == {c \in Connections : (c.source \in hardware) # (c.target \in hardware)}

\* A configuration that the runtime can build, but for what is on the accelerator.
Closed(file, hardware) ==
  /\ \A p, q \in DOMAIN file.partitions : p # q => file.partitions[p] \cap file.partitions[q] = {}
  /\ Listed(file) \ {PLink} = Names \ hardware
  /\ \A e \in file.connections : {e.source, e.target} \subseteq Listed(file)
  /\ Cardinality({<<e.target, e.targetPort>> : e \in file.connections}) =
       Cardinality({c \in Connections : ~({c.source, c.target} \subseteq hardware)})
  /\ Cardinality(PLinkPorts(file)) = Cardinality(Crossing(hardware))
  /\ Cardinality(Ports(Crossing(hardware))) <= PortLimit

Touching(available) == {c \in Connections : c.source \in available \/ c.target \in available}
Elements(available) == {ConnectionElement(c, available) : c \in Touching(available)}

LEMMA ConfigFileIs ==
  ASSUME NEW instances, NEW available, available = UNION {instances[p] : p \in DOMAIN instances}
  PROVE  LET file == ConfigFile(instances)
         IN /\ DOMAIN file.partitions = {p \in DOMAIN instances : instances[p] # {}}
            /\ \A p \in DOMAIN file.partitions : file.partitions[p] = instances[p]
            /\ Listed(file) = available
            /\ file.connections = Elements(available)
<1> DEFINE used == {p \in DOMAIN instances : instances[p] # {}}
           file == ConfigFile(instances)
<1>1. UNION {instances[p] : p \in used} = available
  OBVIOUS
<1>2. file.partitions = [p \in used |-> instances[p]]
  BY DEF ConfigFile
<1>3. file.connections = Elements(available)
  BY <1>1 DEF ConfigFile, Elements, Touching
<1>4. Range(file.partitions) = {instances[p] : p \in used}
  BY <1>2 DEF Range
<1>5. Listed(file) = available
  BY <1>1, <1>4 DEF Listed
<1> QED BY <1>2, <1>3, <1>5

\* The instances listed, and those that are not, which the PLink stands for.
Sides(available, hardware) ==
  /\ available \in SUBSET (Names \union {PLink}) /\ hardware = Names \ available
  /\ PLink \in available \/ hardware = {}

LEMMA ElementsClosed ==
  ASSUME Wired, NEW available, NEW hardware, Sides(available, hardware)
  PROVE  /\ \A e \in Elements(available) : {e.source, e.target} \subseteq available
         /\ Cardinality({<<e.target, e.targetPort>> : e \in Elements(available)}) =
              Cardinality({c \in Connections : ~({c.source, c.target} \subseteq hardware)})
<1> DEFINE C == Touching(available)
           in == [c \in C |-> IF c.target \in available THEN <<c.target, c.targetPort>>
                                                        ELSE <<PLink, JoinedName(c)>>]
           T == {in[c] : c \in C}
           El(c) == ConnectionElement(c, available)
<1>0. /\ available \in SUBSET (Names \union {PLink}) /\ hardware = Names \ available
      /\ PLink \in available \/ hardware = {}
  BY DEF Sides
<1>1. \A c \in Connections : c.source \in Names /\ c.target \in Names
  BY DEF Wired
<1>2. \A c : /\ El(c).source = IF c.source \in available THEN c.source ELSE PLink
             /\ El(c).target = IF c.target \in available THEN c.target ELSE PLink
             /\ El(c).targetPort = IF c.target \in available THEN c.targetPort ELSE JoinedName(c)
  BY DEF ConnectionElement, JoinedName
<1> HIDE DEF El
<1>3. \A e \in Elements(available) : \E c \in Connections : e = El(c)
  BY DEF El, Elements, Touching
<1>4. \A e \in Elements(available) : {e.source, e.target} \subseteq available
  <2>1. \A c \in Connections : PLink \in available \/ (c.source \in available /\ c.target \in available)
    BY <1>0, <1>1
  <2> QED BY <1>2, <1>3, <2>1
<1>5. C = {c \in Connections : ~({c.source, c.target} \subseteq hardware)}
  BY <1>0, <1>1 DEF Touching
<1>6. {<<e.target, e.targetPort>> : e \in Elements(available)} = T
  <2>1. \A c \in C : <<El(c).target, El(c).targetPort>> = in[c]
    BY <1>2
  <2>2. Elements(available) = {El(c) : c \in C}
    BY DEF El, Elements
  <2> HIDE DEF in, C
  <2> QED BY ONLY <2>1, <2>2
<1>7. ASSUME NEW c \in C, NEW d \in C, in[c] = in[d] PROVE c = d
  <2>1. c \in Connections /\ d \in Connections /\ c.target # PLink /\ d.target # PLink
    BY <1>1 DEF Touching, Wired
  <2>2. CASE c.target \in available /\ d.target \in available
    BY <1>7, <2>1, <2>2 DEF Wired
  <2>3. CASE c.target \notin available /\ d.target \notin available
    BY <1>7, <2>1, <2>3 DEF Wired
  <2>4. CASE (c.target \in available) # (d.target \in available)
    BY <1>7, <2>1, <2>4
  <2> QED BY <2>2, <2>3, <2>4
<1>8. IsFiniteSet(C)
  BY FS_Subset DEF Wired, Touching
<1>9. Cardinality(C) = Cardinality(T)
  <2>1. in \in [C -> T] /\ \A t \in T : \E c \in C : in[c] = t
    OBVIOUS
  <2> HIDE DEF in
  <2>2. IsFiniteSet(T)
    BY <1>8, ImageFinite
  <2> QED BY <1>7, <2>1, <2>2, Paired
<1> QED BY <1>4, <1>5, <1>6, <1>9

\* A connection to or from the accelerator gives the PLink a port, of its joined name.
LEMMA PLinkPortsOfElements ==
  ASSUME Wired, NEW available, NEW hardware, Sides(available, hardware),
         NEW file, file.connections = Elements(available)
  PROVE  Cardinality(PLinkPorts(file)) = Cardinality(Crossing(hardware))
<1> DEFINE X == Crossing(hardware)
           name == [c \in X |-> JoinedName(c)]
           T == {name[c] : c \in X}
           El(c) == ConnectionElement(c, available)
<1>1. /\ available \in SUBSET (Names \union {PLink}) /\ hardware = Names \ available
      /\ PLink \notin Names
      /\ \A c \in Connections : c.source \in Names /\ c.target \in Names
  BY DEF Sides, Wired
<1>2. \A c : /\ El(c).source = IF c.source \in available THEN c.source ELSE PLink
             /\ El(c).sourcePort = IF c.source \in available THEN c.sourcePort ELSE JoinedName(c)
             /\ El(c).target = IF c.target \in available THEN c.target ELSE PLink
             /\ El(c).targetPort = IF c.target \in available THEN c.targetPort ELSE JoinedName(c)
  BY DEF ConnectionElement, JoinedName
<1>3. file.connections = {El(c) : c \in Touching(available)}
  BY DEF Elements
<1> HIDE DEF El
<1>4. \A c \in Touching(available) :
        /\ c \in Connections
        /\ El(c).source = PLink <=> c.source \notin available
        /\ El(c).target = PLink <=> c.target \notin available
  BY <1>1, <1>2 DEF Touching
<1>5. \A c : c \in X <=> /\ c \in Touching(available)
                         /\ c.source \notin available \/ c.target \notin available
  BY <1>1 DEF Touching, Crossing
<1>6. PLinkPorts(file) = T
  <2>1. ASSUME NEW c \in X PROVE JoinedName(c) \in PLinkPorts(file)
    <3>1. El(c) \in file.connections
      BY <1>3, <1>5
    <3>2. \/ El(c).source = PLink /\ El(c).sourcePort = JoinedName(c)
          \/ El(c).target = PLink /\ El(c).targetPort = JoinedName(c)
      BY <1>2, <1>5
    <3> QED BY <3>1, <3>2 DEF PLinkPorts
  <2>2. ASSUME NEW port \in PLinkPorts(file) PROVE \E c \in X : port = JoinedName(c)
    <3>1. PICK e \in file.connections :
            \/ e.source = PLink /\ port = e.sourcePort
            \/ e.target = PLink /\ port = e.targetPort
      BY DEF PLinkPorts
    <3>2. PICK c \in Touching(available) : e = El(c)
      BY <1>3
    <3> QED BY <1>2, <1>4, <1>5, <3>1, <3>2
  <2> HIDE DEF X
  <2> QED BY <2>1, <2>2
<1>7. IsFiniteSet(X) /\ \A c, d \in X : name[c] = name[d] => c = d
  <2>1. X \subseteq Connections
    BY DEF Crossing
  <2> HIDE DEF X
  <2>2. \A c \in X : name[c] = JoinedName(c)
    OBVIOUS
  <2>3. IsFiniteSet(Connections) /\ \A c, d \in Connections : JoinedName(c) = JoinedName(d) => c = d
    BY DEF Wired
  <2> HIDE DEF name
  <2> QED BY <2>1, <2>2, <2>3, FS_Subset
<1> HIDE DEF X
<1>8. name \in [X -> T] /\ \A t \in T : \E c \in X : name[c] = t
  OBVIOUS
<1> HIDE DEF name
<1>9. IsFiniteSet(T)
  BY <1>7, ImageFinite
<1>10. Cardinality(X) = Cardinality(T)
  BY <1>7, <1>8, <1>9, Paired
<1> QED BY <1>6, <1>10 DEF X

LEMMA ConfigFileClosed ==
  ASSUME Wired, NEW instances, NEW available, available = UNION {instances[p] : p \in DOMAIN instances},
         NEW hardware, Sides(available, hardware),
         \A p, q \in DOMAIN instances : p # q => instances[p] \cap instances[q] = {},
         Cardinality(Ports(Crossing(hardware))) <= PortLimit
  PROVE  Closed(ConfigFile(instances), hardware)
<1> DEFINE file == ConfigFile(instances)
<1>1. /\ DOMAIN file.partitions = {p \in DOMAIN instances : instances[p] # {}}
      /\ \A p \in DOMAIN file.partitions : file.partitions[p] = instances[p]
      /\ Listed(file) = available
      /\ file.connections = Elements(available)
  BY ConfigFileIs
<1>2. /\ \A e \in Elements(available) : {e.source, e.target} \subseteq available
      /\ Cardinality({<<e.target, e.targetPort>> : e \in Elements(available)}) =
           Cardinality({c \in Connections : ~({c.source, c.target} \subseteq hardware)})
  BY ONLY Wired, Sides(available, hardware), ElementsClosed
<1> HIDE DEF file
<1>5. Cardinality(PLinkPorts(file)) = Cardinality(Crossing(hardware))
  BY <1>1, PLinkPortsOfElements
<1>3. \A p, q \in DOMAIN file.partitions : p # q => file.partitions[p] \cap file.partitions[q] = {}
  BY <1>1
<1>4. Listed(file) \ {PLink} = Names \ hardware
  BY <1>1 DEF Wired, Sides
<1> QED BY <1>1, <1>2, <1>3, <1>4, <1>5 DEF Closed, file

LEMMA MulticoreClosed ==
  ASSUME Wired, NEW k \in Nat, NEW x \in MulticoreAssignments(k)
  PROVE  Closed(ConfigFile(MulticoreSolution(x, k).partitions), {})
<1> DEFINE a == x.number
           instances == MulticoreSolution(x, k).partitions
<1>1. a \in [Names -> Cores(k)]
  BY DEF MulticoreAssignments, CoreAssignments
<1>2. DOMAIN instances = Cores(k) /\ \A p \in Cores(k) : instances[p] = On(a, p)
  BY DEF MulticoreSolution
<1> HIDE DEF instances, a
<1>3. Names = UNION {instances[p] : p \in DOMAIN instances}
  <2>1. \A i \in Names : a[i] \in DOMAIN instances /\ i \in instances[a[i]]
    BY <1>1, <1>2 DEF On
  <2>2. \A p \in DOMAIN instances : instances[p] \subseteq Names
    BY <1>2 DEF On
  <2> QED BY <2>1, <2>2
<1>4. \A p, q \in DOMAIN instances : p # q => instances[p] \cap instances[q] = {}
  BY <1>2 DEF On
<1>5. Sides(Names, {})
  BY DEF Sides
<1>6. Cardinality(Ports(Crossing({}))) <= PortLimit
  <2>1. Crossing({}) = {}
    BY DEF Crossing
  <2>2. Ports({}) = {} /\ Cardinality({}) = 0
    BY FS_EmptySet DEF Ports
  <2> QED BY <2>1, <2>2, PartitioningAssumption
<1> QED BY <1>3, <1>4, <1>5, <1>6, ConfigFileClosed DEF instances

LEMMA FitsPorts ==
  ASSUME Wired, NEW k, NEW on, Fits(on, k), NEW hardware, hardware = On(on, k)
  PROVE  Cardinality(Ports(Crossing(hardware))) <= PortLimit
<1> DEFINE R == Ports(PLinkReads(on, k))
           W == Ports(PLinkWrites(on, k))
           D == Crossing(hardware)
<1>1. D = PLinkReads(on, k) \union PLinkWrites(on, k)
  <2>1. \A c \in Connections : c.source \in Names /\ c.target \in Names
    BY DEF Wired
  <2>2. \A i \in Names : i \in hardware <=> on[i] = k
    BY DEF On
  <2> QED BY <2>1, <2>2 DEF PLinkReads, PLinkWrites, Crossing
<1>2. Ports(D) = R \union W
  BY <1>1 DEF Ports
<1>3. IsFiniteSet(R) /\ IsFiniteSet(W)
  <2>1. PLinkReads(on, k) \subseteq Connections /\ PLinkWrites(on, k) \subseteq Connections
    BY DEF PLinkReads, PLinkWrites
  <2>2. ASSUME NEW C \in SUBSET Connections PROVE IsFiniteSet(Ports(C))
    <3> DEFINE port == [c \in C |-> <<c.source, c.sourcePort>>]
    <3>1. IsFiniteSet(C)
      BY FS_Subset DEF Wired
    <3>2. Ports(C) = {port[c] : c \in C}
      BY DEF Ports
    <3> HIDE DEF port
    <3> QED BY <3>1, <3>2, ImageFinite
  <2> QED BY <2>1, <2>2
<1>4. Cardinality(R) + Cardinality(W) <= PortLimit
  BY DEF Fits
<1> HIDE DEF R, W, D
<1>5. Cardinality(R \union W) = Cardinality(R) + Cardinality(W) - Cardinality(R \cap W)
  BY <1>3, FS_Union
<1>6. Cardinality(R) \in Nat /\ Cardinality(W) \in Nat /\ Cardinality(R \cap W) \in Nat
  BY <1>3, FS_CardinalityType, FS_Intersection
<1>7. Cardinality(R \union W) <= PortLimit
  <2>1. PICK r, w, b \in Nat : r = Cardinality(R) /\ w = Cardinality(W) /\ b = Cardinality(R \cap W)
    BY <1>6
  <2>2. PortLimit \in Nat
    BY PartitioningAssumption
  <2> QED BY <1>4, <1>5, <2>1, <2>2
<1>8. Cardinality(Ports(D)) <= PortLimit
  BY <1>2, <1>7
<1> QED BY <1>8 DEF D

LEMMA HeterogeneousClosed ==
  ASSUME Wired, cores \in Nat \ {0}, NEW on \in HeterogeneousAssignments(cores)
  PROVE  LET s == HeterogeneousSolution(on, cores)
             hardware == On(on, cores)
         IN /\ Closed(ConfigFile(SoftwareSide(s)), hardware)
            /\ PLink \in ConfigFile(SoftwareSide(s)).partitions[0]
            /\ HeterogeneousXcf(s) = XcfFile(Names \ hardware, hardware)
<1> DEFINE s == HeterogeneousSolution(on, cores)
           hardware == On(on, cores)
           instances == SoftwareSide(s)
           available == (Names \ hardware) \union {PLink}
<1>1. on \in [Names -> 0 .. cores] /\ Fits(on, cores)
  BY DEF HeterogeneousAssignments
<1>2. /\ DOMAIN instances = Cores(cores)
      /\ \A p \in Cores(cores) : instances[p] = On(on, p) \union (IF p = 0 THEN {PLink} ELSE {})
  BY DEF SoftwareSide, HeterogeneousSolution, Cores
<1>3. HeterogeneousXcf(s) = XcfFile(Names \ hardware, hardware)
  <2>1. s.partitions[cores] = On(on, cores)
    BY DEF HeterogeneousSolution
  <2> QED BY <2>1, HeterogeneousSolutionFacts
<1>4. 0 \in Cores(cores) /\ \A i \in Names : on[i] = cores \/ on[i] \in Cores(cores)
  BY <1>1 DEF Cores
<1>5. hardware = Names \ available /\ PLink \in available
  BY DEF Wired, On
<1>6. available \subseteq Names \union {PLink}
  OBVIOUS
<1> HIDE DEF instances, s
<1>7. available = UNION {instances[p] : p \in DOMAIN instances}
  <2>1. ASSUME NEW i \in Names \ hardware PROVE on[i] \in Cores(cores) /\ i \in instances[on[i]]
    BY <1>2, <1>4 DEF On
  <2>2. PLink \in instances[0]
    BY <1>2, <1>4
  <2>3. ASSUME NEW p \in Cores(cores), NEW i \in instances[p] PROVE i \in available
    <3>1. p # cores
      BY DEF Cores
    <3> QED BY <1>2, <2>3, <3>1 DEF On
  <2> HIDE DEF available
  <2>4. PLink \in available /\ \A i \in available : i = PLink \/ i \in Names \ hardware
    BY DEF available
  <2> QED BY <1>2, <1>4, <2>1, <2>2, <2>3, <2>4
<1>8. \A p, q \in DOMAIN instances : p # q => instances[p] \cap instances[q] = {}
  BY <1>2 DEF On, Wired
<1> HIDE DEF available, hardware
<1>9. Sides(available, hardware)
  BY <1>5, <1>6 DEF Sides
<1>10. Cardinality(Ports(Crossing(hardware))) <= PortLimit
  BY <1>1, FitsPorts DEF hardware
<1>11. Closed(ConfigFile(instances), hardware)
  BY <1>7, <1>8, <1>9, <1>10, ConfigFileClosed
<1>12. PLink \in ConfigFile(instances).partitions[0]
  <2>1. 0 \in DOMAIN instances /\ PLink \in instances[0]
    BY <1>2, <1>4
  <2>2. /\ DOMAIN ConfigFile(instances).partitions = {p \in DOMAIN instances : instances[p] # {}}
        /\ \A p \in DOMAIN ConfigFile(instances).partitions : ConfigFile(instances).partitions[p] = instances[p]
    BY <1>7, ConfigFileIs
  <2> QED BY <2>1, <2>2
<1> QED BY <1>3, <1>11, <1>12 DEF instances, hardware, s

\* What ConfigClosed says of a file, among those of fs.
ConfigOK(fs, f) ==
  /\ f = File(f.dir, "config", f.cores, f.index)
  /\ IF f.dir = "heterogeneous"
       THEN LET xcf == fs[Xcf(f.cores, f.index)]
            IN /\ Xcf(f.cores, f.index) \in DOMAIN fs
               /\ Closed(fs[f], xcf.hardware)
               /\ PLink \in fs[f].partitions[0] /\ xcf.software = Names \ xcf.hardware
       ELSE Closed(fs[f], {})

Configs(fs) == \A f \in DOMAIN fs : f.kind = "config" => ConfigOK(fs, f)

\* Files are written over others, a configuration together with its sibling.
LEMMA OverConfigs ==
  ASSUME NEW new, NEW old, Configs(new), Configs(old),
         \A k, n : Xcf(k, n) \in DOMAIN new => Config(k, n) \in DOMAIN new
  PROVE  Configs(Over(new, old))
<1> DEFINE fs == Over(new, old)
<1>1. /\ DOMAIN fs = DOMAIN new \union DOMAIN old
      /\ \A x \in DOMAIN new : fs[x] = new[x]
      /\ \A x \in DOMAIN old \ DOMAIN new : fs[x] = old[x]
  BY OverFacts
<1> HIDE DEF fs
<1> SUFFICES ASSUME NEW f \in DOMAIN fs, f.kind = "config" PROVE ConfigOK(fs, f)
  BY DEF Configs, fs
<1>2. CASE f \in DOMAIN new
  <2>1. ConfigOK(new, f)
    BY <1>2 DEF Configs
  <2> QED BY <1>1, <1>2, <2>1 DEF ConfigOK
<1>3. CASE f \notin DOMAIN new
  <2>1. ConfigOK(old, f) /\ f \in DOMAIN old /\ fs[f] = old[f]
    BY <1>1, <1>3 DEF Configs
  <2>2. CASE f.dir # "heterogeneous"
    BY <2>1, <2>2 DEF ConfigOK
  <2>3. CASE f.dir = "heterogeneous"
    <3>1. f = Config(f.cores, f.index)
      BY <2>1, <2>3 DEF ConfigOK, Config
    <3>2. Xcf(f.cores, f.index) \notin DOMAIN new
      BY <1>3, <3>1
    <3>3. Xcf(f.cores, f.index) \in DOMAIN old
      BY <2>1, <2>3 DEF ConfigOK
    <3>4. fs[Xcf(f.cores, f.index)] = old[Xcf(f.cores, f.index)] /\ Xcf(f.cores, f.index) \in DOMAIN fs
      BY <1>1, <3>2, <3>3
    <3> QED BY <2>1, <3>4 DEF ConfigOK
  <2> QED BY <2>2, <2>3
<1> QED BY <1>2, <1>3

LEMMA MulticoreConfigs ==
  ASSUME Wired, cores \in Nat,
         NEW pool \in Pools({MulticoreSolution(x, cores) : x \in MulticoreAssignments(cores)})
  PROVE  Configs(MulticoreFiles(pool)) /\ \A k, n : Xcf(k, n) \notin DOMAIN MulticoreFiles(pool)
<1> DEFINE new == MulticoreFiles(pool)
           config_(n) == File("homogeneous", "config", cores, n)
           csv == File("homogeneous", "solutions.csv", cores, 0)
<1>1. /\ DOMAIN new = {config_(n) : n \in 0 .. Len(pool) - 1} \union {csv}
      /\ \A n \in 0 .. Len(pool) - 1 : new[config_(n)] = ConfigFile(pool[n + 1].partitions)
  BY MulticoreFilesFacts
<1>2. Len(pool) \in Nat /\ \A m \in 1 .. Len(pool) :
        pool[m] \in {MulticoreSolution(x, cores) : x \in MulticoreAssignments(cores)}
  BY PoolFacts
<1> HIDE DEF new
<1>3. ASSUME NEW f \in DOMAIN new, f.kind = "config" PROVE ConfigOK(new, f)
  <2>1. f # csv
    BY <1>3, FileFacts
  <2>2. PICK n \in 0 .. Len(pool) - 1 : f = config_(n)
    BY <1>1, <2>1
  <2>3. n + 1 \in 1 .. Len(pool)
    BY <1>2
  <2>4. PICK x \in MulticoreAssignments(cores) : pool[n + 1] = MulticoreSolution(x, cores)
    BY <1>2, <2>3
  <2>5. Closed(new[f], {})
    BY <1>1, <2>2, <2>4, MulticoreClosed
  <2>6. f.dir = "homogeneous" /\ f.cores = cores /\ f.index = n
    BY <2>2, FileFacts
  <2> QED BY <2>2, <2>5, <2>6 DEF ConfigOK
<1>4. ASSUME NEW k, NEW n PROVE Xcf(k, n) \notin DOMAIN new
  BY <1>1, FileFacts DEF Xcf
<1> QED BY <1>3, <1>4 DEF Configs, new

LEMMA HeterogeneousConfigs ==
  ASSUME Wired, cores \in Nat \ {0},
         NEW pool \in Pools({HeterogeneousSolution(on, cores) : on \in HeterogeneousAssignments(cores)})
  PROVE  /\ Configs(HeterogeneousFiles(pool))
         /\ \A k, n : Xcf(k, n) \in DOMAIN HeterogeneousFiles(pool)
                        => Config(k, n) \in DOMAIN HeterogeneousFiles(pool)
<1> DEFINE new == HeterogeneousFiles(pool)
           N == Len(pool)
<1>1. /\ DOMAIN new = {Xcf(cores, n) : n \in 0 .. N - 1} \union
                      {Config(cores, n) : n \in 0 .. N - 1} \union {Csv(cores)}
      /\ \A n \in 0 .. N - 1 :
           /\ new[Xcf(cores, n)] = HeterogeneousXcf(pool[n + 1])
           /\ new[Config(cores, n)] = ConfigFile(SoftwareSide(pool[n + 1]))
  BY HeterogeneousFilesFacts
<1>2. N \in Nat /\ \A m \in 1 .. N :
        pool[m] \in {HeterogeneousSolution(on, cores) : on \in HeterogeneousAssignments(cores)}
  BY PoolFacts
<1> HIDE DEF new, N
<1>3. ASSUME NEW f \in DOMAIN new, f.kind = "config" PROVE ConfigOK(new, f)
  <2>1. f # Csv(cores) /\ \A n : f # Xcf(cores, n)
    BY <1>3, FileFacts DEF Csv, Xcf
  <2>2. PICK n \in 0 .. N - 1 : f = Config(cores, n)
    BY <1>1, <2>1
  <2>3. n + 1 \in 1 .. N
    BY <1>2
  <2>4. PICK on \in HeterogeneousAssignments(cores) : pool[n + 1] = HeterogeneousSolution(on, cores)
    BY <1>2, <2>3
  <2> DEFINE hardware == On(on, cores)
             s == HeterogeneousSolution(on, cores)
  <2>5. /\ Closed(ConfigFile(SoftwareSide(s)), hardware)
        /\ PLink \in ConfigFile(SoftwareSide(s)).partitions[0]
        /\ HeterogeneousXcf(s) = XcfFile(Names \ hardware, hardware)
    BY HeterogeneousClosed
  <2> HIDE DEF hardware, s
  <2>6. f.dir = "heterogeneous" /\ f.cores = cores /\ f.index = n /\ f = File(f.dir, "config", f.cores, f.index)
    BY <2>2, FileFacts DEF Config
  <2>7. new[f] = ConfigFile(SoftwareSide(s)) /\ new[Xcf(cores, n)] = HeterogeneousXcf(s)
    BY <1>1, <2>2, <2>4 DEF s
  <2>8. XcfFile(Names \ hardware, hardware).hardware = hardware
        /\ XcfFile(Names \ hardware, hardware).software = Names \ hardware
    BY DEF XcfFile
  <2>9. Xcf(cores, n) \in DOMAIN new
    BY <1>1
  <2> QED BY <2>5, <2>6, <2>7, <2>8, <2>9 DEF ConfigOK
<1>4. ASSUME NEW k, NEW n, Xcf(k, n) \in DOMAIN new PROVE Config(k, n) \in DOMAIN new
  <2>1. Xcf(k, n) # Csv(cores) /\ \A m : Xcf(k, n) # Config(cores, m)
    BY FileFacts DEF Xcf, Csv, Config
  <2>2. PICK m \in 0 .. N - 1 : Xcf(k, n) = Xcf(cores, m)
    BY <1>1, <1>4, <2>1
  <2>3. k = cores /\ n = m
    BY <2>2, FileFacts DEF Xcf
  <2> QED BY <1>1, <2>3
<1> QED BY <1>3, <1>4 DEF Configs, new

\* The files in unique/ and hardware.json are no configurations and the sibling of none.
LEMMA EndConfigs ==
  ASSUME numbering \in Numberings, NEW saved \in BOOLEAN, NEW new,
         new = IF saved THEN Over([f \in {HardwareJson} |-> numbering.map], UniqueFiles) ELSE UniqueFiles
  PROVE  Configs(new) /\ \A k, n : Xcf(k, n) \notin DOMAIN new
<1>1. DOMAIN UniqueFiles = {Unique(n) : n \in 0 .. numbering.count - 1}
  BY UniqueFilesFacts
<1>2. \A f \in DOMAIN new : f = HardwareJson \/ f \in DOMAIN UniqueFiles
  BY DEF Over
<1>3. \A f \in DOMAIN new : f = HardwareJson \/ \E n : f = Unique(n)
  BY <1>1, <1>2
<1>4. HardwareJson.kind # "config" /\ \A n : Unique(n).kind # "config"
  BY DEF HardwareJson, Unique, File
<1>5. \A k, n : Xcf(k, n) # HardwareJson /\ \A m : Xcf(k, n) # Unique(m)
  BY FileFacts DEF HardwareJson, Unique, Xcf
<1> QED BY <1>3, <1>4, <1>5 DEF Configs

LEMMA ConfigsStep ==
  ASSUME IInv, Wired, Configs(files), [Next]_vars
  PROVE  Configs(files') /\ network' = network
<1>1. CASE setConfig \/ setConfigThrows \/ solveThrows \/ endMulticore \/ compileAgain \/ ended \/ UNCHANGED vars
  BY <1>1 DEF setConfig, setConfigThrows, solveThrows, endMulticore, compileAgain, ended, vars, phaseVars
<1>2. CASE solveMulticore
  <2>1. PICK pool \in Pools({MulticoreSolution(x, cores) : x \in MulticoreAssignments(cores)}) :
          files' = Over(MulticoreFiles(pool), files)
    BY <1>2 DEF solveMulticore, Write
  <2>2. cores \in Nat
    BY DEF IInv, CoresInv
  <2>3. Configs(MulticoreFiles(pool)) /\ \A k, n : Xcf(k, n) \notin DOMAIN MulticoreFiles(pool)
    BY <2>2, MulticoreConfigs
  <2>4. Configs(Over(MulticoreFiles(pool), files))
    BY <2>3, OverConfigs
  <2> QED BY <1>2, <2>1, <2>4 DEF solveMulticore
<1>3. CASE solveHeterogeneous
  <2>1. PICK pool \in Pools({HeterogeneousSolution(on, cores) : on \in HeterogeneousAssignments(cores)}) :
          files' = Over(HeterogeneousFiles(pool), files)
    BY <1>3 DEF solveHeterogeneous, Write
  <2>2. cores \in Nat \ {0}
    BY <1>3 DEF solveHeterogeneous, IInv, CoresInv
  <2>3. /\ Configs(HeterogeneousFiles(pool))
        /\ \A k, n : Xcf(k, n) \in DOMAIN HeterogeneousFiles(pool)
                       => Config(k, n) \in DOMAIN HeterogeneousFiles(pool)
    BY <2>2, HeterogeneousConfigs
  <2>4. Configs(Over(HeterogeneousFiles(pool), files))
    BY <2>3, OverConfigs
  <2> QED BY <1>3, <2>1, <2>4 DEF solveHeterogeneous
<1>4. CASE endHeterogeneous
  <2>1. PICK saved \in BOOLEAN :
          files' = Over(IF saved THEN Over([f \in {HardwareJson} |-> numbering.map], UniqueFiles) ELSE UniqueFiles, files)
    BY <1>4 DEF endHeterogeneous, Write
  <2>2. PICK new : new = IF saved THEN Over([f \in {HardwareJson} |-> numbering.map], UniqueFiles) ELSE UniqueFiles
    OBVIOUS
  <2>3. Configs(new) /\ \A k, n : Xcf(k, n) \notin DOMAIN new
    BY <2>2, EndConfigs DEF IInv, NumberedInv
  <2>4. Configs(Over(new, files))
    BY <2>3, OverConfigs
  <2> QED BY <1>4, <2>1, <2>2, <2>4 DEF endHeterogeneous
<1>5. CASE endHeterogeneousThrows
  <2> DEFINE new == [f \in {HardwareJson} |-> numbering.map]
  <2>1. files' = files \/ files' = Over(new, files)
    BY <1>5 DEF endHeterogeneousThrows, Write
  <2>2. \A f \in DOMAIN new : f = HardwareJson
    OBVIOUS
  <2>3. HardwareJson.kind # "config" /\ \A k, n : Xcf(k, n) # HardwareJson
    BY FileFacts DEF HardwareJson, Xcf, File
  <2> HIDE DEF new
  <2>4. Configs(new) /\ \A k, n : Xcf(k, n) \notin DOMAIN new
    BY <2>2, <2>3 DEF Configs
  <2>5. Configs(Over(new, files))
    BY <2>4, OverConfigs
  <2> QED BY <1>5, <2>1, <2>5 DEF endHeterogeneousThrows
<1> QED BY <1>1, <1>2, <1>3, <1>4, <1>5 DEF Next

ConfigsInv == Configs(files)

\* The names that ConfigFile joins for the PLink's ports apart, every configuration that a
\* compilation writes or an earlier one left is one the runtime can build: every instance
\* in one partition, the ends of every connection listed, an input port for each, and the
\* .xcf file of its number beside it (dumpMulticoreConfig, and the dumps of solveModel in
\* HeterogeneousModel).  The PLink has a port for each connection to or from the
\* accelerator, and what these read or write are no more outputs than the 15 of
\* constraint_number_of_connections; the ports may be more.
THEOREM ConfigurationsAreClosed == NamesApart => (Spec => []ConfigClosed)
<1> SUFFICES ASSUME NamesApart PROVE Spec => []ConfigClosed
  OBVIOUS
<1>1. IInv => Wired
  BY WiredFacts DEF IInv
<1>2. Init => ConfigsInv
  BY DEF Init, ConfigsInv, Configs
<1>3. IInv /\ ConfigsInv /\ [Next]_vars => ConfigsInv'
  <2> SUFFICES ASSUME IInv, ConfigsInv, [Next]_vars PROVE ConfigsInv'
    OBVIOUS
  <2>1. Configs(files') /\ network' = network
    BY <1>1, ConfigsStep DEF ConfigsInv
  <2>2. Names' = Names /\ Connections' = Connections
    BY <2>1 DEF Names, Connections
  <2>3. ASSUME NEW f \in DOMAIN files', f.kind = "config" PROVE ConfigOK(files, f)'
    <3>1. ConfigOK(files', f)
      BY <2>1, <2>3 DEF Configs
    <3>2. ASSUME NEW file, NEW hardware, Closed(file, hardware) PROVE Closed(file, hardware)'
      BY <2>2, <3>2 DEF Closed, Listed, Ports, Crossing, PLinkPorts
    <3> QED BY <2>2, <3>1, <3>2 DEF ConfigOK, Closed, Listed, Ports, Crossing, PLinkPorts, Xcf, File
  <2> QED BY <2>3 DEF ConfigsInv, Configs
<1>4. IInv /\ ConfigsInv => ConfigClosed
  <2> SUFFICES ASSUME IInv, ConfigsInv, NEW f \in Configured
               PROVE  LET file == files[f]
                          hardware == IF f.dir = "heterogeneous" THEN files[Sibling(f)].hardware ELSE {}
                      IN /\ Closed(file, hardware)
                         /\ f.dir = "heterogeneous" =>
                              PLink \in file.partitions[0] /\ files[Sibling(f)].software = Names \ hardware
    BY DEF ConfigClosed, Closed, Crossing
  <2>1. ConfigOK(files, f)
    BY DEF ConfigsInv, Configs, Configured
  <2>2. f = File(f.dir, "config", f.cores, f.index)
    BY <2>1 DEF ConfigOK
  <2>3. f.dir = "heterogeneous" => Sibling(f) = Xcf(f.cores, f.index)
    BY <2>2 DEF Sibling, Xcf, File
  <2> QED BY <2>1, <2>3 DEF ConfigOK
<1> QED BY <1>2, <1>3, <1>4, Invariant, PTL DEF Spec

-----------------------------------------------------------------------------
(* What a configuration costs.                                             *)

\* What CostMatchesConfig says of a file, with the times of its solution.
CoreOf(file, i) == Place(file, IF i \in Listed(file) THEN i ELSE PLink)
There(file) == {c \in Connections : ConnectionElement(c, Listed(file)) \in file.connections}
Inside(file, p) == {c \in There(file) : CoreOf(file, c.source) = p /\ CoreOf(file, c.target) = p}
Across(file) == {c \in There(file) : CoreOf(file, c.source) # CoreOf(file, c.target)}
Load(S) == Unit * SwPeriod * SumFunction([i \in S |-> InstanceTicks(profile.software, i)])
Busiest(file) == Max({Load(file.partitions[p]) : p \in DOMAIN file.partitions})

CostOK(file, times, k, exact) ==
  /\ times.local = Max({Communication(Inside(file, p), "Local") : p \in Cores(k)})
  /\ times.global = Communication(Across(file), "Global")
  /\ times.exec >= Busiest(file)
  /\ exact => times.exec = Busiest(file)

LEMMA CostIs ==
  CostMatchesConfig <=> \A f \in JustWritten : CostOK(files[f], Times(f), f.cores, f.dir = "homogeneous")
BY DEF CostMatchesConfig, CostOK, Busiest, Load, There, Inside, Across, CoreOf

\* It depends on the network and the profile only.
LEMMA CostKept ==
  ASSUME UNCHANGED <<network, profile>>, NEW file, NEW times, NEW k, NEW exact, CostOK(file, times, k, exact)
  PROVE  CostOK(file, times, k, exact)'
<1>1. \A kind : \A C : Communication(C, kind)' = Communication(C, kind)
  <2> SUFFICES ASSUME NEW kind, NEW C PROVE Communication(C, kind)' = Communication(C, kind)
    OBVIOUS
  <2> QED BY DEF Communication, CommunicationTime, BytesExchanged, FifoSize, Settings, ConnectionBytes
<1>2. \A c, available : ConnectionElement(c, available)' = ConnectionElement(c, available)
  BY DEF ConnectionElement, Settings
<1>3. There(file)' = There(file)
  BY <1>2 DEF There, Connections, Listed
<1>4. \A S : Load(S)' = Load(S)
  <2> SUFFICES ASSUME NEW S PROVE Load(S)' = Load(S)
    OBVIOUS
  <2> QED BY DEF Load, InstanceTicks
<1>5. \A i : CoreOf(file, i)' = CoreOf(file, i)
  BY DEF CoreOf, Place, Listed
<1>6. \A p : Inside(file, p)' = Inside(file, p)
  BY <1>3, <1>5 DEF Inside
<1>7. Across(file)' = Across(file)
  BY <1>3, <1>5 DEF Across
<1>8. Busiest(file)' = Busiest(file)
  BY <1>4 DEF Busiest
<1>9. (times.local = Max({Communication(Inside(file, p), "Local") : p \in Cores(k)}))'
  BY <1>1, <1>6 DEF CostOK, Cores
<1>10. (times.global = Communication(Across(file), "Global"))'
  BY <1>1, <1>7 DEF CostOK
<1>11. (times.exec >= Busiest(file) /\ (exact => times.exec = Busiest(file)))'
  BY <1>8 DEF CostOK
<1> QED BY <1>9, <1>10, <1>11 DEF CostOK

Ends ==
  /\ PLink \notin Names /\ IsFiniteSet(Connections)
  /\ \A c \in Connections : c.source \in Names /\ c.target \in Names

\* The instances of the cores, by an assignment on that uses them all; a PLink, when the
\* accelerator is used, is on core 0.
Layout(instances, on, k) ==
  /\ k \in Nat \ {0} /\ on \in [Names -> 0 .. k] /\ \A p \in Cores(k) : On(on, p) # {}
  /\ \E X \in {{}, {PLink}} :
       /\ X = {} => On(on, k) = {}
       /\ DOMAIN instances = Cores(k)
       /\ \A p \in Cores(k) : instances[p] = On(on, p) \union (IF p = 0 THEN X ELSE {})

\* A file that has the instances and the connections so.
Placed(file, on, k) ==
  /\ DOMAIN file.partitions = Cores(k)
  /\ \A p \in Cores(k) : file.partitions[p] = On(on, p) \/ file.partitions[p] = On(on, p) \union {PLink}
  /\ \A i \in Names : CoreOf(file, i) = IF on[i] = k THEN 0 ELSE on[i]
  /\ There(file) = {c \in Connections : ~(on[c.source] = k /\ on[c.target] = k)}

LEMMA LayoutPlaced ==
  ASSUME Ends, NEW instances, NEW on, NEW k, Layout(instances, on, k)
  PROVE  Placed(ConfigFile(instances), on, k)
<1> DEFINE file == ConfigFile(instances)
           available == UNION {instances[p] : p \in DOMAIN instances}
<1>1. PICK X \in {{}, {PLink}} :
        /\ X = {} => On(on, k) = {}
        /\ DOMAIN instances = Cores(k)
        /\ \A p \in Cores(k) : instances[p] = On(on, p) \union (IF p = 0 THEN X ELSE {})
  BY DEF Layout
<1>2. k \in Nat \ {0} /\ on \in [Names -> 0 .. k] /\ \A p \in Cores(k) : On(on, p) # {}
  BY DEF Layout
<1>3. 0 \in Cores(k) /\ k \notin Cores(k) /\ \A i \in Names : on[i] = k \/ on[i] \in Cores(k)
  BY <1>2 DEF Cores
<1>4. available = (Names \ On(on, k)) \union X
  <2>1. ASSUME NEW i \in Names \ On(on, k) PROVE on[i] \in Cores(k) /\ i \in instances[on[i]]
    BY <1>1, <1>3 DEF On
  <2>2. ASSUME NEW p \in Cores(k), NEW i \in instances[p] PROVE i \in (Names \ On(on, k)) \union X
    BY <1>1, <1>3, <2>2 DEF On
  <2>3. X \subseteq instances[0]
    BY <1>1, <1>3
  <2> QED BY <1>1, <1>3, <2>1, <2>2, <2>3
<1>5. /\ DOMAIN file.partitions = {p \in DOMAIN instances : instances[p] # {}}
      /\ \A p \in DOMAIN file.partitions : file.partitions[p] = instances[p]
      /\ Listed(file) = available
      /\ file.connections = Elements(available)
  BY ConfigFileIs
<1> HIDE DEF file, available
<1>6. DOMAIN file.partitions = Cores(k) /\ \A p \in Cores(k) : file.partitions[p] = instances[p]
  BY <1>1, <1>2, <1>5
<1>7. \A p \in Cores(k) : file.partitions[p] = On(on, p) \/ file.partitions[p] = On(on, p) \union {PLink}
  BY <1>1, <1>6
<1>8. \A i \in Names : i \in available <=> on[i] # k
  BY <1>1, <1>4 DEF Ends, On
<1>9. ASSUME NEW i \in Names PROVE CoreOf(file, i) = IF on[i] = k THEN 0 ELSE on[i]
  <2>1. CASE on[i] # k
    <3>1. CoreOf(file, i) = Place(file, i)
      BY <1>5, <1>8, <2>1 DEF CoreOf
    <3>2. \A p \in Cores(k) : i \in file.partitions[p] <=> p = on[i]
      BY <1>1, <1>6 DEF Ends, On
    <3>3. on[i] \in Cores(k)
      BY <1>3, <2>1
    <3> QED BY <1>6, <2>1, <3>1, <3>2, <3>3 DEF Place
  <2>2. CASE on[i] = k
    <3>1. CoreOf(file, i) = Place(file, PLink)
      BY <1>5, <1>8, <2>2 DEF CoreOf
    <3>2. X = {PLink}
      BY <1>1, <2>2 DEF On
    <3>3. \A p \in Cores(k) : PLink \in file.partitions[p] <=> p = 0
      BY <1>1, <1>6, <3>2 DEF Ends, On
    <3> QED BY <1>3, <1>6, <2>2, <3>1, <3>3 DEF Place
  <2> QED BY <2>1, <2>2
<1>10. There(file) = {c \in Connections : ~(on[c.source] = k /\ on[c.target] = k)}
  <2> DEFINE El(c) == ConnectionElement(c, available)
  <2>1. \A c : /\ El(c).source = IF c.source \in available THEN c.source ELSE PLink
               /\ El(c).target = IF c.target \in available THEN c.target ELSE PLink
    BY DEF ConnectionElement
  <2>2. There(file) = {c \in Connections : El(c) \in Elements(available)}
    BY <1>5 DEF There
  <2>3. Elements(available) = {El(c) : c \in Touching(available)}
    BY DEF Elements
  <2> HIDE DEF El
  <2>4. ASSUME NEW c \in Connections, NEW d \in Touching(available), El(c) = El(d)
        PROVE  c \in Touching(available)
    <3>1. d \in Connections /\ d.source # PLink /\ d.target # PLink
      BY DEF Touching, Ends
    <3>2. c.source \in available \/ c.target \in available
      BY <2>1, <2>4, <3>1 DEF Touching
    <3> QED BY <3>2 DEF Touching
  <2>5. There(file) = Touching(available)
    <3>1. Touching(available) \subseteq Connections
      BY DEF Touching
    <3> QED BY <2>2, <2>3, <2>4, <3>1
  <2> QED BY <1>8, <2>5 DEF Touching, Ends
<1> QED BY <1>6, <1>7, <1>9, <1>10 DEF Placed, file

LEMMA InsideIs ==
  ASSUME Ends, NEW k \in Nat \ {0}, NEW on \in [Names -> 0 .. k], NEW file, Placed(file, on, k), NEW p \in Cores(k)
  PROVE  Inside(file, p) =
           Between(on, p, p) \union (IF p = 0 THEN Between(on, 0, k) \union Between(on, k, 0) ELSE {})
<1>1. \A c \in Connections :
        /\ CoreOf(file, c.source) = IF on[c.source] = k THEN 0 ELSE on[c.source]
        /\ CoreOf(file, c.target) = IF on[c.target] = k THEN 0 ELSE on[c.target]
  BY DEF Placed, Ends
<1>2. There(file) = {c \in Connections : ~(on[c.source] = k /\ on[c.target] = k)} /\ p # k /\ k # 0
  BY DEF Placed, Cores
<1> QED BY <1>1, <1>2 DEF Inside, Between

LEMMA AcrossIs ==
  ASSUME Ends, NEW k \in Nat \ {0}, NEW on \in [Names -> 0 .. k], NEW file, Placed(file, on, k)
  PROVE  Across(file) =
           {c \in Connections : /\ on[c.source] \in Cores(k) /\ on[c.target] \in Cores(k)
                                /\ on[c.source] # on[c.target]} \union
           ({c \in PLinkWrites(on, k) : on[c.source] # 0} \union {c \in PLinkReads(on, k) : on[c.target] # 0})
<1>1. \A c \in Connections :
        /\ CoreOf(file, c.source) = IF on[c.source] = k THEN 0 ELSE on[c.source]
        /\ CoreOf(file, c.target) = IF on[c.target] = k THEN 0 ELSE on[c.target]
  BY DEF Placed, Ends
<1>2. There(file) = {c \in Connections : ~(on[c.source] = k /\ on[c.target] = k)}
  BY DEF Placed
<1>3. \A i \in Names : on[i] = k \/ on[i] \in Cores(k)
  BY DEF Cores
<1>4. k \notin Cores(k) /\ k # 0
  BY DEF Cores
<1> QED BY <1>1, <1>2, <1>3, <1>4 DEF Across, PLinkWrites, PLinkReads, Ends

\* The PLink does not run on a core for any ticks.
LEMMA LoadFacts ==
  ASSUME TaskInv, ProfileInv, NEW S \in SUBSET Names
  PROVE  Load(S) \in Int /\ Load(S \union {PLink}) = Load(S)
<1> DEFINE ticks(i) == InstanceTicks(profile.software, i)
           W == [i \in Names \union {PLink} |-> ticks(i)]
           w(T) == [i \in T |-> ticks(i)]
<1>1. PICK t \in Tasks : network = t.network /\ inputs = t.inputs
  BY DEF TaskInv
<1>2. TaskOK(t) /\ ToSet(network.instances) = Names
  BY PhaseAssumption DEF ToSet, Names
<1>3. inputs.software \in [DOMAIN inputs.software -> Nat] /\ DOMAIN inputs.software \subseteq Names
  BY <1>1, <1>2 DEF TaskOK
<1>4. /\ DOMAIN profile.software \subseteq DOMAIN inputs.software
      /\ profile.software = Restrict(inputs.software, DOMAIN profile.software)
  BY DEF ProfileInv, Databases
<1>5. \A i : ticks(i) \in Nat
  BY <1>3, <1>4 DEF InstanceTicks, Restrict
<1>6. PLink \notin Names
  BY TaskFacts
<1>7. ticks(PLink) = 0
  BY <1>3, <1>4, <1>6 DEF InstanceTicks
<1>8. IsFiniteSet(Names \union {PLink})
  BY TaskFacts, PositionFacts, FS_Union, FS_Singleton
<1> HIDE DEF ticks
<1>9. ASSUME NEW T \in SUBSET (Names \union {PLink})
      PROVE  /\ IsFiniteSet(T) /\ \A i \in T : W[i] \in Int
             /\ Load(T) = Unit * SwPeriod * SumOf(W, T) /\ SumOf(W, T) \in Int
  <2>1. IsFiniteSet(T)
    BY <1>8, FS_Subset
  <2>2. Load(T) = Unit * SwPeriod * SumOf(w(T), T)
    BY DEF Load, SumFunction, SumOf, ticks
  <2>3. \A i \in T : W[i] \in Int /\ w(T)[i] = W[i]
    BY <1>5
  <2> HIDE DEF W, w
  <2>4. SumOf(W, T) = SumOf(w(T), T) /\ SumOf(W, T) \in Int
    BY <2>1, <2>3, SumSame, SumType
  <2> QED BY <2>1, <2>2, <2>3, <2>4
<1>10. W[PLink] = 0
  BY <1>7
<1> HIDE DEF W
<1>11. SumOf(W, S \union {PLink}) = SumOf(W, S)
  <2>1. IsFiniteSet(S \union {PLink}) /\ \A i \in S \union {PLink} : W[i] \in Int
    BY <1>9
  <2>2. SumOf(W, S \union {PLink}) = W[PLink] + SumOf(W, (S \union {PLink}) \ {PLink})
    BY <2>1, SumTake
  <2>3. (S \union {PLink}) \ {PLink} = S
    BY <1>6
  <2>4. PICK u \in Int : u = SumOf(W, S)
    BY <1>9
  <2>5. SumOf(W, S \union {PLink}) = 0 + u
    BY <1>10, <2>2, <2>3, <2>4
  <2> QED BY <2>4, <2>5
<1>12. Load(S) = Unit * SwPeriod * SumOf(W, S) /\ SumOf(W, S) \in Int
       /\ Load(S \union {PLink}) = Unit * SwPeriod * SumOf(W, S \union {PLink})
  <2>1. S \in SUBSET (Names \union {PLink}) /\ S \union {PLink} \in SUBSET (Names \union {PLink})
    OBVIOUS
  <2> QED BY <1>9, <2>1
<1>13. Load(S) \in Int
  BY <1>12, PartitioningAssumption
<1> QED BY <1>11, <1>12, <1>13

\* The partition of a core costs what the assignment says.
LEMMA BusiestIs ==
  ASSUME TaskInv, ProfileInv, NEW k \in Nat \ {0}, NEW on, NEW file, Placed(file, on, k)
  PROVE  /\ Busiest(file) = Max({PartitionTime(on, p) : p \in Cores(k)})
         /\ \A p \in Cores(k) : PartitionTime(on, p) \in Int
<1>1. \A p : On(on, p) \in SUBSET Names
  BY DEF On
<1>2. \A p : PartitionTime(on, p) = Load(On(on, p))
  BY DEF PartitionTime, Load
<1>3. ASSUME NEW p \in Cores(k)
      PROVE  Load(file.partitions[p]) = PartitionTime(on, p) /\ PartitionTime(on, p) \in Int
  <2>1. On(on, p) \in SUBSET Names
    BY <1>1
  <2>2. Load(On(on, p)) \in Int /\ Load(On(on, p) \union {PLink}) = Load(On(on, p))
    BY <2>1, LoadFacts
  <2>3. file.partitions[p] = On(on, p) \/ file.partitions[p] = On(on, p) \union {PLink}
    BY DEF Placed
  <2> QED BY <1>2, <2>2, <2>3
<1>4. DOMAIN file.partitions = Cores(k)
  BY DEF Placed
<1>5. {Load(file.partitions[p]) : p \in DOMAIN file.partitions} = {PartitionTime(on, p) : p \in Cores(k)}
  BY <1>3, <1>4
<1> QED BY <1>3, <1>5 DEF Busiest

\* Of integers, a wrapped one is one.
LEMMA WrapType == \A x \in Int : Wrap(x, IntWidth) \in Int
<1>1. 2^IntWidth \in Int /\ 2^IntWidth > 0
  BY PartitioningAssumption
<1>2. PICK b \in Int : b = 2^IntWidth /\ b > 0
  BY <1>1
<1>3. \A x \in Int : x % b \in Int /\ (x % b) - b \in Int
  BY <1>2
<1> QED BY <1>2, <1>3 DEF Wrap

LEMMA QuotientInt == \A x \in Int, y \in Nat \ {0} : x \div y \in Int
OBVIOUS

\* The times of transfers to and from the accelerator are numbers.
LEMMA PCIeTimeInt ==
  ASSUME TaskInv, ProfileInv, NEW c, HasFifoTicks(c), HasPCIeTicks(c), ConnectionBytes(c) # 0,
         NEW direction \in {"read", "write"}
  PROVE  PCIeTime(c, direction) \in Int
<1>1. PICK t \in Tasks : inputs = t.inputs
  BY DEF TaskInv
<1>2. /\ inputs.settings \in [DOMAIN inputs.settings -> [depth : Nat, width : Nat, tokens : Nat]]
      /\ inputs.pcie \in [DOMAIN inputs.pcie -> [read : Nat, write : Nat, kernel : Nat]]
  BY <1>1, PhaseAssumption DEF TaskOK
<1>3. profile.settings[c] \in [depth : Nat, width : Nat, tokens : Nat]
  <2>1. /\ c \in DOMAIN profile.settings /\ DOMAIN profile.settings \subseteq DOMAIN inputs.settings
        /\ profile.settings = Restrict(inputs.settings, DOMAIN profile.settings)
    BY DEF HasFifoTicks, ProfileInv, Databases
  <2> QED BY <1>2, <2>1 DEF Restrict
<1>4. profile.pcie[PCIeSize(c)] \in [read : Nat, write : Nat, kernel : Nat]
  <2>1. /\ PCIeSize(c) \in DOMAIN profile.pcie /\ DOMAIN profile.pcie \subseteq DOMAIN inputs.pcie
        /\ profile.pcie = Restrict(inputs.pcie, DOMAIN profile.pcie)
    BY DEF HasPCIeTicks, ProfileInv, Databases
  <2> HIDE DEF PCIeSize
  <2> QED BY <1>2, <2>1 DEF Restrict
<1>5. BytesExchanged(c) \in Nat
  BY <1>3, ProductNat DEF BytesExchanged, Settings
<1>6. ConnectionBytes(c) \in Int
  <2>1. profile.settings[c].depth * profile.settings[c].width \in Int
    BY <1>3, ProductNat
  <2> QED BY <2>1, WrapType DEF ConnectionBytes, Settings
<1>7. PICK kernel \in Nat, moved \in Nat, bytes \in Nat, u \in Nat, size \in Int :
        /\ kernel = profile.pcie[PCIeSize(c)].kernel /\ moved = profile.pcie[PCIeSize(c)][direction]
        /\ bytes = BytesExchanged(c) /\ u = Unit /\ size = ConnectionBytes(c) /\ size # 0
  BY <1>4, <1>5, <1>6, PartitioningAssumption
<1>8. u * (kernel + 2 * moved) * bytes \in Nat
  <2>1. kernel + 2 * moved \in Nat
    OBVIOUS
  <2>2. u * (kernel + 2 * moved) \in Nat
    BY <2>1, ProductNat
  <2> QED BY <2>2, ProductNat
<1>9. PICK time \in Nat : time = u * (kernel + 2 * moved) * bytes
  BY <1>8
<1>10. PCIeTime(c, direction) = IF size > 0 THEN time \div (2 * size) ELSE -(time \div (-2 * size))
  BY <1>7, <1>9 DEF PCIeTime
<1>11. CASE size > 0
  <2>1. 2 * size \in Nat \ {0}
    BY <1>11
  <2>2. time \div (2 * size) \in Int
    BY <2>1, QuotientInt
  <2> QED BY <1>10, <1>11, <2>2
<1>12. CASE ~(size > 0)
  <2>1. -2 * size \in Nat \ {0}
    BY <1>7, <1>12
  <2>2. time \div (-2 * size) \in Int
    BY <2>1, QuotientInt
  <2> QED BY <1>10, <1>12, <2>2
<1> QED BY <1>11, <1>12

LEMMA TransfersInt ==
  ASSUME TaskInv, ProfileInv, ~HeterogeneousThrows, NEW C \in SUBSET Connections,
         NEW direction \in {"read", "write"}
  PROVE  SumFunction([c \in C |-> PCIeTime(c, direction)]) \in Int
<1> DEFINE w == [c \in C |-> PCIeTime(c, direction)]
<1>1. IsFiniteSet(C)
  BY TaskFacts, FS_Subset
<1>2. \A c \in C : HasFifoTicks(c) /\ HasPCIeTicks(c) /\ ConnectionBytes(c) # 0
  BY DEF HeterogeneousThrows
<1>3. \A c \in C : w[c] \in Int
  BY <1>2, PCIeTimeInt
<1>4. SumFunction(w) = SumOf(w, C)
  BY DEF SumFunction, SumOf
<1> HIDE DEF w
<1>5. SumOf(w, C) \in Int
  BY <1>1, <1>3, SumType
<1> QED BY <1>4, <1>5 DEF w

LEMMA PLinkTimeInt ==
  ASSUME TaskInv, ProfileInv, ~HeterogeneousThrows, Names # {}, NEW on, NEW k
  PROVE  PLinkTime(on, k) \in Int
<1>1. ReadTime(on, k) \in Int /\ WriteTime(on, k) \in Int
  BY TransfersInt DEF ReadTime, WriteTime, PLinkReads, PLinkWrites
<1>2. KernelTime(on, k) \in Int
  <2> DEFINE f == [i \in Names |-> IF on[i] = k THEN Unit * HwPeriod * InstanceTicks(profile.accel, i) ELSE 0]
  <2>1. PICK t \in Tasks : inputs = t.inputs
    BY DEF TaskInv
  <2>2. inputs.accel \in [DOMAIN inputs.accel -> Nat]
    BY <2>1, PhaseAssumption DEF TaskOK
  <2>3. /\ DOMAIN profile.accel \subseteq DOMAIN inputs.accel
        /\ profile.accel = Restrict(inputs.accel, DOMAIN profile.accel)
    BY DEF ProfileInv, Databases
  <2>4. \A i : InstanceTicks(profile.accel, i) \in Nat
    BY <2>2, <2>3 DEF InstanceTicks, Restrict
  <2>5. Unit * HwPeriod \in Nat
    BY PartitioningAssumption, ProductNat
  <2>6. \A i \in Names : f[i] \in Nat
    BY <2>4, <2>5, ProductNat
  <2>7. KernelTime(on, k) = Max({f[i] : i \in Names})
    BY DEF KernelTime
  <2> HIDE DEF f
  <2>8. IsFiniteSet(Names)
    BY TaskFacts, PositionFacts
  <2>9. IsFiniteSet({f[i] : i \in Names})
    BY <2>8, ImageFinite
  <2>10. {f[i] : i \in Names} # {} /\ {f[i] : i \in Names} \subseteq Int
    BY <2>6
  <2>11. Max({f[i] : i \in Names}) \in {f[i] : i \in Names}
    BY <2>9, <2>10, MaxFacts
  <2> QED BY <2>7, <2>10, <2>11
<1> QED BY <1>1, <1>2 DEF PLinkTime

\* What the configuration puts on a core, and between cores, costs what the model says.
LEMMA PlacedCost ==
  ASSUME Ends, Timed("Local"), Timed("Global"), NEW k \in Nat \ {0}, NEW on \in [Names -> 0 .. k],
         NEW file, Placed(file, on, k)
  PROVE  /\ \A p \in Cores(k) : Communication(Inside(file, p), "Local") =
              LocalTime(on, p) + (IF p = 0 THEN PLinkLocalTime(on, k) ELSE 0)
         /\ Communication(Across(file), "Global") = CoreToCoreTime(on, k) + PLinkGlobalTime(on, k)
<1>1. ASSUME NEW p \in Cores(k)
      PROVE  Communication(Inside(file, p), "Local") =
               LocalTime(on, p) + (IF p = 0 THEN PLinkLocalTime(on, k) ELSE 0)
  <2> DEFINE A == Between(on, p, p)
             B == Between(on, 0, k) \union Between(on, k, 0)
  <2>1. Inside(file, p) = A \union (IF p = 0 THEN B ELSE {})
    BY InsideIs
  <2>2. A \in SUBSET Connections /\ B \in SUBSET Connections
    BY DEF Between
  <2>3. A \cap B = {}
    BY DEF Between, Cores
  <2>4. LocalTime(on, p) = Communication(A, "Local") /\ PLinkLocalTime(on, k) = Communication(B, "Local")
    BY DEF LocalTime, PLinkLocalTime
  <2> HIDE DEF A, B
  <2>5. CASE p = 0
    <3>1. Communication(A \union B, "Local") = Communication(A, "Local") + Communication(B, "Local")
      BY <2>2, <2>3, CommunicationUnion
    <3> QED BY <2>1, <2>4, <2>5, <3>1
  <2>6. CASE p # 0
    <3>1. PICK u \in Nat : u = Communication(A, "Local")
      BY <2>2, CommunicationIs
    <3>2. Inside(file, p) = A
      BY <2>1, <2>6
    <3>3. Communication(Inside(file, p), "Local") = u + 0
      BY <3>1, <3>2
    <3> QED BY <2>4, <2>6, <3>1, <3>3
  <2> QED BY <2>5, <2>6
<1>2. Communication(Across(file), "Global") = CoreToCoreTime(on, k) + PLinkGlobalTime(on, k)
  <2> DEFINE A == {c \in Connections : /\ on[c.source] \in Cores(k) /\ on[c.target] \in Cores(k)
                                       /\ on[c.source] # on[c.target]}
             B == {c \in PLinkWrites(on, k) : on[c.source] # 0} \union
                  {c \in PLinkReads(on, k) : on[c.target] # 0}
  <2>1. Across(file) = A \union B
    BY AcrossIs
  <2>2. A \in SUBSET Connections /\ B \in SUBSET Connections
    BY DEF PLinkReads, PLinkWrites
  <2>3. A \cap B = {}
    BY DEF PLinkReads, PLinkWrites, Cores
  <2>4. CoreToCoreTime(on, k) = Communication(A, "Global") /\ PLinkGlobalTime(on, k) = Communication(B, "Global")
    BY DEF CoreToCoreTime, PLinkGlobalTime
  <2> HIDE DEF A, B
  <2>5. Communication(A \union B, "Global") = Communication(A, "Global") + Communication(B, "Global")
    BY <2>2, <2>3, CommunicationUnion
  <2> QED BY <2>1, <2>4, <2>5
<1> QED BY <1>1, <1>2

LEMMA EndsFacts == TaskInv => Ends
BY TaskFacts DEF Ends

LEMMA HeterogeneousCost ==
  ASSUME TaskInv, ProfileInv, ~HeterogeneousThrows, NEW instances, NEW on, NEW k, Layout(instances, on, k)
  PROVE  CostOK(ConfigFile(instances), HeterogeneousTimes(on, k), k, FALSE)
<1> DEFINE file == ConfigFile(instances)
           times == HeterogeneousTimes(on, k)
           f(p) == LocalTime(on, p) + (IF p = 0 THEN PLinkLocalTime(on, k) ELSE 0)
           T == {PartitionTime(on, p) : p \in Cores(k)}
<1>1. k \in Nat \ {0} /\ on \in [Names -> 0 .. k] /\ 0 \in Cores(k) /\ On(on, 0) # {}
  BY DEF Layout, Cores
<1>2. Ends /\ Placed(file, on, k)
  BY EndsFacts, LayoutPlaced
<1>3. Timed("Local") /\ Timed("Global")
  BY TimedFacts DEF HeterogeneousThrows
<1>4. times.local = Max({f(p) : p \in Cores(k)}) /\ times.global = CoreToCoreTime(on, k) + PLinkGlobalTime(on, k)
      /\ times.exec = Max(T \union {PLinkTime(on, k)})
  BY DEF HeterogeneousTimes
<1>5. Busiest(file) = Max(T) /\ \A t \in T : t \in Int
  BY <1>1, <1>2, BusiestIs
<1>6. PLinkTime(on, k) \in Int
  BY <1>1, PLinkTimeInt DEF On
<1> HIDE DEF file, times
<1>7. /\ \A p \in Cores(k) : Communication(Inside(file, p), "Local") = f(p)
      /\ Communication(Across(file), "Global") = CoreToCoreTime(on, k) + PLinkGlobalTime(on, k)
  BY <1>1, <1>2, <1>3, PlacedCost
<1> HIDE DEF f
<1>8. times.local = Max({Communication(Inside(file, p), "Local") : p \in Cores(k)})
  <2>1. {Communication(Inside(file, p), "Local") : p \in Cores(k)} = {f(p) : p \in Cores(k)}
    BY <1>7
  <2> QED BY <1>4, <2>1
<1>9. times.exec >= Max(T)
  <2>1. T # {} /\ IsFiniteSet(T)
    <3> DEFINE g == [p \in Cores(k) |-> PartitionTime(on, p)]
    <3>1. IsFiniteSet(Cores(k)) /\ T = {g[p] : p \in Cores(k)}
      BY <1>1, CoresFinite
    <3> HIDE DEF g
    <3>2. IsFiniteSet({g[p] : p \in Cores(k)})
      BY <3>1, ImageFinite
    <3> QED BY <1>1, <3>1, <3>2
  <2> HIDE DEF T
  <2>2. IsFiniteSet(T \union {PLinkTime(on, k)}) /\ T \union {PLinkTime(on, k)} \subseteq Int
    BY <1>5, <1>6, <2>1, FS_Union, FS_Singleton
  <2>3. Max(T) \in T
    BY <1>5, <2>1, MaxFacts
  <2>4. PICK V : V = T \union {PLinkTime(on, k)}
    OBVIOUS
  <2>5. Max(V) \in V /\ Max(T) <= Max(V)
    BY <2>1, <2>2, <2>3, <2>4, MaxFacts
  <2>6. PICK a \in Int, b \in Int : a = Max(T) /\ b = Max(V) /\ a <= b
    BY <2>2, <2>3, <2>4, <2>5, <1>5
  <2> QED BY <1>4, <2>4, <2>6 DEF T
<1> QED BY <1>4, <1>5, <1>7, <1>8, <1>9 DEF CostOK, file, times

LEMMA MulticoreCost ==
  ASSUME TaskInv, ProfileInv, \A c \in Connections : HasFifoTicks(c),
         NEW k \in Nat \ {0}, NEW a \in [Names -> Cores(k)], \A p \in Cores(k) : On(a, p) # {}
  PROVE  CostOK(ConfigFile([p \in Cores(k) |-> On(a, p)]), MulticoreTimes(a, k), k, TRUE)
<1> DEFINE instances == [p \in Cores(k) |-> On(a, p)]
           file == ConfigFile(instances)
           times == MulticoreTimes(a, k)
<1>1. k \notin Cores(k) /\ Cores(k) \subseteq 0 .. k /\ On(a, k) = {}
  BY DEF Cores, On
<1>2. a \in [Names -> 0 .. k]
  BY <1>1
<1>3. Layout(instances, a, k)
  <2>1. \A p \in Cores(k) : instances[p] = On(a, p) \union (IF p = 0 THEN {} ELSE {})
    OBVIOUS
  <2> QED BY <1>1, <1>2, <2>1 DEF Layout
<1>4. Ends /\ Placed(file, a, k)
  BY <1>3, EndsFacts, LayoutPlaced
<1>5. Timed("Local") /\ Timed("Global")
  BY TimedFacts
<1>6. PLinkLocalTime(a, k) = 0 /\ PLinkGlobalTime(a, k) = 0
  <2>1. \A c \in Connections : a[c.source] # k /\ a[c.target] # k
    BY <1>1, EndsFacts DEF Ends
  <2>2. Between(a, 0, k) \union Between(a, k, 0) = {}
    BY <2>1 DEF Between
  <2>3. {c \in PLinkWrites(a, k) : a[c.source] # 0} \union {c \in PLinkReads(a, k) : a[c.target] # 0} = {}
    BY <2>1 DEF PLinkWrites, PLinkReads
  <2>4. \A kind \in {"Local", "Global"} : Communication({}, kind) = 0
    <3> SUFFICES ASSUME NEW kind \in {"Local", "Global"} PROVE Communication({}, kind) = 0
      OBVIOUS
    <3>1. Communication({}, kind) = SumOf(Weights(kind), {})
      BY <1>5, CommunicationIs
    <3> QED BY <3>1, SumEmpty
  <2> QED BY <2>2, <2>3, <2>4 DEF PLinkLocalTime, PLinkGlobalTime
<1>7. times.exec = Max({PartitionTime(a, p) : p \in Cores(k)})
      /\ times.local = Max({LocalTime(a, p) : p \in Cores(k)}) /\ times.global = CoreToCoreTime(a, k)
  BY DEF MulticoreTimes
<1>8. Busiest(file) = Max({PartitionTime(a, p) : p \in Cores(k)})
      /\ \A p \in Cores(k) : PartitionTime(a, p) \in Int
  BY <1>4, BusiestIs
<1> HIDE DEF file, times
<1>9. /\ \A p \in Cores(k) : Communication(Inside(file, p), "Local") =
           LocalTime(a, p) + (IF p = 0 THEN PLinkLocalTime(a, k) ELSE 0)
      /\ Communication(Across(file), "Global") = CoreToCoreTime(a, k) + PLinkGlobalTime(a, k)
  BY <1>2, <1>4, <1>5, PlacedCost
<1>10. \A C \in SUBSET Connections : \A kind \in {"Local", "Global"} : Communication(C, kind) + 0 = Communication(C, kind)
  BY <1>5, CommunicationIs
<1>11. ASSUME NEW p \in Cores(k) PROVE Communication(Inside(file, p), "Local") = LocalTime(a, p)
  <2>1. Between(a, p, p) \in SUBSET Connections
    BY DEF Between
  <2>2. LocalTime(a, p) + 0 = LocalTime(a, p)
    BY <1>10, <2>1 DEF LocalTime
  <2> QED BY <1>6, <1>9, <2>2
<1>12. Communication(Across(file), "Global") = CoreToCoreTime(a, k)
  <2>1. CoreToCoreTime(a, k) + 0 = CoreToCoreTime(a, k)
    BY <1>10 DEF CoreToCoreTime
  <2> QED BY <1>6, <1>9, <2>1
<1>13. times.local = Max({Communication(Inside(file, p), "Local") : p \in Cores(k)})
  <2>1. {Communication(Inside(file, p), "Local") : p \in Cores(k)} = {LocalTime(a, p) : p \in Cores(k)}
    BY <1>11
  <2> QED BY <1>7, <2>1
<1>14. Busiest(file) \in Int
  <2> DEFINE g == [p \in Cores(k) |-> PartitionTime(a, p)]
  <2>1. IsFiniteSet(Cores(k)) /\ Cores(k) # {} /\ {PartitionTime(a, p) : p \in Cores(k)} = {g[p] : p \in Cores(k)}
    BY CoresFinite
  <2>2. \A p \in Cores(k) : g[p] \in Int
    BY <1>8
  <2> HIDE DEF g
  <2>3. IsFiniteSet({g[p] : p \in Cores(k)}) /\ {g[p] : p \in Cores(k)} # {} /\ {g[p] : p \in Cores(k)} \subseteq Int
    BY <2>1, <2>2, ImageFinite
  <2>4. Max({g[p] : p \in Cores(k)}) \in {g[p] : p \in Cores(k)}
    BY <2>3, MaxFacts
  <2>5. Max({g[p] : p \in Cores(k)}) \in Int
    BY <2>3, <2>4
  <2> QED BY <1>8, <2>1, <2>5
<1>15. times.exec >= Busiest(file) /\ times.exec = Busiest(file)
  <2>1. PICK b \in Int : b = Busiest(file)
    BY <1>14
  <2> QED BY <1>7, <1>8, <2>1
<1> QED BY <1>7, <1>12, <1>13, <1>15 DEF CostOK, file, times

\* The numbers of cores that a configuration is for.
ShapeOK(f) ==
  /\ f = File(f.dir, "config", f.cores, f.index)
  /\ \/ f.dir = "heterogeneous" /\ f.cores \in Nat \ {0}
     \/ f.dir = "homogeneous" /\ f.cores \in Nat \ {0, 1}
Shaped(fs) == \A f \in DOMAIN fs : f.kind = "config" => ShapeOK(f)

LEMMA OverShaped ==
  ASSUME NEW new, NEW old, Shaped(new), Shaped(old)
  PROVE  Shaped(Over(new, old))
BY OverFacts DEF Shaped

\* The files of a call of the solver, of those that have its mode and its number of cores.
LEMMA MulticoreCosts ==
  ASSUME TaskInv, ProfileInv, cores \in Nat \ {0, 1}, cores <= Cardinality(Names), ~MulticoreThrows,
         NEW pool \in Pools({MulticoreSolution(x, cores) : x \in MulticoreAssignments(cores)})
  PROVE  LET new == MulticoreFiles(pool)
             csv == File("homogeneous", "solutions.csv", cores, 0)
         IN /\ Shaped(new) /\ csv \in DOMAIN new
            /\ \A n \in DOMAIN new[csv] :
                 /\ File("homogeneous", "config", cores, n) \in DOMAIN new
                 /\ CostOK(new[File("homogeneous", "config", cores, n)], new[csv][n], cores, TRUE)
<1> DEFINE new == MulticoreFiles(pool)
           config_(n) == File("homogeneous", "config", cores, n)
           csv == File("homogeneous", "solutions.csv", cores, 0)
           S == {MulticoreSolution(x, cores) : x \in MulticoreAssignments(cores)}
<1>1. /\ DOMAIN new = {config_(n) : n \in 0 .. Len(pool) - 1} \union {csv}
      /\ \A n \in 0 .. Len(pool) - 1 : new[config_(n)] = ConfigFile(pool[n + 1].partitions)
      /\ new[csv] = [n \in 0 .. Len(pool) - 1 |-> pool[n + 1].times]
  BY MulticoreFilesFacts
<1>2. Len(pool) \in Nat /\ \A m \in 1 .. Len(pool) : pool[m] \in S
  BY PoolFacts
<1> HIDE DEF new
<1>3. Shaped(new)
  <2> SUFFICES ASSUME NEW f \in DOMAIN new, f.kind = "config" PROVE ShapeOK(f)
    BY DEF Shaped
  <2>1. f # csv
    BY FileFacts
  <2>2. PICK n \in 0 .. Len(pool) - 1 : f = config_(n)
    BY <1>1, <2>1
  <2>3. f.dir = "homogeneous" /\ f.cores = cores /\ f.index = n
    BY <2>2, FileFacts
  <2> QED BY <2>2, <2>3 DEF ShapeOK
<1>4. \A c \in Connections : HasFifoTicks(c)
  BY DEF MulticoreThrows
<1>5. Ordered /\ Timed("Local")
  BY <1>4, TaskFacts, TimedFacts
<1>6. Cardinality(Names) \in Nat /\ Names # {}
  <2>1. IsFiniteSet(Names)
    BY <1>5, PositionFacts
  <2>2. Cardinality(Names) \in Nat
    BY <2>1, FS_CardinalityType
  <2>3. Cardinality({}) = 0
    BY FS_EmptySet
  <2> QED BY <2>2, <2>3
<1>7. MulticoreAssignments(cores) = {Labelled(a) : a \in Grown(Names, cores)}
  BY <1>5, <1>6, MulticoreAssignmentsAre
<1>8. ASSUME NEW s \in S PROVE CostOK(ConfigFile(s.partitions), s.times, cores, TRUE)
  <2>1. PICK a \in Grown(Names, cores) : s = MulticoreSolution(Labelled(a), cores)
    BY <1>7
  <2>2. Onto(Names, a, cores)
    BY <1>5, <1>6, <2>1, GrownIsOnto
  <2>3. a \in [Names -> Cores(cores)] /\ \A p \in Cores(cores) : On(a, p) # {}
    BY <2>2 DEF Onto, On
  <2>4. s.partitions = [p \in Cores(cores) |-> On(a, p)] /\ s.times = MulticoreTimes(a, cores)
    BY <2>1 DEF MulticoreSolution, Labelled
  <2>5. CostOK(ConfigFile([p \in Cores(cores) |-> On(a, p)]), MulticoreTimes(a, cores), cores, TRUE)
    BY <1>4, <2>3, MulticoreCost
  <2> QED BY <2>4, <2>5
<1>9. ASSUME NEW n \in DOMAIN new[csv]
      PROVE  config_(n) \in DOMAIN new /\ CostOK(new[config_(n)], new[csv][n], cores, TRUE)
  <2>1. n \in 0 .. Len(pool) - 1 /\ n + 1 \in 1 .. Len(pool)
    BY <1>1, <1>2
  <2>2. pool[n + 1] \in S
    BY <1>2, <2>1
  <2>3. CostOK(ConfigFile(pool[n + 1].partitions), pool[n + 1].times, cores, TRUE)
    BY <1>8, <2>2
  <2> QED BY <1>1, <2>1, <2>3
<1> QED BY <1>1, <1>3, <1>9 DEF new

LEMMA HeterogeneousCosts ==
  ASSUME TaskInv, ProfileInv, cores \in Nat \ {0}, ~HeterogeneousThrows,
         NEW pool \in Pools({HeterogeneousSolution(on, cores) : on \in HeterogeneousAssignments(cores)})
  PROVE  LET new == HeterogeneousFiles(pool)
         IN /\ Shaped(new) /\ Csv(cores) \in DOMAIN new
            /\ \A n \in DOMAIN new[Csv(cores)] :
                 /\ Config(cores, n) \in DOMAIN new
                 /\ CostOK(new[Config(cores, n)], new[Csv(cores)][n], cores, FALSE)
<1> DEFINE new == HeterogeneousFiles(pool)
           S == {HeterogeneousSolution(on, cores) : on \in HeterogeneousAssignments(cores)}
<1>1. /\ DOMAIN new = {Xcf(cores, n) : n \in 0 .. Len(pool) - 1} \union
                      {Config(cores, n) : n \in 0 .. Len(pool) - 1} \union {Csv(cores)}
      /\ \A n \in 0 .. Len(pool) - 1 : new[Config(cores, n)] = ConfigFile(SoftwareSide(pool[n + 1]))
      /\ new[Csv(cores)] = [n \in 0 .. Len(pool) - 1 |-> pool[n + 1].times]
  BY HeterogeneousFilesFacts
<1>2. Len(pool) \in Nat /\ \A m \in 1 .. Len(pool) : pool[m] \in S
  BY PoolFacts
<1> HIDE DEF new
<1>3. Shaped(new)
  <2> SUFFICES ASSUME NEW f \in DOMAIN new, f.kind = "config" PROVE ShapeOK(f)
    BY DEF Shaped
  <2>1. f # Csv(cores) /\ \A n : f # Xcf(cores, n)
    BY FileFacts DEF Csv, Xcf
  <2>2. PICK n \in 0 .. Len(pool) - 1 : f = Config(cores, n)
    BY <1>1, <2>1
  <2>3. f.dir = "heterogeneous" /\ f.cores = cores /\ f.index = n
    BY <2>2, FileFacts DEF Config
  <2> QED BY <2>2, <2>3 DEF ShapeOK, Config
<1>4. ASSUME NEW s \in S PROVE CostOK(ConfigFile(SoftwareSide(s)), s.times, cores, FALSE)
  <2>1. PICK on \in HeterogeneousAssignments(cores) : s = HeterogeneousSolution(on, cores)
    OBVIOUS
  <2>2. on \in [Names -> 0 .. cores] /\ \A p \in 0 .. cores : On(on, p) # {}
    BY <2>1 DEF HeterogeneousAssignments
  <2>3. s.partitions = [p \in 0 .. cores |-> On(on, p)] /\ s.times = HeterogeneousTimes(on, cores)
    BY <2>1 DEF HeterogeneousSolution
  <2>4. Cores(cores) \subseteq 0 .. cores
    BY DEF Cores
  <2>5. /\ DOMAIN SoftwareSide(s) = Cores(cores)
        /\ \A p \in Cores(cores) : SoftwareSide(s)[p] = On(on, p) \union (IF p = 0 THEN {PLink} ELSE {})
    BY <2>3, <2>4 DEF SoftwareSide
  <2>6. Layout(SoftwareSide(s), on, cores)
    BY <2>2, <2>4, <2>5 DEF Layout
  <2>7. PICK instances : instances = SoftwareSide(s)
    OBVIOUS
  <2>8. Layout(instances, on, cores)
    BY <2>6, <2>7
  <2>9. CostOK(ConfigFile(instances), HeterogeneousTimes(on, cores), cores, FALSE)
    BY ONLY TaskInv, ProfileInv, ~HeterogeneousThrows, <2>8, HeterogeneousCost
  <2> QED BY <2>3, <2>7, <2>9
<1>5. ASSUME NEW n \in DOMAIN new[Csv(cores)]
      PROVE  Config(cores, n) \in DOMAIN new /\ CostOK(new[Config(cores, n)], new[Csv(cores)][n], cores, FALSE)
  <2>1. n \in 0 .. Len(pool) - 1 /\ n + 1 \in 1 .. Len(pool)
    BY <1>1, <1>2
  <2>2. pool[n + 1] \in S
    BY <1>2, <2>1
  <2>3. CostOK(ConfigFile(SoftwareSide(pool[n + 1])), pool[n + 1].times, cores, FALSE)
    BY <1>4, <2>2
  <2> QED BY <1>1, <2>1, <2>3
<1> QED BY <1>1, <1>3, <1>5 DEF new

\* What the times of a solution say of its configuration, and of the one that others left.
CostInv == Shaped(files) /\ CostMatchesConfig

LEMMA ShapedStep ==
  ASSUME IInv, Shaped(files), [Next]_vars
  PROVE  Shaped(files')
<1>1. CASE setConfig \/ setConfigThrows \/ solveThrows \/ endMulticore \/ compileAgain \/ ended \/ UNCHANGED vars
  BY <1>1 DEF setConfig, setConfigThrows, solveThrows, endMulticore, compileAgain, ended, vars, phaseVars
<1>2. CASE solveMulticore
  <2>1. PICK pool \in Pools({MulticoreSolution(x, cores) : x \in MulticoreAssignments(cores)}) :
          files' = Over(MulticoreFiles(pool), files)
    BY <1>2 DEF solveMulticore, Write
  <2>2. cores \in Nat \ {0, 1} /\ cores <= Cardinality(Names) /\ ~MulticoreThrows
    BY <1>2, CoresWithin DEF solveMulticore
  <2>3. Shaped(MulticoreFiles(pool))
    BY <2>2, MulticoreCosts DEF IInv
  <2> QED BY <2>1, <2>3, OverShaped
<1>3. CASE solveHeterogeneous
  <2>1. PICK pool \in Pools({HeterogeneousSolution(on, cores) : on \in HeterogeneousAssignments(cores)}) :
          files' = Over(HeterogeneousFiles(pool), files)
    BY <1>3 DEF solveHeterogeneous, Write
  <2>2. cores \in Nat \ {0} /\ ~HeterogeneousThrows
    BY <1>3 DEF solveHeterogeneous, IInv, CoresInv
  <2>3. Shaped(HeterogeneousFiles(pool))
    BY <2>2, HeterogeneousCosts DEF IInv
  <2> QED BY <2>1, <2>3, OverShaped
<1>4. CASE endHeterogeneous
  <2>1. PICK saved \in BOOLEAN :
          files' = Over(IF saved THEN Over([f \in {HardwareJson} |-> numbering.map], UniqueFiles) ELSE UniqueFiles, files)
    BY <1>4 DEF endHeterogeneous, Write
  <2>2. PICK new : new = IF saved THEN Over([f \in {HardwareJson} |-> numbering.map], UniqueFiles) ELSE UniqueFiles
    OBVIOUS
  <2>3. DOMAIN UniqueFiles = {Unique(n) : n \in 0 .. numbering.count - 1}
    <3>1. numbering \in Numberings
      BY DEF IInv, NumberedInv
    <3> QED BY ONLY <3>1, UniqueFilesFacts
  <2>4. \A f \in DOMAIN new : f = HardwareJson \/ \E n : f = Unique(n)
    BY <2>2, <2>3 DEF Over
  <2>5. HardwareJson.kind # "config" /\ \A n : Unique(n).kind # "config"
    BY DEF HardwareJson, Unique, File
  <2>6. Shaped(new)
    BY ONLY <2>4, <2>5 DEF Shaped
  <2> QED BY <2>1, <2>2, <2>6, OverShaped
<1>5. CASE endHeterogeneousThrows
  <2> DEFINE new == [f \in {HardwareJson} |-> numbering.map]
  <2>1. files' = files \/ files' = Over(new, files)
    BY <1>5 DEF endHeterogeneousThrows, Write
  <2>2. \A f \in DOMAIN new : f.kind # "config"
    BY DEF HardwareJson, File
  <2> HIDE DEF new
  <2>3. Shaped(new)
    BY <2>2 DEF Shaped
  <2> QED BY <2>1, <2>3, OverShaped
<1> QED BY <1>1, <1>2, <1>3, <1>4, <1>5 DEF Next

\* The same file, times and number of cores.
LEMMA CostMoved ==
  ASSUME NEW f, NEW file, NEW times, files'[f] = file, Times(f)' = times,
         CostOK(file, times, f.cores, f.dir = "homogeneous")'
  PROVE  CostOK(files[f], Times(f), f.cores, f.dir = "homogeneous")'
BY DEF CostOK, Busiest, Load, There, Inside, Across, CoreOf, Place, Listed, ConnectionElement, Communication,
       CommunicationTime, Connections, Cores, InstanceTicks, Settings, FifoSize, BytesExchanged

LEMMA CostsPrimed ==
  ASSUME \A f \in JustWritten' : CostOK(files[f], Times(f), f.cores, f.dir = "homogeneous")'
  PROVE  CostMatchesConfig'
BY DEF CostMatchesConfig, CostOK, Busiest, Load, There, Inside, Across, CoreOf

\* When a call of the solver has written its files.
LEMMA WrittenCosts ==
  ASSUME Shaped(files'), UNCHANGED <<network, profile, config>>, cores \in Nat, cores' = cores + 1,
         NEW new, NEW old, files' = Over(new, old), NEW dir, NEW exact \in BOOLEAN,
         \A f : ShapeOK(f) /\ f.dir = config.mode => f.dir = dir /\ (f.dir = "homogeneous") = exact,
         File(dir, "solutions.csv", cores, 0) \in DOMAIN new,
         \A n \in DOMAIN new[File(dir, "solutions.csv", cores, 0)] :
           /\ File(dir, "config", cores, n) \in DOMAIN new
           /\ CostOK(new[File(dir, "config", cores, n)], new[File(dir, "solutions.csv", cores, 0)][n], cores, exact)
  PROVE  CostMatchesConfig'
<1> DEFINE csv == File(dir, "solutions.csv", cores, 0)
<1>1. files'[csv] = new[csv] /\ \A x \in DOMAIN new : files'[x] = new[x]
  <2>1. \A x \in DOMAIN new : Over(new, old)[x] = new[x]
    BY DEF Over
  <2> QED BY <2>1
<1> SUFFICES ASSUME NEW f \in JustWritten'
             PROVE  CostOK(files[f], Times(f), f.cores, f.dir = "homogeneous")'
  BY CostsPrimed
<1>2. /\ f \in DOMAIN files' /\ f.kind = "config" /\ f.dir = config.mode /\ f.cores = cores
      /\ f.index \in DOMAIN files'[File(f.dir, "solutions.csv", f.cores, 0)]
      /\ Times(f)' = files'[File(f.dir, "solutions.csv", f.cores, 0)][f.index]
  BY DEF JustWritten, Configured, Times, File
<1>3. ShapeOK(f)
  BY <1>2 DEF Shaped
<1>4. f.dir = dir /\ (f.dir = "homogeneous") = exact /\ f = File(dir, "config", cores, f.index)
  BY <1>2, <1>3 DEF ShapeOK
<1>5. f.index \in DOMAIN new[csv] /\ Times(f)' = new[csv][f.index]
  BY <1>1, <1>2, <1>4
<1>6. /\ f \in DOMAIN new
      /\ CostOK(new[f], new[csv][f.index], cores, exact)
  BY <1>4, <1>5
<1>7. PICK file, times : file = new[f] /\ times = new[csv][f.index]
  OBVIOUS
<1>8. CostOK(file, times, f.cores, f.dir = "homogeneous")
  BY <1>2, <1>4, <1>6, <1>7
<1>9. CostOK(file, times, f.cores, f.dir = "homogeneous")'
  BY <1>8, CostKept
<1>10. files'[f] = file /\ Times(f)' = times
  BY <1>1, <1>5, <1>6, <1>7
<1> QED BY <1>9, <1>10, CostMoved

LEMMA CostStep ==
  ASSUME IInv, CostInv, [Next]_vars
  PROVE  CostMatchesConfig'
<1>1. Shaped(files')
  BY ShapedStep DEF CostInv
<1>2. CASE solveMulticore
  <2>1. PICK pool \in Pools({MulticoreSolution(x, cores) : x \in MulticoreAssignments(cores)}) :
          files' = Over(MulticoreFiles(pool), files)
    BY <1>2 DEF solveMulticore, Write
  <2>2. cores \in Nat \ {0, 1} /\ cores <= Cardinality(Names) /\ ~MulticoreThrows
    BY <1>2, CoresWithin DEF solveMulticore
  <2>3. PICK new : new = MulticoreFiles(pool)
    OBVIOUS
  <2>4. /\ File("homogeneous", "solutions.csv", cores, 0) \in DOMAIN new
        /\ \A n \in DOMAIN new[File("homogeneous", "solutions.csv", cores, 0)] :
             /\ File("homogeneous", "config", cores, n) \in DOMAIN new
             /\ CostOK(new[File("homogeneous", "config", cores, n)],
                       new[File("homogeneous", "solutions.csv", cores, 0)][n], cores, TRUE)
    BY <2>2, <2>3, MulticoreCosts DEF IInv
  <2>5. \A f : ShapeOK(f) /\ f.dir = config.mode => f.dir = "homogeneous" /\ (f.dir = "homogeneous") = TRUE
    BY <1>2 DEF solveMulticore, Heterogeneous, ShapeOK
  <2>6. UNCHANGED <<network, profile, config>> /\ cores' = cores + 1 /\ cores \in Nat
    BY <1>2, <2>2 DEF solveMulticore
  <2> QED BY <1>1, <2>1, <2>3, <2>4, <2>5, <2>6, WrittenCosts
<1>3. CASE solveHeterogeneous
  <2>1. PICK pool \in Pools({HeterogeneousSolution(on, cores) : on \in HeterogeneousAssignments(cores)}) :
          files' = Over(HeterogeneousFiles(pool), files)
    BY <1>3 DEF solveHeterogeneous, Write
  <2>2. cores \in Nat \ {0} /\ ~HeterogeneousThrows
    BY <1>3 DEF solveHeterogeneous, IInv, CoresInv
  <2>3. PICK new : new = HeterogeneousFiles(pool)
    OBVIOUS
  <2>4. /\ File("heterogeneous", "solutions.csv", cores, 0) \in DOMAIN new
        /\ \A n \in DOMAIN new[File("heterogeneous", "solutions.csv", cores, 0)] :
             /\ File("heterogeneous", "config", cores, n) \in DOMAIN new
             /\ CostOK(new[File("heterogeneous", "config", cores, n)],
                       new[File("heterogeneous", "solutions.csv", cores, 0)][n], cores, FALSE)
    BY <2>2, <2>3, HeterogeneousCosts DEF IInv, Csv, Config
  <2>5. \A f : ShapeOK(f) /\ f.dir = config.mode => f.dir = "heterogeneous" /\ (f.dir = "homogeneous") = FALSE
    BY <1>3 DEF solveHeterogeneous, Heterogeneous, ShapeOK
  <2>6. UNCHANGED <<network, profile, config>> /\ cores' = cores + 1 /\ cores \in Nat
    BY <1>3, <2>2 DEF solveHeterogeneous
  <2> QED BY <1>1, <2>1, <2>3, <2>4, <2>5, <2>6, WrittenCosts
<1>4. CASE setConfig
  <2>1. status' = "solving" /\ config' = config /\ cores' \in {1, 2}
        /\ (config.mode = "heterogeneous" => cores' = 1) /\ (config.mode # "heterogeneous" => cores' = 2)
    BY <1>4 DEF setConfig, Heterogeneous
  <2>2. ASSUME NEW f \in JustWritten' PROVE FALSE
    <3>1. f.dir = config.mode /\ f.cores = cores' - 1 /\ f \in DOMAIN files' /\ f.kind = "config"
      BY <2>1 DEF JustWritten, Configured
    <3>2. ShapeOK(f)
      BY <1>1, <3>1 DEF Shaped
    <3>3. CASE config.mode = "heterogeneous"
      <4>1. f.cores = 0 /\ f.dir = "heterogeneous"
        BY <2>1, <3>1, <3>3
      <4> QED BY <3>2, <4>1 DEF ShapeOK
    <3>4. CASE config.mode # "heterogeneous"
      <4>1. f.cores = 1 /\ f.dir # "heterogeneous"
        BY <2>1, <3>1, <3>4
      <4> QED BY <3>2, <4>1 DEF ShapeOK
    <3> QED BY <3>3, <3>4
  <2> QED BY <2>2, CostsPrimed
<1>5. CASE \/ setConfigThrows \/ solveThrows
         \/ endMulticore \/ endHeterogeneous \/ endHeterogeneousThrows \/ compileAgain
  <2>1. status' # "solving"
    BY <1>5 DEF setConfigThrows, solveThrows, endMulticore, endHeterogeneous, endHeterogeneousThrows, compileAgain
  <2>2. JustWritten' = {}
    BY <2>1 DEF JustWritten
  <2> QED BY <2>2, CostsPrimed
<1>6. CASE ended \/ UNCHANGED vars
  <2>1. UNCHANGED <<network, profile, files, config, cores, status>>
    BY <1>6 DEF ended, vars, phaseVars
  <2> SUFFICES ASSUME NEW f \in JustWritten'
               PROVE  CostOK(files[f], Times(f), f.cores, f.dir = "homogeneous")'
    BY CostsPrimed
  <2>2. f \in JustWritten
    BY <2>1 DEF JustWritten, Configured, File
  <2>3. CostOK(files[f], Times(f), f.cores, f.dir = "homogeneous")
    BY <2>2, CostIs DEF CostInv
  <2>4. PICK file, times : file = files[f] /\ times = Times(f)
    OBVIOUS
  <2>5. CostOK(file, times, f.cores, f.dir = "homogeneous")'
    BY <2>1, <2>3, <2>4, CostKept
  <2>6. files'[f] = file /\ Times(f)' = times
    BY <2>1, <2>4 DEF Times, File
  <2> QED BY <2>5, <2>6, CostMoved
<1> QED BY <1>2, <1>3, <1>4, <1>5, <1>6 DEF Next

\* The times written with the configurations of a number of cores are what the
\* configurations cost, for any network, profile and number of cores: each connection
\* listed counts once, as local when the partitions listed put both of its ends on one
\* core, the PLink's ends included, and as global otherwise, and no core is busier than the
\* execution time (objectiveFunction and the communication times of
\* MulticorePerformanceModel and HeterogeneousModel, against dumpMulticoreConfig).
THEOREM CostsAreRight == Spec => []CostMatchesConfig
<1>1. Init => CostInv
  <2> SUFFICES ASSUME Init PROVE CostInv
    OBVIOUS
  <2>1. files = <<>> /\ JustWritten = {}
    BY DEF Init, JustWritten
  <2> QED BY <2>1, CostIs DEF CostInv, Shaped
<1>2. IInv /\ CostInv /\ [Next]_vars => CostInv'
  <2> SUFFICES ASSUME IInv, CostInv, [Next]_vars PROVE CostInv'
    OBVIOUS
  <2>1. Shaped(files')
    BY ShapedStep DEF CostInv
  <2>2. Shaped(files)'
    BY <2>1 DEF Shaped, ShapeOK, File
  <2> QED BY <2>2, CostStep DEF CostInv
<1>3. CostInv => CostMatchesConfig
  BY DEF CostInv
<1> QED BY <1>1, <1>2, <1>3, Invariant, PTL DEF Spec
=============================================================================

------------------------------ MODULE FoldFacts ------------------------------
(***************************************************************************)
(* What the recursive functions of the other modules, and the folds of the *)
(* community modules, compute.  The library's induction theorems take an   *)
(* operator as a parameter; here induction is over sets of naturals.       *)
(***************************************************************************)
EXTENDS Integers, Sequences, FiniteSets, SequencesExt, FiniteSetTheorems, SequenceTheorems, WellFoundedInduction, TLAPS

-----------------------------------------------------------------------------
(* Induction.                                                              *)

LEMMA LeastNatural ==
  ASSUME NEW S, S \subseteq Nat, S # {}
  PROVE  \E n \in S : \A m \in S : n <= m
<1> DEFINE R == OpToRel(<, Nat)
<1>1. IsWellFoundedOn(R, Nat)
  BY NatLessThanWellFounded
<1>2. \E x \in S : \A y \in S : ~ (<<y, x>> \in R)
  <2> HIDE DEF R
  <2> QED BY <1>1, WFMin
<1>3. \A x, y \in Nat : <<y, x>> \in R <=> y < x
  BY DEF OpToRel
<1> HIDE DEF R
<1>4. PICK x \in S : \A y \in S : ~ (<<y, x>> \in R)
  BY <1>2
<1>5. ASSUME NEW y \in S PROVE x <= y
  <2>1. x \in Nat /\ y \in Nat
    OBVIOUS
  <2>2. ~(y < x)
    BY <1>3, <1>4, <2>1, Zenon
  <2> QED BY <2>1, <2>2
<1> QED BY <1>5

\* What can be started and continued can be repeated for ever.

LEMMA Induction ==
  ASSUME NEW S, S \subseteq Nat, 0 \in S, \A n \in S : n + 1 \in S
  PROVE  S = Nat
<1> SUFFICES ASSUME Nat \ S # {} PROVE FALSE
  OBVIOUS
<1>1. PICK n \in Nat \ S : \A m \in Nat \ S : n <= m
  BY LeastNatural
<1>2. n # 0
  OBVIOUS
<1>3. PICK m \in Nat : n = m + 1
  <2>1. n - 1 \in Nat /\ n = (n - 1) + 1
    BY <1>2
  <2> QED BY <2>1
<1>4. m \in S
  BY <1>1, <1>3
<1> QED BY <1>3, <1>4

\* A set of subsets of S that has the empty set, and with a set also what one
\* more element makes of it, has S.
LEMMA SetInduction ==
  ASSUME NEW S, IsFiniteSet(S), NEW T, T \subseteq SUBSET S, {} \in T,
         \A s \in T : \A x \in S \ s : s \union {x} \in T
  PROVE  S \in T
<1> DEFINE Left == {Cardinality(S \ s) : s \in T}
<1>1. Left \subseteq Nat /\ Left # {}
  <2>1. \A s \in T : IsFiniteSet(S \ s)
    BY FS_Difference
  <2> QED BY <2>1, FS_CardinalityType
<1>2. PICK n \in Left : \A m \in Left : n <= m
  <2> HIDE DEF Left
  <2> QED BY <1>1, LeastNatural
<1>3. PICK s \in T : n = Cardinality(S \ s)
  BY <1>2
<1>4. ASSUME NEW x \in S \ s PROVE FALSE
  <2>1. Cardinality((S \ s) \ {x}) = Cardinality(S \ s) - 1 /\ Cardinality(S \ s) \in Nat
    BY FS_Difference, FS_RemoveElement, FS_CardinalityType
  <2>2. S \ (s \union {x}) = (S \ s) \ {x} /\ s \union {x} \in T
    OBVIOUS
  <2>3. Cardinality((S \ s) \ {x}) \in Left
    BY <2>2
  <2>4. n <= n - 1
    BY <1>2, <1>3, <2>1, <2>3
  <2> QED BY <1>3, <2>1, <2>4
<1>5. s = S
  BY <1>3, <1>4
<1> QED BY <1>3, <1>5

\* A recursive function on the subsets of a finite set S, which takes one element
\* after the other out of its argument, ch being the choice, and is F of this
\* element and the value for the rest.
Foldable(S, D, base, ch, F) ==
  /\ IsFiniteSet(S) /\ base \in D
  /\ \A x \in S, d \in D : F[<<x, d>>] \in D
  /\ \A s \in SUBSET S : s # {} => ch[s] \in s

IsFold(it, S, D, base, ch, F) ==
  /\ it \in [SUBSET S -> D]
  /\ \A s \in SUBSET S : it[s] = IF s = {} THEN base ELSE F[<<ch[s], it[s \ {ch[s]}]>>]

\* It is defined.
LEMMA FoldExists ==
  ASSUME NEW S, NEW D, NEW base, NEW ch, NEW F, Foldable(S, D, base, ch, F)
  PROVE  \E it : IsFold(it, S, D, base, ch, F)
<1>0. /\ IsFiniteSet(S) /\ base \in D
      /\ \A x \in S, d \in D : F[<<x, d>>] \in D
      /\ \A s \in SUBSET S : s # {} => ch[s] \in s
  BY DEF Foldable
<1> DEFINE Sub(n) == {s \in SUBSET S : Cardinality(s) <= n}
           Eq(it, n) == \A s \in Sub(n) :
             it[s] = IF s = {} THEN base ELSE F[<<ch[s], it[s \ {ch[s]}]>>]
           Good == {n \in Nat : \E it \in [Sub(n) -> D] : Eq(it, n)}
<1>1. \A s \in SUBSET S : IsFiniteSet(s) /\ Cardinality(s) \in Nat
  BY <1>0, FS_Subset, FS_CardinalityType
<1>2. 0 \in Good
  <2>1. Sub(0) = {{}}
    <3>1. \A s \in Sub(0) : s = {}
      BY <1>1, FS_EmptySet
    <3>2. {} \in Sub(0)
      BY FS_EmptySet
    <3> QED BY <3>1, <3>2
  <2>2. [s \in Sub(0) |-> base] \in [Sub(0) -> D] /\ Eq([s \in Sub(0) |-> base], 0)
    BY <1>0, <2>1
  <2> QED BY <2>2
<1>3. ASSUME NEW n \in Good PROVE n + 1 \in Good
  <2>1. PICK it \in [Sub(n) -> D] : Eq(it, n)
    BY <1>3
  <2> DEFINE jt == [s \in Sub(n + 1) |-> IF s = {} THEN base ELSE F[<<ch[s], it[s \ {ch[s]}]>>]]
  <2>2. ASSUME NEW s \in Sub(n + 1), s # {}
        PROVE  ch[s] \in S /\ s \ {ch[s]} \in Sub(n) /\ s \ {ch[s]} \in Sub(n + 1)
    <3>1. ch[s] \in s /\ s \subseteq S /\ Cardinality(s) \in Nat /\ Cardinality(s) <= n + 1
      BY <1>0, <1>1, <2>2
    <3>2. Cardinality(s \ {ch[s]}) = Cardinality(s) - 1
      BY <1>1, <3>1, FS_RemoveElement
    <3> QED BY <3>1, <3>2
  <2>3. jt \in [Sub(n + 1) -> D]
    BY <1>0, <2>1, <2>2
  <2>4. ASSUME NEW s \in Sub(n) PROVE jt[s] = it[s]
    <3>1. s \in Sub(n + 1)
      BY <1>1
    <3> QED BY <2>1, <3>1
  <2>5. Eq(jt, n + 1)
    BY <2>2, <2>4
  <2>6. n + 1 \in Nat
    OBVIOUS
  <2> HIDE DEF jt, Eq, Sub
  <2> QED BY <2>3, <2>5, <2>6
<1>4. Good = Nat
  <2>1. Good \subseteq Nat
    OBVIOUS
  <2> HIDE DEF Good
  <2> QED BY <1>2, <1>3, <2>1, Induction
<1>5. PICK n \in Nat : n = Cardinality(S)
  BY <1>0, FS_CardinalityType
<1>6. Sub(n) = SUBSET S
  BY <1>0, <1>5, FS_Subset
<1>7. PICK it \in [Sub(n) -> D] : Eq(it, n)
  <2>1. n \in Good
    BY <1>4
  <2> QED BY <2>1
<1> QED BY <1>6, <1>7 DEF IsFold

-----------------------------------------------------------------------------
(* Sums.                                                                   *)

SumOf(f, S) == SumFunctionOnSet(f, S)
Chosen(s) == CHOOSE x \in s : TRUE
Sums(f, S, it) ==
  it = [s \in SUBSET S |-> IF s = {} THEN 0 ELSE f[Chosen(s)] + it[s \ {Chosen(s)}]]

LEMMA SumIs == \A f, S : SumOf(f, S) = (CHOOSE it : Sums(f, S, it))[S]
BY DEF SumOf, SumFunctionOnSet, FoldFunctionOnSet, MapThenFoldSet, Sums, Chosen

\* The equation has no other solution, on the subsets of T.
LEMMA SumsAgree ==
  ASSUME NEW S, IsFiniteSet(S), NEW T, T \subseteq S, NEW f, NEW g, \A x \in T : f[x] = g[x],
         NEW it, NEW jt, Sums(f, S, it), Sums(g, T, jt)
  PROVE  \A s \in SUBSET T : it[s] = jt[s]
<1> DEFINE Bad == {s \in SUBSET T : it[s] # jt[s]}
           Sizes == {Cardinality(s) : s \in Bad}
<1> SUFFICES ASSUME Bad # {} PROVE FALSE
  OBVIOUS
<1>1. \A s \in SUBSET T : IsFiniteSet(s) /\ Cardinality(s) \in Nat
  BY FS_Subset, FS_CardinalityType
<1>2. Sizes \subseteq Nat /\ Sizes # {}
  BY <1>1
<1>3. PICK n \in Sizes : \A m \in Sizes : n <= m
  <2> HIDE DEF Sizes
  <2> QED BY <1>2, LeastNatural
<1>4. PICK s \in Bad : n = Cardinality(s)
  BY <1>3
<1>5. /\ it[s] = IF s = {} THEN 0 ELSE f[Chosen(s)] + it[s \ {Chosen(s)}]
      /\ jt[s] = IF s = {} THEN 0 ELSE g[Chosen(s)] + jt[s \ {Chosen(s)}]
  BY DEF Sums
<1>6. s # {}
  BY <1>5
<1>7. PICK x \in s : x = Chosen(s)
  BY <1>6 DEF Chosen
<1>8. Cardinality(s \ {x}) = Cardinality(s) - 1
  BY <1>1, FS_RemoveElement
<1>9. it[s \ {x}] = jt[s \ {x}]
  <2>1. CASE s \ {x} \notin Bad
    BY <2>1
  <2>2. CASE s \ {x} \in Bad
    <3>1. n <= n - 1 /\ n \in Nat
      BY <1>1, <1>3, <1>4, <1>8, <2>2
    <3> QED BY <3>1
  <2> QED BY <2>1, <2>2
<1> QED BY <1>4, <1>5, <1>6, <1>7, <1>9

LEMMA SumDefined ==
  ASSUME NEW S, IsFiniteSet(S), NEW f, \A x \in S : f[x] \in Int
  PROVE  \E it \in [SUBSET S -> Int] : it[S] = SumOf(f, S) /\ Sums(f, S, it)
<1> DEFINE ch == [s \in SUBSET S |-> Chosen(s)]
           F == [p \in S \X Int |-> f[p[1]] + p[2]]
<1>1. Foldable(S, Int, 0, ch, F)
  BY DEF Foldable, Chosen
<1>2. PICK it : IsFold(it, S, Int, 0, ch, F)
  <2> HIDE DEF F, ch
  <2> QED BY <1>1, FoldExists
<1>3. ASSUME NEW s \in SUBSET S
      PROVE  it[s] = IF s = {} THEN 0 ELSE f[Chosen(s)] + it[s \ {Chosen(s)}]
  <2>1. CASE s = {}
    BY <1>2, <2>1 DEF IsFold
  <2>2. CASE s # {}
    <3>1. ch[s] = Chosen(s) /\ Chosen(s) \in S /\ it[s \ {Chosen(s)}] \in Int
      BY <1>2, <2>2 DEF IsFold, Chosen
    <3>2. F[<<Chosen(s), it[s \ {Chosen(s)}]>>] = f[Chosen(s)] + it[s \ {Chosen(s)}]
      BY <3>1
    <3> QED BY <1>2, <2>2, <3>1, <3>2 DEF IsFold
  <2> QED BY <2>1, <2>2
<1>4. Sums(f, S, it)
  BY <1>2, <1>3 DEF Sums, IsFold
<1>5. Sums(f, S, CHOOSE jt : Sums(f, S, jt))
  BY <1>4
<1>6. PICK jt : Sums(f, S, jt) /\ jt[S] = SumOf(f, S)
  BY <1>5, SumIs
<1>7. it[S] = jt[S]
  BY <1>4, <1>6, SumsAgree
<1> QED BY <1>2, <1>4, <1>6, <1>7 DEF IsFold

\* Only the values at elements of S matter.
LEMMA SumSame ==
  ASSUME NEW S, IsFiniteSet(S), NEW f, NEW g, \A x \in S : f[x] \in Int /\ g[x] = f[x]
  PROVE  SumOf(f, S) = SumOf(g, S)
<1>1. PICK it : it[S] = SumOf(f, S) /\ Sums(f, S, it)
  BY SumDefined
<1>2. PICK jt : jt[S] = SumOf(g, S) /\ Sums(g, S, jt)
  BY SumDefined
<1> QED BY <1>1, <1>2, SumsAgree

LEMMA SumPart ==
  ASSUME NEW S, IsFiniteSet(S), NEW f, \A x \in S : f[x] \in Int,
         NEW it, Sums(f, S, it), NEW T \in SUBSET S
  PROVE  it[T] = SumOf(f, T)
<1>1. IsFiniteSet(T)
  BY FS_Subset
<1>2. PICK jt : jt[T] = SumOf(f, T) /\ Sums(f, T, jt)
  BY <1>1, SumDefined
<1>3. \A s \in SUBSET T : it[s] = jt[s]
  BY ONLY <1>2, IsFiniteSet(S), T \in SUBSET S, Sums(f, S, it), SumsAgree
<1> QED BY <1>2, <1>3

LEMMA SumType ==
  ASSUME NEW S, IsFiniteSet(S), NEW f, \A x \in S : f[x] \in Int
  PROVE  SumOf(f, S) \in Int
<1>1. PICK it \in [SUBSET S -> Int] : it[S] = SumOf(f, S)
  BY SumDefined
<1> QED BY <1>1

LEMMA SumEmpty == \A f : SumOf(f, {}) = 0
<1> SUFFICES ASSUME NEW f PROVE SumOf(f, {}) = 0
  OBVIOUS
<1>1. PICK it : it[{}] = SumOf(f, {}) /\ Sums(f, {}, it)
  BY SumDefined, FS_EmptySet
<1> QED BY <1>1 DEF Sums

\* Any element may be the first.
LEMMA SumTake ==
  ASSUME NEW S, IsFiniteSet(S), NEW f, \A x \in S : f[x] \in Int
  PROVE  \A x \in S : SumOf(f, S) = f[x] + SumOf(f, S \ {x})
<1>1. PICK it \in [SUBSET S -> Int] : it[S] = SumOf(f, S) /\ Sums(f, S, it)
  BY SumDefined
<1>2. \A s \in SUBSET S : IsFiniteSet(s) /\ Cardinality(s) \in Nat
  BY FS_Subset, FS_CardinalityType
<1> DEFINE Right(s) == \A x \in s : it[s] = f[x] + it[s \ {x}]
           Good == {n \in Nat : \A s \in SUBSET S : Cardinality(s) = n => Right(s)}
<1>3. 0 \in Good
  BY <1>2, FS_EmptySet
<1>4. ASSUME NEW n \in Good PROVE n + 1 \in Good
  <2> SUFFICES ASSUME NEW s \in SUBSET S, Cardinality(s) = n + 1, NEW x \in s
               PROVE  it[s] = f[x] + it[s \ {x}]
    OBVIOUS
  <2>1. PICK y \in s : y = Chosen(s)
    BY DEF Chosen
  <2>2. it[s] = f[y] + it[s \ {y}]
    BY <1>1, <2>1 DEF Sums
  <2>3. CASE x = y
    BY <2>2, <2>3
  <2>4. CASE x # y
    <3>1. Cardinality(s \ {x}) = n /\ Cardinality(s \ {y}) = n
      <4>1. IsFiniteSet(s) /\ n \in Nat
        BY <1>2
      <4>2. /\ Cardinality(s \ {x}) = Cardinality(s) - 1
            /\ Cardinality(s \ {y}) = Cardinality(s) - 1
        BY <4>1, FS_RemoveElement
      <4> HIDE DEF Good
      <4> QED BY <4>1, <4>2
    <3>2. it[s \ {y}] = f[x] + it[(s \ {y}) \ {x}]
      BY <2>4, <3>1
    <3>3. it[s \ {x}] = f[y] + it[(s \ {x}) \ {y}]
      BY <2>4, <3>1
    <3>4. (s \ {y}) \ {x} = (s \ {x}) \ {y} /\ (s \ {x}) \ {y} \in SUBSET S
      OBVIOUS
    <3>5. it[(s \ {x}) \ {y}] \in Int /\ f[x] \in Int /\ f[y] \in Int
      BY <1>1, <3>4
    <3>6. PICK u \in Int, v \in Int, w \in Int :
            u = f[x] /\ v = f[y] /\ w = it[(s \ {x}) \ {y}]
      BY <3>5
    <3>7. it[s] = v + (u + w) /\ it[s \ {x}] = v + w
      BY ONLY <2>2, <3>2, <3>3, <3>4, <3>6
    <3>8. it[s] = u + it[s \ {x}]
      BY ONLY <3>7, u \in Int, v \in Int, w \in Int
    <3> QED BY <3>6, <3>8
  <2> QED BY <2>3, <2>4
<1>5. Good = Nat
  <2>1. Good \subseteq Nat
    OBVIOUS
  <2> HIDE DEF Good
  <2> QED BY <1>3, <1>4, <2>1, Induction
<1>6. \A x \in S : it[S] = f[x] + it[S \ {x}]
  BY <1>2, <1>5
<1>7. \A x \in S : it[S \ {x}] = SumOf(f, S \ {x})
  BY <1>1, SumPart
<1> QED BY <1>1, <1>6, <1>7

\* The sum over two sets without a common element.
LEMMA SumUnion ==
  ASSUME NEW S, IsFiniteSet(S), NEW T, IsFiniteSet(T), S \cap T = {},
         NEW f, \A x \in S \union T : f[x] \in Int
  PROVE  SumOf(f, S \union T) = SumOf(f, S) + SumOf(f, T)
<1> DEFINE Good == {s \in SUBSET S : SumOf(f, s \union T) = SumOf(f, s) + SumOf(f, T)}
<1>1. {} \in Good
  <2>1. SumOf(f, T) \in Int
    BY SumType
  <2>2. {} \union T = T
    OBVIOUS
  <2> QED BY <2>1, <2>2, SumEmpty
<1>2. ASSUME NEW s \in Good, NEW x \in S \ s PROVE s \union {x} \in Good
  <2>1. IsFiniteSet(s \union {x}) /\ IsFiniteSet(s) /\ IsFiniteSet(s \union T)
        /\ IsFiniteSet((s \union {x}) \union T)
    BY FS_Subset, FS_Union, FS_Singleton
  <2>2. SumOf(f, s \union {x}) = f[x] + SumOf(f, (s \union {x}) \ {x})
    BY <2>1, SumTake
  <2>3. SumOf(f, (s \union {x}) \union T) = f[x] + SumOf(f, ((s \union {x}) \union T) \ {x})
    BY <2>1, SumTake
  <2>4. (s \union {x}) \ {x} = s /\ ((s \union {x}) \union T) \ {x} = s \union T
    OBVIOUS
  <2>5. f[x] \in Int /\ SumOf(f, s) \in Int /\ SumOf(f, T) \in Int
    BY <2>1, SumType
  <2>6. PICK u \in Int, v \in Int, w \in Int : u = f[x] /\ v = SumOf(f, s) /\ w = SumOf(f, T)
    BY <2>5
  <2>7. SumOf(f, s \union T) = v + w
    BY <2>6
  <2>8. /\ SumOf(f, s \union {x}) = u + v
        /\ SumOf(f, (s \union {x}) \union T) = u + (v + w)
    BY ONLY <2>2, <2>3, <2>4, <2>6, <2>7
  <2>9. u + (v + w) = (u + v) + w
    BY <2>6
  <2>10. SumOf(f, (s \union {x}) \union T) = SumOf(f, s \union {x}) + SumOf(f, T)
    BY ONLY <2>6, <2>8, <2>9
  <2> QED BY <2>10
<1>3. S \in Good
  <2> HIDE DEF Good
  <2>1. Good \subseteq SUBSET S
    BY DEF Good
  <2> QED BY <1>1, <1>2, <2>1, SetInduction
<1> QED BY <1>3

LEMMA SumNat ==
  ASSUME NEW S, IsFiniteSet(S), NEW f, \A x \in S : f[x] \in Nat
  PROVE  SumOf(f, S) \in Nat
<1> DEFINE Good == {s \in SUBSET S : SumOf(f, s) \in Nat}
<1>1. {} \in Good
  BY SumEmpty
<1>2. ASSUME NEW s \in Good, NEW x \in S \ s PROVE s \union {x} \in Good
  <2>1. IsFiniteSet(s \union {x})
    BY FS_Subset, FS_Union, FS_Singleton
  <2>2. SumOf(f, s \union {x}) = f[x] + SumOf(f, (s \union {x}) \ {x})
    BY <2>1, SumTake
  <2>3. (s \union {x}) \ {x} = s
    OBVIOUS
  <2> QED BY <2>2, <2>3
<1>3. S \in Good
  <2> HIDE DEF Good
  <2>1. Good \subseteq SUBSET S
    BY DEF Good
  <2> QED BY <1>1, <1>2, <2>1, SetInduction
<1> QED BY <1>3

\* Over fewer elements, none of them negative, a sum is no more.
LEMMA SumLess ==
  ASSUME NEW S, IsFiniteSet(S), NEW f, \A x \in S : f[x] \in Nat, NEW T \in SUBSET S
  PROVE  SumOf(f, T) <= SumOf(f, S)
<1>1. IsFiniteSet(T) /\ IsFiniteSet(S \ T) /\ T \cap (S \ T) = {} /\ T \union (S \ T) = S
  BY FS_Subset, FS_Difference
<1>2. SumOf(f, S) = SumOf(f, T) + SumOf(f, S \ T)
  <2>1. SumOf(f, T \union (S \ T)) = SumOf(f, T) + SumOf(f, S \ T)
    BY <1>1, SumUnion
  <2> QED BY <1>1, <2>1
<1>3. SumOf(f, T) \in Nat /\ SumOf(f, S \ T) \in Nat
  BY <1>1, SumNat
<1> QED BY <1>2, <1>3

-----------------------------------------------------------------------------
(* Maxima and minima.                                                      *)

LEMMA MaxIs ==
  ASSUME NEW S, S \subseteq Int, NEW x \in S, \A y \in S : y <= x
  PROVE  Max(S) = x
<1>1. \A y \in S : x >= y
  OBVIOUS
<1>2. Max(S) \in S /\ \A y \in S : Max(S) >= y
  BY <1>1 DEF Max
<1>3. PICK m \in S : m = Max(S) /\ m >= x /\ m <= x
  BY <1>2
<1>4. m \in Int /\ x \in Int
  OBVIOUS
<1> QED BY ONLY <1>3, <1>4

LEMMA MaxFacts ==
  ASSUME NEW S, S \subseteq Int, IsFiniteSet(S), S # {}
  PROVE  Max(S) \in S /\ \A x \in S : x <= Max(S)
<1> DEFINE Good == {s \in SUBSET S : s = {} \/ \E x \in s : \A y \in s : y <= x}
<1>1. {} \in Good
  OBVIOUS
<1>2. ASSUME NEW s \in Good, NEW x \in S \ s PROVE s \union {x} \in Good
  <2>1. CASE s = {}
    BY <2>1
  <2>2. CASE s # {}
    <3>1. PICK m \in s : \A y \in s : y <= m
      BY <2>2
    <3>2. CASE m <= x
      <4>1. \A y \in s \union {x} : y <= x
        BY <3>1, <3>2
      <4> QED BY <4>1
    <3>3. CASE ~(m <= x)
      <4>1. m \in s \union {x} /\ \A y \in s \union {x} : y <= m
        BY <3>1, <3>3
      <4> QED BY <4>1
    <3> QED BY <3>2, <3>3
  <2> QED BY <2>1, <2>2
<1>3. S \in Good
  <2> HIDE DEF Good
  <2>1. Good \subseteq SUBSET S
    BY DEF Good
  <2> QED BY <1>1, <1>2, <2>1, SetInduction
<1>4. PICK x \in S : \A y \in S : y <= x
  BY <1>3
<1> QED BY <1>4, MaxIs

LEMMA MinFacts ==
  ASSUME NEW S, S \subseteq Nat, S # {}
  PROVE  Min(S) \in S /\ \A x \in S : Min(S) <= x
<1>1. PICK n \in S : \A m \in S : n <= m
  BY LeastNatural
<1> QED BY <1>1 DEF Min

LEMMA MinOfTwo ==
  ASSUME NEW a \in Int, NEW b \in Int
  PROVE  Min({a, b}) \in {a, b} /\ Min({a, b}) <= a /\ Min({a, b}) <= b
<1>1. CASE a <= b
  <2>1. a \in {a, b} /\ \A y \in {a, b} : a <= y
    BY <1>1
  <2>2. Min({a, b}) \in {a, b} /\ \A y \in {a, b} : Min({a, b}) <= y
    BY <2>1 DEF Min
  <2> QED BY <2>2
<1>2. CASE ~(a <= b)
  <2>1. b \in {a, b} /\ \A y \in {a, b} : b <= y
    BY <1>2
  <2>2. Min({a, b}) \in {a, b} /\ \A y \in {a, b} : Min({a, b}) <= y
    BY <2>1 DEF Min
  <2> QED BY <2>2
<1> QED BY <1>1, <1>2

LEMMA MaxOfTwo ==
  ASSUME NEW a \in Int, NEW b \in Int
  PROVE  Max({a, b}) \in {a, b} /\ a <= Max({a, b}) /\ b <= Max({a, b})
<1>1. CASE b <= a
  <2>1. a \in {a, b} /\ {a, b} \subseteq Int /\ \A y \in {a, b} : y <= a
    BY <1>1
  <2>2. Max({a, b}) = a
    BY <2>1, MaxIs
  <2> QED BY <1>1, <2>2
<1>2. CASE ~(b <= a)
  <2>1. b \in {a, b} /\ {a, b} \subseteq Int /\ \A y \in {a, b} : y <= b
    BY <1>2
  <2>2. Max({a, b}) = b
    BY <2>1, MaxIs
  <2> QED BY <1>2, <2>2
<1> QED BY <1>1, <1>2

-----------------------------------------------------------------------------
(* Folding a sequence of n elements from the left.                         *)

Greatest(n) == [s \in SUBSET (1 .. n) |-> Max(s)]

\* F gives the value after an element from its index and the value before it.
FoldsLeft(n, D, base, F) ==
  n \in Nat /\ base \in D /\ \A x \in 1 .. n, d \in D : F[<<x, d>>] \in D

IsLeftFold(it, n, D, base, F) ==
  /\ it \in [SUBSET (1 .. n) -> D]
  /\ it = [s \in SUBSET (1 .. n) |-> IF s = {} THEN base ELSE F[<<Max(s), it[s \ {Max(s)}]>>]]

LEMMA PrefixTake == \A n \in Nat : (1 .. n + 1) \ {n + 1} = 1 .. n /\ 1 .. n + 1 # {}
OBVIOUS

LEMMA MaxPrefix == \A n \in Nat \ {0} : Max(1 .. n) = n
<1> SUFFICES ASSUME NEW n \in Nat \ {0} PROVE Max(1 .. n) = n
  OBVIOUS
<1>1. 1 .. n \subseteq Int /\ n \in 1 .. n /\ \A y \in 1 .. n : y <= n
  OBVIOUS
<1> QED BY <1>1, MaxIs

\* The recursive function is defined.
LEMMA LeftFoldExists ==
  ASSUME NEW n, NEW D, NEW base, NEW F, FoldsLeft(n, D, base, F)
  PROVE  \E it : IsLeftFold(it, n, D, base, F)
<1>0. n \in Nat /\ base \in D /\ \A x \in 1 .. n, d \in D : F[<<x, d>>] \in D
  BY DEF FoldsLeft
<1>1. IsFiniteSet(1 .. n)
  BY <1>0, FS_Interval
<1>2. ASSUME NEW s \in SUBSET (1 .. n), s # {} PROVE Max(s) \in s
  <2>1. IsFiniteSet(s)
    BY <1>1, FS_Subset
  <2>2. s \subseteq Int
    OBVIOUS
  <2> QED BY <1>2, <2>1, <2>2, MaxFacts
<1>3. Foldable(1 .. n, D, base, Greatest(n), F)
  BY <1>0, <1>1, <1>2 DEF Foldable, Greatest
<1>4. PICK it : IsFold(it, 1 .. n, D, base, Greatest(n), F)
  BY <1>3, FoldExists
<1>5. \A s \in SUBSET (1 .. n) :
        it[s] = IF s = {} THEN base ELSE F[<<Max(s), it[s \ {Max(s)}]>>]
  BY <1>4 DEF IsFold, Greatest
<1> QED BY <1>4, <1>5 DEF IsFold, IsLeftFold

-----------------------------------------------------------------------------
(* Counting.                                                               *)

LEMMA Paired ==
  ASSUME NEW S, NEW T, IsFiniteSet(T), NEW h \in [S -> T],
         \A x, y \in S : h[x] = h[y] => x = y, \A t \in T : \E x \in S : h[x] = t
  PROVE  IsFiniteSet(S) /\ Cardinality(S) = Cardinality(T)
<1>1. h \in Injection(S, T)
  BY DEF Injection, IsInjective
<1>2. h \in Surjection(S, T)
  BY DEF Surjection
<1> QED BY <1>1, <1>2, FS_Injection

LEMMA PrefixCount == \A n \in Nat : IsFiniteSet(1 .. n) /\ Cardinality(1 .. n) = n
<1> SUFFICES ASSUME NEW n \in Nat PROVE IsFiniteSet(1 .. n) /\ Cardinality(1 .. n) = n
  OBVIOUS
<1>1. IsFiniteSet(1 .. n) /\ Cardinality(1 .. n) = IF 1 > n THEN 0 ELSE n - 1 + 1
  BY FS_Interval
<1>2. (IF 1 > n THEN 0 ELSE n - 1 + 1) = n
  OBVIOUS
<1> QED BY <1>1, <1>2

LEMMA ImageFinite ==
  ASSUME NEW S, IsFiniteSet(S), NEW f
  PROVE  IsFiniteSet({f[x] : x \in S}) /\ Cardinality({f[x] : x \in S}) <= Cardinality(S)
<1> DEFINE h == [x \in S |-> f[x]]
<1>1. h \in Surjection(S, {f[x] : x \in S})
  BY DEF Surjection
<1> HIDE DEF h
<1> QED BY <1>1, FS_Surjection

\* Functions that are equal on the same pairs take as many values.
LEMMA SameFibers ==
  ASSUME NEW S, IsFiniteSet(S), NEW f, NEW g, \A x, y \in S : f[x] = f[y] <=> g[x] = g[y]
  PROVE  Cardinality({f[x] : x \in S}) = Cardinality({g[x] : x \in S})
<1> DEFINE F == {f[x] : x \in S}
           G == {g[x] : x \in S}
           h == [v \in G |-> f[CHOOSE x \in S : g[x] = v]]
<1>1. ASSUME NEW x \in S PROVE g[x] \in G /\ h[g[x]] = f[x]
  <2>1. g[CHOOSE y \in S : g[y] = g[x]] = g[x] /\ (CHOOSE y \in S : g[y] = g[x]) \in S
    OBVIOUS
  <2> QED BY <2>1
<1>2. IsFiniteSet(F)
  BY ImageFinite
<1>3. \A v \in G : \E x \in S : v = g[x]
  OBVIOUS
<1>4. h \in [G -> F]
  <2>1. \A v \in G : h[v] \in F
    BY <1>1, <1>3
  <2> HIDE DEF F, G
  <2> QED BY <2>1
<1> HIDE DEF h
<1>5. \A t \in F : \E v \in G : h[v] = t
  BY <1>1
<1>6. \A v, w \in G : h[v] = h[w] => v = w
  BY <1>1, <1>3
<1> HIDE DEF F, G
<1>7. Cardinality(G) = Cardinality(F)
  BY <1>2, <1>4, <1>5, <1>6, Paired
<1> QED BY <1>7 DEF F, G

\* The sum over the elements of S, taken together by the values of g.
Fiber(S, g, p) == {x \in S : g[x] = p}

LEMMA SumFibers ==
  ASSUME NEW S, IsFiniteSet(S), NEW P, IsFiniteSet(P), NEW f, NEW g,
         \A x \in S : f[x] \in Int /\ g[x] \in P
  PROVE  SumOf([p \in P |-> SumOf(f, Fiber(S, g, p))], P) = SumOf(f, S)
<1> DEFINE h == [p \in P |-> SumOf(f, Fiber(S, g, p))]
           Upto(Q) == {x \in S : g[x] \in Q}
           Good == {Q \in SUBSET P : SumOf(h, Q) = SumOf(f, Upto(Q))}
<1>1. \A T \in SUBSET S : IsFiniteSet(T) /\ SumOf(f, T) \in Int
  <2> SUFFICES ASSUME NEW T \in SUBSET S PROVE IsFiniteSet(T) /\ SumOf(f, T) \in Int
    OBVIOUS
  <2>1. IsFiniteSet(T)
    BY FS_Subset
  <2> QED BY <2>1, SumType
<1>2. \A p \in P : Fiber(S, g, p) \in SUBSET S /\ h[p] = SumOf(f, Fiber(S, g, p)) /\ h[p] \in Int
  BY <1>1 DEF Fiber
<1> HIDE DEF h
<1>3. {} \in Good
  <2>1. Upto({}) = {}
    OBVIOUS
  <2> QED BY <2>1, SumEmpty
<1>4. ASSUME NEW Q \in Good, NEW p \in P \ Q PROVE Q \union {p} \in Good
  <2>1. IsFiniteSet(Q \union {p}) /\ \A q \in Q \union {p} : h[q] \in Int
    <3>1. Q \union {p} \in SUBSET P
      OBVIOUS
    <3> QED BY <1>2, <3>1, FS_Subset
  <2>2. SumOf(h, Q \union {p}) = h[p] + SumOf(h, (Q \union {p}) \ {p})
    BY <2>1, SumTake
  <2>3. (Q \union {p}) \ {p} = Q /\ SumOf(h, Q) = SumOf(f, Upto(Q))
    OBVIOUS
  <2>4. /\ Upto(Q \union {p}) = Upto(Q) \union Fiber(S, g, p) /\ Upto(Q) \cap Fiber(S, g, p) = {}
        /\ Upto(Q) \in SUBSET S
    BY DEF Fiber
  <2>5. SumOf(f, Upto(Q) \union Fiber(S, g, p)) = SumOf(f, Upto(Q)) + SumOf(f, Fiber(S, g, p))
    <3>1. IsFiniteSet(Upto(Q)) /\ IsFiniteSet(Fiber(S, g, p))
      BY <1>1, <1>2, <2>4
    <3>2. \A x \in Upto(Q) \union Fiber(S, g, p) : f[x] \in Int
      BY DEF Fiber
    <3> HIDE DEF Upto
    <3> QED BY <2>4, <3>1, <3>2, SumUnion
  <2>6. PICK u \in Int, v \in Int : u = SumOf(f, Fiber(S, g, p)) /\ v = SumOf(f, Upto(Q))
    BY <1>1, <1>2, <2>4
  <2>7. SumOf(h, Q \union {p}) = u + v /\ SumOf(f, Upto(Q \union {p})) = v + u
    <3> HIDE DEF Upto, Good
    <3> QED BY <1>2, <2>2, <2>3, <2>4, <2>5, <2>6
  <2>8. u + v = v + u
    BY <2>6
  <2> QED BY <2>7, <2>8
<1>5. P \in Good
  <2>1. Good \subseteq SUBSET P
    OBVIOUS
  <2> HIDE DEF Good
  <2> QED BY <1>3, <1>4, <2>1, SetInduction
<1>6. Upto(P) = S
  OBVIOUS
<1> QED BY <1>5, <1>6 DEF h

-----------------------------------------------------------------------------
(* Sequences of sequences, one after the other.                            *)

Joining(ss, n, it) == it = [i \in 1 .. n |-> IF i = 1 THEN ss[i] ELSE it[i - 1] \o ss[i]]

LEMMA JoiningExists ==
  ASSUME NEW ss, NEW n \in Nat \ {0}
  PROVE  \E it : Joining(ss, n, it)
<1> DEFINE Good == {m \in Nat : m = 0 \/ \E it : Joining(ss, m, it)}
<1>1. ASSUME NEW m \in Good PROVE m + 1 \in Good
  <2>1. CASE m = 0
    <3>1. Joining(ss, 1, [i \in 1 .. 1 |-> ss[i]])
      BY DEF Joining
    <3> QED BY <2>1, <3>1
  <2>2. CASE m # 0
    <3>1. PICK it : Joining(ss, m, it)
      BY <2>2
    <3> DEFINE jt == [i \in 1 .. m + 1 |-> IF i = m + 1 THEN it[m] \o ss[m + 1] ELSE it[i]]
    <3>2. m \in Nat \ {0}
      BY <2>2
    <3>3. \A i \in 1 .. m + 1 : jt[i] = IF i = 1 THEN ss[i] ELSE jt[i - 1] \o ss[i]
      <4> SUFFICES ASSUME NEW i \in 1 .. m + 1 PROVE jt[i] = IF i = 1 THEN ss[i] ELSE jt[i - 1] \o ss[i]
        OBVIOUS
      <4>1. CASE i = m + 1
        <5>1. i - 1 = m /\ m \in 1 .. m + 1 /\ m # m + 1 /\ i # 1
          BY <3>2, <4>1
        <5> QED BY <4>1, <5>1
      <4>2. CASE i # m + 1
        <5>1. i \in 1 .. m
          BY <3>2, <4>2
        <5>2. it[i] = IF i = 1 THEN ss[i] ELSE it[i - 1] \o ss[i]
          BY <3>1, <5>1 DEF Joining
        <5>3. i # 1 => i - 1 \in 1 .. m + 1 /\ i - 1 # m + 1
          BY <3>2, <5>1
        <5> QED BY <4>2, <5>1, <5>2, <5>3
      <4> QED BY <4>1, <4>2
    <3>4. jt = [i \in 1 .. m + 1 |-> jt[i]]
      OBVIOUS
    <3> HIDE DEF jt
    <3>5. Joining(ss, m + 1, jt)
      BY <3>3, <3>4 DEF Joining
    <3>6. m + 1 \in Nat
      BY <3>2
    <3> QED BY <3>5, <3>6
  <2> QED BY <2>1, <2>2
<1>2. 0 \in Good /\ Good \subseteq Nat
  OBVIOUS
<1> HIDE DEF Good
<1>3. Good = Nat
  BY <1>1, <1>2, Induction
<1> QED BY <1>3 DEF Good

\* Position x of s is position at[x] of sequence number of[x].
Spread(ss, m, s, of, at) ==
  /\ of \in [1 .. Len(s) -> 1 .. m] /\ at \in [1 .. Len(s) -> Nat]
  /\ \A x \in 1 .. Len(s) : at[x] \in 1 .. Len(ss[of[x]]) /\ s[x] = ss[of[x]][at[x]]
  /\ \A n \in 1 .. m : \A j \in 1 .. Len(ss[n]) : \E x \in 1 .. Len(s) : of[x] = n /\ at[x] = j
  /\ \A x, y \in 1 .. Len(s) : x < y => of[x] < of[y] \/ (of[x] = of[y] /\ at[x] < at[y])

LEMMA SpreadStep ==
  ASSUME NEW X, NEW m \in Nat, NEW ss, ss[m + 1] \in Seq(X), NEW s \in Seq(X), NEW of, NEW at,
         Spread(ss, m, s, of, at)
  PROVE  \E f, g : Spread(ss, m + 1, s \o ss[m + 1], f, g)
<1> DEFINE t == ss[m + 1]
           u == s \o t
           f == [x \in 1 .. Len(u) |-> IF x <= Len(s) THEN of[x] ELSE m + 1]
           g == [x \in 1 .. Len(u) |-> IF x <= Len(s) THEN at[x] ELSE x - Len(s)]
<1>1. /\ Len(u) = Len(s) + Len(t) /\ Len(s) \in Nat /\ Len(t) \in Nat
      /\ \A x \in 1 .. Len(s) + Len(t) : u[x] = IF x <= Len(s) THEN s[x] ELSE t[x - Len(s)]
  BY ConcatProperties, LenProperties
<1>2. PICK k, l \in Nat : k = Len(s) /\ l = Len(t)
  BY <1>1
<1> HIDE DEF u
<1>3. \A x \in 1 .. k : x \in 1 .. k + l /\ of[x] \in 1 .. m /\ of[x] \in 1 .. m + 1 /\ at[x] \in Nat
  <2>1. of \in [1 .. k -> 1 .. m] /\ at \in [1 .. k -> Nat]
    BY <1>2 DEF Spread
  <2>2. 1 .. m \subseteq 1 .. m + 1 /\ 1 .. k \subseteq 1 .. k + l
    BY <1>2
  <2> HIDE DEF t
  <2> QED BY ONLY <2>1, <2>2
<1>4. \A x \in 1 .. k + l : ~(x <= k) => x - k \in 1 .. l /\ x - k \in Nat
  BY <1>2
<1>5. \A x \in 1 .. k + l : x <= k => x \in 1 .. k
  BY <1>2
<1>6. f \in [1 .. Len(u) -> 1 .. m + 1] /\ g \in [1 .. Len(u) -> Nat]
  BY <1>1, <1>2, <1>3, <1>4, <1>5
<1>7. \A x \in 1 .. k + l : f[x] = IF x <= k THEN of[x] ELSE m + 1
  BY <1>1, <1>2
<1>8. \A x \in 1 .. k + l : g[x] = IF x <= k THEN at[x] ELSE x - k
  BY <1>1, <1>2
<1> HIDE DEF f, g
<1>9. ASSUME NEW x \in 1 .. Len(u) PROVE g[x] \in 1 .. Len(ss[f[x]]) /\ u[x] = ss[f[x]][g[x]]
  <2>1. x \in 1 .. k + l
    BY <1>1, <1>2
  <2>2. CASE x <= k
    <3>1. x \in 1 .. Len(s)
      BY <1>2, <1>5, <2>1, <2>2
    <3>2. at[x] \in 1 .. Len(ss[of[x]]) /\ s[x] = ss[of[x]][at[x]]
      BY <3>1 DEF Spread
    <3> QED BY <1>1, <1>2, <1>7, <1>8, <2>1, <2>2, <3>2
  <2>3. CASE ~(x <= k)
    BY <1>1, <1>2, <1>4, <1>7, <1>8, <2>1, <2>3
  <2> QED BY <2>2, <2>3
<1>10. ASSUME NEW n \in 1 .. m + 1, NEW j \in 1 .. Len(ss[n])
       PROVE  \E x \in 1 .. Len(u) : f[x] = n /\ g[x] = j
  <2>1. CASE n \in 1 .. m
    <3>1. PICK x \in 1 .. k : of[x] = n /\ at[x] = j
      BY <1>2, <2>1 DEF Spread
    <3>2. x \in 1 .. k + l /\ x <= k
      BY <1>2
    <3> QED BY <1>1, <1>2, <1>7, <1>8, <3>1, <3>2
  <2>2. CASE n = m + 1
    <3>1. j \in 1 .. l
      BY <1>2, <2>2
    <3>2. k + j \in 1 .. k + l /\ ~(k + j <= k) /\ (k + j) - k = j
      BY <1>2, <3>1
    <3> QED BY <1>1, <1>2, <1>7, <1>8, <2>2, <3>2
  <2> QED BY <2>1, <2>2
<1>11. ASSUME NEW x \in 1 .. Len(u), NEW y \in 1 .. Len(u), x < y
       PROVE  f[x] < f[y] \/ (f[x] = f[y] /\ g[x] < g[y])
  <2>1. x \in 1 .. k + l /\ y \in 1 .. k + l
    BY <1>1, <1>2
  <2>2. CASE y <= k
    <3>1. x <= k /\ x \in 1 .. Len(s) /\ y \in 1 .. Len(s)
      BY <1>2, <1>11, <2>1, <2>2
    <3> QED BY <1>7, <1>8, <1>11, <2>1, <2>2, <3>1 DEF Spread
  <2>3. CASE ~(y <= k) /\ x <= k
    <3>1. of[x] \in 1 .. m
      BY <1>3, <1>5, <2>1, <2>3
    <3>2. of[x] < m + 1
      BY <3>1
    <3> QED BY <1>7, <2>1, <2>3, <3>2
  <2>4. CASE ~(x <= k)
    <3>1. ~(y <= k) /\ x - k < y - k
      BY <1>2, <1>11, <2>1, <2>4
    <3> QED BY <1>7, <1>8, <2>1, <2>4, <3>1
  <2> QED BY <2>2, <2>3, <2>4
<1>12. Spread(ss, m + 1, u, f, g)
  BY <1>6, <1>9, <1>10, <1>11 DEF Spread
<1> QED BY <1>12 DEF u

LEMMA FlattenFacts ==
  ASSUME NEW X, NEW N \in Nat, NEW ss \in [1 .. N -> Seq(X)]
  PROVE  FlattenSeq(ss) \in Seq(X) /\ \E of, at : Spread(ss, N, FlattenSeq(ss), of, at)
<1>1. ss \in Seq(Seq(X)) /\ Len(ss) = N
  OBVIOUS
<1>2. CASE N = 0
  <2>1. FlattenSeq(ss) = ss /\ ss = <<>>
    BY <1>1, <1>2 DEF FlattenSeq
  <2>2. <<>> \in Seq(X) /\ Len(<<>>) = 0 /\ 1 .. 0 = {}
    OBVIOUS
  <2>3. Spread(ss, N, <<>>, <<>>, <<>>)
    BY <1>2, <2>1, <2>2 DEF Spread
  <2> QED BY <2>1, <2>2, <2>3
<1>3. CASE N # 0
  <2>1. N \in Nat \ {0}
    BY <1>3
  <2>2. FlattenSeq(ss) = (CHOOSE it : Joining(ss, N, it))[N]
    BY <1>1, <1>3 DEF FlattenSeq, Joining
  <2>3. PICK it : it = CHOOSE jt : Joining(ss, N, jt)
    OBVIOUS
  <2>4. Joining(ss, N, it)
    BY <2>1, <2>3, JoiningExists
  <2>5. \A i \in 1 .. N : it[i] = IF i = 1 THEN ss[i] ELSE it[i - 1] \o ss[i]
    BY <2>4 DEF Joining
  <2> DEFINE Good == {m \in Nat : m \in 1 .. N => it[m] \in Seq(X) /\ \E of, at : Spread(ss, m, it[m], of, at)}
  <2>6. 0 \in Good
    OBVIOUS
  <2>7. ASSUME NEW m \in Good PROVE m + 1 \in Good
    <3>1. m + 1 \in Nat
      OBVIOUS
    <3> SUFFICES ASSUME m + 1 \in 1 .. N
                 PROVE  it[m + 1] \in Seq(X) /\ \E of, at : Spread(ss, m + 1, it[m + 1], of, at)
      BY <3>1
    <3>2. ss[m + 1] \in Seq(X)
      OBVIOUS
    <3>3. CASE m = 0
      <4>1. it[1] = ss[1]
        BY <2>1, <2>5
      <4>2. Spread(ss, 0, <<>>, <<>>, <<>>)
        BY DEF Spread
      <4>3. <<>> \in Seq(X) /\ 0 \in Nat /\ 0 + 1 = 1 /\ ss[0 + 1] \in Seq(X)
        BY <3>2, <3>3
      <4>4. \E f, g : Spread(ss, 0 + 1, <<>> \o ss[0 + 1], f, g)
        BY ONLY <4>2, <4>3, SpreadStep
      <4>5. <<>> \o ss[1] = ss[1]
        BY <3>2, <3>3, ConcatEmptySeq
      <4> QED BY <3>2, <3>3, <4>1, <4>3, <4>4, <4>5
    <3>4. CASE m # 0
      <4>1. m \in 1 .. N /\ m + 1 # 1 /\ (m + 1) - 1 = m /\ m \in Nat
        BY <3>4
      <4>2. it[m] \in Seq(X) /\ \E of, at : Spread(ss, m, it[m], of, at)
        BY <4>1
      <4>3. PICK of, at : Spread(ss, m, it[m], of, at)
        BY <4>2
      <4>4. it[m + 1] = it[m] \o ss[m + 1]
        BY <2>5, <4>1
      <4>5. \E f, g : Spread(ss, m + 1, it[m] \o ss[m + 1], f, g)
        BY <3>2, <4>1, <4>2, <4>3, SpreadStep
      <4>6. it[m] \o ss[m + 1] \in Seq(X)
        BY <3>2, <4>2, ConcatProperties
      <4> QED BY <4>4, <4>5, <4>6
    <3> QED BY <3>3, <3>4
  <2>8. Good = Nat
    <3>1. Good \subseteq Nat
      OBVIOUS
    <3> HIDE DEF Good
    <3> QED BY <2>6, <2>7, <3>1, Induction
  <2>9. N \in 1 .. N /\ N \in Good
    <3>1. N \in 1 .. N
      BY <2>1
    <3> HIDE DEF Good
    <3> QED BY <2>8, <3>1
  <2> QED BY <2>2, <2>3, <2>9
<1> QED BY <1>2, <1>3
=============================================================================

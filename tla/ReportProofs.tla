----------------------------- MODULE ReportProofs -----------------------------
(***************************************************************************)
(* The termination report is right for every graph of actors that wait for *)
(* each other: the search keeps its two lists apart in one array           *)
(* (ArrayCorrect), its groups are the strongly connected components in     *)
(* topological order (SearchCorrect), those and only those that deadlock   *)
(* are reported (ReportRight), and no actor is left unvisited (VisitsAll). *)
(***************************************************************************)
EXTENDS TerminationReport, FiniteSetTheorems, TLAPS

-----------------------------------------------------------------------------
(* The invariant.                                                          *)

Call == [actor : Actor, myIndex : Index, minIndex : Index, todo : SUBSET (Nat \X Nat)]

\* C being the closed sets, a waits for b, directly or not, or is b.
Reaches(C, a, b) == \A S \in C : a \in S => b \in S
Mutual(C, a, b) == Reaches(C, a, b) /\ Reaches(C, b, a)

Typed ==
  /\ DOMAIN answer = Actor
  /\ \A a \in Actor : answer[a] \in Answers[a] \union {Unasked}
  /\ frames \in Seq(Call)
  /\ stack \in [Index -> Actor \union {NoActor}] /\ leader \in [Index -> Actor \union {NoActor}]
  /\ depth \in 0 .. numActors /\ rpoIndex \in 0 .. numActors

\* Where the array is in use: stack, then the complete groups.
Used == (0 .. depth - 1) \union (rpoIndex .. numActors - 1)

Apart ==
  /\ depth <= rpoIndex
  /\ \A s \in Used : stack[s] \in Actor
  /\ \A s, t \in Used : stack[s] = stack[t] => s = t

\* s belongs to call number k: the actor there was visited by k, and by no
\* call within k that has not returned.
Within(k, s) ==
  /\ s \in frames[k].myIndex .. depth - 1
  /\ \A l \in DOMAIN frames : k < l => s < frames[l].myIndex

\* The calls in progress are a path of the graph, and share the stack.
Calls ==
  /\ \A k \in DOMAIN frames :
       /\ frames[k].myIndex < depth /\ stack[frames[k].myIndex] = frames[k].actor
       /\ frames[k].minIndex <= frames[k].myIndex
       /\ frames[k].todo \subseteq Visits(frames[k].actor, answer[frames[k].actor])
  /\ \A k, l \in DOMAIN frames : k < l =>
       frames[k].myIndex < frames[l].myIndex /\ Reaches(Closed, frames[k].actor, frames[l].actor)
  /\ \A s \in 0 .. depth - 1 : \E k \in DOMAIN frames : Within(k, s)

\* What a returned call has left on the stack is in a cycle with its caller.
Tied == \A k \in DOMAIN frames : \A s \in Index : Within(k, s) => Mutual(Closed, stack[s], frames[k].actor)

\* minIndex is on the stack for a reason: the actor there is reached ...
Reached == \A k \in DOMAIN frames : Reaches(Closed, frames[k].actor, stack[frames[k].minIndex])

\* ... and for all the edges gone, their ends are not below minIndex.
Arrived(b, min) == Placed(b) \/ \E t \in min .. depth - 1 : stack[t] = b
Edge(s, q) == Neighbor(stack[s], answer[stack[s]], q)
Gone(k, s) ==
  Visits(stack[s], answer[stack[s]]) \ (IF s = frames[k].myIndex THEN frames[k].todo ELSE {})
Lowest ==
  \A k \in DOMAIN frames : \A s \in Index : Within(k, s) =>
    \A q \in Gone(k, s) : Arrived(Edge(s, q), frames[k].minIndex)

\* The complete groups: contiguous with the leader at the end, strongly
\* connected, and no edge leads from one to another before it.
Complete == rpoIndex .. numActors - 1
Contiguous ==
  \A s \in Complete : \E t \in s .. numActors - 1 :
    stack[t] = leader[s] /\ \A r \in s .. t : leader[r] = leader[s]
Connected ==
  \A s, t \in Complete : leader[s] = leader[t] => Mutual(Closed, stack[s], stack[t])
Sorted ==
  \A s \in Complete : \A b \in WaitsFor(stack[s]) : \E t \in Complete :
    stack[t] = b /\ (t >= s \/ leader[t] = leader[s])

\* Nobody is asked before he is visited, and nobody is left out.
Met(a) == OnStack(a) \/ Placed(a)
Asked ==
  /\ \A a \in Actor : ~Met(a) => answer[a] = Unasked
  /\ outer \in 0 .. numActors /\ \A k \in 1 .. outer : Met(Order[k])

Groups == Contiguous /\ Connected /\ Sorted

Search == Typed /\ Apart /\ Calls /\ Tied /\ Reached /\ Lowest /\ Groups /\ Asked

-----------------------------------------------------------------------------
(* The graph.                                                              *)

LEMMA OrderFacts ==
  /\ numActors \in Nat /\ Index = 0 .. numActors - 1
  /\ \A k \in 1 .. numActors : Order[k] \in Actor
  /\ \A a \in Actor : \E k \in 1 .. numActors : Order[k] = a
  /\ \A k, l \in 1 .. numActors : Order[k] = Order[l] => k = l
  /\ IsFiniteSet(Actor) /\ Cardinality(Actor) = numActors
<1>1. /\ Order \in Seq(Actor) /\ numActors \in Nat /\ DOMAIN Order = 1 .. numActors
      /\ \A k, l \in 1 .. numActors : Order[k] = Order[l] => k = l
  BY ReportAssumption DEF numActors
<1>2. \A a \in Actor : \E k \in 1 .. numActors : Order[k] = a
  BY <1>1 DEF Actor, ToSet
<1>3. IsFiniteSet(Actor) /\ Cardinality(Actor) = numActors
  <2>1. ExistsBijection(1 .. numActors, Actor)
    <3>1. Order \in [1 .. numActors -> Actor]
      BY <1>1
    <3>2. Order \in Bijection(1 .. numActors, Actor)
      BY <1>1, <1>2, <3>1 DEF Bijection, Injection, Surjection, IsInjective
    <3> QED BY <3>2 DEF ExistsBijection
  <2>2. IsFiniteSet(1 .. numActors) /\ Cardinality(1 .. numActors) = numActors
    BY <1>1, FS_Interval
  <2> QED BY <2>1, <2>2, FS_Bijection
<1> QED BY <1>1, <1>2, <1>3 DEF Index

LEMMA ElementOf ==
  ASSUME NEW T, NEW s \in Seq(T), NEW p \in DOMAIN s
  PROVE  p \in Nat /\ s[p] \in T
OBVIOUS

LEMMA VisitsFacts ==
  ASSUME NEW a \in Actor, NEW x \in Answers[a] \union {Unasked}
  PROVE  /\ Visits(a, x) \subseteq Nat \X Nat
         /\ \A q \in Visits(a, x) : Neighbor(a, x, q) \in Actor
<1>1. ASSUME NEW q \in Visits(a, x)
      PROVE  q \in Nat \X Nat /\ Neighbor(a, x, q) \in Actor
  <2>1. PICK p \in DOMAIN x.ports : q \in {p} \X Ways(a, x.ports[p])
    BY <1>1 DEF Visits
  <2>2. x \in Answers[a]
    BY <2>1 DEF Unasked
  <2>3. /\ Producer[a] \in Seq(Actor) /\ Consumers[a] \in Seq(Seq(Actor))
        /\ x.ports \in Seq([index : 0 .. Inputs(a) + Len(Consumers[a]) - 1, lacking : SUBSET Actor])
    BY <2>2, ReportAssumption
  <2> DEFINE port == x.ports[p]
  <2>4. PICK n \in Nat, m \in Nat, e \in Nat :
          p \in Nat /\ e < n + m /\ n = Inputs(a) /\ m = Len(Consumers[a]) /\ e = port.index
    <3>1. p \in Nat /\ port \in [index : 0 .. Inputs(a) + Len(Consumers[a]) - 1,
                                lacking : SUBSET Actor]
      BY <2>1, <2>3, ElementOf
    <3>2. PICK n \in Nat, m \in Nat : n = Inputs(a) /\ m = Len(Consumers[a])
      BY <2>3 DEF Inputs
    <3> HIDE DEF port
    <3> QED BY <3>1, <3>2
  <2>5. q[1] = p /\ q[2] \in Ways(a, port) /\ q = <<q[1], q[2]>>
    BY <2>1
  <2>6. CASE port.index < Inputs(a)
    <3>1. q[2] = 1
      BY <2>5, <2>6 DEF Ways
    <3>2. e + 1 \in 1 .. Len(Producer[a])
      BY <2>3, <2>4, <2>6 DEF Inputs
    <3>3. Producer[a][e + 1] \in Actor
      BY <2>3, <3>2
    <3>4. Neighbor(a, x, q) = Producer[a][e + 1]
      BY <2>4, <2>5, <2>6 DEF Neighbor
    <3> QED BY <2>4, <2>5, <3>1, <3>3, <3>4
  <2>7. CASE ~(port.index < Inputs(a))
    <3>1. PICK k \in 1 .. m : k = e - n + 1
      BY <2>4, <2>7
    <3>2. Consumers[a][k] \in Seq(Actor)
      <4>1. k \in DOMAIN Consumers[a]
        BY <2>3, <2>4
      <4> QED BY <2>3, <4>1, ElementOf
    <3>3. q[2] \in DOMAIN Consumers[a][k]
      BY <2>4, <2>5, <2>7, <3>1 DEF Ways
    <3>4. q[2] \in Nat /\ Consumers[a][k][q[2]] \in Actor
      BY <3>2, <3>3, ElementOf
    <3>5. Neighbor(a, x, q) = Consumers[a][k][q[2]]
      BY <2>4, <2>5, <2>7, <3>1 DEF Neighbor
    <3> QED BY <2>4, <2>5, <3>4, <3>5
  <2> QED BY <2>6, <2>7
<1> QED BY <1>1

LEMMA WaitsFacts ==
  ASSUME NEW a \in Actor, answer[a] \in Answers[a] \union {Unasked}
  PROVE  WaitsFor(a) \subseteq Actor
BY VisitsFacts DEF WaitsFor

\* An actor that was not asked waits for nobody.
LEMMA UnaskedWaits ==
  ASSUME NEW a, answer[a] = Unasked
  PROVE  Visits(a, answer[a]) = {} /\ WaitsFor(a) = {}
<1>1. Visits(a, answer[a]) = {}
  BY DEF Visits, Unasked
<1> QED BY <1>1 DEF WaitsFor

LEMMA ReachesSelf == \A C, a : Reaches(C, a, a) /\ Mutual(C, a, a)
BY DEF Reaches, Mutual

LEMMA ReachesOn ==
  ASSUME NEW C, NEW a, NEW b, NEW c, Reaches(C, a, b), Reaches(C, b, c)
  PROVE  Reaches(C, a, c)
BY DEF Reaches

LEMMA ReachesNext ==
  ASSUME NEW a, NEW b \in WaitsFor(a)
  PROVE  Reaches(Closed, a, b)
BY DEF Reaches, Closed

LEMMA MutualOn ==
  ASSUME NEW C, NEW a, NEW b, NEW c, Mutual(C, a, b), Mutual(C, c, b)
  PROVE  Mutual(C, a, c)
BY ReachesOn DEF Mutual

\* With more edges more is reached.
LEMMA ReachesMore ==
  ASSUME \A c \in Actor : WaitsFor(c) \subseteq WaitsFor(c)'
  PROVE  \A a, b : /\ Reaches(Closed, a, b) => Reaches(Closed', a, b)
                   /\ Mutual(Closed, a, b) => Mutual(Closed', a, b)
<1>1. Closed' \subseteq Closed
  <2>1. ASSUME NEW S \in SUBSET Actor, \A c \in S : WaitsFor(c)' \subseteq S
        PROVE  \A c \in S : WaitsFor(c) \subseteq S
    BY <2>1
  <2> QED BY <2>1 DEF Closed
<1> QED BY <1>1 DEF Reaches, Mutual

LEMMA ClosedSame ==
  ASSUME UNCHANGED answer
  PROVE  Closed' = Closed /\ \A a : WaitsFor(a)' = WaitsFor(a)
BY DEF Closed, WaitsFor

\* There is room on the stack for an actor that was not visited.
LEMMA Room ==
  ASSUME Typed, Apart, NEW a \in Actor, ~Met(a)
  PROVE  depth < rpoIndex /\ depth \in Index
<1>1. depth \in Nat /\ rpoIndex \in Nat /\ rpoIndex <= numActors /\ numActors \in Nat
  BY OrderFacts DEF Typed
<1>2. SUFFICES ASSUME depth = rpoIndex PROVE FALSE
  BY <1>1 DEF Apart, Index
<1>3. Used = Index
  BY <1>1, <1>2 DEF Used, Index
<1>4. \A s \in Index : stack[s] \in Actor \ {a}
  BY <1>1, <1>2, <1>3 DEF Apart, Met, OnStack, Placed, Used, Index
<1>5. [s \in Index |-> stack[s]] \in Injection(Index, Actor \ {a})
  BY <1>3, <1>4 DEF Apart, Injection, IsInjective
<1>6. IsFiniteSet(Index) /\ Cardinality(Index) = numActors
  BY <1>1, FS_Interval DEF Index
<1>7. IsFiniteSet(Actor \ {a}) /\ Cardinality(Actor \ {a}) = numActors - 1
  BY OrderFacts, FS_RemoveElement
<1>8. Cardinality(Index) <= Cardinality(Actor \ {a})
  BY <1>5, <1>6, <1>7, FS_Injection DEF ExistsInjection
<1> QED BY <1>1, <1>6, <1>7, <1>8

-----------------------------------------------------------------------------
(* A call of visit that pushes its actor.                                  *)

From(b, q) == Neighbor(b, answer[b], q)

\* The calls that make the next: those in progress, of which the last one has
\* left the edge to a behind.
Calling(callers, a) ==
  /\ callers \in Seq(Call) /\ Len(callers) = Len(frames)
  /\ \A k \in DOMAIN frames :
       /\ callers[k].actor = frames[k].actor /\ callers[k].myIndex = frames[k].myIndex
       /\ callers[k].minIndex = frames[k].minIndex
       /\ callers[k].todo \subseteq frames[k].todo
       /\ \A q \in frames[k].todo \ callers[k].todo : From(frames[k].actor, q) = a
  /\ frames # <<>> => a \in WaitsFor(Top.actor)

\* What a push changes.
LEMMA PushEffect ==
  ASSUME Typed, Apart, Calls, Asked, NEW a \in Actor, NEW callers, Calling(callers, a),
         Push(a, callers)
  PROVE  /\ Typed' /\ depth < rpoIndex /\ depth' = depth + 1 /\ rpoIndex' = rpoIndex
         /\ stack'[depth] = a
         /\ \A s \in Index \ {depth} : stack'[s] = stack[s]
         /\ leader' = leader
         /\ \A b \in Actor \ {a} : answer'[b] = answer[b] /\ WaitsFor(b)' = WaitsFor(b)
         /\ WaitsFor(a) = {}
         /\ Len(frames') = Len(frames) + 1 /\ DOMAIN frames' = 1 .. Len(frames) + 1
         /\ \A k \in DOMAIN frames :
              /\ k \in Nat /\ k <= Len(frames) /\ frames'[k] = callers[k]
         /\ frames'[Len(frames) + 1].actor = a
         /\ frames'[Len(frames) + 1].myIndex = depth
         /\ frames'[Len(frames) + 1].minIndex = depth
         /\ frames'[Len(frames) + 1].todo = Visits(a, answer'[a])
<1>1. /\ ~Met(a) /\ answer[a] = Unasked
  BY DEF Push, Met, Asked
<1>2. depth < rpoIndex /\ depth \in Index /\ depth \in Nat /\ numActors \in Nat
  BY <1>1, Room, OrderFacts DEF Typed, Index
<1>3. /\ stack' = [stack EXCEPT ![depth] = a] /\ depth' = depth + 1
      /\ UNCHANGED <<leader, rpoIndex>>
  BY DEF Push
<1>4. PICK x \in Answers[a] :
        /\ answer' = [answer EXCEPT ![a] = x]
        /\ frames' = Append(callers, [actor |-> a, myIndex |-> depth, minIndex |-> depth,
                                      todo |-> Visits(a, x)])
  BY DEF Push
<1>5. /\ DOMAIN answer' = Actor /\ answer'[a] = x
      /\ \A b \in Actor \ {a} : answer'[b] = answer[b]
  BY <1>4 DEF Typed
<1>6. ASSUME NEW b \in Actor \ {a}
      PROVE  WaitsFor(b)' = WaitsFor(b)
  BY <1>5 DEF WaitsFor
<1>7. \A b \in Actor : answer'[b] \in Answers[b] \union {Unasked}
  BY <1>5 DEF Typed
<1>8. Visits(a, x) \subseteq Nat \X Nat
  BY VisitsFacts
<1> DEFINE call == [actor |-> a, myIndex |-> depth, minIndex |-> depth, todo |-> Visits(a, x)]
<1>9. call \in Call
  BY <1>2, <1>8 DEF Call
<1>10. /\ call.actor = a /\ call.myIndex = depth /\ call.minIndex = depth
       /\ call.todo = Visits(a, answer'[a])
  BY <1>5
<1>11. callers \in Seq(Call) /\ frames \in Seq(Call) /\ Len(callers) = Len(frames)
  BY DEF Calling, Typed
<1>12. frames' = Append(callers, call)
  BY <1>4
<1> HIDE DEF call
<1>13. /\ frames' \in Seq(Call) /\ Len(frames') = Len(frames) + 1
       /\ DOMAIN frames' = 1 .. Len(frames) + 1
       /\ frames'[Len(frames) + 1] = call
       /\ \A k \in DOMAIN frames : k \in Nat /\ k <= Len(frames) /\ frames'[k] = callers[k]
  BY <1>9, <1>11, <1>12
<1>14. /\ stack' \in [Index -> Actor \union {NoActor}] /\ stack'[depth] = a
       /\ \A s \in Index \ {depth} : stack'[s] = stack[s]
       /\ depth' \in 0 .. numActors
  BY <1>2, <1>3 DEF Typed, Index
<1>15. WaitsFor(a) = {}
  BY <1>1, UnaskedWaits
<1> QED BY <1>2, <1>3, <1>5, <1>6, <1>7, <1>10, <1>13, <1>14, <1>15 DEF Typed

LEMMA PushSearch ==
  ASSUME Search, NEW a \in Actor, NEW callers, Calling(callers, a), Push(a, callers)
  PROVE  /\ Typed' /\ Apart' /\ Calls' /\ Tied' /\ Reached' /\ Lowest' /\ Groups'
         /\ \A b \in Actor : /\ Met(b)' <=> Met(b) \/ b = a
                             /\ b # a => answer'[b] = answer[b]
<1>0. PICK n \in Nat : n = Len(frames)
  BY DEF Search, Typed
<1>1. /\ Typed' /\ depth < rpoIndex /\ depth' = depth + 1 /\ rpoIndex' = rpoIndex
      /\ stack'[depth] = a /\ leader' = leader
      /\ \A s \in Index \ {depth} : stack'[s] = stack[s]
      /\ \A b \in Actor \ {a} : answer'[b] = answer[b] /\ WaitsFor(b)' = WaitsFor(b)
      /\ WaitsFor(a) = {}
  BY PushEffect DEF Search
<1>2. /\ DOMAIN frames' = 1 .. n + 1 /\ DOMAIN frames = 1 .. n
      /\ frames'[n + 1].actor = a /\ frames'[n + 1].myIndex = depth
      /\ frames'[n + 1].minIndex = depth /\ frames'[n + 1].todo = Visits(a, answer'[a])
      /\ \A k \in DOMAIN frames :
           /\ frames'[k].actor = frames[k].actor /\ frames'[k].myIndex = frames[k].myIndex
           /\ frames'[k].minIndex = frames[k].minIndex
           /\ frames'[k].todo \subseteq frames[k].todo
           /\ \A q \in frames[k].todo \ frames'[k].todo : From(frames[k].actor, q) = a
      /\ frames # <<>> => a \in WaitsFor(frames[n].actor)
  <2>1. DOMAIN frames = 1 .. n
    BY <1>0 DEF Search, Typed
  <2>2. /\ DOMAIN frames' = 1 .. n + 1
        /\ frames'[n + 1].actor = a /\ frames'[n + 1].myIndex = depth
        /\ frames'[n + 1].minIndex = depth /\ frames'[n + 1].todo = Visits(a, answer'[a])
        /\ \A k \in DOMAIN frames : frames'[k] = callers[k]
    BY <1>0, PushEffect DEF Search
  <2>3. frames # <<>> => a \in WaitsFor(frames[n].actor)
    BY <1>0 DEF Calling, Top
  <2> QED BY <2>1, <2>2, <2>3 DEF Calling
<1>3. /\ depth \in Nat /\ rpoIndex \in Nat /\ rpoIndex <= numActors /\ numActors \in Nat
      /\ depth \in Index /\ Index = 0 .. numActors - 1 /\ ~Met(a)
  BY <1>1, OrderFacts DEF Search, Typed, Push, Met
<1>4. \A b, c : /\ Reaches(Closed, b, c) => Reaches(Closed', b, c)
                /\ Mutual(Closed, b, c) => Mutual(Closed', b, c)
  BY <1>1, ReachesMore
<1>5. Used' = Used \union {depth} /\ depth \notin Used /\ Used \subseteq Index \ {depth}
  BY <1>1, <1>3 DEF Used
<1>6. \A s \in Used : stack[s] # a
  BY <1>3 DEF Used, Met, OnStack, Placed
<1>7. Apart'
  BY <1>1, <1>3, <1>5, <1>6 DEF Search, Apart
<1>8. \A b : /\ OnStack(b)' <=> OnStack(b) \/ b = a
             /\ Placed(b)' <=> Placed(b)
  <2>1. 0 .. depth' - 1 = (0 .. depth - 1) \union {depth} /\ depth \notin rpoIndex .. numActors - 1
    BY <1>1, <1>3
  <2>2. \A s \in (0 .. depth - 1) \union (rpoIndex .. numActors - 1) : stack'[s] = stack[s]
    BY <1>1, <1>3
  <2> QED BY <1>1, <2>1, <2>2 DEF OnStack, Placed
<1>9. \A k \in DOMAIN frames :
        /\ frames[k].actor \in Actor /\ frames[k].myIndex \in Nat /\ frames[k].minIndex \in Nat
        /\ frames[k].myIndex < depth /\ frames[k].minIndex <= frames[k].myIndex
        /\ stack[frames[k].myIndex] = frames[k].actor
        /\ frames[k].myIndex \in Index /\ frames[k].minIndex \in Index
        /\ frames[k].myIndex \in Used
        /\ frames[k].actor # a
  <2>1. ASSUME NEW k \in DOMAIN frames PROVE frames[k] \in Call
    BY <2>1 DEF Search, Typed
  <2>2. ASSUME NEW k \in DOMAIN frames
        PROVE  /\ frames[k].actor \in Actor
               /\ frames[k].myIndex \in Index /\ frames[k].minIndex \in Index
    BY <2>1 DEF Call
  <2>3. ASSUME NEW k \in DOMAIN frames
        PROVE  /\ frames[k].myIndex < depth /\ frames[k].minIndex <= frames[k].myIndex
               /\ stack[frames[k].myIndex] = frames[k].actor
    BY DEF Search, Calls
  <2>4. ASSUME NEW k \in DOMAIN frames PROVE frames[k].myIndex \in Used
    BY <1>3, <2>2, <2>3 DEF Used
  <2> QED BY <1>3, <1>6, <2>2, <2>3, <2>4
<1>10. \A k \in DOMAIN frames : \A s : Within(k, s)' => s \in 0 .. depth - 1 /\ Within(k, s)
  <2>1. ASSUME NEW k \in DOMAIN frames, NEW s, Within(k, s)' PROVE s \in 0 .. depth - 1 /\ Within(k, s)
    <3>1. n + 1 \in DOMAIN frames' /\ k < n + 1 /\ k \in DOMAIN frames' /\ k \in Nat
      BY <1>2
    <3>2. /\ s \in frames'[k].myIndex .. depth' - 1
          /\ \A l \in DOMAIN frames' : k < l => s < frames'[l].myIndex
      BY <2>1 DEF Within
    <3>3. PICK m \in Nat : m = frames[k].myIndex /\ m = frames'[k].myIndex
      BY <1>2, <1>9
    <3>4. s < depth
      BY <1>2, <3>1, <3>2
    <3>5. s \in m .. depth - 1
      BY <1>1, <1>3, <3>2, <3>3, <3>4
    <3>6. \A l \in DOMAIN frames : k < l => s < frames[l].myIndex
      BY <1>2, <3>2
    <3> QED BY <1>3, <3>3, <3>5, <3>6 DEF Within
  <2> QED BY <2>1
<1>11. \A k \in DOMAIN frames : \A s : Within(k, s) => Within(k, s)'
  <2>1. ASSUME NEW k \in DOMAIN frames, NEW s, Within(k, s) PROVE Within(k, s)'
    <3>1. PICK m \in Nat : m = frames[k].myIndex /\ m = frames'[k].myIndex
      BY <1>2, <1>9
    <3>2. s \in m .. depth - 1 /\ \A l \in DOMAIN frames : k < l => s < frames[l].myIndex
      BY <2>1, <3>1 DEF Within
    <3>3. s \in m .. depth' - 1 /\ s < depth
      BY <1>1, <1>3, <3>2
    <3>4. \A l \in DOMAIN frames' : k < l => s < frames'[l].myIndex
      BY <1>2, <3>2, <3>3
    <3> QED BY <3>1, <3>3, <3>4 DEF Within
  <2> QED BY <2>1
<1>12. \A s : Within(n + 1, s)' <=> s = depth
  <2>1. \A l \in DOMAIN frames' : ~(n + 1 < l)
    BY <1>2
  <2>2. \A s : s \in depth .. depth' - 1 <=> s = depth
    BY <1>1, <1>3
  <2> QED BY <1>2, <2>1, <2>2 DEF Within
<1>13. Calls'
  <2>1. ASSUME NEW k \in DOMAIN frames'
        PROVE  /\ frames'[k].myIndex < depth' /\ stack'[frames'[k].myIndex] = frames'[k].actor
               /\ frames'[k].minIndex <= frames'[k].myIndex
               /\ frames'[k].todo \subseteq Visits(frames'[k].actor, answer'[frames'[k].actor])
    <3>1. CASE k \in DOMAIN frames
      <4>1. stack'[frames[k].myIndex] = frames[k].actor
        BY <1>1, <1>3, <1>9, <3>1
      <4>2. frames[k].todo \subseteq Visits(frames[k].actor, answer[frames[k].actor])
        BY <3>1 DEF Search, Calls
      <4> QED BY <1>1, <1>2, <1>3, <1>9, <3>1, <4>1, <4>2
    <3>2. CASE k = n + 1
      BY <1>1, <1>2, <1>3, <3>2
    <3> QED BY <1>2, <3>1, <3>2
  <2>2. ASSUME NEW k \in DOMAIN frames', NEW l \in DOMAIN frames', k < l
        PROVE  /\ frames'[k].myIndex < frames'[l].myIndex
               /\ Reaches(Closed', frames'[k].actor, frames'[l].actor)
    <3>1. CASE l \in DOMAIN frames
      <4>1. k \in DOMAIN frames
        BY <1>2, <2>2, <3>1
      <4>2. frames[k].myIndex < frames[l].myIndex /\ Reaches(Closed, frames[k].actor, frames[l].actor)
        BY <2>2, <3>1, <4>1 DEF Search, Calls
      <4> QED BY <1>2, <1>4, <3>1, <4>1, <4>2
    <3>2. CASE l = n + 1
      <4>1. k \in DOMAIN frames /\ n \in DOMAIN frames
        BY <1>2, <2>2, <3>2
      <4>2. Reaches(Closed, frames[k].actor, frames[n].actor)
        BY <1>2, <4>1, ReachesSelf DEF Search, Calls
      <4>3. Reaches(Closed, frames[n].actor, a)
        <5>1. frames # <<>>
          BY <4>1
        <5> QED BY <1>2, <5>1, ReachesNext
      <4>4. Reaches(Closed', frames[k].actor, a)
        BY <1>4, <4>2, <4>3, ReachesOn
      <4> QED BY <1>2, <1>9, <3>2, <4>1, <4>4
    <3> QED BY <1>2, <3>1, <3>2
  <2>3. ASSUME NEW s \in 0 .. depth' - 1
        PROVE  \E k \in DOMAIN frames' : Within(k, s)'
    <3>1. CASE s = depth
      BY <1>2, <1>12, <3>1
    <3>2. CASE s # depth
      <4>1. s \in 0 .. depth - 1
        BY <1>1, <1>3, <3>2
      <4>2. PICK k \in DOMAIN frames : Within(k, s)
        BY <4>1 DEF Search, Calls
      <4> QED BY <1>2, <1>11, <4>2
    <3> QED BY <3>1, <3>2
  <2> QED BY <2>1, <2>2, <2>3 DEF Calls
<1>14. Tied'
  <2>1. ASSUME NEW k \in DOMAIN frames', NEW s \in Index, Within(k, s)'
        PROVE  Mutual(Closed', stack'[s], frames'[k].actor)
    <3>1. CASE k \in DOMAIN frames
      <4>1. s \in Index \ {depth} /\ Within(k, s)
        BY <1>3, <1>10, <2>1, <3>1
      <4>2. Mutual(Closed, stack[s], frames[k].actor)
        BY <3>1, <4>1 DEF Search, Tied
      <4> QED BY <1>1, <1>2, <1>4, <3>1, <4>1, <4>2
    <3>2. CASE k = n + 1
      <4>1. stack'[s] = a /\ frames'[k].actor = a
        BY <1>1, <1>2, <1>12, <2>1, <3>2
      <4>2. Mutual(Closed, a, a)
        BY ReachesSelf
      <4> QED BY <1>4, <4>1, <4>2
    <3> QED BY <1>2, <3>1, <3>2
  <2> QED BY <2>1 DEF Tied
<1>15. Reached'
  <2>1. ASSUME NEW k \in DOMAIN frames'
        PROVE  Reaches(Closed', frames'[k].actor, stack'[frames'[k].minIndex])
    <3>1. CASE k \in DOMAIN frames
      <4>1. Reaches(Closed, frames[k].actor, stack[frames[k].minIndex])
        BY <3>1 DEF Search, Reached
      <4>2. frames[k].minIndex \in Index \ {depth}
        BY <1>3, <1>9, <3>1
      <4> QED BY <1>1, <1>2, <1>4, <3>1, <4>1, <4>2
    <3>2. CASE k = n + 1
      <4>1. stack'[frames'[k].minIndex] = a /\ frames'[k].actor = a
        BY <1>1, <1>2, <3>2
      <4>2. Reaches(Closed, a, a)
        BY ReachesSelf
      <4> QED BY <1>4, <4>1, <4>2
    <3> QED BY <1>2, <3>1, <3>2
  <2> QED BY <2>1 DEF Reached
<1>16. Lowest'
  <2>1. ASSUME NEW k \in DOMAIN frames', NEW s \in Index, Within(k, s)', NEW q \in Gone(k, s)'
        PROVE  Arrived(Edge(s, q), frames[k].minIndex)'
    <3>1. CASE k \in DOMAIN frames
      <4>1. s \in 0 .. depth - 1 /\ Within(k, s)
        BY <1>10, <2>1, <3>1
      <4>2. /\ stack'[s] = stack[s] /\ stack[s] \in Actor \ {a}
        BY <1>1, <1>3, <1>5, <1>6, <4>1 DEF Search, Apart, Used
      <4>3. /\ answer'[stack[s]] = answer[stack[s]]
            /\ Edge(s, q)' = Edge(s, q) /\ From(stack[s], q) = Edge(s, q)
        BY <1>1, <4>2 DEF Edge, From
      <4>4. ASSUME Arrived(Edge(s, q), frames[k].minIndex) \/ Edge(s, q) = a
            PROVE  Arrived(Edge(s, q), frames[k].minIndex)'
        <5> DEFINE b == Edge(s, q)
        <5>1. CASE Placed(b)
          BY <1>8, <4>3, <5>1 DEF Arrived
        <5>2. CASE \E t \in frames[k].minIndex .. depth - 1 : stack[t] = b
          <6>1. PICK t \in frames[k].minIndex .. depth - 1 : stack[t] = b
            BY <5>2
          <6>2. t \in Index \ {depth} /\ t \in frames[k].minIndex .. depth' - 1
            BY <1>1, <1>3, <1>9, <3>1, <6>1
          <6>3. stack'[t] = b
            BY <1>1, <6>1, <6>2
          <6> QED BY <1>2, <3>1, <4>3, <6>2, <6>3 DEF Arrived
        <5>3. CASE b = a
          <6>1. depth \in frames[k].minIndex .. depth' - 1
            BY <1>1, <1>3, <1>9, <3>1
          <6> QED BY <1>1, <1>2, <3>1, <4>3, <5>3, <6>1 DEF Arrived
        <5> QED BY <4>4, <5>1, <5>2, <5>3 DEF Arrived
      <4>5. CASE q \in Gone(k, s)
        BY <3>1, <4>1, <4>4, <4>5 DEF Search, Lowest, Index
      <4>6. CASE q \notin Gone(k, s)
        <5>1. s = frames[k].myIndex /\ q \in frames[k].todo \ frames'[k].todo
          BY <1>2, <2>1, <3>1, <4>2, <4>3, <4>6 DEF Gone
        <5>2. stack[s] = frames[k].actor
          BY <1>9, <3>1, <5>1
        <5> QED BY <1>2, <3>1, <4>3, <4>4, <5>1, <5>2
      <4> QED BY <4>5, <4>6
    <3>2. CASE k = n + 1
      <4>1. s = depth /\ stack'[s] = a /\ frames'[k].myIndex = depth
        BY <1>1, <1>2, <1>12, <2>1, <3>2
      <4>2. Gone(k, s)' = {}
        BY <1>2, <3>2, <4>1 DEF Gone
      <4> QED BY <2>1, <4>2
    <3> QED BY <1>2, <3>1, <3>2
  <2> QED BY <2>1 DEF Lowest
<1>17. Groups'
  <2>1. Complete' = Complete /\ Complete \subseteq Used /\ Complete \subseteq Index \ {depth}
    BY <1>1, <1>3 DEF Complete, Used
  <2>2. \A s \in Complete : /\ stack'[s] = stack[s] /\ leader'[s] = leader[s]
                            /\ stack[s] \in Actor \ {a} /\ WaitsFor(stack[s])' = WaitsFor(stack[s])
    <3>1. ASSUME NEW s \in Complete
          PROVE  /\ stack'[s] = stack[s] /\ leader'[s] = leader[s] /\ stack[s] \in Actor \ {a}
      BY <1>1, <1>6, <2>1 DEF Search, Apart
    <3>2. ASSUME NEW s \in Complete PROVE WaitsFor(stack[s])' = WaitsFor(stack[s])
      <4>1. PICK b \in Actor \ {a} : b = stack[s] /\ b = stack'[s]
        BY <3>1
      <4>2. WaitsFor(b)' = WaitsFor(b)
        BY <1>1
      <4> QED BY <4>1, <4>2 DEF WaitsFor
    <3> QED BY <3>1, <3>2
  <2>3. Contiguous'
    <3>1. ASSUME NEW s \in Complete
          PROVE  \E t \in s .. numActors - 1 :
                   stack'[t] = leader'[s] /\ \A r \in s .. t : leader'[r] = leader'[s]
      <4>1. PICK t \in s .. numActors - 1 :
                   stack[t] = leader[s] /\ \A r \in s .. t : leader[r] = leader[s]
        BY DEF Search, Groups, Contiguous
      <4>2. t \in Complete
        BY <1>3, <4>1 DEF Complete
      <4> QED BY <1>1, <2>2, <4>1, <4>2
    <3> QED BY <2>1, <3>1 DEF Contiguous
  <2>4. Connected'
    <3>1. ASSUME NEW s \in Complete, NEW t \in Complete, leader'[s] = leader'[t]
          PROVE  Mutual(Closed', stack'[s], stack'[t])
      BY <1>4, <2>2, <3>1 DEF Search, Groups, Connected
    <3> QED BY <2>1, <3>1 DEF Connected
  <2>5. Sorted'
    <3>1. ASSUME NEW s \in Complete, NEW b \in WaitsFor(stack[s])'
          PROVE  \E t \in Complete : stack'[t] = b /\ (t >= s \/ leader'[t] = leader'[s])
      BY <2>2, <3>1 DEF Search, Groups, Sorted
    <3> QED BY <2>1, <3>1 DEF Sorted
  <2> QED BY <2>3, <2>4, <2>5 DEF Groups
<1>18. \A b \in Actor : /\ Met(b)' <=> Met(b) \/ b = a
                        /\ b # a => answer'[b] = answer[b]
  BY <1>1, <1>8 DEF Met
<1> QED BY <1>1, <1>7, <1>13, <1>14, <1>15, <1>16, <1>17, <1>18

-----------------------------------------------------------------------------
(* A call of visit that has seen its actor before.                         *)

LEMMA CallFacts ==
  ASSUME Typed, Calls
  PROVE  /\ Len(frames) \in Nat /\ DOMAIN frames = 1 .. Len(frames)
         /\ \A k \in DOMAIN frames :
              /\ k \in Nat /\ frames[k] \in Call
              /\ frames[k].actor \in Actor /\ frames[k].todo \subseteq Nat \X Nat
              /\ frames[k].myIndex \in Nat /\ frames[k].minIndex \in Nat
              /\ frames[k].myIndex \in Index /\ frames[k].minIndex \in Index
              /\ frames[k].minIndex <= frames[k].myIndex /\ frames[k].myIndex < depth
              /\ stack[frames[k].myIndex] = frames[k].actor
         /\ depth \in Nat /\ rpoIndex \in Nat /\ numActors \in Nat
         /\ depth <= numActors /\ rpoIndex <= numActors /\ Index = 0 .. numActors - 1
<1>1. Len(frames) \in Nat /\ DOMAIN frames = 1 .. Len(frames)
  BY DEF Typed
<1>2. /\ depth \in Nat /\ rpoIndex \in Nat /\ numActors \in Nat
      /\ depth <= numActors /\ rpoIndex <= numActors /\ Index = 0 .. numActors - 1
  BY OrderFacts DEF Typed
<1>3. ASSUME NEW k \in DOMAIN frames
      PROVE  /\ k \in Nat /\ frames[k] \in Call
             /\ frames[k].actor \in Actor /\ frames[k].todo \subseteq Nat \X Nat
             /\ frames[k].myIndex \in Nat /\ frames[k].minIndex \in Nat
             /\ frames[k].myIndex \in Index /\ frames[k].minIndex \in Index
             /\ frames[k].minIndex <= frames[k].myIndex /\ frames[k].myIndex < depth
             /\ stack[frames[k].myIndex] = frames[k].actor
  <2>1. k \in Nat /\ frames[k] \in Call
    BY ElementOf DEF Typed
  <2>2. /\ frames[k].actor \in Actor /\ frames[k].todo \subseteq Nat \X Nat
        /\ frames[k].myIndex \in Index /\ frames[k].minIndex \in Index
    BY <2>1 DEF Call
  <2>3. Index \subseteq Nat
    BY <1>2
  <2>4. /\ frames[k].minIndex <= frames[k].myIndex /\ frames[k].myIndex < depth
        /\ stack[frames[k].myIndex] = frames[k].actor
    BY DEF Calls
  <2> QED BY <2>1, <2>2, <2>3, <2>4
<1> QED BY <1>1, <1>2, <1>3

\* What a call that has seen its actor does to minIndex.
LEMMA SeenFacts ==
  ASSUME Typed, Calls, frames # <<>>, NEW a \in Actor, Met(a),
         NEW min, min = Lower(Top.minIndex, Seen(a))
  PROVE  /\ min \in Index /\ min \in Nat /\ min <= Top.minIndex
         /\ min = Top.minIndex \/ stack[min] = a
         /\ Arrived(a, min)
<1>1. PICK m \in Nat : m = Top.minIndex /\ m \in Index /\ m < depth
  <2>1. Len(frames) \in DOMAIN frames
    BY CallFacts DEF Typed
  <2> QED BY <2>1, CallFacts DEF Top
<1>2. CASE OnStack(a)
  <2>1. PICK t \in 0 .. depth - 1 : stack[t] = a /\ Seen(a) = t
    BY <1>2 DEF OnStack, Seen
  <2>2. min = IF t < m THEN t ELSE m
    BY <1>1, <2>1 DEF Lower
  <2>3. t \in min .. depth - 1 /\ min \in Nat /\ min <= m
    BY <1>1, <2>1, <2>2, CallFacts
  <2>4. min \in Index
    BY <1>1, <2>1, <2>2, <2>3, CallFacts
  <2> QED BY <1>1, <2>1, <2>2, <2>3, <2>4 DEF Arrived
<1>3. CASE ~OnStack(a)
  <2>1. Seen(a) = depth /\ Placed(a)
    BY <1>3 DEF Seen, Met
  <2>2. min = m
    BY <1>1, <2>1, CallFacts DEF Lower
  <2> QED BY <1>1, <2>1, <2>2 DEF Arrived
<1> QED BY <1>2, <1>3

LEMMA GroupsSame ==
  ASSUME Groups, UNCHANGED <<answer, stack, leader, rpoIndex>>
  PROVE  Groups'
<1>1. /\ Closed' = Closed /\ \A b : WaitsFor(b)' = WaitsFor(b)
      /\ stack' = stack /\ leader' = leader /\ Complete' = Complete
  BY ClosedSame DEF Complete
<1>2. Contiguous'
  BY <1>1 DEF Groups, Contiguous
<1>3. Connected'
  BY <1>1 DEF Groups, Connected
<1>4. Sorted'
  <2>1. ASSUME NEW s \in Complete
        PROVE  \A b \in WaitsFor(stack[s])' : \E t \in Complete :
                 stack[t] = b /\ (t >= s \/ leader[t] = leader[s])
    <3>1. WaitsFor(stack[s])' = WaitsFor(stack[s])
      BY <1>1 DEF WaitsFor
    <3> QED BY <3>1 DEF Groups, Sorted
  <2> QED BY <1>1, <2>1 DEF Sorted
<1> QED BY <1>2, <1>3, <1>4 DEF Groups

LEMMA SeenSearch ==
  ASSUME Search, frames # <<>>, NEW q \in Top.todo,
         Met(Neighbor(Top.actor, answer[Top.actor], q)),
         frames' = [Visited(q) EXCEPT ![Len(frames)].minIndex =
                      Lower(@, Seen(Neighbor(Top.actor, answer[Top.actor], q)))],
         UNCHANGED <<answer, stack, leader, depth, rpoIndex, outer>>
  PROVE  Search'
<1>1. PICK n \in Nat : n = Len(frames) /\ n \in DOMAIN frames /\ DOMAIN frames = 1 .. n
  BY CallFacts DEF Search, Typed
<1>2. PICK a \in Actor : a = Neighbor(Top.actor, answer[Top.actor], q)
  <2>1. Top.actor \in Actor /\ q \in Visits(Top.actor, answer[Top.actor])
    BY <1>1, CallFacts DEF Search, Calls, Top
  <2> QED BY <2>1, VisitsFacts DEF Search, Typed
<1>3. a \in WaitsFor(frames[n].actor) /\ Met(a)
  BY <1>1, <1>2 DEF WaitsFor, Search, Calls, Top
<1>4. PICK min : min = Lower(Top.minIndex, Seen(a))
  OBVIOUS
<1>5. /\ min \in Index /\ min \in Nat /\ min <= frames[n].minIndex
      /\ min = frames[n].minIndex \/ stack[min] = a
      /\ Arrived(a, min)
  BY <1>1, <1>3, <1>4, SeenFacts DEF Search, Top
<1>6. PICK f \in Call : f = frames[n] /\ Top = f
  BY <1>1, CallFacts DEF Search, Top
<1>7. /\ frames' \in Seq(Call) /\ DOMAIN frames' = DOMAIN frames /\ Len(frames') = n
      /\ \A k \in DOMAIN frames : k # n => frames'[k] = frames[k]
      /\ frames'[n].actor = frames[n].actor /\ frames'[n].myIndex = frames[n].myIndex
      /\ frames'[n].todo = frames[n].todo \ {q} /\ frames'[n].minIndex = min
  <2>1. PICK h : h = [f EXCEPT !.todo = f.todo \ {q}]
    OBVIOUS
  <2>2. PICK g : g = [h EXCEPT !.minIndex = min]
    OBVIOUS
  <2>3. /\ h \in Call /\ h.minIndex = f.minIndex
        /\ g \in Call /\ g.actor = f.actor /\ g.myIndex = f.myIndex
        /\ g.todo = f.todo \ {q} /\ g.minIndex = min
    BY <1>5, <2>1, <2>2 DEF Call
  <2>4. frames \in Seq(Call)
    BY DEF Search, Typed
  <2>5. PICK called : called = Visited(q)
    OBVIOUS
  <2>6. called = [frames EXCEPT ![n] = h]
    BY <1>1, <1>6, <2>1, <2>5 DEF Visited
  <2>7. called \in Seq(Call) /\ DOMAIN called = 1 .. n /\ called[n] = h
    BY <1>1, <2>3, <2>4, <2>6
  <2>8. frames' = [called EXCEPT ![n] = g]
    <3>1. frames' = [called EXCEPT ![n].minIndex = min]
      BY <1>1, <1>2, <1>4, <1>6, <2>3, <2>5, <2>7
    <3> QED BY <1>1, <2>2, <2>7, <3>1
  <2> QED BY ONLY <1>1, <1>6, <2>3, <2>4, <2>6, <2>7, <2>8
<1>8. /\ Closed' = Closed /\ \A b : WaitsFor(b)' = WaitsFor(b)
      /\ answer' = answer /\ stack' = stack /\ leader' = leader
      /\ depth' = depth /\ rpoIndex' = rpoIndex /\ outer' = outer
  BY ClosedSame
<1>9. \A k \in DOMAIN frames :
        /\ k \in Nat
        /\ frames'[k].actor = frames[k].actor /\ frames'[k].myIndex = frames[k].myIndex
        /\ frames'[k].todo \subseteq frames[k].todo
        /\ frames'[k].minIndex <= frames[k].minIndex
        /\ frames'[k].minIndex \in Nat
        /\ frames[k].minIndex \in Nat /\ frames[k].myIndex \in Nat
        /\ frames[k].minIndex <= frames[k].myIndex
  <2>1. ASSUME NEW k \in DOMAIN frames
        PROVE  /\ k \in Nat /\ frames[k].todo = frames[k].todo
               /\ frames[k].minIndex \in Nat /\ frames[k].myIndex \in Nat
               /\ frames[k].minIndex <= frames[k].myIndex
    BY CallFacts DEF Search
  <2>2. ASSUME NEW k \in DOMAIN frames
        PROVE  /\ frames'[k].actor = frames[k].actor /\ frames'[k].myIndex = frames[k].myIndex
               /\ frames'[k].todo \subseteq frames[k].todo
               /\ frames'[k].minIndex <= frames[k].minIndex /\ frames'[k].minIndex \in Nat
    <3>1. CASE k = n
      BY <1>5, <1>7, <3>1
    <3>2. CASE k # n
      BY <1>7, <2>1, <3>2
    <3> QED BY <3>1, <3>2
  <2> QED BY <2>1, <2>2
<1>10. \A k \in DOMAIN frames : \A s : Within(k, s)' <=> Within(k, s)
  BY <1>7, <1>8, <1>9 DEF Within
<1>11. Typed' /\ Apart' /\ Groups' /\ Asked'
  <2>1. Typed' /\ Apart'
    BY <1>7, <1>8 DEF Search, Typed, Apart, Used
  <2>2. Groups'
    BY <1>8, GroupsSame DEF Search
  <2>3. Asked'
    BY <1>8 DEF Search, Asked, Met, OnStack, Placed
  <2> QED BY <2>1, <2>2, <2>3
<1>12. Calls'
  <2>1. ASSUME NEW k \in DOMAIN frames
        PROVE  /\ frames'[k].myIndex < depth' /\ stack'[frames'[k].myIndex] = frames'[k].actor
               /\ frames'[k].minIndex <= frames'[k].myIndex
               /\ frames'[k].todo \subseteq Visits(frames'[k].actor, answer'[frames'[k].actor])
    <3>1. /\ frames[k].myIndex < depth /\ stack[frames[k].myIndex] = frames[k].actor
          /\ frames[k].todo \subseteq Visits(frames[k].actor, answer[frames[k].actor])
      BY DEF Search, Calls
    <3>2. frames'[k].minIndex <= frames[k].myIndex
      BY <1>9
    <3> QED BY <1>8, <1>9, <3>1, <3>2
  <2>2. ASSUME NEW k \in DOMAIN frames, NEW l \in DOMAIN frames, k < l
        PROVE  /\ frames'[k].myIndex < frames'[l].myIndex
               /\ Reaches(Closed', frames'[k].actor, frames'[l].actor)
    BY <1>8, <1>9, <2>2 DEF Search, Calls
  <2>3. ASSUME NEW s \in 0 .. depth - 1
        PROVE  \E k \in DOMAIN frames : Within(k, s)'
    BY <1>10 DEF Search, Calls
  <2> QED BY <1>7, <1>8, <2>1, <2>2, <2>3 DEF Calls
<1>13. Tied'
  <2>1. ASSUME NEW k \in DOMAIN frames, NEW s \in Index, Within(k, s)'
        PROVE  Mutual(Closed', stack'[s], frames'[k].actor)
    BY <1>8, <1>9, <1>10, <2>1 DEF Search, Tied
  <2> QED BY <1>7, <2>1 DEF Tied
<1>14. Reached'
  <2>1. ASSUME NEW k \in DOMAIN frames
        PROVE  Reaches(Closed', frames'[k].actor, stack'[frames'[k].minIndex])
    <3>1. Reaches(Closed, frames[k].actor, stack[frames[k].minIndex])
      BY DEF Search, Reached
    <3>2. CASE k # n \/ min = frames[n].minIndex
      BY <1>7, <1>8, <1>9, <3>1, <3>2
    <3>3. CASE k = n /\ stack[min] = a
      BY <1>3, <1>7, <1>8, <1>9, <3>3, ReachesNext
    <3> QED BY <1>5, <3>2, <3>3
  <2> QED BY <1>7, <2>1 DEF Reached
<1>15. Lowest'
  <2>1. ASSUME NEW k \in DOMAIN frames, NEW s \in Index, Within(k, s)', NEW o \in Gone(k, s)'
        PROVE  Arrived(Edge(s, o), frames[k].minIndex)'
    <3>1. Within(k, s) /\ Edge(s, o)' = Edge(s, o)
      BY <1>8, <1>10, <2>1 DEF Edge
    <3>2. ASSUME NEW b, Arrived(b, frames[k].minIndex)
          PROVE  Arrived(b, frames[k].minIndex)'
      <4>1. CASE Placed(b)
        BY <1>8, <4>1 DEF Arrived, Placed
      <4>2. CASE \E t \in frames[k].minIndex .. depth - 1 : stack[t] = b
        <5>1. PICK t \in frames[k].minIndex .. depth - 1 : stack[t] = b
          BY <4>2
        <5>2. t \in frames'[k].minIndex .. depth' - 1
          BY <1>8, <1>9, <5>1, CallFacts DEF Search
        <5> QED BY <1>8, <5>1, <5>2 DEF Arrived
      <4> QED BY <3>2, <4>1, <4>2 DEF Arrived
    <3>3. CASE o \in Gone(k, s)
      <4>1. Arrived(Edge(s, o), frames[k].minIndex)
        BY <3>1, <3>3 DEF Search, Lowest
      <4> QED BY <3>1, <3>2, <4>1 DEF Arrived, Placed
    <3>4. CASE o \notin Gone(k, s)
      <4>1. s = frames[k].myIndex /\ o \in frames[k].todo \ frames'[k].todo
        BY <1>8, <1>9, <2>1, <3>4 DEF Gone
      <4>2. k = n /\ o = q
        BY <1>7, <4>1
      <4>3. stack[s] = frames[n].actor
        BY <1>1, <4>1, <4>2, CallFacts DEF Search
      <4>4. Edge(s, o) = a
        BY <1>1, <1>2, <4>2, <4>3 DEF Edge, Top
      <4>5. Arrived(a, min)'
        BY <1>5, <1>8 DEF Arrived, Placed
      <4> QED BY <1>7, <3>1, <4>2, <4>4, <4>5 DEF Arrived, Placed
    <3> QED BY <3>3, <3>4
  <2> QED BY <1>7, <2>1 DEF Lowest
<1> QED BY <1>11, <1>12, <1>13, <1>14, <1>15 DEF Search

-----------------------------------------------------------------------------
(* The end of a call of visit.                                             *)

\* The caller goes on with what remains of the calls.
LEMMA ReturnFacts ==
  ASSUME Typed, Calls, frames # <<>>,
         NEW n \in Nat, n = Len(frames),
         frames' = LET callers == Front(frames)
                   IN IF callers = <<>> THEN <<>>
                      ELSE [callers EXCEPT ![Len(callers)].minIndex = Lower(@, Top.minIndex)]
  PROVE  /\ n \in DOMAIN frames /\ Top = frames[n]
         /\ frames' \in Seq(Call) /\ DOMAIN frames' = 1 .. n - 1
         /\ \A k \in 1 .. n - 1 :
              /\ k \in DOMAIN frames
              /\ frames'[k].actor = frames[k].actor /\ frames'[k].myIndex = frames[k].myIndex
              /\ frames'[k].todo = frames[k].todo
              /\ k # n - 1 => frames'[k].minIndex = frames[k].minIndex
              /\ k = n - 1 => frames'[k].minIndex = Lower(frames[k].minIndex, frames[n].minIndex)
<1>1. n >= 1 /\ n \in DOMAIN frames /\ Top = frames[n] /\ DOMAIN frames = 1 .. n
  BY CallFacts DEF Top, Typed
<1>2. PICK callers \in Seq(Call) : callers = Front(frames) /\ Len(callers) = n - 1
                                   /\ \A k \in 1 .. n - 1 : callers[k] = frames[k]
  <2>1. frames \in Seq(Call)
    BY DEF Typed
  <2>2. SubSeq(frames, 1, n - 1) = [k \in 1 .. n - 1 |-> frames[k]]
    <3>1. SubSeq(frames, 1, n - 1) = [k \in 1 .. n - 1 |-> frames[1 + k - 1]]
      BY <1>1, <2>1
    <3>2. \A k \in 1 .. n - 1 : frames[1 + k - 1] = frames[k]
      BY <1>1
    <3> QED BY <3>1, <3>2
  <2>3. Front(frames) = SubSeq(frames, 1, n - 1)
    BY DEF Front
  <2>4. PICK callers : callers = Front(frames) /\ callers = [k \in 1 .. n - 1 |-> frames[k]]
    BY <2>2, <2>3
  <2>5. \A k \in 1 .. n - 1 : frames[k] \in Call
    BY <1>1, <2>1
  <2>6. callers \in Seq(Call) /\ Len(callers) = n - 1
    BY <1>1, <2>4, <2>5
  <2> QED BY <2>4, <2>6
<1>3. PICK min \in Nat : min = Top.minIndex
  BY <1>1, CallFacts
<1>4. CASE n = 1
  <2>1. frames' = <<>>
    BY <1>2, <1>4
  <2> QED BY <1>1, <1>4, <2>1
<1>5. CASE n # 1
  <2>1. PICK p \in Nat : p = n - 1 /\ p >= 1 /\ p \in DOMAIN frames
    BY <1>1, <1>5
  <2>2. PICK f \in Call : f = frames[p] /\ f.minIndex \in Index
    BY <2>1, CallFacts
  <2>3. PICK low : low = Lower(f.minIndex, min)
    OBVIOUS
  <2>4. low \in Index
    BY <1>1, <1>3, <2>2, <2>3, CallFacts DEF Lower
  <2>5. PICK g : g = [f EXCEPT !.minIndex = low]
    OBVIOUS
  <2>6. g \in Call /\ g.actor = f.actor /\ g.myIndex = f.myIndex /\ g.todo = f.todo /\ g.minIndex = low
    BY <2>4, <2>5 DEF Call
  <2>7. callers[p] = f /\ callers # <<>> /\ Len(callers) = p
    BY <1>2, <2>1, <2>2
  <2>8. frames' = [callers EXCEPT ![p] = g]
    BY <1>2, <1>3, <2>3, <2>5, <2>7
  <2>9. /\ frames' \in Seq(Call) /\ DOMAIN frames' = 1 .. p /\ frames'[p] = g
        /\ \A k \in 1 .. p : k # p => frames'[k] = callers[k]
    BY ONLY <1>2, <2>1, <2>6, <2>7, <2>8
  <2>10. ASSUME NEW k \in 1 .. n - 1
         PROVE  /\ k \in DOMAIN frames
                /\ frames'[k].actor = frames[k].actor /\ frames'[k].myIndex = frames[k].myIndex
                /\ frames'[k].todo = frames[k].todo
                /\ k # n - 1 => frames'[k].minIndex = frames[k].minIndex
                /\ k = n - 1 => frames'[k].minIndex = Lower(frames[k].minIndex, frames[n].minIndex)
    <3>1. CASE k = p
      BY <1>1, <1>3, <2>1, <2>2, <2>3, <2>6, <2>9, <3>1
    <3>2. CASE k # p
      BY <1>1, <1>2, <2>1, <2>9, <3>2
    <3> QED BY <3>1, <3>2
  <2> QED BY <1>1, <2>1, <2>9, <2>10
<1> QED BY <1>4, <1>5

\* Within, once the last call is over.
LEMMA ReturnWithin ==
  ASSUME Typed, Calls, NEW n \in Nat, n = Len(frames), n \in DOMAIN frames,
         DOMAIN frames' = 1 .. n - 1,
         \A k \in 1 .. n - 1 : frames'[k].myIndex = frames[k].myIndex
  PROVE  /\ depth' = depth => \A s \in Nat : \A k \in 1 .. n - 1 :
              Within(k, s)' => Within(k, s) \/ (k = n - 1 /\ Within(n, s))
         /\ depth' = frames[n].myIndex => \A s \in Nat : \A k \in 1 .. n - 1 :
              Within(k, s)' => Within(k, s)
         /\ depth' = frames[n].myIndex => \A s \in Nat : \A k \in 1 .. n - 1 :
              Within(k, s) => Within(k, s)'
         /\ depth' = depth => \A s \in Nat : \A k \in 1 .. n - 1 : Within(k, s) => Within(k, s)'
         /\ depth' = depth /\ n > 1 => \A s \in Nat : Within(n, s) => Within(n - 1, s)'
<1>1. /\ DOMAIN frames = 1 .. n /\ depth \in Nat
      /\ \A k \in DOMAIN frames : frames[k].myIndex \in Nat /\ frames[k].myIndex < depth
      /\ \A k, l \in DOMAIN frames : k < l => frames[k].myIndex < frames[l].myIndex
      /\ \A l \in 1 .. n - 1 : l \in DOMAIN frames /\ frames'[l].myIndex = frames[l].myIndex
  BY CallFacts DEF Calls
<1>2. ASSUME NEW s \in Nat, NEW k \in 1 .. n - 1, Within(k, s)', depth' = depth
      PROVE  Within(k, s) \/ (k = n - 1 /\ Within(n, s))
  <2>1. k \in DOMAIN frames /\ k < n /\ frames[k].myIndex \in Nat /\ frames[n].myIndex \in Nat
    BY ONLY <1>1, n \in Nat, k \in 1 .. n - 1, SMT
  <2>2. /\ s \in frames[k].myIndex .. depth - 1
        /\ \A l \in 1 .. n - 1 : k < l => s < frames[l].myIndex
    BY <1>2 DEF Within
  <2>3. CASE s < frames[n].myIndex
    BY <1>1, <2>1, <2>2, <2>3 DEF Within
  <2>4. CASE ~(s < frames[n].myIndex)
    <3>1. s \in frames[n].myIndex .. depth - 1
      BY <1>1, <2>1, <2>2, <2>4
    <3>2. k = n - 1
      <4>1. SUFFICES ASSUME k < n - 1 PROVE FALSE
        BY <2>1
      <4>2. PICK p \in 1 .. n - 1 : p = n - 1 /\ p \in DOMAIN frames /\ p < n
        BY <1>1, <2>1, <4>1
      <4>3. s < frames[p].myIndex /\ frames[p].myIndex < frames[n].myIndex /\ frames[p].myIndex \in Nat
        BY <1>1, <2>2, <4>1, <4>2
      <4> QED BY <2>1, <2>4, <4>3
    <3> QED BY <1>1, <3>1, <3>2 DEF Within
  <2> QED BY <2>3, <2>4
<1>3. ASSUME NEW s \in Nat, NEW k \in 1 .. n - 1, depth' = frames[n].myIndex
      PROVE  Within(k, s)' <=> Within(k, s)
  <2>1. k \in DOMAIN frames /\ k < n /\ frames[k].myIndex \in Nat /\ frames[n].myIndex \in Nat
        /\ frames[n].myIndex < depth
    BY <1>1
  <2>2. ASSUME Within(k, s) PROVE Within(k, s)'
    <3>1. s \in frames[k].myIndex .. depth' - 1
      BY <1>1, <1>3, <2>1, <2>2 DEF Within
    <3>2. \A l \in 1 .. n - 1 : k < l => s < frames'[l].myIndex
      BY <1>1, <2>2 DEF Within
    <3> QED BY <3>1, <3>2 DEF Within
  <2>3. ASSUME Within(k, s)' PROVE Within(k, s)
    <3>1. s \in frames[k].myIndex .. depth - 1 /\ s < frames[n].myIndex
      <4>1. s \in frames'[k].myIndex .. depth' - 1
        BY <2>3 DEF Within
      <4>2. s \in frames[k].myIndex .. frames[n].myIndex - 1
        BY <1>1, <1>3, <4>1
      <4> QED BY <1>1, <2>1, <4>2
    <3>2. \A l \in 1 .. n - 1 : k < l => s < frames[l].myIndex
      BY <1>1, <2>3 DEF Within
    <3> QED BY <1>1, <3>1, <3>2 DEF Within
  <2> QED BY <2>2, <2>3
<1>4. ASSUME NEW s \in Nat, NEW k \in 1 .. n - 1, Within(k, s), depth' = depth
      PROVE  Within(k, s)'
  BY <1>1, <1>4 DEF Within
<1>5. ASSUME NEW s \in Nat, Within(n, s), depth' = depth, n > 1
      PROVE  Within(n - 1, s)'
  <2>1. PICK p \in 1 .. n - 1 : p = n - 1 /\ p \in DOMAIN frames /\ p < n
    BY <1>1, <1>5
  <2>2. frames[p].myIndex \in Nat /\ frames[p].myIndex < frames[n].myIndex /\ frames[n].myIndex \in Nat
    BY <1>1, <2>1
  <2>3. s \in frames[p].myIndex .. depth - 1
    BY <1>1, <1>5, <2>2 DEF Within
  <2>4. Within(p, s)'
    BY <1>5, <2>1, <2>3 DEF Within
  <2> QED BY <2>1, <2>4
<1> QED BY <1>2, <1>3, <1>4, <1>5

\* An actor that reached one pushed before it stays on the stack.
LEMMA KeepSearch ==
  ASSUME Search, frames # <<>>, Top.todo = {}, Top.minIndex # Top.myIndex,
         UNCHANGED <<answer, stack, leader, depth, rpoIndex, outer>>,
         frames' = LET callers == Front(frames)
                   IN IF callers = <<>> THEN <<>>
                      ELSE [callers EXCEPT ![Len(callers)].minIndex = Lower(@, Top.minIndex)]
  PROVE  Search'
<1>1. PICK n \in Nat : n = Len(frames)
  BY DEF Search, Typed
<1>2. /\ n \in DOMAIN frames /\ Top = frames[n] /\ DOMAIN frames = 1 .. n
      /\ frames' \in Seq(Call) /\ DOMAIN frames' = 1 .. n - 1
      /\ \A k \in 1 .. n - 1 :
           /\ k \in DOMAIN frames
           /\ frames'[k].actor = frames[k].actor /\ frames'[k].myIndex = frames[k].myIndex
           /\ frames'[k].todo = frames[k].todo
           /\ k # n - 1 => frames'[k].minIndex = frames[k].minIndex
           /\ k = n - 1 => frames'[k].minIndex = Lower(frames[k].minIndex, frames[n].minIndex)
  <2>1. Typed /\ Calls
    BY DEF Search
  <2> QED BY <1>1, <2>1, ReturnFacts, CallFacts
<1>3. /\ Closed' = Closed /\ \A b : WaitsFor(b)' = WaitsFor(b)
      /\ answer' = answer /\ stack' = stack /\ leader' = leader
      /\ depth' = depth /\ rpoIndex' = rpoIndex /\ outer' = outer
  BY ClosedSame
<1>4. /\ depth \in Nat /\ numActors \in Nat /\ depth <= numActors /\ Index = 0 .. numActors - 1
      /\ \A k \in DOMAIN frames :
           /\ k \in Nat /\ frames[k].myIndex \in Nat /\ frames[k].minIndex \in Nat
           /\ frames[k].minIndex <= frames[k].myIndex /\ frames[k].myIndex < depth
           /\ stack[frames[k].myIndex] = frames[k].actor
  BY CallFacts DEF Search
<1>5. \A s \in Nat : \A k \in 1 .. n - 1 :
        /\ Within(k, s)' => Within(k, s) \/ (k = n - 1 /\ Within(n, s))
        /\ Within(k, s) => Within(k, s)'
        /\ n > 1 /\ Within(n, s) => Within(n - 1, s)'
  <2>1. Typed /\ Calls
    BY DEF Search
  <2> QED BY <1>1, <1>2, <1>3, <2>1, ReturnWithin
<1>6. PICK m \in Nat : m = frames[n].minIndex /\ m < frames[n].myIndex /\ m \in 0 .. depth - 1
  BY <1>2, <1>4
<1>7. PICK j \in 1 .. n - 1 : Within(j, m)
  <2>1. PICK j \in DOMAIN frames : Within(j, m)
    BY <1>6 DEF Search, Calls
  <2>2. j # n
    BY <1>2, <1>4, <1>6, <2>1 DEF Within
  <2> QED BY <1>2, <2>1, <2>2
<1>8. PICK p \in 1 .. n - 1 : p = n - 1 /\ p < n /\ p \in Nat /\ p \in DOMAIN frames /\ j <= p
  BY <1>2, <1>4, <1>7
\* The actor that returns is in a cycle with its caller.
<1>9. /\ Reaches(Closed, frames[p].actor, frames[n].actor)
      /\ Reaches(Closed, frames[n].actor, stack[m])
      /\ Mutual(Closed, frames[n].actor, frames[p].actor)
  <2>1. Reaches(Closed, frames[p].actor, frames[n].actor)
    BY <1>2, <1>8 DEF Search, Calls
  <2>2. Reaches(Closed, frames[n].actor, stack[m])
    BY <1>2, <1>6 DEF Search, Reached
  <2>3. m \in Index
    BY <1>4, <1>6
  <2>4. Mutual(Closed, stack[m], frames[j].actor)
    BY <1>2, <1>7, <2>3 DEF Search, Tied
  <2>5. Reaches(Closed, frames[j].actor, frames[p].actor)
    <3>1. CASE j = p
      BY <3>1, ReachesSelf
    <3>2. CASE j # p
      BY <1>2, <1>7, <1>8, <3>2 DEF Search, Calls
    <3> QED BY <3>1, <3>2
  <2> QED BY <2>1, <2>2, <2>4, <2>5, ReachesOn DEF Mutual
<1>10. /\ \A k \in 1 .. n - 1 : frames'[k].minIndex \in Nat /\ frames'[k].minIndex <= frames[k].minIndex
       /\ frames'[p].minIndex <= m
       /\ frames'[p].minIndex = frames[p].minIndex \/ frames'[p].minIndex = m
  <2>1. /\ frames'[p].minIndex \in Nat /\ frames'[p].minIndex <= m
        /\ frames'[p].minIndex <= frames[p].minIndex
        /\ frames'[p].minIndex = frames[p].minIndex \/ frames'[p].minIndex = m
    <3>1. PICK e \in Nat : e = frames[p].minIndex
      BY <1>4, <1>8
    <3>2. frames'[p].minIndex = IF m < e THEN m ELSE e
      BY <1>2, <1>6, <1>8, <3>1 DEF Lower
    <3> QED BY <3>1, <3>2
  <2>2. ASSUME NEW k \in 1 .. n - 1
        PROVE  frames'[k].minIndex \in Nat /\ frames'[k].minIndex <= frames[k].minIndex
    <3>1. k \in DOMAIN frames /\ frames[k].minIndex \in Nat
      BY <1>2, <1>4
    <3>2. CASE k = p
      BY <2>1, <3>2
    <3>3. CASE k # p
      BY <1>2, <1>8, <3>1, <3>3
    <3> QED BY <3>2, <3>3
  <2> QED BY <2>1, <2>2
<1>11. Typed' /\ Apart' /\ Groups' /\ Asked'
  <2>1. Typed' /\ Apart'
    BY <1>2, <1>3 DEF Search, Typed, Apart, Used
  <2>2. Groups'
    BY <1>3, GroupsSame DEF Search
  <2>3. Asked'
    BY <1>3 DEF Search, Asked, Met, OnStack, Placed
  <2> QED BY <2>1, <2>2, <2>3
<1>12. Calls'
  <2>1. ASSUME NEW k \in 1 .. n - 1
        PROVE  /\ frames'[k].myIndex < depth' /\ stack'[frames'[k].myIndex] = frames'[k].actor
               /\ frames'[k].minIndex <= frames'[k].myIndex
               /\ frames'[k].todo \subseteq Visits(frames'[k].actor, answer'[frames'[k].actor])
    <3>1. k \in DOMAIN frames
      BY <1>2
    <3>2. /\ frames[k].myIndex < depth /\ stack[frames[k].myIndex] = frames[k].actor
          /\ frames[k].todo \subseteq Visits(frames[k].actor, answer[frames[k].actor])
      BY <3>1 DEF Search, Calls
    <3>3. frames'[k].minIndex <= frames[k].myIndex
      <4>1. /\ frames'[k].minIndex \in Nat /\ frames'[k].minIndex <= frames[k].minIndex
            /\ frames[k].minIndex \in Nat /\ frames[k].minIndex <= frames[k].myIndex
            /\ frames[k].myIndex \in Nat
        BY <1>4, <1>10, <3>1
      <4> QED BY <4>1
    <3> QED BY <1>2, <1>3, <3>2, <3>3
  <2>2. ASSUME NEW k \in 1 .. n - 1, NEW l \in 1 .. n - 1, k < l
        PROVE  /\ frames'[k].myIndex < frames'[l].myIndex
               /\ Reaches(Closed', frames'[k].actor, frames'[l].actor)
    BY <1>2, <1>3, <2>2 DEF Search, Calls
  <2>3. ASSUME NEW s \in 0 .. depth - 1
        PROVE  \E k \in 1 .. n - 1 : Within(k, s)'
    <3>1. PICK k \in DOMAIN frames : Within(k, s)
      BY DEF Search, Calls
    <3>2. CASE k = n
      BY <1>4, <1>5, <1>8, <3>1, <3>2
    <3>3. CASE k # n
      <4>1. k \in 1 .. n - 1 /\ s \in Nat
        BY <1>2, <1>4, <3>1, <3>3
      <4> QED BY <1>5, <3>1, <4>1
    <3> QED BY <3>2, <3>3
  <2>4. \A s \in 0 .. depth' - 1 : \E k \in DOMAIN frames' : Within(k, s)'
    BY <1>2, <1>3, <2>3
  <2>5. DOMAIN frames' = 1 .. n - 1
    BY <1>2
  <2> QED BY ONLY <2>1, <2>2, <2>4, <2>5 DEF Calls
<1>13. Tied'
  <2>1. ASSUME NEW k \in 1 .. n - 1, NEW s \in Index, Within(k, s)'
        PROVE  Mutual(Closed', stack'[s], frames'[k].actor)
    <3>1. CASE Within(k, s)
      BY <1>2, <1>3, <3>1 DEF Search, Tied
    <3>2. CASE k = n - 1 /\ Within(n, s)
      <4>1. Mutual(Closed, stack[s], frames[n].actor)
        BY <1>2, <3>2 DEF Search, Tied
      <4>2. Mutual(Closed, stack[s], frames[p].actor)
        BY <1>9, <4>1, ReachesOn DEF Mutual
      <4> QED BY <1>2, <1>3, <1>8, <3>2, <4>2
    <3> QED BY <1>4, <1>5, <2>1, <3>1, <3>2
  <2> QED BY <1>2, <2>1 DEF Tied
<1>14. Reached'
  <2>1. ASSUME NEW k \in 1 .. n - 1
        PROVE  Reaches(Closed', frames'[k].actor, stack'[frames'[k].minIndex])
    <3>1. k \in DOMAIN frames /\ Reaches(Closed, frames[k].actor, stack[frames[k].minIndex])
      BY <1>2 DEF Search, Reached
    <3>2. CASE k # p \/ frames'[p].minIndex = frames[p].minIndex
      BY <1>2, <1>3, <1>8, <3>1, <3>2
    <3>3. CASE k = p /\ frames'[p].minIndex = m
      <4>1. Reaches(Closed, frames[p].actor, stack[m])
        BY <1>9, ReachesOn
      <4> QED BY <1>2, <1>3, <3>3, <4>1
    <3> QED BY <1>10, <3>2, <3>3
  <2> QED BY <1>2, <2>1 DEF Reached
<1>15. Lowest'
  <2>1. ASSUME NEW k \in 1 .. n - 1, NEW s \in Index, Within(k, s)', NEW o \in Gone(k, s)'
        PROVE  Arrived(Edge(s, o), frames[k].minIndex)'
    <3>1. Edge(s, o)' = Edge(s, o) /\ o \in Visits(stack[s], answer[stack[s]])
      BY <1>3, <2>1 DEF Edge, Gone
    <3>2. PICK l \in DOMAIN frames : /\ Within(l, s) /\ o \in Gone(l, s)
                                     /\ frames'[k].minIndex <= frames[l].minIndex
      <4>1. CASE Within(k, s)
        <5>1. o \in Gone(k, s)
          BY <1>2, <1>3, <2>1 DEF Gone
        <5> QED BY <1>2, <1>10, <4>1, <5>1
      <4>2. CASE k = n - 1 /\ Within(n, s)
        <5>1. o \in Gone(n, s)
          BY <1>2, <3>1 DEF Gone
        <5> QED BY <1>2, <1>6, <1>8, <1>10, <4>2, <5>1
      <4> QED BY <1>4, <1>5, <2>1, <4>1, <4>2
    <3>3. PICK b : b = Edge(s, o)
      OBVIOUS
    <3>4. Arrived(b, frames[l].minIndex)
      BY <3>2, <3>3 DEF Search, Lowest
    <3>5. Arrived(b, frames[k].minIndex)'
      <4>1. CASE Placed(b)
        BY <1>3, <4>1 DEF Arrived, Placed
      <4>2. CASE \E t \in frames[l].minIndex .. depth - 1 : stack[t] = b
        <5>1. PICK t \in frames[l].minIndex .. depth - 1 : stack[t] = b
          BY <4>2
        <5>2. frames[l].minIndex \in Nat /\ frames'[k].minIndex \in Nat
          BY <1>4, <1>10
        <5>3. t \in frames'[k].minIndex .. depth' - 1
            <6>1. /\ t \in Nat /\ frames'[k].minIndex <= frames[l].minIndex /\ t >= frames[l].minIndex
                  /\ t < depth'
              BY <1>3, <1>4, <3>2, <5>1, <5>2
            <6> QED BY <5>2, <6>1
        <5> QED BY <1>3, <5>1, <5>3 DEF Arrived
      <4> QED BY <3>4, <4>1, <4>2 DEF Arrived
    <3> QED BY <3>1, <3>3, <3>5 DEF Arrived, Placed
  <2> QED BY <1>2, <2>1 DEF Lowest
<1> QED BY <1>11, <1>12, <1>13, <1>14, <1>15 DEF Search

\* The others leave the stack as one group: what they wait for is complete.
Moves(w, rpo) ==
  /\ stack' = [k \in Index |-> IF k \in rpo .. rpoIndex - 1
                               THEN stack[depth - rpoIndex + k] ELSE stack[k]]
  /\ leader' = [k \in Index |-> IF k \in rpo .. rpoIndex - 1
                                THEN stack[depth - 1] ELSE leader[k]]

\* w being where the group begins.
Moved(w, rpo) ==
  /\ w < depth /\ depth <= rpoIndex /\ rpo \in Nat /\ w <= rpo /\ rpo < rpoIndex
  /\ stack' \in [Index -> Actor \union {NoActor}] /\ leader' \in [Index -> Actor \union {NoActor}]
  /\ \A s \in 0 .. w - 1 : stack'[s] = stack[s]
  /\ \A s \in rpoIndex .. numActors - 1 : stack'[s] = stack[s] /\ leader'[s] = leader[s]
  /\ \A s \in rpo .. rpoIndex - 1 : \E o \in w .. depth - 1 :
       stack'[s] = stack[o] /\ leader'[s] = stack[depth - 1]
  /\ stack'[rpoIndex - 1] = stack[depth - 1]
  /\ \A o \in w .. depth - 1 : \E s \in rpo .. rpoIndex - 1 : stack'[s] = stack[o]
  /\ \A s, t \in rpo .. rpoIndex - 1 : stack'[s] = stack'[t] => s = t

LEMMA PopEffect ==
  ASSUME Search, NEW n \in Nat, n = Len(frames), n \in DOMAIN frames,
         NEW w \in Nat, w = frames[n].myIndex, NEW rpo, rpo = rpoIndex - (depth - w),
         Moves(w, rpo)
  PROVE  Moved(w, rpo)
<1>0. PICK d : d = rpoIndex - depth
  OBVIOUS
<1>1. /\ d \in Nat /\ rpo = w + d /\ rpoIndex = depth + d
      /\ w < depth /\ depth <= rpoIndex /\ rpo \in Nat /\ w <= rpo /\ rpo < rpoIndex
      /\ depth \in Nat /\ rpoIndex \in Nat /\ numActors \in Nat /\ rpoIndex <= numActors
      /\ Index = 0 .. numActors - 1
  <2>1. /\ w < depth /\ depth \in Nat /\ rpoIndex \in Nat /\ numActors \in Nat
        /\ rpoIndex <= numActors /\ Index = 0 .. numActors - 1
    BY CallFacts DEF Search
  <2>2. depth <= rpoIndex
    BY DEF Search, Apart
  <2>3. w \in Nat /\ rpo = rpoIndex - (depth - w)
    OBVIOUS
  <2> QED BY ONLY <1>0, <2>1, <2>2, <2>3
<1>2. ASSUME NEW s \in rpo .. rpoIndex - 1
      PROVE  /\ s \in Index /\ s - d \in w .. depth - 1
             /\ depth - rpoIndex + s = s - d
             /\ stack'[s] = stack[s - d] /\ leader'[s] = stack[depth - 1]
  <2>1. /\ s \in Index /\ s - d \in w .. depth - 1
        /\ depth - rpoIndex + s = s - d
    <3>1. w \in Nat /\ s \in rpo .. rpoIndex - 1
      OBVIOUS
    <3> QED BY ONLY <1>0, <1>1, <3>1
  <2> QED BY <2>1 DEF Moves
<1>3. ASSUME NEW s \in Index, s \notin rpo .. rpoIndex - 1
      PROVE  stack'[s] = stack[s] /\ leader'[s] = leader[s]
  BY <1>3 DEF Moves
<1>4. ASSUME NEW t \in w .. depth - 1
      PROVE  t + d \in rpo .. rpoIndex - 1 /\ stack'[t + d] = stack[t]
  <2>1. PICK s \in rpo .. rpoIndex - 1 : s = t + d /\ s - d = t
    BY <1>1
  <2> QED BY <1>2, <2>1
<1>5. \A s \in 0 .. w - 1 : s \in Index /\ s \notin rpo .. rpoIndex - 1
  <2>1. w \in Nat
    OBVIOUS
  <2> QED BY ONLY <1>1, <2>1
<1>6. \A s \in rpoIndex .. numActors - 1 : s \in Index /\ s \notin rpo .. rpoIndex - 1
  BY <1>1
<1>7. \A s \in w .. depth - 1 : s \in Index /\ s \in Used
  BY <1>1 DEF Used
<1>8. depth - 1 \in w .. depth - 1
  BY <1>1
<1>9. ASSUME NEW s \in Index
      PROVE  stack'[s] \in Actor \union {NoActor} /\ leader'[s] \in Actor \union {NoActor}
  <2>1. CASE s \in rpo .. rpoIndex - 1
    BY <1>2, <1>7, <1>8, <2>1 DEF Search, Apart
  <2>2. CASE s \notin rpo .. rpoIndex - 1
    BY <1>3, <2>2 DEF Search, Typed
  <2> QED BY <2>1, <2>2
<1>10. /\ stack' \in [Index -> Actor \union {NoActor}] /\ leader' \in [Index -> Actor \union {NoActor}]
  <2>1. stack' = [s \in Index |-> stack'[s]] /\ leader' = [s \in Index |-> leader'[s]]
    BY DEF Moves
  <2> QED BY <1>9, <2>1
<1>11. ASSUME NEW s \in rpo .. rpoIndex - 1
       PROVE  \E o \in w .. depth - 1 : stack'[s] = stack[o] /\ leader'[s] = stack[depth - 1]
  BY <1>2
<1>12. ASSUME NEW o \in w .. depth - 1
       PROVE  \E s \in rpo .. rpoIndex - 1 : stack'[s] = stack[o]
  BY <1>4
<1>13. stack'[rpoIndex - 1] = stack[depth - 1]
  <2>1. PICK t \in w .. depth - 1 : t = depth - 1 /\ t + d = rpoIndex - 1
    BY <1>1
  <2> QED BY <1>4, <2>1
<1>14. ASSUME NEW s \in rpo .. rpoIndex - 1, NEW t \in rpo .. rpoIndex - 1, stack'[s] = stack'[t]
       PROVE  s = t
  <2>1. PICK o \in w .. depth - 1, u \in w .. depth - 1 :
          /\ o = s - d /\ u = t - d /\ stack'[s] = stack[o] /\ stack'[t] = stack[u]
    BY <1>2
  <2>2. o = u
    BY <1>7, <1>14, <2>1 DEF Search, Apart
  <2> QED BY <1>1, <2>1, <2>2
<1> QED BY <1>1, <1>3, <1>5, <1>6, <1>10, <1>11, <1>12, <1>13, <1>14 DEF Moved

\* What that makes of the calls and of the array.
Pops(n, w, rpo) ==
  /\ n = Len(frames) /\ n \in DOMAIN frames /\ frames[n].todo = {}
  /\ w = frames[n].myIndex /\ w = frames[n].minIndex
  /\ depth' = w /\ rpoIndex' = rpo /\ Moved(w, rpo)
  /\ UNCHANGED <<answer, outer>>
  /\ frames' \in Seq(Call) /\ DOMAIN frames' = 1 .. n - 1
  /\ \A k \in 1 .. n - 1 :
       /\ k \in DOMAIN frames
       /\ frames'[k].actor = frames[k].actor /\ frames'[k].myIndex = frames[k].myIndex
       /\ frames'[k].todo = frames[k].todo /\ frames'[k].minIndex = frames[k].minIndex

LEMMA PopSearch ==
  ASSUME Search, NEW n \in Nat, NEW w \in Nat, NEW rpo \in Nat, Pops(n, w, rpo)
  PROVE  Search'
<1>1. n = Len(frames)
  BY DEF Pops
<1>2. /\ n \in DOMAIN frames /\ frames[n].todo = {} /\ DOMAIN frames = 1 .. n
      /\ frames' \in Seq(Call) /\ DOMAIN frames' = 1 .. n - 1
      /\ \A k \in 1 .. n - 1 :
           /\ k \in DOMAIN frames
           /\ frames'[k].actor = frames[k].actor /\ frames'[k].myIndex = frames[k].myIndex
           /\ frames'[k].todo = frames[k].todo /\ frames'[k].minIndex = frames[k].minIndex
  BY CallFacts DEF Search, Pops
<1>3. /\ Closed' = Closed /\ \A b : WaitsFor(b)' = WaitsFor(b)
      /\ answer' = answer /\ outer' = outer
  BY ClosedSame DEF Pops
<1>4. /\ \A k \in DOMAIN frames :
           /\ k \in Nat /\ frames[k].myIndex \in Nat /\ frames[k].minIndex \in Nat
           /\ frames[k].minIndex <= frames[k].myIndex /\ frames[k].myIndex < depth
           /\ stack[frames[k].myIndex] = frames[k].actor
      /\ \A k, l \in DOMAIN frames : k < l => frames[k].myIndex < frames[l].myIndex
  <2>1. Typed /\ Calls
    BY DEF Search
  <2> QED BY <2>1, CallFacts DEF Calls
<1>5. w = frames[n].myIndex /\ w = frames[n].minIndex /\ depth' = w /\ rpoIndex' = rpo
  BY DEF Pops
<1>6. /\ w < depth /\ depth <= rpoIndex /\ w <= rpo /\ rpo < rpoIndex
      /\ depth \in Nat /\ rpoIndex \in Nat /\ numActors \in Nat /\ rpoIndex <= numActors
      /\ Index = 0 .. numActors - 1
  <2>1. depth \in Nat /\ rpoIndex \in Nat /\ numActors \in Nat /\ rpoIndex <= numActors
        /\ Index = 0 .. numActors - 1 /\ depth <= rpoIndex
    BY CallFacts DEF Search, Apart
  <2> QED BY <1>2, <1>4, <1>5, <2>1 DEF Pops, Moved
<1>low. \A s \in 0 .. w - 1 : stack'[s] = stack[s]
  BY DEF Pops, Moved
<1>old. \A s \in rpoIndex .. numActors - 1 : stack'[s] = stack[s] /\ leader'[s] = leader[s]
  BY DEF Pops, Moved
<1>new. \A s \in rpo .. rpoIndex - 1 : \E o \in w .. depth - 1 :
          stack'[s] = stack[o] /\ leader'[s] = stack[depth - 1]
  BY DEF Pops, Moved
<1>last. stack'[rpoIndex - 1] = stack[depth - 1]
  BY DEF Pops, Moved
<1>seg. \A o \in w .. depth - 1 : \E s \in rpo .. rpoIndex - 1 : stack'[s] = stack[o]
  BY DEF Pops, Moved
<1>inj. \A s, t \in rpo .. rpoIndex - 1 : stack'[s] = stack'[t] => s = t
  BY DEF Pops, Moved
<1>7. \A k \in 1 .. n - 1 : frames[k].myIndex < w /\ frames'[k].minIndex = frames[k].minIndex
  <2>1. ASSUME NEW k \in 1 .. n - 1 PROVE frames[k].myIndex < w
    <3>1. k < n /\ k \in DOMAIN frames
      BY <1>2
    <3> QED BY <1>2, <1>4, <1>5, <3>1
  <2> QED BY <1>2, <2>1
<1>8. \A s \in Nat : \A k \in 1 .. n - 1 : Within(k, s)' <=> Within(k, s)
  <2>1. Typed /\ Calls
    BY DEF Search
  <2> QED BY <1>1, <1>2, <1>5, <2>1, ReturnWithin
<1>9. \A k \in 1 .. n - 1 : \A s \in Nat : Within(k, s) => s < w
  <2>1. ASSUME NEW k \in 1 .. n - 1, NEW s \in Nat, Within(k, s) PROVE s < w
    <3>1. k < n
      BY <1>2, <1>4
    <3> QED BY <1>2, <1>5, <2>1, <3>1 DEF Within
  <2> QED BY <2>1
<1>10. \A s \in w .. depth - 1 : s \in Index /\ s \in Nat /\ Within(n, s)
  BY <1>2, <1>5, <1>6 DEF Within
<1>11. /\ Complete = rpoIndex .. numActors - 1
       /\ Complete' = (rpo .. rpoIndex - 1) \union Complete
       /\ \A s \in Complete : s \in Nat /\ s >= rpoIndex /\ s \in Used
       /\ \A s \in 0 .. depth - 1 : s \in Used
       /\ Used' = (0 .. w - 1) \union (rpo .. rpoIndex - 1) \union Complete
  BY <1>5, <1>6 DEF Complete, Used
\* Where the actor at a place was before.
<1>12. ASSUME NEW s \in Used'
       PROVE  \E o \in Used : /\ stack'[s] = stack[o]
                              /\ s \in rpo .. rpoIndex - 1 => o \in w .. depth - 1
                              /\ s \notin rpo .. rpoIndex - 1 => o = s /\ s \notin w .. depth - 1
  <2>1. CASE s \in rpo .. rpoIndex - 1
    <3>1. PICK o \in w .. depth - 1 : stack'[s] = stack[o]
      BY <1>new, <2>1
    <3>2. o \in Used
      BY <1>6, <1>11
    <3> QED BY <2>1, <3>1, <3>2
  <2>2. CASE s \notin rpo .. rpoIndex - 1
    <3>1. CASE s \in 0 .. w - 1
      BY <1>6, <1>low, <1>11, <2>2, <3>1
    <3>2. CASE s \in Complete
      BY <1>6, <1>old, <1>11, <2>2, <3>2
    <3> QED BY <1>11, <2>2, <3>1, <3>2
  <2> QED BY <2>1, <2>2
<1>13. Typed' /\ Apart'
  <2>1. Typed'
    <3>1. depth' \in 0 .. numActors /\ rpoIndex' \in 0 .. numActors
      BY <1>5, <1>6
    <3> QED BY <1>2, <1>3, <3>1 DEF Search, Typed, Pops, Moved
  <2>2. depth' <= rpoIndex'
    BY <1>5, <1>6
  <2>3. \A s \in Used' : stack'[s] \in Actor
    BY <1>12 DEF Search, Apart
  <2>4. ASSUME NEW s \in Used', NEW t \in Used', stack'[s] = stack'[t]
        PROVE  s = t
    <3>1. PICK o \in Used : /\ stack'[s] = stack[o]
                            /\ s \in rpo .. rpoIndex - 1 => o \in w .. depth - 1
                            /\ s \notin rpo .. rpoIndex - 1 => o = s /\ s \notin w .. depth - 1
      BY <1>12
    <3>2. PICK u \in Used : /\ stack'[t] = stack[u]
                            /\ t \in rpo .. rpoIndex - 1 => u \in w .. depth - 1
                            /\ t \notin rpo .. rpoIndex - 1 => u = t /\ t \notin w .. depth - 1
      BY <1>12
    <3>3. o = u
      BY <2>4, <3>1, <3>2 DEF Search, Apart
    <3>4. CASE s \in rpo .. rpoIndex - 1 /\ t \in rpo .. rpoIndex - 1
      BY <1>inj, <2>4, <3>4
    <3> QED BY <3>1, <3>2, <3>3, <3>4
  <2> QED BY <2>1, <2>2, <2>3, <2>4 DEF Apart
<1>14. Calls'
  <2>1. ASSUME NEW k \in 1 .. n - 1
        PROVE  /\ frames'[k].myIndex < depth' /\ stack'[frames'[k].myIndex] = frames'[k].actor
               /\ frames'[k].minIndex <= frames'[k].myIndex
               /\ frames'[k].todo \subseteq Visits(frames'[k].actor, answer'[frames'[k].actor])
    <3>1. k \in DOMAIN frames /\ frames[k].myIndex \in 0 .. w - 1
      <4>1. k \in DOMAIN frames /\ frames[k].myIndex \in Nat /\ frames[k].myIndex < w
        BY <1>2, <1>4, <1>7
      <4> QED BY <4>1
    <3>2. /\ stack[frames[k].myIndex] = frames[k].actor
          /\ frames[k].minIndex <= frames[k].myIndex
          /\ frames[k].todo \subseteq Visits(frames[k].actor, answer[frames[k].actor])
      BY <3>1 DEF Search, Calls
    <3>3. /\ frames'[k].actor = frames[k].actor /\ frames'[k].myIndex = frames[k].myIndex
          /\ frames'[k].todo = frames[k].todo /\ frames'[k].minIndex = frames[k].minIndex
          /\ stack'[frames[k].myIndex] = stack[frames[k].myIndex] /\ frames[k].myIndex < w
      BY <1>2, <1>7, <1>low, <3>1
    <3> QED BY <1>3, <1>5, <3>2, <3>3
  <2>2. ASSUME NEW k \in 1 .. n - 1, NEW l \in 1 .. n - 1, k < l
        PROVE  /\ frames'[k].myIndex < frames'[l].myIndex
               /\ Reaches(Closed', frames'[k].actor, frames'[l].actor)
    BY <1>2, <1>3, <2>2 DEF Search, Calls
  <2>3. ASSUME NEW s \in 0 .. w - 1
        PROVE  \E k \in 1 .. n - 1 : Within(k, s)'
    <3>1. s \in 0 .. depth - 1 /\ s \in Nat /\ s < w
      BY <1>6
    <3>2. PICK k \in DOMAIN frames : Within(k, s)
      BY <3>1 DEF Search, Calls
    <3>3. k # n
      <4>1. SUFFICES ASSUME k = n PROVE FALSE
        OBVIOUS
      <4>2. s \in w .. depth - 1
        BY <1>5, <3>2, <4>1 DEF Within
      <4> QED BY <1>6, <3>1, <4>2
    <3>4. k \in 1 .. n - 1
      BY <1>2, <3>2, <3>3
    <3> QED BY <1>8, <3>1, <3>2, <3>4
  <2>4. \A s \in 0 .. depth' - 1 : \E k \in DOMAIN frames' : Within(k, s)'
    BY <1>2, <1>5, <2>3
  <2>5. DOMAIN frames' = 1 .. n - 1
    BY <1>2
  <2> QED BY ONLY <2>1, <2>2, <2>4, <2>5 DEF Calls
<1>15. Tied'
  <2>1. ASSUME NEW k \in 1 .. n - 1, NEW s \in Index, Within(k, s)'
        PROVE  Mutual(Closed', stack'[s], frames'[k].actor)
    <3>1. s \in Nat /\ Within(k, s) /\ s \in 0 .. w - 1
      <4>1. s \in Nat
        BY <1>6
      <4>2. Within(k, s) /\ s < w
        BY <1>8, <1>9, <2>1, <4>1
      <4> QED BY <4>1, <4>2
    <3> QED BY <1>2, <1>3, <1>low, <3>1 DEF Search, Tied
  <2> QED BY <1>2, <2>1 DEF Tied
<1>16. Reached'
  <2>1. ASSUME NEW k \in 1 .. n - 1
        PROVE  Reaches(Closed', frames'[k].actor, stack'[frames'[k].minIndex])
    <3>1. k \in DOMAIN frames /\ Reaches(Closed, frames[k].actor, stack[frames[k].minIndex])
      BY <1>2 DEF Search, Reached
    <3>2. frames[k].minIndex \in 0 .. w - 1
      <4>1. /\ frames[k].minIndex \in Nat /\ frames[k].myIndex \in Nat
            /\ frames[k].minIndex <= frames[k].myIndex /\ frames[k].myIndex < w
        BY <1>4, <1>7, <3>1
      <4> QED BY <4>1
    <3>3. /\ frames'[k].actor = frames[k].actor /\ frames'[k].minIndex = frames[k].minIndex
          /\ stack'[frames[k].minIndex] = stack[frames[k].minIndex]
      BY <1>2, <1>low, <3>2
    <3> QED BY <1>3, <3>1, <3>3
  <2> QED BY <1>2, <2>1 DEF Reached
\* What was on the stack is placed, or lower on the stack.
<1>17. ASSUME NEW b, NEW min \in Nat, Arrived(b, min), min < w
       PROVE  Arrived(b, min)'
  <2>1. CASE Placed(b)
    <3>1. PICK t \in Complete : stack[t] = b
      BY <2>1 DEF Placed, Complete
    <3> QED BY <1>old, <1>11, <3>1 DEF Arrived, Placed, Complete
  <2>2. CASE \E t \in min .. depth - 1 : stack[t] = b
    <3>1. PICK t \in min .. depth - 1 : stack[t] = b
      BY <2>2
    <3>2. CASE t < w
      <4>1. t \in min .. w - 1 /\ t \in 0 .. w - 1
        BY <3>1, <3>2
      <4> QED BY <1>5, <1>low, <3>1, <4>1 DEF Arrived
    <3>3. CASE ~(t < w)
      <4>1. t \in w .. depth - 1
        BY <1>6, <3>1, <3>3
      <4>2. PICK r \in rpo .. rpoIndex - 1 : stack'[r] = b
        BY <1>seg, <3>1, <4>1
      <4> QED BY <1>11, <4>2 DEF Arrived, Placed, Complete
    <3> QED BY <3>2, <3>3
  <2> QED BY <1>17, <2>1, <2>2 DEF Arrived
<1>18. Lowest'
  <2>1. ASSUME NEW k \in 1 .. n - 1, NEW s \in Index, Within(k, s)', NEW o \in Gone(k, s)'
        PROVE  Arrived(Edge(s, o), frames[k].minIndex)'
    <3>1. s \in Nat /\ Within(k, s) /\ s \in 0 .. w - 1 /\ k \in DOMAIN frames
      <4>1. s \in Nat
        BY <1>6
      <4>2. Within(k, s) /\ s < w
        BY <1>8, <1>9, <2>1, <4>1
      <4> QED BY <1>2, <4>1, <4>2
    <3>2. stack'[s] = stack[s]
      BY <1>low, <3>1
    <3>3. o \in Gone(k, s)
      BY <1>2, <1>3, <2>1, <3>2 DEF Gone
    <3>4. PICK b : b = Edge(s, o) /\ Edge(s, o)' = b
      BY <1>3, <3>2 DEF Edge
    <3>5. Arrived(b, frames[k].minIndex)
      BY <3>1, <3>3, <3>4 DEF Search, Lowest
    <3>6. PICK min \in Nat : min = frames[k].minIndex /\ min = frames'[k].minIndex /\ min < w
      <4>1. /\ frames[k].minIndex \in Nat /\ frames[k].myIndex \in Nat
            /\ frames[k].minIndex <= frames[k].myIndex /\ frames[k].myIndex < w
            /\ frames'[k].minIndex = frames[k].minIndex
        BY <1>4, <1>7, <3>1
      <4> QED BY <4>1
    <3>7. Arrived(b, min)'
      BY <1>17, <3>5, <3>6
    <3> QED BY <3>4, <3>6, <3>7 DEF Arrived, Placed
  <2> QED BY <1>2, <2>1 DEF Lowest
<1>19. Groups'
  <2>1. Contiguous'
    <3>1. ASSUME NEW s \in Complete
          PROVE  \E t \in s .. numActors - 1 :
                   stack'[t] = leader'[s] /\ \A r \in s .. t : leader'[r] = leader'[s]
      <4>1. PICK t \in s .. numActors - 1 :
                   stack[t] = leader[s] /\ \A r \in s .. t : leader[r] = leader[s]
        BY DEF Search, Groups, Contiguous
      <4>2. \A r \in s .. t : r \in rpoIndex .. numActors - 1
        BY <1>6, <1>11, <4>1
      <4>3. t \in s .. t /\ s \in s .. t
        BY <1>11, <4>1
      <4>4. \A r \in s .. t : stack'[r] = stack[r] /\ leader'[r] = leader[r]
        BY <1>old, <4>2
      <4>5. stack'[t] = leader'[s] /\ \A r \in s .. t : leader'[r] = leader'[s]
        BY <4>1, <4>3, <4>4
      <4> QED BY <4>5
    <3>2. ASSUME NEW s \in rpo .. rpoIndex - 1
          PROVE  \E t \in s .. numActors - 1 :
                   stack'[t] = leader'[s] /\ \A r \in s .. t : leader'[r] = leader'[s]
      <4>1. PICK t \in rpo .. rpoIndex - 1 : t = rpoIndex - 1 /\ stack'[t] = stack[depth - 1]
        BY <1>6, <1>last
      <4>2. t \in s .. numActors - 1 /\ \A r \in s .. t : r \in rpo .. rpoIndex - 1
        BY <1>6, <4>1
      <4>3. \A r \in rpo .. rpoIndex - 1 : leader'[r] = stack[depth - 1]
        BY <1>new
      <4>4. stack'[t] = leader'[s] /\ \A r \in s .. t : leader'[r] = leader'[s]
        BY <4>1, <4>2, <4>3
      <4> QED BY <4>2, <4>4
    <3> QED BY <1>11, <3>1, <3>2 DEF Contiguous
  <2>2. Connected'
    <3>1. ASSUME NEW s \in Complete, NEW t \in Complete, leader'[s] = leader'[t]
          PROVE  Mutual(Closed', stack'[s], stack'[t])
      BY <1>3, <1>old, <1>11, <3>1 DEF Search, Groups, Connected
    <3>2. ASSUME NEW s \in rpo .. rpoIndex - 1, NEW t \in rpo .. rpoIndex - 1
          PROVE  Mutual(Closed', stack'[s], stack'[t])
      <4>1. \A r \in rpo .. rpoIndex - 1 : Mutual(Closed, stack'[r], frames[n].actor)
        <5>1. ASSUME NEW r \in rpo .. rpoIndex - 1
              PROVE  Mutual(Closed, stack'[r], frames[n].actor)
          <6>1. PICK o \in w .. depth - 1 : stack'[r] = stack[o]
            BY <1>new
          <6> QED BY <1>2, <1>10, <6>1 DEF Search, Tied
        <5> QED BY <5>1
      <4> QED BY <1>3, <4>1, MutualOn
    <3>3. \A s \in Complete, t \in rpo .. rpoIndex - 1 : leader'[s] # leader'[t]
      <4>1. SUFFICES ASSUME NEW s \in Complete, leader[s] = stack[depth - 1] PROVE FALSE
        <5>1. \A t \in rpo .. rpoIndex - 1 : leader'[t] = stack[depth - 1]
          BY <1>new
        <5>2. \A s \in Complete : leader'[s] = leader[s]
          BY <1>old, <1>11
        <5> QED BY <5>1, <5>2
      <4>2. PICK r \in s .. numActors - 1 : stack[r] = leader[s]
        BY DEF Search, Groups, Contiguous
      <4>3. r \in Used /\ depth - 1 \in Used /\ r # depth - 1
        BY <1>6, <1>11, <4>2
      <4> QED BY <4>1, <4>2, <4>3 DEF Search, Apart
    <3>4. \A s, t \in Complete' : leader'[s] = leader'[t] => Mutual(Closed', stack'[s], stack'[t])
      BY <1>11, <3>1, <3>2, <3>3
    <3> QED BY ONLY <3>4 DEF Connected
  <2>3. Sorted'
    <3>1. ASSUME NEW s \in Complete, NEW b \in WaitsFor(stack[s])
          PROVE  \E t \in Complete' : stack'[t] = b /\ (t >= s \/ leader'[t] = leader'[s])
      <4>1. PICK t \in Complete : stack[t] = b /\ (t >= s \/ leader[t] = leader[s])
        BY <3>1 DEF Search, Groups, Sorted
      <4> QED BY <1>old, <1>11, <4>1
    <3>2. ASSUME NEW s \in rpo .. rpoIndex - 1, NEW b \in WaitsFor(stack'[s])
          PROVE  \E t \in Complete' : stack'[t] = b /\ (t >= s \/ leader'[t] = leader'[s])
      <4>1. PICK o \in w .. depth - 1 : stack'[s] = stack[o]
        BY <1>new
      <4>2. PICK e \in Visits(stack[o], answer[stack[o]]) : b = Edge(o, e)
        BY <3>2, <4>1 DEF WaitsFor, Edge
      <4>3. e \in Gone(n, o)
        BY <1>2, <4>2 DEF Gone
      <4>4. Arrived(b, w)
        <5>1. Within(n, o) /\ o \in Index
          BY <1>10, <4>1
        <5>2. Arrived(Edge(o, e), frames[n].minIndex)
          BY <1>2, <4>3, <5>1 DEF Search, Lowest
        <5> QED BY <1>5, <4>2, <5>2
      <4>5. CASE Placed(b)
        <5>1. PICK t \in Complete : stack[t] = b
          BY <4>5 DEF Placed, Complete
        <5>2. stack'[t] = b /\ t >= s /\ t \in Complete'
          BY <1>6, <1>old, <1>11, <5>1
        <5> QED BY <5>2
      <4>6. CASE \E t \in w .. depth - 1 : stack[t] = b
        <5>1. PICK t \in rpo .. rpoIndex - 1 : stack'[t] = b
          BY <1>seg, <4>6
        <5>2. leader'[t] = leader'[s]
          BY <1>new
        <5> QED BY <1>11, <5>1, <5>2
      <4> QED BY <4>4, <4>5, <4>6 DEF Arrived
    <3>3. \A s \in Complete' : stack'[s] \in Actor
      BY <1>13, <1>11 DEF Apart
    <3>4. ASSUME NEW s \in Complete'
          PROVE  \A b \in WaitsFor(stack'[s]) : \E t \in Complete' :
                   stack'[t] = b /\ (t >= s \/ leader'[t] = leader'[s])
      <4>1. CASE s \in Complete
        <5>1. stack'[s] = stack[s]
          BY <1>old, <1>11, <4>1
        <5> QED BY <3>1, <4>1, <5>1
      <4> QED BY <1>11, <3>2, <4>1
    <3>5. \A s \in Complete' : WaitsFor(stack[s])' = WaitsFor(stack'[s])
      BY <1>3 DEF WaitsFor
    <3>6. \A s \in Complete' : \A b \in WaitsFor(stack[s])' : \E t \in Complete' :
            stack'[t] = b /\ (t >= s \/ leader'[t] = leader'[s])
      BY <3>4, <3>5
    <3> QED BY ONLY <3>6 DEF Sorted
  <2> QED BY <2>1, <2>2, <2>3 DEF Groups
<1>20. ASSUME NEW b PROVE Met(b) <=> Met(b)'
  <2>1. ASSUME NEW t \in 0 .. depth - 1, stack[t] = b PROVE Met(b)'
    <3>1. CASE t < w
      <4>1. t \in 0 .. w - 1
        BY <3>1
      <4> QED BY <1>5, <1>low, <2>1, <4>1 DEF Met, OnStack
    <3>2. CASE ~(t < w)
      <4>1. t \in w .. depth - 1
        BY <1>6, <3>2
      <4>2. PICK r \in rpo .. rpoIndex - 1 : stack'[r] = b
        BY <1>seg, <2>1, <4>1
      <4> QED BY <1>11, <4>2 DEF Met, Placed, Complete
    <3> QED BY <3>1, <3>2
  <2>2. ASSUME NEW t \in Complete, stack[t] = b PROVE Met(b)'
    BY <1>old, <1>11, <2>2 DEF Met, Placed, Complete
  <2>3. ASSUME NEW t \in Used', stack'[t] = b PROVE Met(b)
    <3>1. PICK o \in Used : stack[o] = b
      BY <1>12, <2>3
    <3> QED BY <3>1 DEF Met, OnStack, Placed, Used
  <2> QED BY <2>1, <2>2, <2>3 DEF Met, OnStack, Placed, Used, Complete
<1>21. Asked'
  BY <1>3, <1>20 DEF Search, Asked
<1> QED BY <1>13, <1>14, <1>15, <1>16, <1>18, <1>19, <1>21 DEF Search

LEMMA FinishSearch ==
  ASSUME Search, Finish
  PROVE  Search'
<1>1. PICK n \in Nat : n = Len(frames)
  BY DEF Search, Typed
<1>2. Typed /\ Calls /\ frames # <<>>
  BY DEF Search, Finish
<1>3. frames' = LET callers == Front(frames)
                IN IF callers = <<>> THEN <<>>
                   ELSE [callers EXCEPT ![Len(callers)].minIndex = Lower(@, Top.minIndex)]
  BY DEF Finish
<1>4. /\ n \in DOMAIN frames /\ Top = frames[n]
      /\ frames' \in Seq(Call) /\ DOMAIN frames' = 1 .. n - 1
      /\ \A k \in 1 .. n - 1 :
           /\ k \in DOMAIN frames
           /\ frames'[k].actor = frames[k].actor /\ frames'[k].myIndex = frames[k].myIndex
           /\ frames'[k].todo = frames[k].todo
           /\ k # n - 1 => frames'[k].minIndex = frames[k].minIndex
           /\ k = n - 1 => frames'[k].minIndex = Lower(frames[k].minIndex, frames[n].minIndex)
  BY <1>1, <1>2, <1>3, ReturnFacts
<1>5. CASE Top.minIndex # Top.myIndex
  <2>1. UNCHANGED <<answer, stack, leader, depth, rpoIndex, outer>> /\ Top.todo = {}
    BY <1>5 DEF Finish
  <2> QED BY <1>2, <1>3, <1>5, <2>1, KeepSearch
<1>6. CASE Top.minIndex = Top.myIndex
  <2>1. PICK w \in Nat : w = frames[n].myIndex /\ w = frames[n].minIndex
    BY <1>2, <1>4, <1>6, CallFacts
  <2>2. PICK rpo : rpo = rpoIndex - (depth - w)
    OBVIOUS
  <2>3. /\ Moves(w, rpo)
        /\ depth' = depth - (depth - w)
        /\ rpoIndex' = rpo
        /\ UNCHANGED <<answer, outer>> /\ Top.todo = {}
    BY <1>4, <1>6, <2>1, <2>2 DEF Finish, Popped, Leader, Moves
  <2>4. depth' = w
    BY <1>2, <2>1, <2>3, CallFacts
  <2>5. Moved(w, rpo) /\ rpo \in Nat
    <3>1. /\ n \in Nat /\ n = Len(frames) /\ n \in DOMAIN frames /\ w \in Nat /\ w = frames[n].myIndex
          /\ rpo = rpoIndex - (depth - w) /\ Moves(w, rpo)
      BY <1>1, <1>4, <2>1, <2>2, <2>3
    <3>2. Moved(w, rpo)
      BY <3>1, PopEffect
    <3> QED BY <3>2 DEF Moved
  <2>6. ASSUME NEW k \in 1 .. n - 1
        PROVE  frames'[k].minIndex = frames[k].minIndex
    <3>1. CASE k = n - 1
      <4>1. /\ k \in DOMAIN frames /\ frames[k].minIndex \in Nat /\ frames[k].myIndex \in Nat
            /\ frames[k].minIndex <= frames[k].myIndex
        BY <1>2, <1>4, CallFacts
      <4>2. frames[k].myIndex < w
        <5>1. k < n
          OBVIOUS
        <5> QED BY <1>2, <1>4, <2>1, <4>1, <5>1 DEF Calls
      <4>3. PICK e \in Nat : e = frames[k].minIndex /\ e < w
        BY <4>1, <4>2
      <4>4. frames'[k].minIndex = IF w < e THEN w ELSE e
        BY <1>4, <2>1, <3>1, <4>3 DEF Lower
      <4> QED BY <4>3, <4>4
    <3> QED BY <1>4, <3>1
  <2>7. Pops(n, w, rpo)
    BY <1>1, <1>4, <2>1, <2>3, <2>4, <2>5, <2>6 DEF Pops
  <2> QED BY <2>1, <2>5, <2>7, PopSearch
<1> QED BY <1>5, <1>6

-----------------------------------------------------------------------------
(* The search as a whole.                                                  *)

LEMMA VisitNextSearch ==
  ASSUME Search, VisitNext
  PROVE  Search'
<1>1. PICK k \in 1 .. numActors : k = outer + 1 /\ outer' = k /\ outer \in Nat
  BY OrderFacts DEF VisitNext, Search, Asked
<1>2. PICK a \in Actor : a = Order[k]
  BY OrderFacts
<1>3. frames = <<>>
  BY DEF VisitNext
<1>4. CASE Push(a, <<>>)
  <2>1. Calling(<<>>, a)
    BY <1>3 DEF Calling
  <2>2. /\ Typed' /\ Apart' /\ Calls' /\ Tied' /\ Reached' /\ Lowest' /\ Groups'
        /\ \A b \in Actor : /\ Met(b)' <=> Met(b) \/ b = a
                            /\ b # a => answer'[b] = answer[b]
    BY <1>4, <2>1, PushSearch
  <2>3. Asked'
    <3>1. outer' \in 0 .. numActors
      BY <1>1, OrderFacts
    <3>2. ASSUME NEW j \in 1 .. k PROVE Order[j] \in Actor /\ (Met(Order[j]) \/ Order[j] = a)
      <4>1. j \in 1 .. numActors /\ (j = k \/ j \in 1 .. outer)
        BY <1>1, OrderFacts
      <4> QED BY <1>2, <4>1, OrderFacts DEF Search, Asked
    <3>3. ASSUME NEW j \in 1 .. k PROVE Met(Order[j])'
      <4>1. PICK b \in Actor : b = Order[j] /\ (Met(b) \/ b = a)
        BY <3>2
      <4>2. Met(b)'
        BY <2>2, <4>1
      <4> QED BY <4>1, <4>2 DEF Met, OnStack, Placed
    <3> QED BY <1>1, <2>2, <3>1, <3>3 DEF Search, Asked
  <2> QED BY <2>2, <2>3 DEF Search
<1>5. CASE Met(a) /\ UNCHANGED <<answer, frames, stack, leader, depth, rpoIndex, pc>>
  <2>1. /\ Closed' = Closed /\ \A b : WaitsFor(b)' = WaitsFor(b)
        /\ answer' = answer /\ stack' = stack /\ leader' = leader /\ frames' = frames
        /\ depth' = depth /\ rpoIndex' = rpoIndex
    BY <1>5, ClosedSame
  <2>2. Typed' /\ Apart'
    BY <2>1 DEF Search, Typed, Apart, Used
  <2>3. Calls' /\ Tied' /\ Reached' /\ Lowest'
    <3>1. DOMAIN frames' = {}
      BY <1>3, <2>1
    <3>2. Tied' /\ Reached' /\ Lowest'
      BY <3>1 DEF Tied, Reached, Lowest
    <3>3. \A s \in 0 .. depth - 1 : FALSE
      BY <1>3 DEF Search, Calls
    <3> QED BY <2>1, <3>1, <3>2, <3>3 DEF Calls
  <2>4. Groups'
    BY <1>5, GroupsSame DEF Search
  <2>5. Asked'
    <3>1. \A b : Met(b)' <=> Met(b)
      BY <2>1 DEF Met, OnStack, Placed
    <3>2. outer' \in 0 .. numActors
      BY <1>1, OrderFacts
    <3>3. ASSUME NEW j \in 1 .. k PROVE Met(Order[j])
      <4>1. j = k \/ j \in 1 .. outer
        BY <1>1, OrderFacts
      <4> QED BY <1>2, <1>5, <4>1 DEF Search, Asked
    <3> QED BY <1>1, <2>1, <3>1, <3>2, <3>3 DEF Search, Asked
  <2> QED BY <2>2, <2>3, <2>4, <2>5 DEF Search
<1> QED BY <1>1, <1>2, <1>4, <1>5 DEF VisitNext, Met

LEMMA VisitNeighborSearch ==
  ASSUME Search, VisitNeighbor
  PROVE  Search'
<1>1. PICK q \in Top.todo :
        LET a == Neighbor(Top.actor, answer[Top.actor], q)
        IN \/ Push(a, Visited(q))
           \/ /\ OnStack(a) \/ Placed(a)
              /\ frames' = [Visited(q) EXCEPT ![Len(frames)].minIndex = Lower(@, Seen(a))]
              /\ UNCHANGED <<answer, stack, leader, depth, rpoIndex, pc>>
  BY DEF VisitNeighbor
<1>2. frames # <<>> /\ outer' = outer /\ Typed /\ Calls
  BY DEF VisitNeighbor, Search
<1>3. PICK n \in Nat : n = Len(frames) /\ n \in DOMAIN frames /\ Top = frames[n] /\ DOMAIN frames = 1 .. n
  BY <1>2, CallFacts DEF Typed, Top
<1>4. PICK a \in Actor : a = Neighbor(Top.actor, answer[Top.actor], q)
  <2>1. Top.actor \in Actor /\ q \in Visits(Top.actor, answer[Top.actor])
    BY <1>2, <1>3, CallFacts DEF Calls
  <2> QED BY <1>2, <2>1, VisitsFacts DEF Typed
<1>5. a \in WaitsFor(frames[n].actor)
  BY <1>2, <1>3, <1>4 DEF WaitsFor, Calls
<1>6. CASE Push(a, Visited(q))
  <2>1. PICK f \in Call : f = frames[n] /\ f = Top
    BY <1>2, <1>3, CallFacts
  <2>2. PICK h : h = [f EXCEPT !.todo = f.todo \ {q}]
    OBVIOUS
  <2>3. /\ h \in Call /\ h.actor = f.actor /\ h.myIndex = f.myIndex /\ h.minIndex = f.minIndex
        /\ h.todo = f.todo \ {q}
    BY <2>1, <2>2 DEF Call
  <2>4. PICK called : called = Visited(q)
    OBVIOUS
  <2>5. called = [frames EXCEPT ![n] = h]
    BY <1>3, <2>1, <2>2, <2>4 DEF Visited
  <2>6. /\ called \in Seq(Call) /\ Len(called) = n /\ called[n] = h
        /\ \A k \in DOMAIN frames : k # n => called[k] = frames[k]
    BY <1>2, <1>3, <2>3, <2>5 DEF Typed
  <2>7. From(frames[n].actor, q) = a
    BY <1>3, <1>4 DEF From
  <2>8. ASSUME NEW k \in DOMAIN frames
        PROVE  /\ called[k].actor = frames[k].actor /\ called[k].myIndex = frames[k].myIndex
               /\ called[k].minIndex = frames[k].minIndex
               /\ called[k].todo \subseteq frames[k].todo
               /\ \A o \in frames[k].todo \ called[k].todo : From(frames[k].actor, o) = a
    <3>1. CASE k = n
      BY <2>1, <2>3, <2>6, <2>7, <3>1
    <3>2. CASE k # n
      BY <2>6, <3>2
    <3> QED BY <3>1, <3>2
  <2>9. Calling(called, a)
    BY <1>3, <1>5, <2>6, <2>8 DEF Calling
  <2>10. /\ Typed' /\ Apart' /\ Calls' /\ Tied' /\ Reached' /\ Lowest' /\ Groups'
         /\ \A b \in Actor : /\ Met(b)' <=> Met(b) \/ b = a
                             /\ b # a => answer'[b] = answer[b]
    BY <1>6, <2>4, <2>9, PushSearch
  <2>11. Asked'
    <3>1. ASSUME NEW j \in 1 .. outer PROVE Met(Order[j])'
      <4>1. j \in 1 .. numActors
        BY OrderFacts DEF Search, Asked
      <4>2. PICK b \in Actor : b = Order[j] /\ Met(b)
        BY <4>1, OrderFacts DEF Search, Asked
      <4>3. Met(b)'
        BY <2>10, <4>2
      <4> QED BY <4>2, <4>3 DEF Met, OnStack, Placed
    <3> QED BY <1>2, <2>10, <3>1 DEF Search, Asked
  <2> QED BY <2>10, <2>11 DEF Search
<1>7. CASE /\ Met(a)
           /\ frames' = [Visited(q) EXCEPT ![Len(frames)].minIndex = Lower(@, Seen(a))]
           /\ UNCHANGED <<answer, stack, leader, depth, rpoIndex, pc>>
  BY <1>1, <1>2, <1>4, <1>7, SeenSearch
<1> QED BY <1>1, <1>4, <1>6, <1>7 DEF Met

LEMMA SearchInit ==
  ASSUME Init
  PROVE  Search
<1>1. /\ depth = 0 /\ rpoIndex = numActors /\ frames = <<>> /\ outer = 0 /\ numActors \in Nat
      /\ answer = [a \in Actor |-> Unasked] /\ Index = 0 .. numActors - 1
      /\ stack = [k \in Index |-> NoActor] /\ leader = [k \in Index |-> NoActor]
  BY OrderFacts DEF Init
<1>2. Used = {} /\ Complete = {} /\ DOMAIN frames = {}
  BY <1>1 DEF Used, Complete
<1>3. Typed
  BY <1>1 DEF Typed
<1>4. Apart /\ Calls /\ Tied /\ Reached /\ Lowest
  <2>1. \A s \in 0 .. depth - 1 : FALSE
    BY <1>1
  <2>2. depth <= rpoIndex
    BY <1>1
  <2>3. Apart
    BY <1>2, <2>2 DEF Apart
  <2>4. Calls /\ Tied /\ Reached /\ Lowest
    BY <1>2, <2>1 DEF Calls, Tied, Reached, Lowest
  <2> QED BY <2>3, <2>4
<1>5. Groups
  BY <1>2 DEF Groups, Contiguous, Connected, Sorted
<1>6. Asked
  BY <1>1 DEF Asked
<1> QED BY <1>3, <1>4, <1>5, <1>6 DEF Search

LEMMA SearchSame ==
  ASSUME Search, UNCHANGED <<answer, searchVars>>
  PROVE  Search'
<1>1. /\ Closed' = Closed /\ \A b : WaitsFor(b)' = WaitsFor(b)
      /\ answer' = answer /\ stack' = stack /\ leader' = leader /\ frames' = frames
      /\ depth' = depth /\ rpoIndex' = rpoIndex /\ outer' = outer
  BY ClosedSame DEF searchVars
<1>2. Typed' /\ Apart'
  BY <1>1 DEF Search, Typed, Apart, Used
<1>3. /\ \A k, s : Within(k, s)' <=> Within(k, s)
      /\ \A k, s : Gone(k, s)' = Gone(k, s)
      /\ \A s, q : Edge(s, q)' = Edge(s, q)
      /\ \A b : Placed(b)' <=> Placed(b)
      /\ \A b : Met(b)' <=> Met(b)
  BY <1>1 DEF Within, Gone, Edge, Placed, Met, OnStack
<1>4. Calls'
  <2>1. \A s \in 0 .. depth - 1 : \E k \in DOMAIN frames : Within(k, s)'
    BY <1>3 DEF Search, Calls
  <2> QED BY <1>1, <2>1 DEF Search, Calls
<1>5. Tied' /\ Reached'
  BY <1>1, <1>3 DEF Search, Tied, Reached
<1>6. Lowest'
  <2>1. ASSUME NEW k \in DOMAIN frames, NEW s \in Index, Within(k, s), NEW q \in Gone(k, s)
        PROVE  Arrived(Edge(s, q), frames[k].minIndex)'
    <3>1. Arrived(Edge(s, q), frames[k].minIndex)
      BY <2>1 DEF Search, Lowest
    <3> QED BY <1>1, <1>3, <3>1 DEF Arrived
  <2>2. \A k \in DOMAIN frames : \A s \in Index : Within(k, s)' =>
          \A q \in Gone(k, s)' : Arrived(Edge(s, q), frames[k].minIndex)'
    BY <1>3, <2>1
  <2> QED BY <1>1, <2>2 DEF Lowest
<1>7. Groups'
  BY <1>1, GroupsSame DEF Search
<1>8. Asked'
  BY <1>1, <1>3 DEF Search, Asked
<1> QED BY <1>2, <1>4, <1>5, <1>6, <1>7, <1>8 DEF Search

LEMMA SearchStep ==
  ASSUME Search, [Next]_vars
  PROVE  Search'
<1>1. CASE VisitNext \/ VisitNeighbor \/ Finish
  BY <1>1, VisitNextSearch, VisitNeighborSearch, FinishSearch
<1>2. CASE StartReport \/ Report \/ EndReport \/ UNCHANGED vars
  <2>1. UNCHANGED <<answer, searchVars>>
    BY <1>2 DEF StartReport, Report, EndReport, vars
  <2> QED BY <2>1, SearchSame
<1> QED BY <1>1, <1>2 DEF Next

\* Nobody is left out: after the last tree the stack is empty and all actors
\* are in the list of groups.
LEMMA AllPlaced ==
  ASSUME Search, frames = <<>>, outer = numActors
  PROVE  AllVisited
<1>1. depth = 0
  <2>1. depth \in Nat
    BY CallFacts DEF Search
  <2>2. \A s \in 0 .. depth - 1 : FALSE
    BY DEF Search, Calls
  <2> QED BY <2>1, <2>2
<1>2. rpoIndex \in Nat /\ rpoIndex <= numActors /\ numActors \in Nat
  BY CallFacts DEF Search
<1>3. \A a \in Actor : \E k \in Complete : stack[k] = a
  BY <1>1, OrderFacts DEF Search, Asked, Met, OnStack, Placed, Complete
<1>4. [a \in Actor |-> CHOOSE k \in Complete : stack[k] = a] \in Injection(Actor, Complete)
  BY <1>3 DEF Injection, IsInjective
<1>5. IsFiniteSet(Complete) /\ Cardinality(Complete) = numActors - rpoIndex
  <2>1. PICK r \in Int, e \in Int : r = rpoIndex /\ e = numActors - 1 /\ r <= e + 1
    BY <1>2
  <2>2. IsFiniteSet(r .. e) /\ Cardinality(r .. e) = IF r > e THEN 0 ELSE e - r + 1
    BY FS_Interval
  <2>3. (IF r > e THEN 0 ELSE e - r + 1) = numActors - rpoIndex
    BY <1>2, <2>1
  <2> QED BY <2>1, <2>2, <2>3 DEF Complete
<1>6. Cardinality(Actor) <= Cardinality(Complete)
  BY <1>4, <1>5, OrderFacts, FS_Injection DEF ExistsInjection
<1>7. rpoIndex = 0
  BY <1>2, <1>5, <1>6, OrderFacts
<1> QED BY <1>1, <1>7 DEF AllVisited

-----------------------------------------------------------------------------
(* Once the search is complete.                                            *)

Finished == Search /\ outer = numActors /\ depth = 0 /\ rpoIndex = 0

LEMMA FinishedFacts ==
  ASSUME Finished
  PROVE  /\ numActors \in Nat /\ Index = 0 .. numActors - 1 /\ Complete = Index /\ Used = Index
         /\ \A k \in Index : k \in Nat /\ stack[k] \in Actor
         /\ \A k, l \in Index : stack[k] = stack[l] => k = l
         /\ \A a \in Actor : answer[a] \in Answers[a] \union {Unasked}
<1>1. numActors \in Nat /\ Index = 0 .. numActors - 1
  BY OrderFacts
<1>2. Complete = Index /\ Used = Index
  BY <1>1 DEF Finished, Complete, Used
<1> QED BY <1>1, <1>2 DEF Finished, Search, Apart, Typed

\* A group goes from where it begins to its leader.
LEMMA GroupEnd ==
  ASSUME Finished, NEW k \in Index
  PROVE  \E e \in Index :
           /\ e >= k /\ stack[e] = leader[k]
           /\ \A r \in k .. e : leader[r] = leader[k]
           /\ \A r \in Index : r > e => leader[r] # leader[k]
<1>1. PICK e \in k .. numActors - 1 :
        stack[e] = leader[k] /\ \A r \in k .. e : leader[r] = leader[k]
  BY FinishedFacts DEF Finished, Search, Groups, Contiguous
<1>2. e \in Index /\ e >= k
  BY <1>1, FinishedFacts
<1>3. ASSUME NEW r \in Index, r > e, leader[r] = leader[k] PROVE FALSE
  <2>1. PICK u \in r .. numActors - 1 : stack[u] = leader[r]
    BY FinishedFacts DEF Finished, Search, Groups, Contiguous
  <2>2. u \in Index /\ u > e
    BY <1>2, <1>3, <2>1, FinishedFacts
  <2>3. u = e
    BY <1>1, <1>2, <1>3, <2>1, <2>2, FinishedFacts
  <2> QED BY <1>2, <2>2, <2>3, FinishedFacts
<1> QED BY <1>1, <1>2, <1>3

\* What is after the group of k waits for nobody before it or in it.
LEMMA AfterGroup ==
  ASSUME Finished, NEW k \in Index, NEW l \in Index, k < l, leader[k] # leader[l]
  PROVE  ~Reaches(Closed, stack[l], stack[k])
<1> DEFINE S == {stack[r] : r \in {r \in Index : r > k /\ leader[r] # leader[k]}}
<1>1. S \in SUBSET Actor
  BY FinishedFacts
<1>2. ASSUME NEW r \in Index, r > k, leader[r] # leader[k], NEW b \in WaitsFor(stack[r])
      PROVE  b \in S
  <2>1. PICK t \in Index : stack[t] = b /\ (t >= r \/ leader[t] = leader[r])
    BY FinishedFacts DEF Finished, Search, Groups, Sorted
  <2>2. k \in Nat /\ r \in Nat /\ t \in Nat
    BY FinishedFacts
  <2>3. CASE t >= r
    <3>1. PICK e \in Index : /\ e >= k
                             /\ \A j \in k .. e : leader[j] = leader[k]
                             /\ \A j \in Index : j > e => leader[j] # leader[k]
      BY GroupEnd
    <3>2. e \in Nat
      BY FinishedFacts
    <3>3. r > e
      <4>1. ~(r \in k .. e)
        BY <1>2, <3>1
      <4> QED BY <1>2, <2>2, <3>2, <4>1
    <3>4. t > e /\ t > k
      BY <1>2, <2>2, <2>3, <3>2, <3>3
    <3> QED BY <2>1, <3>1, <3>4
  <2>4. CASE leader[t] = leader[r]
    <3>1. PICK e \in Index : /\ e >= t
                             /\ \A j \in t .. e : leader[j] = leader[t]
                             /\ \A j \in Index : j > e => leader[j] # leader[t]
      BY GroupEnd
    <3>2. e \in Nat /\ e >= r
      <4>1. ~(r > e)
        BY <2>4, <3>1
      <4> QED BY <2>2, <4>1, FinishedFacts
    <3>3. t > k
      <4>1. ~(k \in t .. e)
        BY <1>2, <2>4, <3>1
      <4> QED BY <1>2, <2>2, <3>2, <4>1
    <3> QED BY <1>2, <2>1, <2>4, <3>3
  <2> QED BY <2>1, <2>3, <2>4
<1>3. S \in Closed
  <2>1. ASSUME NEW c \in S PROVE WaitsFor(c) \subseteq S
    <3>1. PICK r \in Index : r > k /\ leader[r] # leader[k] /\ c = stack[r]
      OBVIOUS
    <3>2. ASSUME NEW b \in WaitsFor(c) PROVE b \in S
      BY <1>2, <3>1, <3>2
    <3> QED BY <3>2
  <2> QED BY <1>1, <2>1 DEF Closed
<1>4. stack[l] \in S /\ stack[k] \notin S
  BY FinishedFacts
<1> QED BY <1>3, <1>4 DEF Reaches

\* Two actors have the same leader exactly when each waits for the other.
LEMMA SameLeader ==
  ASSUME Finished, NEW k \in Index, NEW l \in Index
  PROVE  leader[k] = leader[l] <=> Mutual(Closed, stack[k], stack[l])
<1>1. ASSUME leader[k] = leader[l] PROVE Mutual(Closed, stack[k], stack[l])
  BY <1>1, FinishedFacts DEF Finished, Search, Groups, Connected
<1>2. ASSUME leader[k] # leader[l], Mutual(Closed, stack[k], stack[l]) PROVE FALSE
  <2>1. k < l \/ l < k
    <3>1. k # l /\ k \in Nat /\ l \in Nat
      BY <1>2, FinishedFacts
    <3> QED BY <3>1
  <2> QED BY <1>2, <2>1, AfterGroup DEF Mutual
<1> QED BY <1>1, <1>2

LEMMA ComponentFacts ==
  ASSUME Finished
  PROVE  /\ \A a, b \in Actor : b \in Component(a) <=> Mutual(Closed, a, b)
         /\ \A a \in Actor : Component(a) \subseteq Actor /\ a \in Component(a)
         /\ \A a, b \in Actor : b \in Component(a) => Component(b) = Component(a)
         /\ \A k, l \in Index : leader[k] = leader[l] => Component(stack[k]) = Component(stack[l])
         /\ \A k \in Index :
              {stack[l] : l \in {l \in Index : leader[l] = leader[k]}} = Component(stack[k])
         /\ \A a \in Actor : \E k \in Index : stack[k] = a
<1>1. \A a, b \in Actor : b \in Component(a) <=> Mutual(Closed, a, b)
  BY DEF Component, Mutual, Reaches
<1>2. \A a \in Actor : Component(a) \subseteq Actor /\ a \in Component(a)
  BY DEF Component
<1>3. \A a, b \in Actor : b \in Component(a) => Component(b) = Component(a)
  BY DEF Component
<1>4. \A a \in Actor : \E k \in Index : stack[k] = a
  <2>1. ASSUME NEW j \in 1 .. numActors PROVE \E k \in Index : stack[k] = Order[j]
    BY FinishedFacts DEF Finished, Search, Asked, Met, OnStack, Placed
  <2> QED BY <2>1, OrderFacts
<1>5. ASSUME NEW k \in Index, NEW l \in Index, leader[k] = leader[l]
      PROVE  Component(stack[k]) = Component(stack[l])
  <2>1. stack[k] \in Actor /\ stack[l] \in Actor /\ Mutual(Closed, stack[k], stack[l])
    BY <1>5, SameLeader, FinishedFacts
  <2> QED BY <1>1, <1>3, <2>1
<1>6. ASSUME NEW k \in Index
      PROVE  {stack[l] : l \in {l \in Index : leader[l] = leader[k]}} = Component(stack[k])
  <2>1. stack[k] \in Actor
    BY FinishedFacts
  <2>2. ASSUME NEW l \in Index, leader[l] = leader[k] PROVE stack[l] \in Component(stack[k])
    BY <1>1, <2>1, <2>2, SameLeader, FinishedFacts
  <2>3. ASSUME NEW b \in Component(stack[k])
        PROVE  \E l \in {l \in Index : leader[l] = leader[k]} : stack[l] = b
    <3>1. PICK l \in Index : stack[l] = b
      BY <1>2, <1>4, <2>1
    <3>2. leader[k] = leader[l]
      BY <1>1, <2>1, <3>1, SameLeader, FinishedFacts
    <3> QED BY <3>1, <3>2
  <2> QED BY <2>2, <2>3
<1> QED BY <1>1, <1>2, <1>3, <1>4, <1>5, <1>6

LEMMA GroupsRight ==
  ASSUME Finished
  PROVE  /\ \A k \in Index : {stack[l] : l \in {l \in Index : leader[l] = leader[k]}} = Component(stack[k])
         /\ \A k, l \in Index : k > l /\ stack[l] \in WaitsFor(stack[k]) => leader[k] = leader[l]
         /\ \A k, l \in Index : k < l /\ leader[k] = leader[l] =>
              leader[k + 1] = leader[k] /\ leader[k] # stack[k]
<1>1. ASSUME NEW k \in Index, NEW l \in Index, k > l, stack[l] \in WaitsFor(stack[k])
      PROVE  leader[k] = leader[l]
  <2>1. PICK t \in Index : stack[t] = stack[l] /\ (t >= k \/ leader[t] = leader[k])
    BY <1>1, FinishedFacts DEF Finished, Search, Groups, Sorted
  <2>2. t = l /\ k \in Nat /\ l \in Nat
    BY <2>1, FinishedFacts
  <2> QED BY <1>1, <2>1, <2>2
<1>2. ASSUME NEW k \in Index, NEW l \in Index, k < l, leader[k] = leader[l]
      PROVE  leader[k + 1] = leader[k] /\ leader[k] # stack[k]
  <2>1. PICK e \in Index : /\ e >= k /\ stack[e] = leader[k]
                           /\ \A r \in k .. e : leader[r] = leader[k]
                           /\ \A r \in Index : r > e => leader[r] # leader[k]
    BY GroupEnd
  <2>2. k \in Nat /\ l \in Nat /\ e \in Nat
    BY FinishedFacts
  <2>3. l <= e
    <3>1. ~(l > e)
      BY <1>2, <2>1
    <3> QED BY <2>2, <3>1
  <2>4. k + 1 \in k .. e /\ e # k
    BY <1>2, <2>2, <2>3
  <2> QED BY <2>1, <2>4, FinishedFacts
<1> QED BY <1>1, <1>2, ComponentFacts

-----------------------------------------------------------------------------
(* The report.                                                             *)

Loop(group) == Cardinality(group) > 1 \/ \E a \in group : SelfLoop(a)

Reporting ==
  /\ pc \in {"visiting", "reporting", "done", "exit"}
  /\ i \in 0 .. numActors /\ deadlockFound \in BOOLEAN
  /\ cyclic \subseteq SUBSET Actor /\ artificial \subseteq Actor
  /\ pc = "visiting" => i = 0 /\ ~deadlockFound /\ cyclic = {} /\ artificial = {}

\* The groups before i, and no others, are reported.
Told ==
  /\ \A k \in 0 .. i - 1, l \in i .. numActors - 1 : leader[k] # leader[l]
  /\ cyclic = {Component(stack[k]) : k \in {k \in 0 .. i - 1 : Loop(Component(stack[k]))}}
  /\ artificial = {stack[k] : k \in {k \in 0 .. i - 1 : /\ ~Loop(Component(stack[k]))
                                                        /\ BlockedOnOutput(stack[k])}}
  /\ deadlockFound <=> \E k \in 0 .. i - 1 : Loop(Component(stack[k])) \/ BlockedOnOutput(stack[k])

Whole ==
  /\ Search /\ Reporting
  /\ pc \in {"reporting", "done"} => Finished /\ Told
  /\ pc = "done" => i = numActors
  /\ pc = "exit" => \E a \in Actor : answer[a].kind = "fireable"

\* The group of i is what Report finds, and one step reports it.
LEMMA NextGroup ==
  ASSUME Finished, Told, NEW b \in Nat, b = i, b \in Index
  PROVE  \E e \in Index :
           /\ e >= b
           /\ \A r \in b .. e : Component(stack[r]) = Component(stack[b]) /\ leader[r] = leader[b]
           /\ \A r \in Index : r > e => leader[r] # leader[b]
           /\ OfCycle(stack[b]) <=> e # b
           /\ Component(stack[b]) =
                IF OfCycle(stack[b]) THEN {stack[k] : k \in Group} ELSE {stack[b]}
           /\ NextIndex(Component(stack[b])) = e + 1
           /\ OfCycle(stack[b]) \/ SelfLoop(stack[b]) <=> Loop(Component(stack[b]))
<1>1. PICK e \in Index : /\ e >= b /\ stack[e] = leader[b]
                         /\ \A r \in b .. e : leader[r] = leader[b]
                         /\ \A r \in Index : r > e => leader[r] # leader[b]
  BY GroupEnd
<1>2. e \in Nat /\ numActors \in Nat /\ Index = 0 .. numActors - 1
  BY FinishedFacts
<1>3. \A r \in b .. e : r \in Index /\ r \in Nat
  BY <1>1, <1>2
<1>4. OfCycle(stack[b]) <=> e # b
  BY <1>1, FinishedFacts DEF OfCycle
<1>5. PICK C : C = Component(stack[b])
  OBVIOUS
<1>6. C = {stack[k] : k \in b .. e}
  <2>1. {l \in Index : leader[l] = leader[b]} = b .. e
    <3>1. ASSUME NEW l \in Index, leader[l] = leader[b] PROVE l \in b .. e
      <4>1. ~(l > e) /\ l \in Nat
        BY <1>1, <3>1, FinishedFacts
      <4>2. ~(l < b)
        <5>1. b \in b .. numActors - 1
          BY <1>2
        <5> QED BY <3>1, <4>1, <5>1 DEF Told
      <4> QED BY <1>2, <4>1, <4>2
    <3> QED BY <1>1, <1>3, <3>1
  <2> QED BY <1>5, <2>1, ComponentFacts
<1>7. \A r \in b .. e : Component(stack[r]) = C
  BY <1>1, <1>3, <1>5, ComponentFacts
<1>8. Group = b .. e
  <2>1. e \in b .. numActors - 1 /\ \A k \in b .. numActors - 1 : k \in Index
    BY <1>1, <1>2
  <2>2. (CHOOSE k \in b .. numActors - 1 : stack[k] = leader[b]) = e
    BY <1>1, <2>1, FinishedFacts
  <2> QED BY <2>2 DEF Group
<1>9. C = IF OfCycle(stack[b]) THEN {stack[k] : k \in Group} ELSE {stack[b]}
  <2>1. CASE e = b
    <3>1. b .. e = {b}
      BY <2>1
    <3> QED BY <1>4, <1>6, <2>1, <3>1
  <2> QED BY <1>4, <1>6, <1>8, <2>1
<1>10. IsFiniteSet(C) /\ Cardinality(C) = e - b + 1
  <2>1. IsFiniteSet(b .. e) /\ Cardinality(b .. e) = IF b > e THEN 0 ELSE e - b + 1
    <3>1. b \in Int /\ e \in Int
      BY <1>2
    <3> QED BY <3>1, FS_Interval
  <2>2. [k \in b .. e |-> stack[k]] \in Bijection(b .. e, C)
    <3>1. \A k, l \in b .. e : stack[k] = stack[l] => k = l
      BY <1>3, FinishedFacts
    <3> QED BY <1>6, <3>1 DEF Bijection, Injection, Surjection, IsInjective
  <2>3. ExistsBijection(b .. e, C)
    BY <2>2 DEF ExistsBijection
  <2>4. IsFiniteSet(C) /\ Cardinality(C) = Cardinality(b .. e)
    BY <2>1, <2>3, FS_Bijection
  <2> QED BY <1>1, <1>2, <2>1, <2>4
<1>11. NextIndex(C) = e + 1
  BY <1>2, <1>10 DEF NextIndex
<1>12. OfCycle(stack[b]) \/ SelfLoop(stack[b]) <=> Loop(C)
  <2>1. CASE e = b
    <3>1. ~(Cardinality(C) > 1) /\ C = {stack[b]}
      BY <1>2, <1>4, <1>9, <1>10, <2>1
    <3> QED BY <1>4, <2>1, <3>1 DEF Loop
  <2>2. CASE e # b
    <3>1. Cardinality(C) > 1
      BY <1>1, <1>2, <1>10, <2>2
    <3> QED BY <1>4, <2>2, <3>1 DEF Loop
  <2> QED BY <2>1, <2>2
<1> QED BY <1>1, <1>4, <1>5, <1>7, <1>9, <1>11, <1>12

LEMMA ReportStep ==
  ASSUME Whole, Report
  PROVE  Reporting' /\ Told' /\ pc' = "reporting"
<1>1. Finished /\ Told /\ pc = "reporting" /\ i < numActors /\ Reporting
  BY DEF Whole, Report
<1>2. PICK b \in Nat : b = i /\ b \in Index
  BY <1>1, FinishedFacts DEF Reporting
<1>3. PICK e \in Index :
           /\ e >= b
           /\ \A r \in b .. e : Component(stack[r]) = Component(stack[b]) /\ leader[r] = leader[b]
           /\ \A r \in Index : r > e => leader[r] # leader[b]
           /\ OfCycle(stack[b]) <=> e # b
           /\ Component(stack[b]) =
                IF OfCycle(stack[b]) THEN {stack[k] : k \in Group} ELSE {stack[b]}
           /\ NextIndex(Component(stack[b])) = e + 1
           /\ OfCycle(stack[b]) \/ SelfLoop(stack[b]) <=> Loop(Component(stack[b]))
  BY <1>1, <1>2, NextGroup
<1>4. PICK a \in Actor : a = stack[b]
  BY <1>1, <1>2, FinishedFacts
<1>5. PICK C \in SUBSET Actor : C = Component(a)
  BY <1>1, <1>4, ComponentFacts
<1>6. /\ cyclic' = IF Loop(C) THEN cyclic \union {C} ELSE cyclic
      /\ artificial' = IF ~Loop(C) /\ BlockedOnOutput(a) THEN artificial \union {a} ELSE artificial
      /\ deadlockFound' = (deadlockFound \/ Loop(C) \/ BlockedOnOutput(a))
      /\ i' = e + 1
  <2>1. C = IF OfCycle(a) THEN {stack[k] : k \in Group} ELSE {a}
    BY <1>3, <1>4, <1>5
  <2>2. OfCycle(a) \/ SelfLoop(a) <=> Loop(C)
    BY <1>3, <1>4, <1>5
  <2>3. NextIndex(C) = e + 1
    BY <1>3, <1>4, <1>5
  <2> QED BY <1>2, <1>4, <2>1, <2>2, <2>3 DEF Report
<1>7. /\ stack' = stack /\ leader' = leader /\ answer' = answer /\ pc' = pc
      /\ \A c : Component(c)' = Component(c)
      /\ \A c : BlockedOnOutput(c)' <=> BlockedOnOutput(c)
      /\ \A c : SelfLoop(c)' <=> SelfLoop(c)
      /\ \A g : Loop(g)' <=> Loop(g)
  <2>1. stack' = stack /\ leader' = leader /\ answer' = answer /\ pc' = pc
    BY DEF Report, searchVars
  <2>2. /\ \A c : BlockedOnOutput(c)' <=> BlockedOnOutput(c)
        /\ \A c : SelfLoop(c)' <=> SelfLoop(c)
    BY <2>1 DEF BlockedOnOutput, SelfLoop, BlockedPorts
  <2>3. \A c : Component(c)' = Component(c)
    BY <2>1, ClosedSame DEF Component
  <2> QED BY <2>1, <2>2, <2>3 DEF Loop
<1>8. /\ 0 .. i' - 1 = (0 .. b - 1) \union (b .. e) /\ b \in b .. e
      /\ \A r \in b .. e : Component(stack[r]) = C
      /\ e \in Nat /\ numActors \in Nat /\ e < numActors
  <2>1. e \in Nat /\ numActors \in Nat /\ e < numActors /\ e >= b
    BY <1>1, <1>3, FinishedFacts
  <2>2. i' - 1 = e
    BY <1>6, <2>1
  <2>3. 0 .. e = (0 .. b - 1) \union (b .. e) /\ b \in b .. e
    BY <1>2, <2>1
  <2>4. \A r \in b .. e : Component(stack[r]) = C
    BY <1>3, <1>4, <1>5
  <2> QED BY <2>1, <2>2, <2>3, <2>4
<1>9. ~Loop(C) => b .. e = {b}
  BY <1>2, <1>3, <1>4, <1>5
<1>10. Reporting'
  BY <1>1, <1>6, <1>7, <1>8 DEF Reporting
<1>11. Told'
  <2>1. ASSUME NEW k \in 0 .. i' - 1, NEW l \in i' .. numActors - 1
        PROVE  leader[k] # leader[l]
    <3>1. l \in b .. numActors - 1 /\ l \in Index /\ l > e
      BY <1>1, <1>2, <1>3, <1>6, <1>8, FinishedFacts
    <3>2. CASE k \in 0 .. b - 1
      BY <1>1, <1>2, <3>1, <3>2 DEF Told
    <3>3. CASE k \in b .. e
      BY <1>3, <3>1, <3>3
    <3> QED BY <1>8, <3>2, <3>3
  <2>2. cyclic' = {Component(stack[k]) : k \in {k \in 0 .. i' - 1 : Loop(Component(stack[k]))}}
    <3>1. cyclic = {Component(stack[k]) : k \in {k \in 0 .. b - 1 : Loop(Component(stack[k]))}}
      BY <1>1, <1>2 DEF Told
    <3> QED BY <1>6, <1>8, <3>1
  <2>3. artificial' = {stack[k] : k \in {k \in 0 .. i' - 1 : /\ ~Loop(Component(stack[k]))
                                                             /\ BlockedOnOutput(stack[k])}}
    <3>1. artificial = {stack[k] : k \in {k \in 0 .. b - 1 : /\ ~Loop(Component(stack[k]))
                                                             /\ BlockedOnOutput(stack[k])}}
      BY <1>1, <1>2 DEF Told
    <3> QED BY <1>4, <1>6, <1>8, <1>9, <3>1
  <2>4. deadlockFound' <=>
          \E k \in 0 .. i' - 1 : Loop(Component(stack[k])) \/ BlockedOnOutput(stack[k])
    <3>1. deadlockFound <=>
            \E k \in 0 .. b - 1 : Loop(Component(stack[k])) \/ BlockedOnOutput(stack[k])
      BY <1>1, <1>2 DEF Told
    <3>2. deadlockFound' <=> deadlockFound \/ Loop(C) \/ BlockedOnOutput(a)
      BY <1>6
    <3>3. (\E k \in b .. e : Loop(Component(stack[k])) \/ BlockedOnOutput(stack[k]))
            <=> Loop(C) \/ BlockedOnOutput(a)
      <4>1. CASE Loop(C)
        BY <1>8, <4>1
      <4>2. CASE ~Loop(C)
        BY <1>4, <1>8, <1>9, <4>2
      <4> QED BY <4>1, <4>2
    <3>4. (\E k \in 0 .. i' - 1 : Loop(Component(stack[k])) \/ BlockedOnOutput(stack[k])) <=>
            \/ \E k \in 0 .. b - 1 : Loop(Component(stack[k])) \/ BlockedOnOutput(stack[k])
            \/ \E k \in b .. e : Loop(Component(stack[k])) \/ BlockedOnOutput(stack[k])
      BY <1>8
    <3> QED BY <3>1, <3>2, <3>3, <3>4
  <2> QED BY <1>7, <2>1, <2>2, <2>3, <2>4 DEF Told
<1> QED BY <1>1, <1>7, <1>10, <1>11

LEMMA WholeInit ==
  ASSUME Init
  PROVE  Whole
<1>1. Search
  BY SearchInit
<1>2. /\ pc = "visiting" /\ i = 0 /\ cyclic = {} /\ artificial = {} /\ deadlockFound = FALSE
  BY DEF Init
<1>3. i \in 0 .. numActors
  BY <1>2, OrderFacts
<1>4. deadlockFound \in BOOLEAN /\ ~deadlockFound
  BY <1>2
<1>5. Reporting
  BY <1>2, <1>3, <1>4, Zenon DEF Reporting
<1> QED BY <1>1, <1>2, <1>5 DEF Whole

LEMMA PushExit ==
  ASSUME Typed, Asked, NEW a \in Actor, NEW callers, Push(a, callers), pc = "visiting"
  PROVE  /\ pc' \in {"visiting", "exit"}
         /\ pc' = "exit" => \E b \in Actor : answer'[b].kind = "fireable"
<1>1. PICK x \in Answers[a] : /\ answer' = [answer EXCEPT ![a] = x]
                              /\ pc' = IF x.kind = "fireable" THEN "exit" ELSE pc
  BY DEF Push
<1>2. answer'[a] = x
  BY <1>1 DEF Typed
<1> QED BY <1>1, <1>2

LEMMA WholeStep ==
  ASSUME Whole, [Next]_vars
  PROVE  Whole'
<1>1. Search'
  BY SearchStep DEF Whole
<1>2. Search /\ Reporting /\ Typed /\ Asked /\ Calls
  BY DEF Whole, Search
<1>3. CASE VisitNext \/ VisitNeighbor \/ Finish
  <2>1. pc = "visiting" /\ UNCHANGED reportVars
    BY <1>3 DEF VisitNext, VisitNeighbor, Finish
  <2>2. /\ pc' \in {"visiting", "exit"}
        /\ pc' = "exit" => \E b \in Actor : answer'[b].kind = "fireable"
    <3>1. CASE VisitNext
      <4>1. outer + 1 \in 1 .. numActors
        BY <1>2, <3>1, OrderFacts DEF VisitNext, Asked
      <4>2. PICK a \in Actor : a = Order[outer + 1]
        BY <4>1, OrderFacts
      <4>3. Push(a, <<>>) \/ pc' = pc
        BY <3>1, <4>2 DEF VisitNext
      <4> QED BY <1>2, <2>1, <4>3, PushExit
    <3>2. CASE VisitNeighbor
      <4>1. PICK q \in Top.todo :
              Push(Neighbor(Top.actor, answer[Top.actor], q), Visited(q)) \/ pc' = pc
        BY <3>2 DEF VisitNeighbor
      <4>2. Neighbor(Top.actor, answer[Top.actor], q) \in Actor
        <5>1. frames # <<>>
          BY <3>2 DEF VisitNeighbor
        <5>2. Len(frames) \in DOMAIN frames
          BY <1>2, <5>1, CallFacts DEF Typed
        <5>3. Top.actor \in Actor /\ q \in Visits(Top.actor, answer[Top.actor])
          BY <1>2, <5>2, CallFacts DEF Calls, Top
        <5> QED BY <1>2, <5>3, VisitsFacts DEF Typed
      <4> QED BY <1>2, <2>1, <4>1, <4>2, PushExit
    <3>3. CASE Finish
      BY <2>1, <3>3 DEF Finish
    <3> QED BY <1>3, <3>1, <3>2, <3>3
  <2>3. Reporting'
    BY <1>2, <2>1, <2>2 DEF Reporting, reportVars
  <2> QED BY <1>1, <2>2, <2>3 DEF Whole
<1>4. CASE StartReport
  <2>1. /\ pc = "visiting" /\ frames = <<>> /\ outer = numActors
        /\ UNCHANGED <<answer, searchVars, reportVars>>
    BY <1>4 DEF StartReport
  <2>2. AllVisited
    BY <1>2, <2>1, AllPlaced
  <2>3. pc' = "reporting"
    BY <1>4, <2>2 DEF StartReport
  <2>4. Finished'
    BY <1>1, <2>1, <2>2 DEF Finished, AllVisited, searchVars
  <2>5. i' = 0 /\ deadlockFound' = FALSE /\ cyclic' = {} /\ artificial' = {}
    BY <1>2, <2>1 DEF Reporting, reportVars
  <2>6. 0 .. i' - 1 = {}
    BY <2>5
  <2>7. Told'
    BY <2>5, <2>6 DEF Told
  <2>8. Reporting'
    BY <1>2, <2>1, <2>3 DEF Reporting, reportVars
  <2> QED BY <1>1, <2>3, <2>4, <2>7, <2>8 DEF Whole
<1>5. CASE Report
  <2>1. Reporting' /\ Told' /\ pc' = "reporting"
    BY <1>5, ReportStep
  <2>2. Finished'
    BY <1>1, <1>5 DEF Whole, Report, Finished, searchVars
  <2> QED BY <1>1, <2>1, <2>2 DEF Whole
<1>6. CASE EndReport \/ UNCHANGED vars
  <2>1. /\ UNCHANGED <<answer, searchVars, reportVars>>
        /\ pc' = pc \/ (pc = "reporting" /\ pc' = "done" /\ i = numActors)
    <3>1. CASE EndReport
      <4>1. i >= numActors /\ pc = "reporting" /\ pc' = "done"
        BY <3>1 DEF EndReport
      <4>2. i = numActors
        BY <1>2, <4>1, OrderFacts DEF Reporting
      <4> QED BY <3>1, <4>1, <4>2 DEF EndReport
    <3> QED BY <1>6, <3>1 DEF vars
  <2>2. /\ answer' = answer /\ stack' = stack /\ leader' = leader /\ depth' = depth
        /\ rpoIndex' = rpoIndex /\ outer' = outer /\ i' = i /\ deadlockFound' = deadlockFound
        /\ cyclic' = cyclic /\ artificial' = artificial
    BY <2>1 DEF searchVars, reportVars
  <2>3. Reporting'
    BY <1>2, <2>1, <2>2 DEF Reporting
  <2>4. ASSUME pc \in {"reporting", "done"} PROVE Finished' /\ Told'
    <3>1. Finished /\ Told
      BY <2>4 DEF Whole
    <3>2. Finished'
      BY <1>1, <2>2, <3>1 DEF Finished
    <3>3. \A c : Component(c)' = Component(c)
      BY <2>2, ClosedSame DEF Component
    <3>4. /\ \A c : BlockedOnOutput(c)' <=> BlockedOnOutput(c)
          /\ \A g : Loop(g)' <=> Loop(g)
      BY <2>2 DEF BlockedOnOutput, SelfLoop, BlockedPorts, Loop
    <3>5. Told'
      BY <2>2, <3>1, <3>3, <3>4 DEF Told
    <3> QED BY <3>2, <3>5
  <2> QED BY <1>1, <2>1, <2>2, <2>3, <2>4 DEF Whole
<1>7. CASE pc \in {"done", "exit"} /\ UNCHANGED vars
  BY <1>6, <1>7
<1> QED BY <1>3, <1>4, <1>5, <1>6, <1>7 DEF Next

LEMMA WholeAlways == Spec => []Whole
BY WholeInit, WholeStep, PTL DEF Spec

-----------------------------------------------------------------------------
(* The theorems.                                                           *)

\* No index leaves the array, and the stack of the search never overwrites the
\* list of complete groups that shares the array with it, nor the list the
\* stack: for every number of actors and every graph.
THEOREM ArrayCorrect == Spec => []ArrayShared
<1>1. Whole => ArrayShared
  <2> SUFFICES ASSUME Whole PROVE ArrayShared
    OBVIOUS
  <2>1. Search /\ Reporting /\ Typed /\ Apart /\ Calls /\ Asked
    BY DEF Whole, Search
  <2>2. TypeOK
    <3>1. ASSUME NEW k \in DOMAIN frames
          PROVE  /\ frames[k].actor \in Actor
                 /\ frames[k].todo \subseteq Visits(frames[k].actor, answer[frames[k].actor])
                 /\ frames[k].myIndex \in Index /\ frames[k].minIndex \in 0 .. frames[k].myIndex
      BY <2>1, CallFacts DEF Calls
    <3>2. outer \in 0 .. numActors
      BY <2>1 DEF Asked
    <3> QED BY <2>1, <3>1, <3>2 DEF TypeOK, Typed, Reporting
  <2>3. \A k, l \in Used : stack[k] # NoActor /\ (stack[k] = stack[l] => k = l)
    BY <2>1, ReportAssumption DEF Apart
  <2>4. /\ \A k \in DOMAIN frames :
             frames[k].myIndex < depth /\ stack[frames[k].myIndex] = frames[k].actor
        /\ \A k, l \in DOMAIN frames : k < l => frames[k].myIndex < frames[l].myIndex
    BY <2>1 DEF Calls
  <2> QED BY <2>1, <2>2, <2>3, <2>4 DEF ArrayShared, Apart, Used
<1> QED BY <1>1, WholeAlways, PTL

\* The groups that the search finds are those that wait for each other: two
\* actors have the same leader exactly when each waits for the other, groups
\* are contiguous with their leader at the end, and an actor comes before the
\* actors of other groups that it waits for.
THEOREM SearchCorrect == Spec => []GroupsCorrect
<1>1. Whole => GroupsCorrect
  BY GroupsRight DEF Whole, GroupsCorrect
<1> QED BY <1>1, WholeAlways, PTL

\* The report is exact: it names all groups that wait for each other and all
\* other actors that block on an output, and nothing else.
THEOREM ReportRight == Spec => []ReportCorrect
<1>1. Whole => ReportCorrect
  <2> SUFFICES ASSUME Whole, pc = "done"
               PROVE  /\ cyclic = {group \in {Component(a) : a \in Actor} : Loop(group)}
                      /\ artificial = {a \in Actor : BlockedOnOutput(a)} \ UNION cyclic
                      /\ deadlockFound <=> cyclic # {} \/ artificial # {}
    BY DEF ReportCorrect, Loop
  <2>1. Finished /\ Told /\ i = numActors
    BY DEF Whole
  <2>2. 0 .. i - 1 = Index /\ \A k \in Index : stack[k] \in Actor
    BY <2>1, FinishedFacts
  <2>3. \A a \in Actor : \E k \in Index : stack[k] = a
    BY <2>1, ComponentFacts
  <2>4. cyclic = {group \in {Component(a) : a \in Actor} : Loop(group)}
    <3>1. cyclic = {Component(stack[k]) : k \in {k \in Index : Loop(Component(stack[k]))}}
      BY <2>1, <2>2 DEF Told
    <3>2. ASSUME NEW g \in cyclic PROVE \E a \in Actor : g = Component(a) /\ Loop(g)
      <4>1. PICK k \in Index : g = Component(stack[k]) /\ Loop(Component(stack[k]))
        BY <3>1
      <4>2. stack[k] \in Actor
        BY <2>2
      <4> QED BY <4>1, <4>2
    <3>3. ASSUME NEW a \in Actor, Loop(Component(a)) PROVE Component(a) \in cyclic
      <4>1. PICK k \in Index : stack[k] = a
        BY <2>3
      <4> QED BY <3>1, <3>3, <4>1
    <3> QED BY <3>2, <3>3
  <2>5. artificial = {a \in Actor : ~Loop(Component(a)) /\ BlockedOnOutput(a)}
    <3>1. artificial = {stack[k] : k \in {k \in Index : /\ ~Loop(Component(stack[k]))
                                                       /\ BlockedOnOutput(stack[k])}}
      BY <2>1, <2>2 DEF Told
    <3>2. ASSUME NEW a \in artificial
          PROVE  a \in Actor /\ ~Loop(Component(a)) /\ BlockedOnOutput(a)
      <4>1. PICK k \in Index : /\ a = stack[k] /\ ~Loop(Component(stack[k]))
                               /\ BlockedOnOutput(stack[k])
        BY <3>1
      <4>2. stack[k] \in Actor
        BY <2>2
      <4> QED BY <4>1, <4>2
    <3>3. ASSUME NEW a \in Actor, ~Loop(Component(a)), BlockedOnOutput(a) PROVE a \in artificial
      <4>1. PICK k \in Index : stack[k] = a
        BY <2>3
      <4> QED BY <3>1, <3>3, <4>1
    <3> QED BY <3>2, <3>3
  <2>6. ASSUME NEW a \in Actor
        PROVE  a \in UNION cyclic <=> Loop(Component(a))
    <3>1. ASSUME a \in UNION cyclic PROVE Loop(Component(a))
      <4>1. PICK c \in Actor : a \in Component(c) /\ Loop(Component(c))
        BY <2>4, <3>1
      <4> QED BY <2>1, <4>1, ComponentFacts
    <3>2. ASSUME Loop(Component(a)) PROVE a \in UNION cyclic
      BY <2>1, <2>4, <3>2, ComponentFacts
    <3> QED BY <3>1, <3>2
  <2>7. artificial = {a \in Actor : BlockedOnOutput(a)} \ UNION cyclic
    BY <2>5, <2>6
  <2>8. deadlockFound <=> \E a \in Actor : Loop(Component(a)) \/ BlockedOnOutput(a)
    BY <2>1, <2>2, <2>3 DEF Told
  <2>9. (\E a \in Actor : Loop(Component(a)) \/ BlockedOnOutput(a)) <=> cyclic # {} \/ artificial # {}
    BY <2>4, <2>5
  <2> QED BY <2>4, <2>7, <2>8, <2>9
<1> QED BY <1>1, WholeAlways, PTL

\* runtimeError is called for an actor that could fire and never because an
\* actor was left out: the check for internal errors in lines 169-175 is dead.
THEOREM VisitsAll == Spec => [](pc = "exit" => \E a \in Actor : answer[a].kind = "fireable")
<1>1. Whole => (pc = "exit" => \E a \in Actor : answer[a].kind = "fireable")
  BY DEF Whole
<1> QED BY <1>1, WholeAlways, PTL
=============================================================================

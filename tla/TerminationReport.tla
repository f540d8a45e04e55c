-------------------------- MODULE TerminationReport --------------------------
(***************************************************************************)
(* deadlock_report (termination-report.c): after the end of an execution   *)
(* it asks every action scheduler why it does not fire, searches the graph *)
(* "waits for" by depth first for the groups of actors that wait for each  *)
(* other, and reports these groups and the actors blocked on an output.    *)
(*                                                                         *)
(* The search keeps two lists in one array of numActors entries: the stack *)
(* of actors whose group is not complete grows from the front, the list of *)
(* complete groups from the back.  leader is a second array, for the back. *)
(*                                                                         *)
(* A step is a call of visit, the pop at its end, or an iteration of the   *)
(* report loop.  The recursion of visit is the sequence frames.            *)
(***************************************************************************)
EXTENDS Integers, Sequences, FiniteSets, SequencesExt

CONSTANTS
  Order,      \* all actors, as the loop over cpu[i].actor[j] meets them
  Producer,   \* actor -> for each input port the actor that writes to it
  Consumers,  \* actor -> for each output port the actors that read it
  Answers,    \* actor -> what it may answer when asked, see below
  NoActor

Actor == ToSet(Order)
numActors == Len(Order)
Inputs(a) == Len(Producer[a])

(***************************************************************************)
(* An answer is a record.  Its kind is                                     *)
(*   "terminated"  the actor is not asked                                  *)
(*   "blocked"     ports lists port indices (inputs before outputs), each  *)
(*                 with lacking, the readers whose FIFO has not the space  *)
(*                 required: the others are not waited for                 *)
(*   "idle"        the first number is negative, no port is listed         *)
(*                 (EXITCODE_TERMINATE, EXIT_CODE_PREDICATE)               *)
(*   "fireable"    it fired, or it returned EXIT_CODE_YIELD                *)
(* and Unasked is what stands for the answer of an actor not yet visited.  *)
(***************************************************************************)
ASSUME ReportAssumption ==
  /\ Order \in Seq(Actor) /\ \A k, l \in DOMAIN Order : Order[k] = Order[l] => k = l
  /\ NoActor \notin Actor
  /\ \A a \in Actor :
       /\ Producer[a] \in Seq(Actor) /\ Consumers[a] \in Seq(Seq(Actor))
       /\ \A x \in Answers[a] :
            /\ x.ports \in Seq([index : 0 .. Inputs(a) + Len(Consumers[a]) - 1,
                               lacking : SUBSET Actor])
            /\ x.kind # "blocked" => x.ports = <<>>

VARIABLES
  answer,           \* actor -> its answer: nothing runs, so it stays the same
  pc,               \* visiting, reporting, done, or exit in runtimeError
  outer,            \* how many actors the loop has visited
  frames,           \* the calls of visit: actor, myIndex, minIndex, and todo, what
                    \* the call has not yet visited
  stack, leader, depth, rpoIndex,  \* ComponentInfo
  i,                \* index of the report loop
  deadlockFound,
  cyclic, artificial  \* what is printed: groups, actors blocked on an output

searchVars == <<outer, frames, stack, leader, depth, rpoIndex>>
reportVars == <<i, deadlockFound, cyclic, artificial>>
vars == <<answer, pc, searchVars, reportVars>>

Index == 0 .. numActors - 1
Unasked == [kind |-> "unasked", ports |-> <<>>]

Init ==
  /\ answer = [a \in Actor |-> Unasked]
  /\ pc = "visiting" /\ outer = 0 /\ frames = <<>>
  /\ stack = [k \in Index |-> NoActor] /\ leader = [k \in Index |-> NoActor]
  /\ depth = 0 /\ rpoIndex = numActors
  /\ i = 0 /\ deadlockFound = FALSE /\ cyclic = {} /\ artificial = {}

-----------------------------------------------------------------------------
(* The search.                                                             *)

\* The readers of an output port that visitNeighbor visits, by their number; an
\* input port has one writer.
Ways(a, port) ==
  IF port.index < Inputs(a) THEN {1}
  ELSE LET readers == Consumers[a][port.index - Inputs(a) + 1]
       IN {r \in DOMAIN readers : readers[r] \in port.lacking}

\* What an actor that answers x visits: port p of the answer, reader r of it.
\* An answer other than blocked lists no ports.
Visits(a, x) == UNION {{p} \X Ways(a, x.ports[p]) : p \in DOMAIN x.ports}

\* The actor that is visited there, and the order of the two loops.
Neighbor(a, x, q) ==
  LET port == x.ports[q[1]]
  IN IF port.index < Inputs(a) THEN Producer[a][port.index + 1]
     ELSE Consumers[a][port.index - Inputs(a) + 1][q[2]]

Before(o, q) == o[1] < q[1] \/ (o[1] = q[1] /\ o[2] < q[2])

WaitsFor(a) == {Neighbor(a, answer[a], q) : q \in Visits(a, answer[a])}

OnStack(a) == \E k \in 0 .. depth - 1 : stack[k] = a
Placed(a) == \E k \in rpoIndex .. numActors - 1 : stack[k] = a

Top == frames[Len(frames)]

\* The calls in progress once the last one has visited q.
Visited(q) == [frames EXCEPT ![Len(frames)].todo = @ \ {q}]

\* visit(a) when a is new: push it, and ask it why it is blocked.
Push(a, callers) ==
  /\ ~OnStack(a) /\ ~Placed(a)
  /\ stack' = [stack EXCEPT ![depth] = a]
  /\ depth' = depth + 1
  /\ \E x \in Answers[a] :
       /\ answer' = [answer EXCEPT ![a] = x]
       /\ frames' = Append(callers, [actor |-> a, myIndex |-> depth, minIndex |-> depth,
                                     todo |-> Visits(a, x)])
       /\ pc' = IF x.kind = "fireable" THEN "exit" ELSE pc
  /\ UNCHANGED <<leader, rpoIndex>>

BadSeen(a) == depth

\* What visit(a) returns at once when a was seen before.
Seen(a) == IF OnStack(a) THEN CHOOSE k \in 0 .. depth - 1 : stack[k] = a ELSE depth

\* The loop of deadlock_report: the search tree of one more actor.
VisitNext ==
  /\ pc = "visiting" /\ frames = <<>> /\ outer < numActors
  /\ LET a == Order[outer + 1]
     IN \/ Push(a, <<>>)
        \/ /\ OnStack(a) \/ Placed(a)
           /\ UNCHANGED <<answer, frames, stack, leader, depth, rpoIndex, pc>>
  /\ outer' = outer + 1
  /\ UNCHANGED reportVars

Lower(min, index) == IF index < min THEN index ELSE min

\* The two loops over ports and readers.
VisitNeighbor ==
  /\ pc = "visiting" /\ frames # <<>>
  /\ \E q \in Top.todo :
       /\ \A o \in Top.todo : ~Before(o, q)
       /\ LET a == Neighbor(Top.actor, answer[Top.actor], q)
          IN \/ Push(a, Visited(q))
             \/ /\ OnStack(a) \/ Placed(a)
                /\ frames' = [Visited(q) EXCEPT ![Len(frames)].minIndex = Lower(@, Seen(a))]
                /\ UNCHANGED <<answer, stack, leader, depth, rpoIndex, pc>>
  /\ UNCHANGED <<outer, reportVars>>

BadPopped(min) == depth
BadLeader(min) == stack[min]

\* How many actors leave the stack: all from minIndex to the top.
Popped(min) == depth - min

\* classLeader
Leader(min) == stack[depth - 1]

\* The end of visit: a whole group leaves the stack for the back of the
\* array, its last actor is the leader.  The caller goes on with minIndex.
Finish ==
  /\ pc = "visiting" /\ frames # <<>> /\ Top.todo = {}
  /\ IF Top.minIndex = Top.myIndex
     THEN LET size == Popped(Top.minIndex)
              rpo == rpoIndex - size
          IN /\ stack' = [k \in Index |-> IF k \in rpo .. rpoIndex - 1
                                          THEN stack[depth - rpoIndex + k] ELSE stack[k]]
             /\ leader' = [k \in Index |-> IF k \in rpo .. rpoIndex - 1
                                           THEN Leader(Top.minIndex) ELSE leader[k]]
             /\ depth' = depth - size
             /\ rpoIndex' = rpo
     ELSE UNCHANGED <<stack, leader, depth, rpoIndex>>
  /\ frames' = LET callers == Front(frames)
               IN IF callers = <<>> THEN <<>>
                  ELSE [callers EXCEPT ![Len(callers)].minIndex = Lower(@, Top.minIndex)]
  /\ UNCHANGED <<answer, pc, outer, reportVars>>

\* The check for an internal error in lines 169-175.
AllVisited == depth = 0 /\ rpoIndex = 0

StartReport ==
  /\ pc = "visiting" /\ frames = <<>> /\ outer = numActors
  /\ pc' = IF AllVisited THEN "reporting" ELSE "exit"
  /\ UNCHANGED <<answer, searchVars, reportVars>>

-----------------------------------------------------------------------------
(* The report.                                                             *)

\* From i to the leader of the group of i: lines 182-192.
Group == LET last == CHOOSE k \in i .. numActors - 1 : stack[k] = leader[i]
         IN i .. last

BlockedPorts(a) == ToSet(answer[a].ports)

SelfLoop(a) == \E p \in BlockedPorts(a) : p.index < Inputs(a) /\ Producer[a][p.index + 1] = a
BlockedOnOutput(a) == \E p \in BlockedPorts(a) : p.index >= Inputs(a)

BadOfCycle(a) == FALSE
OfCycle(a) == leader[i] # a

BadNextIndex(group) == i + Cardinality(group) - 1
NextIndex(group) == i + Cardinality(group)

Report ==
  /\ pc = "reporting" /\ i < numActors
  /\ LET a == stack[i]
         group == IF OfCycle(a) THEN {stack[k] : k \in Group} ELSE {a}
         loop == OfCycle(a) \/ SelfLoop(a)
     IN /\ cyclic' = IF loop THEN cyclic \union {group} ELSE cyclic
        /\ artificial' = IF ~loop /\ BlockedOnOutput(a) THEN artificial \union {a} ELSE artificial
        /\ deadlockFound' = (deadlockFound \/ loop \/ BlockedOnOutput(a))
        /\ i' = NextIndex(group)
  /\ UNCHANGED <<answer, pc, searchVars>>

EndReport ==
  /\ pc = "reporting" /\ i >= numActors
  /\ pc' = "done"
  /\ UNCHANGED <<answer, searchVars, reportVars>>

Next ==
  \/ VisitNext \/ VisitNeighbor \/ Finish \/ StartReport
  \/ Report \/ EndReport
  \/ pc \in {"done", "exit"} /\ UNCHANGED vars

Spec == Init /\ [][Next]_vars

\* deadlock_report runs alone, and runs on.
FairSpec == Spec /\ WF_vars(Next)

-----------------------------------------------------------------------------
(* Correctness.                                                            *)

\* Every variable has its type: no index leaves the arrays of numActors
\* entries (lines 346-353).
TypeOK ==
  /\ \A a \in Actor : answer[a] \in Answers[a] \union {Unasked}
  /\ pc \in {"visiting", "reporting", "done", "exit"}
  /\ outer \in 0 .. numActors
  /\ \A k \in DOMAIN frames :
       /\ frames[k].actor \in Actor
       /\ frames[k].todo \subseteq Visits(frames[k].actor, answer[frames[k].actor])
       /\ frames[k].myIndex \in Index /\ frames[k].minIndex \in 0 .. frames[k].myIndex
  /\ stack \in [Index -> Actor \union {NoActor}] /\ leader \in [Index -> Actor \union {NoActor}]
  /\ depth \in 0 .. numActors /\ rpoIndex \in 0 .. numActors
  /\ i \in 0 .. numActors /\ deadlockFound \in BOOLEAN
  /\ cyclic \subseteq SUBSET Actor /\ artificial \subseteq Actor

\* The stack and the list of complete groups share an array and never
\* overwrite each other, every actor is in one of them once at most, and the
\* open calls of visit stand where they have pushed their actor.
ArrayShared ==
  /\ TypeOK
  /\ depth <= rpoIndex
  /\ \A k, l \in (0 .. depth - 1) \union (rpoIndex .. numActors - 1) :
       stack[k] # NoActor /\ (stack[k] = stack[l] => k = l)
  /\ \A k \in DOMAIN frames : frames[k].myIndex < depth /\ stack[frames[k].myIndex] = frames[k].actor
  /\ \A k, l \in DOMAIN frames : k < l => frames[k].myIndex < frames[l].myIndex

\* The sets of actors that wait for nobody outside.  Two actors wait for each
\* other, directly or not, when none of these sets has only one of them.
Closed == {S \in SUBSET Actor : \A c \in S : WaitsFor(c) \subseteq S}

Component(a) ==
  LET closed == Closed
  IN {b \in Actor : \A S \in closed : a \in S <=> b \in S}

\* "Visit all actors to identify the SCCs and sort the acyclic condensation
\* topologically": two actors have the same leader exactly when each waits for
\* the other; an actor comes before those it waits for, a group is contiguous
\* and its leader its last.
GroupsCorrect ==
  pc = "reporting" /\ i = 0 =>
    /\ \A k \in Index : {stack[l] : l \in {l \in Index : leader[l] = leader[k]}} = Component(stack[k])
    /\ \A k, l \in Index : k > l /\ stack[l] \in WaitsFor(stack[k]) => leader[k] = leader[l]
    /\ \A k, l \in Index : k < l /\ leader[k] = leader[l] =>
         leader[k + 1] = leader[k] /\ leader[k] # stack[k]

\* The promise of the comment at lines 140-149: all groups that wait for each
\* other and all other actors that block on an output are reported, nothing
\* else is, and the result says whether there are any.  (An actor that waits
\* for itself to read is reported as blocked on an output.)
ReportCorrect ==
  pc = "done" =>
    /\ cyclic = {group \in {Component(a) : a \in Actor} :
                   Cardinality(group) > 1 \/ \E a \in group : SelfLoop(a)}
    /\ artificial = {a \in Actor : BlockedOnOutput(a)} \ UNION cyclic
    /\ deadlockFound <=> cyclic # {} \/ artificial # {}

\* The search and the report end, whatever the graph.
Ends == <>(pc \in {"done", "exit"})

\* The exit code EXIT_CODE_YIELD is one that "we shouldn't get" (line 439).
NoFireable == pc # "exit"
=============================================================================

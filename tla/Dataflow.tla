------------------------------ MODULE Dataflow -------------------------------
(***************************************************************************)
(* What executing a network promises, without threads: actors fire one     *)
(* after the other, a firing takes tokens that were written and leaves no  *)
(* FIFO above its capacity, and the execution ends only when no actor can  *)
(* fire.  ExecuteNetwork implements this specification.                    *)
(***************************************************************************)
EXTENDS Network

VARIABLES
  fires,     \* actor -> firings so far
  arrived,   \* actor -> external events an active actor may answer
  ended

vars == <<fires, arrived, ended>>

\* May a go on to its m-th firing when the actors have fired f times?
Supplied(a, m, f) ==
  /\ m <= Horizon[a]
  /\ \A ch \in Chan :
       <<ch, a>> \in InPort => Taken[ch][a][m] <= Given[ch][f[Writer[ch]]]
  /\ \A ch \in Chan :
       Writer[ch] = a =>
         \A r \in Readers(ch) : Given[ch][m] - Taken[ch][r][f[r]] <= Cap[ch]

CanReach(a, m) == Supplied(a, m, fires) /\ (a \in Active => m <= arrived[a])

CanFire(a) == CanReach(a, fires[a] + 1)

Init ==
  /\ fires = [a \in Actor |-> 0]
  /\ arrived = [a \in Actor |-> 0]
  /\ ended = FALSE

Arrive(a) ==
  /\ arrived[a] < Horizon[a]
  /\ arrived' = [arrived EXCEPT ![a] = @ + 1]
  /\ UNCHANGED <<fires, ended>>

\* One call of the action scheduler of a: one or more firings.
Fire(a, m) ==
  /\ m > fires[a]
  /\ CanReach(a, m)
  /\ fires' = [fires EXCEPT ![a] = m]
  /\ UNCHANGED <<arrived, ended>>

Stop ==
  /\ ended' = TRUE
  /\ UNCHANGED <<fires, arrived>>

Starved == \A a \in Actor : ~CanFire(a)

Step ==
  \/ \E a \in Active : Arrive(a)
  \/ \E a \in Actor : \E m \in 0 .. Horizon[a] : Fire(a, m)

Next == Step \/ (Starved /\ Stop)

Spec == Init /\ [][Next]_vars

\* The same without the promise about the end.
FiringSpec == Init /\ [][Step \/ Stop]_vars

\* One actor after the other, as long as one can fire: the firing counts
\* after k steps, and those at the end.
Sequential[k \in Nat] ==
  IF k = 0 THEN [a \in Actor |-> 0]
  ELSE LET f == Sequential[k - 1]
           ready == {a \in Actor : Supplied(a, f[a] + 1, f)}
       IN IF ready = {} THEN f
          ELSE [f EXCEPT ![CHOOSE a \in ready : TRUE] = @ + 1]

\* The firings of all actors when the actors have fired f times.
Firings(f) == UNION {{a} \X (1 .. f[a]) : a \in Actor}

Outcome == Sequential[Cardinality(Firings(Horizon))]
=============================================================================

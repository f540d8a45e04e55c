----------------------------- MODULE FiringTrace ------------------------------
(***************************************************************************)
(* The execution trace (--trace, --turnus-trace): ART_ACTION_EXIT gives    *)
(* every firing a number, step++ under a mutex that all CPU threads share, *)
(* and prints a record of it to the file of its CPU.  A reader merges the  *)
(* files by step, and replays the firings with the numbers of tokens that  *)
(* net_trace.xml declares for an action, or the record itself (TURNUS).    *)
(*                                                                         *)
(* The module adds to ExecuteNetwork: thread c stays in the call of an     *)
(* action scheduler until its firings are traced.  The call computes on    *)
(* data of its thread only, so that it may come first, as one step; the    *)
(* trace of its firings follows one by one.                                *)
(***************************************************************************)
EXTENDS ExecuteNetwork, Functions

CONSTANTS
  Class,       \* actor -> the name of its class
  NumActions,  \* actor -> actorClass->numActions
  ActionAt,    \* actor -> its n-th firing -> index of the action that fires
  Consumption, \* actor -> action -> input port -> tokens
  Production   \* the same for output ports

(***************************************************************************)
(* The descriptions of the actions, which are generated with the code of   *)
(* the actors, say what the actions do.  An active actor would load        *)
(* numActiveActors after the trace, which the step Fire does not allow.    *)
(* A TURNUS record names an actor by the part of its name before the "/",  *)
(* its class (jsonTrace.c:85): it has no reader if two actors share one.   *)
(***************************************************************************)
DescriptionAssumption ==
  /\ Active = {}
  /\ \A a, b \in Actor : Class[a] = Class[b] => a = b
  /\ NumActions \in [Actor -> Nat]
  /\ \A a \in Actor : \A k \in 0 .. NumActions[a] - 1 :
       /\ Consumption[a][k] \in [1 .. Len(Ins[a]) -> Nat]
       /\ Production[a][k] \in [1 .. Len(Outs[a]) -> Nat]
  /\ \A a \in Actor : \A n \in 1 .. Horizon[a] :
       LET k == ActionAt[a][n] IN
       /\ k \in 0 .. NumActions[a] - 1
       /\ \A x \in 1 .. Len(Ins[a]) :
            Consumption[a][k][x] = Taken[Ins[a][x]][a][n] - Taken[Ins[a][x]][a][n - 1]
       /\ \A x \in 1 .. Len(Outs[a]) :
            Production[a][k][x] = Given[Outs[a][x]][n] - Given[Outs[a][x]][n - 1]

ASSUME TraceDescriptions == DescriptionAssumption

VARIABLES
  format,      \* which of the two macros the actors are compiled with
  step,        \* the static variable step
  traced,      \* actor -> firings whose trace is written
  recorded,    \* record of an action -> how many lines of all the files it is
  replayed,    \* FIFO of an input port -> its tokens when they are replayed
  closed,      \* how many CPUs run_destructors has done
  info         \* cpu -> what trace_<cpu>.info says: the number of firings

traceVars == <<format, step, traced, recorded, replayed, closed, info>>
tracedVars == <<vars, traceVars>>

None == -1

-----------------------------------------------------------------------------
(* What the files say.                                                     *)

\* instances[k++]: the actors of CPU 0, then those of CPU 1, ...
Precedes(b, a) ==
  \/ CpuOf[b] < CpuOf[a]
  \/ CpuOf[b] = CpuOf[a] /\ \E k, l \in DOMAIN ActorsOn[CpuOf[a]] :
       k < l /\ ActorsOn[CpuOf[a]][k] = b /\ ActorsOn[CpuOf[a]][l] = a

SumBefore(a, number) == SumFunctionOnSet(number, {b \in Actor : Precedes(b, a)})

BadFirstActionIndex(a) == SumBefore(a, [b \in Actor |-> 1])

FirstActionIndex(a) == SumBefore(a, NumActions)
FirstInput(a) == SumBefore(a, [b \in Actor |-> Len(Ins[b])])

\* The ports with a rate that is not 0, as pairs of a name and the rate.
Rated(rates, names) ==
  {<<names[x], rates[x]>> : x \in {x \in DOMAIN rates : rates[x] # 0}}

\* An <action> of net_trace.xml.  The id of an output is output->index: the
\* FIFO stands for it.
XmlAction(a, k) ==
  [id |-> FirstActionIndex(a) + k,
   consumes |-> Rated(Consumption[a][k], [x \in DOMAIN Ins[a] |-> FirstInput(a) + x - 1]),
   produces |-> Rated(Production[a][k], Outs[a])]

\* A line of a TURNUS trace, apart from its number.
TurnusFiring(a, k) ==
  [actor |-> Class[a], action |-> k,
   consumes |-> Rated(Consumption[a][k], [x \in DOMAIN Ins[a] |-> <<"in", x>>]),
   produces |-> Rated(Production[a][k], [x \in DOMAIN Outs[a] |-> <<"out", x>>])]

\* The record of action k of actor a.
Record(a, k) ==
  IF format = "turnus" THEN TurnusFiring(a, k) ELSE FirstActionIndex(a) + k

\* The lines there can be.
Records == UNION {{Record(a, k) : k \in 0 .. NumActions[a] - 1} : a \in Actor}

Position(ch, s) == CHOOSE x \in DOMAIN s : s[x] = ch
Rate(rated, port) == IF \E t \in rated : t[1] = port THEN (CHOOSE t \in rated : t[1] = port)[2] ELSE 0

\* By how much a record changes the tokens between the output and the input
\* of p, for a reader of net_trace.xml, and for one of a TURNUS trace.
XmlEffect ==
  LET actions == UNION {{XmlAction(a, k) : k \in 0 .. NumActions[a] - 1} : a \in Actor}
      Action(id) == CHOOSE e \in actions : e.id = id
      Input(p) == FirstInput(p[2]) + Position(p[1], Ins[p[2]]) - 1
  IN [p \in InPort |-> [id \in {e.id : e \in actions} |->
       Rate(Action(id).produces, p[1]) - Rate(Action(id).consumes, Input(p))]]

TurnusEffect ==
  LET firings == UNION {{TurnusFiring(a, k) : k \in 0 .. NumActions[a] - 1} : a \in Actor}
      Writes(r, w, ch) == IF r.actor = Class[w] THEN Rate(r.produces, <<"out", Position(ch, Outs[w])>>) ELSE 0
      Reads(r, a, ch) == IF r.actor = Class[a] THEN Rate(r.consumes, <<"in", Position(ch, Ins[a])>>) ELSE 0
  IN [p \in InPort |-> [r \in firings |-> Writes(r, Writer[p[1]], p[1]) - Reads(r, p[2], p[1])]]

Effect == IF format = "turnus" THEN TurnusEffect ELSE XmlEffect

-----------------------------------------------------------------------------
(* Tracing.                                                                *)

TracedInit ==
  /\ Init
  /\ format \in {"trace", "turnus"}
  /\ step = 0
  /\ traced = [a \in Actor |-> 0]
  /\ recorded = [r \in Records |-> 0]
  /\ replayed = [p \in InPort |-> 0]
  /\ closed = 0
  /\ info = [c \in Cpu |-> None]

\* The actor of CPU c whose firings are being traced.
InCall(c) == {a \in Actor : CpuOf[a] = c /\ traced[a] < fires[a]}

\* The mutex is taken and released in this one step.  The record is printed
\* later, to a file that no other thread writes: with its number its place in
\* the trace is settled.
TraceFiring(c) ==
  \E a \in InCall(c) :
    /\ step' = step + 1
    /\ traced' = [traced EXCEPT ![a] = @ + 1]
    /\ LET r == Record(a, ActionAt[a][traced[a] + 1]) IN
         /\ recorded' = [recorded EXCEPT ![r] = @ + 1]
         /\ replayed' = [p \in InPort |-> replayed[p] + Effect[p][r]]
    /\ UNCHANGED <<vars, format, closed, info>>

BadReturned(c) == TRUE

\* The call of the action scheduler has returned.
Returned(c) == InCall(c) = {}

\* An iteration of run_destructors, in the main thread.
Close ==
  /\ Joined /\ closed < N
  /\ closed' = closed + 1
  /\ info' = [info EXCEPT ![closed] = IF format = "turnus" THEN step ELSE None]
  /\ UNCHANGED <<vars, format, step, traced, recorded, replayed>>

TracedNext ==
  \/ \E c \in Cpu : Returned(c) /\ Thread(c) /\ UNCHANGED traceVars
  \/ \E c \in Cpu : TraceFiring(c)
  \/ Close
  \/ closed = N /\ UNCHANGED tracedVars

TracedSpec == TracedInit /\ [][TracedNext]_tracedVars

-----------------------------------------------------------------------------
(* Correctness.                                                            *)

\* The trace, merged by step, is an execution: replayed with the numbers of
\* tokens that the files give for an action, no firing reads a token before
\* the firing that writes it, or writes beyond the capacity of the FIFO,
\* although the CPUs trace without regard to each other.  It holds because a
\* call traces its firings before postfire publishes them.
TraceReplays ==
  \A p \in InPort : replayed[p] \in 0 .. Cap[p[1]]

\* "id is unique among all actions of all actor instances", and the steps are
\* 0, 1, ..., one for each record; when the files are closed each firing is
\* recorded under its action once, and every .info file has their number.
TraceComplete ==
  /\ step = SumFunctionOnSet(recorded, DOMAIN recorded)
  /\ closed > 0 => \A a \in Actor : \A k \in 0 .. NumActions[a] - 1 :
       recorded[Record(a, k)] = Cardinality({n \in 1 .. fires[a] : ActionAt[a][n] = k})
  /\ \A c \in 0 .. closed - 1 :
       format = "turnus" => info[c] = SumFunctionOnSet(fires, Actor)
=============================================================================

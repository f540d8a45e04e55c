------------------------------- MODULE ArtFifo -------------------------------
(***************************************************************************)
(* The FIFO between an output port and its input ports: the ring buffer of *)
(* actors-fifo.h, the contexts an action scheduler works on (ENTER and     *)
(* EXIT in actors-rts.h), and the counts through which the CPUs tell each  *)
(* other, in prefire and postfire, what was written and read.              *)
(*                                                                         *)
(* Tokens are numbered 1, 2, ... as they are written, so that what a read  *)
(* returns shows whether it is right.  With unit > 1 a token is a structure*)
(* of unit bytes, bytes are numbered, and the functions with suffix _bytes *)
(* are used.  An actor does any sequence of operations for which it has    *)
(* tokens and space, which generated code tests before it acts.            *)
(*                                                                         *)
(* Shared counts are ints of Width bits; the sum wraps, as the builds do.  *)
(* Stores to the buffer reach another CPU at any time, and at the latest   *)
(* at the WRITE_BARRIER; loads are not reordered (READ_BARRIER).           *)
(***************************************************************************)
EXTENDS Integers, Sequences, FiniteSets, FiniteSetsExt

CONSTANTS
  Port,    \* the output port and the input ports connected to it
  Wr,      \* the output port
  On,      \* CPU -> ports of its actors, in the order of the list actor[]
  Cap,     \* capacity, the same for all ports (allocate_network)
  Units,   \* the sizes of a token to choose from
  Width,   \* bits of a shared count
  Total    \* how much is written in all: the bound of the model

Cpu == DOMAIN On
Reader == Port \ {Wr}
CpuOf(p) == CHOOSE c \in Cpu : \E k \in 1 .. Len(On[c]) : On[c][k] = p
Half == 2 ^ (Width - 1)

ASSUME FifoAssumption ==
  /\ Wr \in Port
  /\ \A c \in Cpu : On[c] \in Seq(Port) /\ On[c] # <<>>
  /\ \A p \in Port : \E c \in Cpu : \E k \in 1 .. Len(On[c]) : On[c][k] = p
  /\ \A c, d \in Cpu : \A k \in 1 .. Len(On[c]) : \A l \in 1 .. Len(On[d]) :
       On[c][k] = On[d][l] => c = d /\ k = l
  /\ Cap \in Nat \ {0}
  /\ \A u \in Units : u \in Nat \ {0} /\ Cap % u = 0
  /\ Width \in Nat \ {0} /\ Half \in Nat /\ Cap < Half
  /\ Total \in Nat

VARIABLES
  unit,            \* 1, or tokenSize when isBytes: fixed when ports are created
  buffer,          \* the ring as the CPU of the writer sees it
  memory,          \* the ring as the other CPUs see it
  wcount, rcount,  \* shared->count
  local,           \* LocalContext: pos, count, available
  context,         \* art_action_context_t: pos, available
  fired,           \* fired of the actor
  pc, at,          \* where each thread is, and at which port
  sent, got        \* history: how much was written, what each reader has read

vars == <<unit, buffer, memory, wcount, rcount, local, context, fired, pc, at, sent, got>>

\* buffer points to the end of the ring: positions are negative.
Slot == -Cap .. -1

Wrapped(x) == ((x + Half) % (2 * Half)) - Half

Init ==
  /\ unit \in Units
  /\ buffer = [s \in Slot |-> 0] /\ memory = buffer
  /\ wcount = 0 /\ rcount = [r \in Reader |-> 0]
  /\ local = [p \in Port |-> [pos |-> -Cap, count |-> 0, available |-> 0]]
  /\ context = [p \in Port |-> [pos |-> -Cap, available |-> 0]]
  /\ fired = [p \in Port |-> FALSE]
  /\ pc = [c \in Cpu |-> "prefire"] /\ at = [c \in Cpu |-> 1]
  /\ sent = 0 /\ got = [r \in Reader |-> <<>>]

This(c) == On[c][at[c]]

\* After the port at which c is: the same step for the next one, or next.
Proceed(c, step, next) ==
  IF at[c] < Len(On[c])
  THEN pc' = [pc EXCEPT ![c] = step] /\ at' = [at EXCEPT ![c] = @ + 1]
  ELSE pc' = [pc EXCEPT ![c] = next] /\ at' = [at EXCEPT ![c] = 1]

-----------------------------------------------------------------------------
(* The ring.  A way to access n units from pos is the slots it touches, in *)
(* order, and the position it leaves.                                      *)

BadAdvance(pos, n) == IF pos + n > 0 THEN -Cap ELSE pos + n

\* pinRead, pinWrite, pinConsume and the _bytes functions: at the end of the
\* ring back to its beginning.
Advance(pos, n) == IF pos + n >= 0 THEN -Cap ELSE pos + n

Single(pos) ==
  [slots |-> [k \in 1 .. unit |-> pos + k - 1], next |-> Advance(pos, unit)]

\* n -= -pos, pos = -capacity, pos += n.
AfterWrap(pos, n) == -Cap + (n + pos)

\* pinWriteRepeat, pinReadRepeat, pinPeekRepeat, pinConsumeRepeat: up to the
\* end of the ring, then the rest from its beginning.
Repeat(pos, n) ==
  [slots |-> [k \in 1 .. n |->
                IF pos + k <= 0 THEN pos + k - 1 ELSE AfterWrap(pos, k - 1)],
   next  |-> IF pos + n >= 0 THEN AfterWrap(pos, n) ELSE pos + n]

\* pinPeek and pinPeek_bytes: where the token is that is offset tokens ahead.
PeekSlot(pos, offset) ==
  LET ahead[k \in 0 .. offset] == IF k = 0 THEN pos ELSE Advance(ahead[k - 1], unit)
  IN IF unit > 1 THEN ahead[offset]
     ELSE IF pos + offset >= 0 THEN pos + offset - Cap ELSE pos + offset

Peeked(pos, n) == [k \in 1 .. n |-> PeekSlot(pos, (k - 1) \div unit) + ((k - 1) % unit)]

\* There are no Repeat functions for structures.
Ways(pos, n) ==
  (IF n = unit THEN {Single(pos)} ELSE {})
    \union (IF unit = 1 THEN {Repeat(pos, n)} ELSE {})

\* To peek at tokens one by one and then consume them is another way to read.
Peeks(pos, n) ==
  IF unit = 1 THEN {[w EXCEPT !.slots = Peeked(pos, n)] : w \in Ways(pos, n)}
  ELSE IF n % unit = 0 THEN {[slots |-> Peeked(pos, n), next |-> PeekSlot(pos, n \div unit)]}
  ELSE {}

ReadWays(pos, n) == Ways(pos, n) \union Peeks(pos, n)

-----------------------------------------------------------------------------
(* A round of a CPU thread.                                                *)

BadMost(S) == Min(S)
\* max_unconsumed, which starts at 0.
MaxUnconsumed(S) == Max({0} \union S)

Prefire(c) ==
  LET p == This(c) IN
  /\ pc[c] = "prefire"
  /\ local' = [local EXCEPT
       ![p].available = IF p = Wr
                        THEN Cap - MaxUnconsumed({Wrapped(wcount - rcount[r]) : r \in Reader})
                        ELSE Wrapped(wcount - rcount[p]),
       ![p].count = 0]
  /\ fired' = [fired EXCEPT ![p] = FALSE]
  /\ Proceed(c, "prefire", "enter")
  /\ UNCHANGED <<unit, buffer, memory, wcount, rcount, context, sent, got>>

\* A reader on the CPU of the writer also sees what it has just written.
Latest(p) == IF p # Wr /\ CpuOf(p) = CpuOf(Wr) THEN local[Wr].count ELSE 0

\* ART_ACTION_SCHEDULER_ENTER
Enter(c) ==
  LET p == This(c)
      available == local[p].available + Latest(p)
  IN
  /\ pc[c] = "enter"
  /\ local' = [local EXCEPT ![p].available = available]
  /\ context' = [context EXCEPT ![p] = [pos |-> local[p].pos, available |-> available]]
  /\ pc' = [pc EXCEPT ![c] = "act"]
  /\ UNCHANGED <<unit, buffer, memory, wcount, rcount, fired, at, sent, got>>

\* An operation on n units of the port.
Use(p, n, way) ==
  /\ context' = [context EXCEPT ![p] = [pos |-> way.next, available |-> @.available - n]]
  /\ fired' = [fired EXCEPT ![p] = TRUE]

Write(c) ==
  /\ pc[c] = "act" /\ This(c) = Wr
  /\ \E n \in 1 .. context[Wr].available : \E way \in Ways(context[Wr].pos, n) :
       /\ sent + n <= Total
       /\ Use(Wr, n, way)
       /\ buffer' = [s \in Slot |->
            LET hits == {k \in 1 .. n : way.slots[k] = s}
            IN IF hits = {} THEN buffer[s] ELSE sent + Max(hits)]
       /\ sent' = sent + n
  /\ UNCHANGED <<unit, memory, wcount, rcount, local, pc, at, got>>

\* What CPU c loads from a slot; there is no token outside of the ring.
Loaded(c, s) ==
  IF s \notin Slot THEN 0 ELSE IF c = CpuOf(Wr) THEN buffer[s] ELSE memory[s]

Read(c) ==
  LET p == This(c) IN
  /\ pc[c] = "act" /\ p # Wr
  /\ \E n \in 1 .. context[p].available : \E way \in ReadWays(context[p].pos, n) :
       /\ Use(p, n, way)
       /\ got' = [got EXCEPT ![p] = @ \o [k \in 1 .. n |-> Loaded(c, way.slots[k])]]
  /\ UNCHANGED <<unit, buffer, memory, wcount, rcount, local, pc, at, sent>>

\* ART_ACTION_SCHEDULER_EXIT: the context is copied back if an action fired.
Exit(c) ==
  LET p == This(c) IN
  /\ pc[c] = "act"
  /\ local' = IF ~fired[p] THEN local ELSE [local EXCEPT
       ![p] = [pos |-> context[p].pos,
               count |-> @.available - context[p].available,
               available |-> context[p].available]]
  /\ Proceed(c, "enter", "barrier")
  /\ UNCHANGED <<unit, buffer, memory, wcount, rcount, context, fired, sent, got>>

\* A store to the buffer becomes visible to the other CPUs.
Propagate ==
  /\ \E s \in Slot : memory[s] # buffer[s] /\ memory' = [memory EXCEPT ![s] = buffer[s]]
  /\ UNCHANGED <<unit, buffer, wcount, rcount, local, context, fired, pc, at, sent, got>>

BadDrained(c) == TRUE
\* Of the stores of this CPU none is still to propagate.
Drained(c) == c = CpuOf(Wr) => memory = buffer

WriteBarrier(c) ==
  /\ pc[c] = "barrier" /\ Drained(c)
  /\ pc' = [pc EXCEPT ![c] = "postfire"]
  /\ UNCHANGED <<unit, buffer, memory, wcount, rcount, local, context, fired, at, sent, got>>

Postfire(c) ==
  LET p == This(c) IN
  /\ pc[c] = "postfire"
  /\ IF ~fired[p] THEN UNCHANGED <<wcount, rcount, local>>
     ELSE IF p = Wr
     THEN /\ wcount' = Wrapped(wcount + local[p].count)
          /\ local' = [local EXCEPT ![p].count = 0]
          /\ UNCHANGED rcount
     ELSE /\ rcount' = [rcount EXCEPT ![p] = Wrapped(@ + local[p].count)]
          /\ UNCHANGED <<wcount, local>>
  /\ Proceed(c, "postfire", "prefire")
  /\ UNCHANGED <<unit, buffer, memory, context, fired, sent, got>>

Thread(c) ==
  \/ Prefire(c) \/ Enter(c) \/ Write(c) \/ Read(c) \/ Exit(c)
  \/ WriteBarrier(c) \/ Postfire(c)

Next == Propagate \/ \E c \in Cpu : Thread(c)

Spec == Init /\ [][Next]_vars

-----------------------------------------------------------------------------
(* Correctness.                                                            *)

\* Every variable has its type: positions stay within the ring, whatever is
\* written or read at its end, and no more is available than fits.
TypeOK ==
  /\ buffer \in [Slot -> 0 .. Total] /\ memory \in [Slot -> 0 .. Total]
  /\ wcount = Wrapped(wcount) /\ \A r \in Reader : rcount[r] = Wrapped(rcount[r])
  /\ local \in [Port -> [pos : Slot, count : 0 .. Cap, available : 0 .. Cap]]
  /\ context \in [Port -> [pos : Slot, available : 0 .. Cap]]
  /\ fired \in [Port -> BOOLEAN]
  /\ pc \in [Cpu -> {"prefire", "enter", "act", "barrier", "postfire"}]
  /\ \A c \in Cpu : at[c] \in 1 .. Len(On[c])
  /\ sent \in 0 .. Total /\ \A r \in Reader : Len(got[r]) <= sent

\* Everything is delivered to every reader, in order: the accesses to the
\* ring, the caching of counts, their wrapping, and the order of stores and
\* publication (lines 96 and 116 of actors_execute_network.h) implement it.
Delivery == INSTANCE Channel WITH Capacity <- Cap, sent <- [k \in 1 .. sent |-> k]
RefinesChannel == Delivery!Spec

Acting(p) == \E c \in Cpu : pc[c] = "act" /\ This(c) = p

\* The actor of p has returned, and its counts are not yet published.
Unpublished(p) ==
  \E c \in Cpu : \E k \in 1 .. Len(On[c]) :
    /\ On[c][k] = p /\ fired[p]
    /\ \/ pc[c] \in {"enter", "act"} /\ k < at[c]
       \/ pc[c] = "barrier"
       \/ pc[c] = "postfire" /\ k >= at[c]

\* Where the port is in the ring, and what is available to it.
Place(p) == IF Acting(p) THEN [pos |-> context[p].pos, available |-> context[p].available]
            ELSE [pos |-> local[p].pos, available |-> local[p].available]

\* What an actor has used and not yet published.
Used(p) == IF Acting(p) THEN local[p].available - context[p].available
           ELSE IF Unpublished(p) THEN local[p].count ELSE 0

\* The slots an actor may touch in this round: what it has used, since the
\* _bytes functions hand out pointers into the ring, and what is available.
Held(p) ==
  {-Cap + ((Place(p).pos + Cap + k) % Cap) : k \in -Used(p) .. Place(p).available - 1}

\* The writer and a reader on another CPU never hold the same slot: the
\* buffer needs no lock (comment "Buffer data" in allocate_network).
NoSharedSlot ==
  \A r \in Reader : CpuOf(r) # CpuOf(Wr) => Held(Wr) \intersect Held(r) = {}
=============================================================================

-------------------------- MODULE SoftwareBenchmark ---------------------------
(***************************************************************************)
(* The software bandwidth benchmark: TimedSource (timed_source.cc) writes  *)
(* a message of tx_size words that starts with the cycle counter, and      *)
(* PassThrough (pass_through.cc) sends it back from another CPU.  After    *)
(* NUM_LOOPS round trips the destructor of TimedSource divides the sum of  *)
(* their times.                                                            *)
(*                                                                         *)
(* The module adds to ExecuteNetwork, which knows how many tokens a firing *)
(* moves, the words that are moved and the state of the two actors.        *)
(***************************************************************************)
EXTENDS ExecuteNetwork

CONSTANTS
  Source, Pass,  \* the two actors
  Out, Back,     \* the FIFO of TimedSource, the one of PassThrough
  NUM_LOOPS,
  TxSize,        \* BUFFER_SIZE / 4
  WordWidth,     \* bits of an int32_t, half of those of ticks
  Mantissa,      \* bits of the mantissa of a double
  Readings       \* what getticks may return in the course of an execution

(***************************************************************************)
(* PassThrough stores into buffer[2], so that fewer than three words would *)
(* be undefined.  The calls of getticks read counters that are the same on *)
(* all CPUs and run forward.                                               *)
(***************************************************************************)
ASSUME BenchmarkAssumption ==
  /\ Actor = {Source, Pass} /\ Chan = {Out, Back} /\ Active = {}
  /\ Writer = [ch \in Chan |-> IF ch = Out THEN Source ELSE Pass]
  /\ NUM_LOOPS \in Nat \ {0} /\ TxSize \in Nat /\ TxSize >= 3
  /\ \A seq \in Readings :
       /\ seq \in [1 .. 2 * NUM_LOOPS -> 0 .. 2 ^ (2 * WordWidth) - 1]
       /\ \A k \in 2 .. 2 * NUM_LOOPS : seq[k - 1] <= seq[k]

VARIABLES
  readings, calls,   \* the cycle counter, and the calls of getticks so far
  ring,              \* FIFO -> the words in its buffer
  sourceBuffer, passBuffer, repeat, state, totalTicks,  \* the two actors
  phase,             \* what the main thread has done after joining the threads
  dump               \* ticks in the file dump_<size>_<loops>.xml

sourceVars == <<sourceBuffer, repeat, state, totalTicks>>
benchVars == <<readings, calls, ring, sourceVars, passBuffer, phase, dump>>
allVars == <<vars, benchVars>>

\* The constructors, with allocate_network: all memory is cleared.
BenchInit ==
  /\ Init
  /\ readings \in Readings /\ calls = 0
  /\ ring = [ch \in Chan |-> [k \in 0 .. Cap[ch] - 1 |-> 0]]
  /\ sourceBuffer = [k \in 1 .. TxSize |-> 0]
  /\ passBuffer = [k \in 1 .. TxSize |-> 0]
  /\ repeat = NUM_LOOPS /\ state = "Sending" /\ totalTicks = 0
  /\ phase = "threads" /\ dump = -1

-----------------------------------------------------------------------------
(* Data.                                                                   *)

\* A ring position is a count modulo the capacity, see ArtFifo.
WriteRepeat(ch, words) ==
  LET first == Given[ch][fires[Writer[ch]]]
  IN ring' = [ring EXCEPT ![ch] = [k \in DOMAIN @ |->
       LET n == (k - first) % Cap[ch] IN IF n < Len(words) THEN words[n + 1] ELSE @[k]]]

ReadRepeat(ch, a, n) ==
  LET first == Taken[ch][a][fires[a]]
  IN [k \in 1 .. n |-> ring[ch][(first + k - 1) % Cap[ch]]]

getticks == readings[calls + 1]

\* The words of a value of type ticks, in memory order, and back.
Base == 2 ^ WordWidth
Words(t) == <<t % Base, t \div Base>>
Ticks(words) == words[1] + Base * words[2]
TickWords == 2   \* sizeof(ticks) / sizeof(int32_t)

\* The distance between neighbours of t among the doubles, if it is above 1.
Ulp(t) == CHOOSE u \in {2 ^ k : k \in 0 .. 2 * WordWidth} :
            t < u * 2 ^ Mantissa /\ (u > 1 => t >= (u \div 2) * 2 ^ Mantissa)

\* Conversion of an integer to double: round to nearest, ties to even.
Double(t) ==
  LET u == Ulp(t)
      q == t \div u
      r == t % u
  IN IF 2 * r < u \/ (2 * r = u /\ q % 2 = 0) THEN q * u ELSE (q + 1) * u

elapsed(t1, t0) == Double(Double(t1) - Double(t0))

-----------------------------------------------------------------------------
(* The firings of the two action schedulers.                               *)

sendAction ==
  /\ state = "Sending"
  /\ availOut[Out] >= TxSize /\ repeat > 0
  /\ calls' = calls + 1
  /\ sourceBuffer' = [k \in 1 .. TxSize |->
       IF k <= TickWords THEN Words(getticks)[k] ELSE sourceBuffer[k]]
  /\ WriteRepeat(Out, sourceBuffer')
  /\ repeat' = repeat - 1
  /\ state' = "Receiving"
  /\ UNCHANGED <<totalTicks, passBuffer>>

\* Reads the two words of the counter, and skips the others.
recvAction ==
  /\ state = "Receiving"
  /\ Visible(Source, Back) >= TxSize
  /\ calls' = calls + 1
  /\ totalTicks' = (totalTicks + elapsed(getticks, Ticks(ReadRepeat(Back, Source, TickWords))))
                     % (Base * Base)
  /\ state' = "Sending"
  /\ UNCHANGED <<ring, sourceBuffer, repeat, passBuffer>>

BadMarked(words) == [words EXCEPT ![2] = 2]
Marked(words) == [words EXCEPT ![3] = 2]

pass ==
  /\ Visible(Pass, Out) >= TxSize /\ availOut[Back] >= TxSize
  /\ passBuffer' = Marked(ReadRepeat(Out, Pass, TxSize))
  /\ WriteRepeat(Back, passBuffer')
  /\ UNCHANGED <<calls, sourceVars>>

\* A call of the action scheduler of an actor on CPU c in which it fires.
Firing(c) ==
  /\ Fire(c) /\ fires' # fires
  /\ IF This(c) = Source THEN sendAction \/ recvAction ELSE pass
  /\ UNCHANGED <<readings, phase, dump>>

BenchThread(c) ==
  \/ Firing(c)
  \/ Thread(c) /\ fires' = fires /\ UNCHANGED benchVars

-----------------------------------------------------------------------------
(* The end of executeNetwork.                                              *)

Empty == \A p \in InPort : wcount[p[1]] = rcount[p]

\* buffer_report; if a FIFO is not empty, deadlock_report asks the actors for
\* their exit codes: they say EXIT_CODE_YIELD, which ends the program.
BufferReport ==
  /\ phase = "threads" /\ Joined
  /\ phase' = IF Empty THEN "reported" ELSE "exited"
  /\ UNCHANGED <<vars, readings, calls, ring, sourceVars, passBuffer, dump>>

\* run_destructors closes the TURNUS file of a CPU if traceTurnusFile is not
\* null.  Without --turnus-trace nobody has set it: allocate_network gets its
\* memory from malloc, and the program may go on or not.
RunDestructors ==
  /\ phase = "reported"
  /\ \/ /\ phase' = "dumped"
        /\ dump' = totalTicks \div (2 * NUM_LOOPS)
     \/ /\ phase' = "crashed"
        /\ UNCHANGED dump
  /\ UNCHANGED <<vars, readings, calls, ring, sourceVars, passBuffer>>

Over == phase \in {"exited", "dumped", "crashed"}

BenchNext ==
  \/ \E c \in Cpu : BenchThread(c)
  \/ BufferReport \/ RunDestructors
  \/ Over /\ UNCHANGED allVars

\* As in ExecuteNetwork; the main thread runs on, too.
BenchSpec ==
  /\ BenchInit /\ [][BenchNext]_allVars
  /\ \A c \in Cpu : WF_allVars(BenchThread(c))
  /\ WF_allVars(BufferReport \/ RunDestructors)

-----------------------------------------------------------------------------
(* Correctness.                                                            *)

\* What the round trips took: the even readings end what the odd ones begin.
RoundTrips ==
  LET sum[k \in 0 .. NUM_LOOPS] ==
        IF k = 0 THEN 0 ELSE sum[k - 1] + readings[2 * k] - readings[2 * k - 1]
  IN sum[NUM_LOOPS]

\* Three roundings per round trip, none as long as the counter fits in the
\* mantissa of a double.
MaxError == NUM_LOOPS * 3 * (Ulp(readings[2 * NUM_LOOPS]) \div 2)

\* The file that the partitioning reads tells the truth: all round trips have
\* been made, and ticks is half of their mean, whichever words the stamps
\* were cut into and wherever a message wraps around in a ring.  No token is
\* left in a FIFO that would end the program before the dump (lines 1399-1400).
Measured ==
  /\ phase # "exited"
  /\ phase = "dumped" =>
    /\ calls = 2 * NUM_LOOPS /\ repeat = 0 /\ state = "Sending"
    /\ \E err \in -MaxError .. MaxError : dump = (RoundTrips + err) \div (2 * NUM_LOOPS)
=============================================================================

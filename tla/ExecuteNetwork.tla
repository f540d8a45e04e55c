--------------------------- MODULE ExecuteNetwork ---------------------------
(***************************************************************************)
(* EXECUTE_NETWORK (actors_execute_network.h): the function every CPU      *)
(* thread runs.  A round of the loop is                                    *)
(*                                                                         *)
(*   prefire    cache how much may be read and written on every port       *)
(*   fire       call the action scheduler of every actor of this CPU       *)
(*   postfire   publish what was read and written                          *)
(*   wake       (something fired) wake sleeping CPUs that are affected     *)
(*   lock ...   (nothing fired) take the mutex, wake the affected, and     *)
(*              sleep on the semaphore, or end the whole execution         *)
(*                                                                         *)
(* A step of the model touches shared memory at most once, except that it  *)
(* reads the counts of all the readers of a port, and that inside the      *)
(* mutex an iteration of the scan is a step, and the bookkeeping up to     *)
(* MUTEX_UNLOCK another.  Memory is sequentially consistent: the barriers  *)
(* of lines 96 and 116 are what the code relies on for that.  Shared       *)
(* counts are unbounded here, in ArtFifo they wrap.                        *)
(*                                                                         *)
(* The operators named Bad... are plausible bugs: with one of them in the  *)
(* place of the definition that follows it, a property must fail.          *)
(***************************************************************************)
EXTENDS Network

CONSTANTS
  Nobody,        \* value of mutex when it is free
  TryWaitBlocks  \* art_semaphore_try_wait is semaphore_wait (actors-thread.h:180, macOS)

ASSUME NobodyAssumption == Nobody \notin Cpu
ASSUME TryWaitAssumption == TryWaitBlocks \in BOOLEAN

VARIABLES
  wcount, rcount,      \* shared->count of output ports and of input ports
  availIn, availOut,   \* local->available
  inCount, outCount,   \* local->count
  fired, terminated,   \* fields of AbstractActorInstance
  fires,               \* state of the actors: firings so far
  arrived,             \* external events for the active actors
  pc, i, j,            \* where each thread is, its loop variables
  loaded,              \* register of the numActiveActors-- in progress
  oldSleep, quiescent, stay,  \* locals old_sleep, quiescent and sleep
  affected,            \* has_affected
  sleep, quiescentAt, sem,    \* *cpu[i].sleep, cpu[i].quiescent_at, *cpu[i].sem
  mutex, sleepers, currSleepEvent, terminate, numActiveActors

portVars  == <<wcount, rcount, availIn, availOut, inCount, outCount>>
actorVars == <<fired, terminated, fires>>
localVars == <<oldSleep, quiescent, stay>>
sleepVars == <<sleep, quiescentAt, sleepers, currSleepEvent, terminate>>
dataVars  == <<portVars, actorVars, arrived, loaded, numActiveActors>>
syncVars  == <<localVars, affected, sleepVars, sem, mutex>>
vars == <<dataVars, pc, i, j, syncVars>>

Init ==
  /\ wcount = [ch \in Chan |-> 0]
  /\ rcount = [p \in InPort |-> 0]
  /\ availIn = [p \in InPort |-> 0]
  /\ availOut = [ch \in Chan |-> 0]
  /\ inCount = [p \in InPort |-> 0]
  /\ outCount = [ch \in Chan |-> 0]
  /\ fired = [a \in Actor |-> FALSE]
  /\ terminated = [a \in Actor |-> FALSE]
  /\ fires = [a \in Actor |-> 0]
  /\ arrived = [a \in Actor |-> 0]
  /\ pc = [c \in Cpu |-> "prefire"]
  /\ i = [c \in Cpu |-> 1]
  /\ j = [c \in Cpu |-> 1]
  /\ loaded = [c \in Cpu |-> 0]
  /\ oldSleep = [c \in Cpu |-> [d \in Cpu |-> 0]]
  /\ quiescent = [c \in Cpu |-> TRUE]
  /\ stay = [c \in Cpu |-> FALSE]
  /\ affected = [c \in Cpu |-> {}]
  /\ sleep = [c \in Cpu |-> 0]
  /\ quiescentAt = [c \in Cpu |-> 0]
  /\ sem = [c \in Cpu |-> 0]
  /\ mutex = Nobody
  /\ sleepers = 0
  /\ currSleepEvent = 0
  /\ terminate = FALSE
  /\ numActiveActors = Cardinality(Active)

-----------------------------------------------------------------------------
(* The loops over the actors of this CPU and over their ports.             *)

At(c, label) == pc[c] = label

\* actor[i]
This(c) == ActorsOn[c][i[c]]

Goto(c, label, first) ==
  /\ pc' = [pc EXCEPT ![c] = label]
  /\ i' = [i EXCEPT ![c] = first]
  /\ j' = [j EXCEPT ![c] = 1]

\* To the next actor, or past the loop to label.
NextActor(c, label) ==
  IF i[c] < Len(ActorsOn[c]) THEN Goto(c, pc[c], i[c] + 1) ELSE Goto(c, label, 1)

NextPort(c, label) ==
  IF j[c] < Len(Ports(This(c)))
  THEN j' = [j EXCEPT ![c] = @ + 1] /\ UNCHANGED <<pc, i>>
  ELSE NextActor(c, label)

Unconsumed(ch, r) == wcount[ch] - rcount[<<ch, r>>]

\* Reads of one input port, of one output port with all its readers.
ReadIn(p) ==
  /\ availIn' = [availIn EXCEPT ![p] = wcount[p[1]] - rcount[p]]
  /\ inCount' = [inCount EXCEPT ![p] = 0]
  /\ UNCHANGED <<wcount, rcount, availOut, outCount>>

BadMost(ch, most) == most = 0

\* max_unconsumed: the slowest reader decides.
MaxUnconsumed(ch, most) == \A r \in Readers(ch) : Unconsumed(ch, r) <= most

ReadOut(ch) ==
  /\ \E most \in {0} \union {Unconsumed(ch, r) : r \in Readers(ch)} :
       /\ MaxUnconsumed(ch, most)
       /\ availOut' = [availOut EXCEPT ![ch] = Cap[ch] - most]
  /\ outCount' = [outCount EXCEPT ![ch] = 0]
  /\ UNCHANGED <<wcount, rcount, availIn, inCount>>

PrefirePort(c) ==
  LET a == This(c) IN
  /\ At(c, "prefire")
  /\ ~terminated[a] /\ Ports(a) # <<>>
  /\ IF IsInput(a, j[c]) THEN ReadIn(<<Ports(a)[j[c]], a>>) ELSE ReadOut(Ports(a)[j[c]])
  /\ fired' = [fired EXCEPT ![a] = FALSE]
  /\ NextPort(c, "fire")
  /\ UNCHANGED <<terminated, fires, arrived, loaded, numActiveActors, syncVars>>

PrefireSkip(c) ==
  LET a == This(c) IN
  /\ At(c, "prefire")
  /\ terminated[a] \/ Ports(a) = <<>>
  /\ fired' = [fired EXCEPT ![a] = FALSE]
  /\ NextActor(c, "fire")
  /\ UNCHANGED <<portVars, terminated, fires, arrived, loaded, numActiveActors,
                 syncVars>>

-----------------------------------------------------------------------------
(* Firing: ART_ACTION_SCHEDULER_ENTER, the actions, ART_ACTION_SCHEDULER_EXIT. *)

BadVisible(a, ch) == availIn[<<ch, a>>] + outCount[ch]

\* Tokens actor a sees on its input from ch: what prefire cached, and what
\* a writer of the same CPU has produced since.
Visible(a, ch) ==
  availIn[<<ch, a>>] + (IF CpuOf[Writer[ch]] = CpuOf[a] THEN outCount[ch] ELSE 0)

TakenBy(a, ch, m) == Taken[ch][a][m] - Taken[ch][a][fires[a]]
GivenBy(a, ch, m) == Given[ch][m] - Given[ch][fires[a]]

Enough(a, m) ==
  /\ m <= Horizon[a]
  /\ a \in Active => m <= arrived[a]
  /\ \A ch \in Chan : <<ch, a>> \in InPort => TakenBy(a, ch, m) <= Visible(a, ch)
  /\ \A ch \in Chan : Writer[ch] = a => GivenBy(a, ch, m) <= availOut[ch]

\* The scheduler fires until an input or an output blocks it, loopmax times
\* at most: a has fired m times when it returns.
Reaches(a, m) ==
  /\ m > fires[a] => Enough(a, m)
  /\ m < fires[a] + Loops[a] => ~Enough(a, m + 1)

Call(a, m) ==
  /\ availIn' = [p \in InPort |->
       IF p[2] = a THEN Visible(a, p[1]) - TakenBy(a, p[1], m) ELSE availIn[p]]
  /\ inCount' = [p \in InPort |->
       IF p[2] = a /\ m > fires[a] THEN TakenBy(a, p[1], m) ELSE inCount[p]]
  /\ availOut' = [ch \in Chan |->
       IF Writer[ch] = a THEN availOut[ch] - GivenBy(a, ch, m) ELSE availOut[ch]]
  /\ outCount' = [ch \in Chan |->
       IF Writer[ch] = a /\ m > fires[a] THEN GivenBy(a, ch, m) ELSE outCount[ch]]
  /\ fired' = [fired EXCEPT ![a] = @ \/ m > fires[a]]
  /\ fires' = [fires EXCEPT ![a] = m]
  /\ UNCHANGED <<wcount, rcount>>

\* The call returns EXITCODE_TERMINATE.
Ends(a, m) == a \in Terminating /\ m = Horizon[a]

Fire(c) ==
  LET a == This(c) IN
  /\ At(c, "fire")
  /\ ~terminated[a]
  /\ \E m \in fires[a] .. fires[a] + Loops[a] :
       /\ Reaches(a, m)
       /\ Call(a, m)
       /\ terminated' = [terminated EXCEPT ![a] = Ends(a, m)]
       /\ IF Ends(a, m) /\ a \in Active
          THEN /\ Goto(c, "decrement", i[c])
               /\ loaded' = [loaded EXCEPT ![c] = numActiveActors]
          ELSE /\ NextActor(c, "postfire")
               /\ UNCHANGED loaded
  /\ UNCHANGED <<arrived, numActiveActors, syncVars>>

BadDecremented(c) == loaded[c]
Decremented(c) == loaded[c] - 1

\* The store of numActiveActors--, which no lock or atomic protects.
Decrement(c) ==
  /\ At(c, "decrement")
  /\ numActiveActors' = Decremented(c)
  /\ loaded' = [loaded EXCEPT ![c] = 0]
  /\ IF i[c] < Len(ActorsOn[c]) THEN Goto(c, "fire", i[c] + 1) ELSE Goto(c, "postfire", 1)
  /\ UNCHANGED <<portVars, actorVars, arrived, syncVars>>

FireSkip(c) ==
  /\ At(c, "fire")
  /\ terminated[This(c)]
  /\ NextActor(c, "postfire")
  /\ UNCHANGED <<dataVars, syncVars>>

-----------------------------------------------------------------------------
(* Postfire: publish the counts of the actors that fired.                  *)

PublishIn(c, p) ==
  /\ rcount' = [rcount EXCEPT ![p] = @ + inCount[p]]
  /\ affected' = [affected EXCEPT ![c] =
       IF inCount[p] # 0 THEN @ \union {CpuOf[Writer[p[1]]]} ELSE @]
  /\ UNCHANGED <<wcount, outCount>>

BadClearCount(ch) == UNCHANGED outCount
ClearCount(ch) == outCount' = [outCount EXCEPT ![ch] = 0]

PublishOut(c, ch) ==
  /\ wcount' = [wcount EXCEPT ![ch] = @ + outCount[ch]]
  /\ ClearCount(ch)
  /\ affected' = [affected EXCEPT ![c] =
       IF outCount[ch] # 0 THEN @ \union {CpuOf[r] : r \in Readers(ch)} ELSE @]
  /\ UNCHANGED rcount

\* The local variable fired of line 118.
SomeFired(c) == \E k \in 1 .. Len(ActorsOn[c]) : fired[ActorsOn[c][k]]

\* After the last port: lines 154-155, or on to line 189.
PostfireEnd(c) ==
  IF SomeFired(c)
  THEN quiescent' = [quiescent EXCEPT ![c] = FALSE] /\ Goto(c, "wake", 0)
  ELSE Goto(c, "lock", 0) /\ UNCHANGED quiescent

LastActor(c) == i[c] = Len(ActorsOn[c])
LastPort(c) == j[c] = Len(Ports(This(c)))

PostfirePort(c) ==
  LET a == This(c) IN
  /\ At(c, "postfire")
  /\ fired[a] /\ Ports(a) # <<>>
  /\ IF IsInput(a, j[c]) THEN PublishIn(c, <<Ports(a)[j[c]], a>>)
                         ELSE PublishOut(c, Ports(a)[j[c]])
  /\ IF LastActor(c) /\ LastPort(c) THEN PostfireEnd(c)
                                    ELSE NextPort(c, "wake") /\ UNCHANGED quiescent
  /\ UNCHANGED <<availIn, availOut, inCount, actorVars, arrived, loaded, oldSleep,
                 stay, sleepVars, sem, mutex, numActiveActors>>

PostfireSkip(c) ==
  LET a == This(c) IN
  /\ At(c, "postfire")
  /\ ~fired[a] \/ Ports(a) = <<>>
  /\ IF LastActor(c) THEN PostfireEnd(c) ELSE NextActor(c, "wake") /\ UNCHANGED quiescent
  /\ UNCHANGED <<dataVars, oldSleep, stay, affected, sleepVars, sem, mutex>>

-----------------------------------------------------------------------------
(* Waking others: the same test with and without the mutex.                *)

Odd(x) == x % 2 = 1

Changed(c, d) == d # c /\ sleep[d] # oldSleep[c][d]
SeenAsleep(c, d) == Changed(c, d) /\ Odd(sleep[d])
Wakes(c, d) == SeenAsleep(c, d) /\ d \in affected[c]

\* old_sleep[i] follows the counter of an active CPU, and that of a sleeping
\* one only when it is woken.
NoteSleep(c, d) ==
  oldSleep' = [oldSleep EXCEPT ![c][d] =
    IF Wakes(c, d) \/ (Changed(c, d) /\ ~Odd(sleep[d])) THEN sleep[d] ELSE @]

\* To the next CPU, or past the loop to label.
NextCpu(c, label, first) ==
  IF i[c] < N - 1 THEN Goto(c, pc[c], i[c] + 1) ELSE Goto(c, label, first)

\* One iteration of lines 158-183.  The semaphore is posted in a step of its
\* own: by then CPU d may have woken up, and even gone back to sleep.  (The
\* code posts first; only c looks at its own notes while it is awake.)
Wake(c) ==
  LET d == i[c] IN
  /\ At(c, "wake")
  /\ NoteSleep(c, d)
  /\ affected' = [affected EXCEPT ![c] = IF Wakes(c, d) THEN @ \ {d} ELSE @]
  /\ IF Wakes(c, d) THEN Goto(c, "post", d) ELSE NextCpu(c, "prefire", 1)
  /\ UNCHANGED <<dataVars, quiescent, stay, sleepVars, sem, mutex>>

Post(c) ==
  /\ At(c, "post")
  /\ sem' = [sem EXCEPT ![i[c]] = @ + 1]
  /\ IF i[c] < N - 1 THEN Goto(c, "wake", i[c] + 1) ELSE Goto(c, "prefire", 1)
  /\ UNCHANGED <<dataVars, localVars, affected, sleepVars, mutex>>

-----------------------------------------------------------------------------
(* Nothing fired: prepare to sleep.                                        *)

BadMutexLock(c) == mutex' = c
MutexLock(c) == mutex = Nobody /\ mutex' = c
MutexUnlock == mutex' = Nobody

Lock(c) ==
  /\ At(c, "lock")
  /\ MutexLock(c)
  /\ stay' = [stay EXCEPT ![c] = FALSE]
  /\ Goto(c, "scan", 0)
  /\ UNCHANGED <<dataVars, oldSleep, quiescent, affected, sleepVars, sem>>

BadDataForUs(c, d) == FALSE
DataForUs(c, d) == SeenAsleep(c, d) /\ c \in affected[d]

BadAcknowledged(c, d) == affected[d] \ {c}
BadUnacknowledged(c, d) == affected[d]
Acknowledged(c, d) == IF SeenAsleep(c, d) THEN affected[d] \ {c} ELSE affected[d]

\* One iteration of lines 211-240.
Scan(c) ==
  LET d == i[c] IN
  /\ At(c, "scan")
  /\ NoteSleep(c, d)
  /\ sem' = [sem EXCEPT ![d] = IF Wakes(c, d) THEN @ + 1 ELSE @]
  /\ affected' = [affected EXCEPT ![c] = IF Wakes(c, d) THEN @ \ {d} ELSE @,
                                  ![d] = Acknowledged(c, d)]
  /\ stay' = [stay EXCEPT ![c] = @ \/ DataForUs(c, d)]
  /\ NextCpu(c, "decide", 0)
  /\ UNCHANGED <<dataVars, quiescent, sleepVars, mutex>>

StayAwake(c) ==
  /\ At(c, "decide") /\ stay[c]
  /\ MutexUnlock
  /\ Goto(c, "drain", 0)
  /\ UNCHANGED <<dataVars, localVars, affected, sleepVars, sem>>

BadLagging == {}

\* The CPUs that fell asleep before the latest sleep event (line 266).
Lagging == {d \in Cpu : quiescentAt'[d] # currSleepEvent'}

\* Lines 243-279.  The last CPU to fall asleep ends the execution, unless
\* some CPU fell asleep before the latest sleep event: that one is woken.
GoToSleep(c) ==
  /\ At(c, "decide") /\ ~stay[c]
  /\ sleepers' = sleepers + 1
  /\ currSleepEvent' = IF quiescent[c] THEN currSleepEvent ELSE currSleepEvent + 1
  /\ quiescent' = [quiescent EXCEPT ![c] = TRUE]
  /\ quiescentAt' = [quiescentAt EXCEPT ![c] = currSleepEvent']
  /\ LET last == numActiveActors = 0 /\ sleepers' = N
     IN /\ sem' = [d \in Cpu |-> IF last /\ d \in Lagging THEN sem[d] + 1 ELSE sem[d]]
        /\ terminate' = (terminate \/ (last /\ Lagging = {}))
  /\ sleep' = [sleep EXCEPT ![c] = @ + 1]
  /\ MutexUnlock
  /\ Goto(c, "asleep", 0)
  /\ UNCHANGED <<dataVars, oldSleep, stay, affected>>

\* The two tests of terminate, before and after the wait on the semaphore.
CheckTerminate(c, label, next) ==
  /\ At(c, label)
  /\ Goto(c, IF terminate THEN "done" ELSE next, 0)
  /\ UNCHANGED <<dataVars, syncVars>>

BadSemWait(c) == sem' = [sem EXCEPT ![c] = @ - 1]
SemWait(c) == sem[c] > 0 /\ sem' = [sem EXCEPT ![c] = @ - 1]

Wait(c) ==
  /\ At(c, "wait")
  /\ SemWait(c)
  /\ Goto(c, "woken", 0)
  /\ UNCHANGED <<dataVars, localVars, affected, sleepVars, mutex>>

\* Lines 295-302: the mutex is taken and released in this one step.
WakeUp(c) ==
  /\ At(c, "relock") /\ mutex = Nobody
  /\ sleep' = [sleep EXCEPT ![c] = @ + 1]
  /\ sleepers' = sleepers - 1
  /\ Goto(c, "drain", 0)
  /\ UNCHANGED <<dataVars, localVars, affected, quiescentAt, currSleepEvent,
                 terminate, sem, mutex>>

\* The loop of art_semaphore_try_wait ends when it finds the count at zero,
\* and never if the call waits for the count to be positive.
Drain(c) ==
  /\ At(c, "drain")
  /\ sem' = [sem EXCEPT ![c] = 0]
  /\ IF TryWaitBlocks THEN sem[c] > 0 /\ UNCHANGED <<pc, i, j>> ELSE Goto(c, "prefire", 1)
  /\ UNCHANGED <<dataVars, localVars, affected, sleepVars, mutex>>

Done(c) ==
  /\ At(c, "done")
  /\ sem' = [d \in Cpu |-> IF d = c THEN sem[d] ELSE sem[d] + 1]
  /\ Goto(c, "exit", 0)
  /\ UNCHANGED <<dataVars, localVars, affected, sleepVars, mutex>>

-----------------------------------------------------------------------------

\* Some thread outside the runtime has work for an active actor, and wakes
\* the CPU through actor->cpu.
Arrive(a) ==
  /\ arrived[a] < Horizon[a]
  /\ arrived' = [arrived EXCEPT ![a] = @ + 1]
  /\ sem' = [sem EXCEPT ![CpuOf[a]] = @ + 1]
  /\ UNCHANGED <<portVars, actorVars, pc, i, j, loaded, localVars, affected,
                 sleepVars, mutex, numActiveActors>>

Thread(c) ==
  \/ PrefirePort(c) \/ PrefireSkip(c)
  \/ Fire(c) \/ Decrement(c) \/ FireSkip(c)
  \/ PostfirePort(c) \/ PostfireSkip(c)
  \/ Wake(c) \/ Post(c)
  \/ Lock(c) \/ Scan(c) \/ StayAwake(c) \/ GoToSleep(c)
  \/ CheckTerminate(c, "asleep", "wait") \/ Wait(c)
  \/ CheckTerminate(c, "woken", "relock") \/ WakeUp(c) \/ Drain(c)
  \/ Done(c)

\* run_threads returns when every thread has been joined.
Joined == \A c \in Cpu : At(c, "exit")

Next ==
  \/ \E c \in Cpu : Thread(c)
  \/ \E a \in Active : Arrive(a)
  \/ Joined /\ UNCHANGED vars

Spec == Init /\ [][Next]_vars

\* The operating system runs every thread that can run.
Fairness == /\ \A c \in Cpu : WF_vars(Thread(c))
            /\ \A a \in Active : WF_vars(Arrive(a))

FairSpec == Spec /\ Fairness

-----------------------------------------------------------------------------
(* Correctness.                                                            *)

Label == {"prefire", "fire", "decrement", "postfire", "wake", "post", "lock", "scan", "decide",
          "asleep", "wait", "woken", "relock", "drain", "done", "exit"}

PortsTyped ==
  /\ wcount \in [Chan -> Nat] /\ rcount \in [InPort -> Nat]
  /\ availIn \in [InPort -> Int] /\ availOut \in [Chan -> Int]
  /\ inCount \in [InPort -> Nat] /\ outCount \in [Chan -> Nat]

ActorsTyped ==
  /\ fired \in [Actor -> BOOLEAN] /\ terminated \in [Actor -> BOOLEAN]
  /\ fires \in [Actor -> Nat] /\ \A a \in Actor : fires[a] <= Horizon[a]
  /\ arrived \in [Actor -> Nat]

\* The loop variables index actor[], its ports, and cpu[].
PlacesTyped ==
  /\ pc \in [Cpu -> Label] /\ i \in [Cpu -> Nat] /\ j \in [Cpu -> Nat \ {0}]
  /\ \A c \in Cpu :
       /\ pc[c] \in {"prefire", "fire", "decrement", "postfire"} => i[c] \in 1 .. Len(ActorsOn[c])
       /\ pc[c] \in {"prefire", "postfire"} => j[c] = 1 \/ j[c] \in 1 .. Len(Ports(This(c)))
       /\ pc[c] \in {"wake", "post", "scan"} => i[c] \in Cpu

SyncTyped ==
  /\ loaded \in [Cpu -> Int] /\ numActiveActors \in Int
  /\ oldSleep \in [Cpu -> [Cpu -> Nat]]
  /\ quiescent \in [Cpu -> BOOLEAN] /\ stay \in [Cpu -> BOOLEAN]
  /\ affected \in [Cpu -> SUBSET Cpu]
  /\ sleep \in [Cpu -> Nat] /\ quiescentAt \in [Cpu -> Nat] /\ sem \in [Cpu -> Nat]
  /\ mutex \in Cpu \union {Nobody}
  /\ sleepers \in Int /\ currSleepEvent \in Nat /\ terminate \in BOOLEAN

\* Every variable has its type: no index runs out of the array it is used on
\* (lines 68-149), and no semaphore or shared count is negative.
TypeOK == PortsTyped /\ ActorsTyped /\ PlacesTyped /\ SyncTyped

\* Between the two increments of *cpu[c].sleep, or finished.
Sleeping(c) == pc[c] \in {"asleep", "wait", "woken", "relock", "done", "exit"}
Locked(c) == pc[c] \in {"scan", "decide"}

\* The shared bookkeeping of sleep tells the truth: only the owner of the
\* mutex is in the critical section, *cpu[c].sleep is odd exactly while c
\* sleeps, and sleepers counts the sleeping CPUs (lines 253-297).
SleepBookkeeping ==
  /\ \A c \in Cpu : Locked(c) <=> mutex = c
  /\ \A c \in Cpu : Sleeping(c) <=> Odd(sleep[c])
  /\ sleepers = Cardinality({c \in Cpu : Sleeping(c)})

\* No actor ever acts on more tokens, or more space, than there is, however
\* old the counts are that its CPU cached in prefire; and what is published
\* never runs ahead of what was done, nor a reader ahead of the writer.
ViewsSafe ==
  \A p \in InPort :
    LET ch == p[1]
        written == Given[ch][fires[Writer[ch]]]
        read == Taken[ch][p[2]][fires[p[2]]]
    IN /\ rcount[p] <= read /\ wcount[ch] <= written
       /\ rcount[p] <= wcount[ch]
       /\ availIn[p] <= written - read
       /\ availOut[ch] <= Cap[ch] - (written - read)
       /\ written - read \in 0 .. Cap[ch]

\* What the threads do together is a sequential execution of the network,
\* with terminate as its end.
Abstract == INSTANCE Dataflow WITH ended <- terminate
RefinesDataflow == Abstract!Spec

\* The same with an end that may come too early: every call of an action
\* scheduler is a legal firing of the network.
RefinesFiring == Abstract!FiringSpec

\* terminate is set only when the network is starved: no actor can fire.
\* Lines 244-252 ask for it ("we must avoid terminating when there is a
\* pending wake-up"), and getExitCode calls a fireable actor an error.
TerminationSound == terminate => \A a \in Actor : ~Abstract!CanFire(a)

\* The published counts let actor a fire.
Ready(a) ==
  LET m == fires[a] + 1 IN
  /\ m <= Horizon[a]
  /\ \A ch \in Chan : <<ch, a>> \in InPort => TakenBy(a, ch, m) <= Unconsumed(ch, a)
  /\ \A ch \in Chan : Writer[ch] = a => \A r \in Readers(ch) : GivenBy(a, ch, m) <= Cap[ch] - Unconsumed(ch, r)
  /\ a \in Active => m <= arrived[a]

\* A CPU that sleeps on its semaphore although one of its actors could fire
\* is still going to be woken: a CPU that is awake has it in has_affected, or
\* is about to post its semaphore (scenarios 1 and 2 of lines 190-209).
NoLostWakeup ==
  \A c \in Cpu :
    At(c, "wait") /\ sem[c] = 0 /\ (\E k \in 1 .. Len(ActorsOn[c]) : Ready(ActorsOn[c][k]))
      => \E d \in Cpu \ {c} : \/ ~Sleeping(d) /\ c \in affected[d]
                              \/ At(d, "post") /\ i[d] = c

\* has_affected[c] is plain memory of CPU c.  Another CPU changes it only
\* while c is asleep (lines 229-236): the two never write it concurrently.
AffectedUnshared ==
  [][\A c \in Cpu : affected'[c] # affected[c] /\ ~Sleeping(c) =>
       <<pc[c], i[c], j[c]>>' # <<pc[c], i[c], j[c]>>]_vars

\* A deterministic network has one outcome: whatever the interleaving and the
\* assignment of actors to CPUs, each actor has fired as often as in a
\* sequential execution when the threads are joined.
OutcomeUnique ==
  Joined => fires = Abstract!Outcome

\* Every decrement of numActiveActors counts (lines 107-109): between two
\* decrements it is the number of active actors that have not terminated.
ActiveCounted ==
  (\A c \in Cpu : ~At(c, "decrement")) =>
    numActiveActors = Cardinality({a \in Active : ~terminated[a]})

\* A network whose sources end is executed to the end, and every thread
\* returns from EXECUTE_NETWORK.
EventuallyJoined == <>Joined
=============================================================================

---------------------------- MODULE LoopbackProofs ----------------------------
(***************************************************************************)
(* For every ring: a transfer is cut into parts that cover its interval    *)
(* exactly.  For every command line, so for any number of ports, calls and *)
(* buffer sizes: no assertion of test() fails, and whatever it releases    *)
(* has completed, although test() never waits for its writes or for the    *)
(* kernel; and what a call of test() reads back is what it has written,    *)
(* for every start of the rings and every order in which the driver        *)
(* completes the commands; the statistics count each token of it once.     *)
(***************************************************************************)
EXTENDS LoopbackTest, FoldFacts

-----------------------------------------------------------------------------
(* The inductive invariant.                                                *)

InputEvents == {e \in BufferEvents : IsInput(e[1])}
SizeEvents == {SizeEvent(p) : p \in ports}
Queued(e) == \E c \in queue : c.event = e

AfterTask == {"meta", "kernel", "read", "output", "release"}
HostTyped ==
  /\ options \in Options
  /\ pc \in AfterTask \union {"construct", "write", "task", "end", "exit"}
  /\ k \in Nat \ {0}
  /\ pc \in {"write", "read"} => k <= options.width
  /\ pc = "meta" => k <= 2 * options.width
  /\ pc = "kernel" => k = 1
  /\ pc # "construct" => ports = Inputs \union Outputs
  /\ active \in [PortEvents -> BOOLEAN]
  /\ DOMAIN event = PortEvents \union {KernelEvent}

\* The place of a port in the loops over inputs, then outputs.
Number(p) == IF IsInput(p) THEN p[2] ELSE options.width + p[2]

\* Ports whose events test() is going to use.
TransferAhead(p) ==
  \/ pc = "end"
  \/ pc = "write" /\ Number(p) >= k
  \/ pc \in {"task", "meta", "kernel"} /\ ~IsInput(p)
  \/ pc = "read" /\ ~IsInput(p) /\ p[2] >= k
ReadMetaAhead(p) ==
  \/ pc \in {"end", "write", "task"}
  \/ pc = "meta" /\ Number(p) >= k

AheadReleased ==
  \A p \in ports :
    /\ TransferAhead(p) => NoTransferActive(p)
    /\ ReadMetaAhead(p) => ~active[SizeEvent(p)]

\* Every command is the latest of its event, and a port's event is active.
Latest ==
  \A c \in queue :
    /\ c.event \in PortEvents \union {KernelEvent}
    /\ c.call = event[c.event]
    /\ c.event # KernelEvent => active[c.event]

InputsAwaited(waits) == \A e \in InputEvents : active[e] => <<e, event[e]>> \in waits

\* The chain from the writes over the kernel to the indices read.
Chain ==
  /\ pc \in {"write", "task"} => InputsAwaited(kernelWaitEvents) /\ ~Queued(KernelEvent)
  /\ \A c \in queue :
       /\ c.event = KernelEvent => InputsAwaited(c.waits)
       /\ c.event \in SizeEvents => <<KernelEvent, event[KernelEvent]>> \in c.waits
  /\ pc \in AfterTask /\ ~Queued(KernelEvent) => \A e \in InputEvents : ~Queued(e)
  /\ pc \in {"meta", "kernel"} /\ Queued(KernelEvent) =>
       \A e \in SizeEvents : active[e] => Queued(e)
  /\ pc = "kernel" \/ (pc = "meta" /\ k > 1) => active[SizeEvent(In(1))]
  /\ pc \in {"read", "output", "release"} =>
       ~Queued(KernelEvent) /\ \A e \in SizeEvents : ~Queued(e)
  /\ pc = "release" => \A e \in BufferEvents : ~Queued(e)
  /\ pc \in {"construct", "end", "exit"} => queue = {}

Inv == HostTyped /\ AheadReleased /\ Latest /\ Chain

-----------------------------------------------------------------------------
(* Transfers.                                                              *)

\* Slot s is among those that the interval from .. to of the ring stands for.
Between(from, to, s) ==
  IF from <= to THEN from <= s /\ s < to ELSE from <= s \/ s < to

\* What writeToDeviceBuffer and readFromDeviceBuffer transfer is the interval,
\* wherever it begins and ends: every part lies within the ring and is not
\* empty, every slot of the interval is in a part and no other slot is, and the
\* parts are disjoint.
THEOREM TransfersExact ==
  ASSUME NEW size \in Nat \ {0}, NEW from \in 0 .. size - 1, NEW to \in 0 .. size - 1
  PROVE  /\ \A t \in Split(size, from, to) :
              t[2] \in 0 .. size - 1 /\ t[3] \in Nat \ {0} /\ t[2] + t[3] <= size
         /\ \A s \in 0 .. size - 1 :
              Between(from, to, s) <=>
                \E t \in Split(size, from, to) : s \in t[2] .. t[2] + t[3] - 1
         /\ \A t, u \in Split(size, from, to) : \A s \in t[2] .. t[2] + t[3] - 1 :
              s \in u[2] .. u[2] + u[3] - 1 => t = u
<1> DEFINE tokens == Tokens(size, from, to)
           rest == tokens - (size - from)
<1>1. CASE from = to
  <2>1. Split(size, from, to) = {}
    BY <1>1 DEF Split
  <2> QED BY <1>1, <2>1 DEF Between
<1>2. CASE from # to /\ tokens + from < size
  <2>1. Split(size, from, to) = {<<"first", from, tokens>>}
    BY <1>2 DEF Split
  <2>2. from < to /\ tokens = to - from
    BY <1>2 DEF Tokens
  <2> QED BY <2>1, <2>2 DEF Between
<1>3. CASE from # to /\ ~(tokens + from < size) /\ rest <= 0
  <2>1. Split(size, from, to) = {<<"first", from, size - from>>}
    BY <1>3 DEF Split, Tokens
  <2>2. to = 0 /\ from > 0
    BY <1>3 DEF Tokens
  <2> QED BY <2>1, <2>2 DEF Between
<1>4. CASE from # to /\ ~(tokens + from < size) /\ rest > 0
  <2>1. Split(size, from, to) = {<<"first", from, size - from>>, <<"second", 0, rest>>}
    BY <1>4 DEF Split
  <2>2. from > to /\ rest = to
    BY <1>4 DEF Tokens
  <2>3. Split(size, from, to) = {<<"first", from, size - from>>, <<"second", 0, to>>}
    BY <2>1, <2>2
  <2> QED BY <1>4, <2>2, <2>3 DEF Between
<1>5. rest \in Int
  BY DEF Tokens
<1> QED BY <1>1, <1>2, <1>3, <1>4, <1>5

-----------------------------------------------------------------------------
(* Events.                                                                 *)

LEMMA WidthFacts ==
  ASSUME HostTyped
  PROVE  options.width \in Nat \ {0} /\ options.repeats \in Nat \ {0}
BY OptionsAssumption DEF HostTyped

LEMMA EventFacts ==
  /\ PortEvents = BufferEvents \union SizeEvents
  /\ InputEvents \subseteq BufferEvents
  /\ BufferEvents \intersect SizeEvents = {}
  /\ KernelEvent \notin PortEvents
  /\ \A p : SizeEvent(p)[1] = p
  /\ \A p, ix : BufferEvent(p, ix)[1] = p /\ BufferEvent(p, ix)[2] = ix
  /\ \A p \in ports : /\ SizeEvent(p) \in SizeEvents
                      /\ BufferEvent(p, "first") \in BufferEvents
                      /\ BufferEvent(p, "second") \in BufferEvents
  /\ \A e \in SizeEvents : e[1] \in ports /\ e = SizeEvent(e[1])
  /\ \A e \in BufferEvents : /\ e[1] \in ports
                             /\ e = BufferEvent(e[1], "first") \/ e = BufferEvent(e[1], "second")
BY DEF PortEvents, BufferEvents, SizeEvents, InputEvents, SizeEvent, BufferEvent, KernelEvent

LEMMA PortFacts ==
  ASSUME HostTyped, pc # "construct"
  PROVE  /\ ports = Inputs \union Outputs
         /\ \A n \in 1 .. options.width : In(n) \in ports /\ Out(n) \in ports
         /\ \A n : IsInput(In(n)) /\ ~IsInput(Out(n)) /\ In(n)[2] = n /\ Out(n)[2] = n
         /\ \A p \in ports :
              /\ p[2] \in 1 .. options.width
              /\ IsInput(p) => p \in Inputs /\ p = In(p[2]) /\ Number(p) = p[2]
              /\ ~IsInput(p) => p \in Outputs /\ p = Out(p[2]) /\ Number(p) = options.width + p[2]
BY DEF HostTyped, Inputs, Outputs, In, Out, IsInput, Number

\* The names of events depend on ports only.
LEMMA EventsKept ==
  ASSUME ports' = ports
  PROVE  /\ BufferEvents' = BufferEvents /\ SizeEvents' = SizeEvents
         /\ PortEvents' = PortEvents /\ InputEvents' = InputEvents
BY DEF BufferEvents, SizeEvents, PortEvents, InputEvents

EventsTyped ==
  /\ active \in [PortEvents -> BOOLEAN]
  /\ DOMAIN event = PortEvents \union {KernelEvent}

\* Events new are now in use, by commands of call n.
InUseNow(new, n) ==
  /\ \A e \in PortEvents : active'[e] <=> active[e] \/ e \in new
  /\ \A e \in PortEvents \union {KernelEvent} :
       event'[e] = IF e \in new THEN n ELSE event[e]
  /\ \A e : Queued(e)' <=> Queued(e) \/ e \in new

\* Commands of call n for events that are not in use.
NotInUse(commands, n) ==
  \A c \in commands : /\ c.event \in PortEvents \union {KernelEvent} /\ c.call = n
                      /\ c.event \in PortEvents => ~active[c.event]
                      /\ c.event = KernelEvent => ~Queued(KernelEvent)

LEMMA Enqueued ==
  ASSUME HostTyped, Latest, ports' = ports, NEW commands, NEW n, Enqueue(commands),
         NotInUse(commands, n)
  PROVE  Latest' /\ EventsTyped' /\ InUseNow({c.event : c \in commands}, n)
<1> DEFINE new == {c.event : c \in commands}
<1>1. /\ queue' = queue \union commands
      /\ active' = [e \in PortEvents |-> active[e] \/ e \in new]
      /\ PortEvents' = PortEvents
  BY EventsKept DEF Enqueue
<1>2. /\ DOMAIN event' = PortEvents \union {KernelEvent}
      /\ \A e \in PortEvents \union {KernelEvent} : event'[e] = IF e \in new THEN n ELSE event[e]
  <2>1. event' = [e \in DOMAIN event |->
           IF e \in new THEN (CHOOSE c \in commands : c.event = e).call ELSE event[e]]
    BY DEF Enqueue
  <2>2. \A e \in new : (CHOOSE c \in commands : c.event = e).call = n
    BY DEF NotInUse
  <2> QED BY <2>1, <2>2 DEF HostTyped
<1>3. \A e : Queued(e)' <=> Queued(e) \/ e \in new
  BY <1>1 DEF Queued
<1>4. active' \in [PortEvents' -> BOOLEAN]
  BY <1>1 DEF HostTyped
<1>5. \A e \in PortEvents : active'[e] <=> active[e] \/ e \in new
  BY <1>1
<1>6. Latest'
  <2> SUFFICES ASSUME NEW c \in queue'
               PROVE  /\ c.event \in PortEvents' \union {KernelEvent}
                      /\ c.call = event'[c.event]
                      /\ c.event # KernelEvent => active'[c.event]
    BY DEF Latest
  <2>1. CASE c \in commands
    BY <1>1, <1>2, <1>5, <2>1 DEF NotInUse
  <2>2. CASE c \in queue /\ c.event \notin new
    BY <1>1, <1>2, <1>5, <2>2 DEF Latest
  <2>3. CASE c \in queue /\ c.event \in new
    BY <2>3 DEF Latest, Queued, NotInUse
  <2> QED BY <1>1, <2>1, <2>2, <2>3
<1> QED BY <1>1, <1>2, <1>3, <1>4, <1>5, <1>6 DEF InUseNow, EventsTyped

\* A transfer of port p has been enqueued.
Started(p, n) ==
  /\ event'[KernelEvent] = event[KernelEvent]
  /\ \A e \in PortEvents : e \in SizeEvents \/ e[1] # p =>
       (active'[e] <=> active[e]) /\ event'[e] = event[e]
  /\ \A e \in BufferEvents : e[1] = p /\ active'[e] => event'[e] = n
  /\ \A e : Queued(e) => Queued(e)'
  /\ \A e : Queued(e)' => Queued(e) \/ (e \in BufferEvents /\ e[1] = p)
  /\ \A c \in queue' : c \in queue \/ c.event \in BufferEvents

LEMMA TransferStarts ==
  ASSUME HostTyped, Latest, ports' = ports, NEW p \in ports, NoTransferActive(p),
         NEW from, NEW to, NEW n, Transfer(p, from, to, n)
  PROVE  Latest' /\ EventsTyped' /\ Started(p, n)
<1>1. PICK commands :
        /\ commands = {Command(BufferEvent(p, t[1]), n, t[2], t[3], {}) :
                         t \in Split(userAllocSize, from, to)}
        /\ Enqueue(commands)
  BY DEF Transfer
<1>2. \A t \in Split(userAllocSize, from, to) : t[1] \in {"first", "second"}
  BY DEF Split
<1>3. ASSUME NEW c \in commands
      PROVE  c.event \in BufferEvents /\ c.event[1] = p /\ c.call = n /\ ~active[c.event]
  <2>1. PICK t \in Split(userAllocSize, from, to) :
          c = Command(BufferEvent(p, t[1]), n, t[2], t[3], {})
    BY <1>1
  <2>2. c.event = BufferEvent(p, t[1]) /\ c.call = n
    BY <2>1 DEF Command
  <2> QED BY <1>2, <2>2, EventFacts DEF NoTransferActive
<1>4. Latest' /\ EventsTyped' /\ InUseNow({c.event : c \in commands}, n)
  <2>1. NotInUse(commands, n)
    BY <1>3, EventFacts DEF NotInUse
  <2> QED BY <1>1, <2>1, Enqueued
<1>5. \A e \in BufferEvents : e[1] = p => ~active[e]
  BY EventFacts DEF NoTransferActive
<1>6. \A c \in queue' : c \in queue \/ c.event \in BufferEvents
  BY <1>1, <1>3 DEF Enqueue
<1> QED BY <1>3, <1>4, <1>5, <1>6, EventFacts DEF Started, InUseNow

-----------------------------------------------------------------------------
(* The steps of test().                                                    *)

LEMMA WriteInputKeeps ==
  ASSUME Inv, WriteInput
  PROVE  Inv'
<1>1. /\ pc = "write" /\ ports' = ports /\ options' = options
      /\ options.width \in Nat \ {0} /\ k \in 1 .. options.width
  BY WidthFacts DEF WriteInput, Inv, HostTyped, portVars, mainVars
<1>2. PICK p \in ports : p = In(k) /\ IsInput(p) /\ p[2] = k /\ Number(p) = k
  BY <1>1, PortFacts DEF Inv
<1>3. NoTransferActive(p)
  BY <1>1, <1>2 DEF Inv, AheadReleased, TransferAhead
<1>4. PICK from, to : Transfer(p, from, to, callIndex)
  BY <1>2, <1>3 DEF WriteInput
<1>5. PICK n : n = callIndex
  OBVIOUS
<1>6. /\ kernelWaitEvents' = {<<e, n>> : e \in WaitFor(p)} \union
                             (IF k = 1 THEN {} ELSE kernelWaitEvents)
      /\ NextPort(options.width, "task")
  BY <1>2, <1>3, <1>5 DEF WriteInput
<1>7. Latest' /\ EventsTyped' /\ Started(p, n)
  <2>1. HostTyped /\ Latest
    BY DEF Inv
  <2>2. Transfer(p, from, to, n)
    BY <1>4, <1>5
  <2> QED BY <1>1, <1>3, <2>1, <2>2, TransferStarts
<1>8. /\ k' \in Nat \ {0} /\ pc' \in {"write", "task"}
      /\ pc' = "write" => k' = k + 1 /\ k' <= options.width
  BY <1>1, <1>6 DEF NextPort
<1>9. HostTyped'
  BY <1>1, <1>7, <1>8 DEF Inv, HostTyped, EventsTyped, Inputs, Outputs
<1>10. AheadReleased'
  <2> SUFFICES ASSUME NEW q \in ports
               PROVE  /\ TransferAhead(q)' => NoTransferActive(q)'
                      /\ ReadMetaAhead(q)' => ~active'[SizeEvent(q)]
    BY <1>1 DEF AheadReleased
  <2>1. ~active'[SizeEvent(q)]
    BY <1>1, <1>7, EventFacts DEF Started, Inv, AheadReleased, ReadMetaAhead
  <2>2. q # p /\ Number(q) >= k => NoTransferActive(q)'
    BY <1>1, <1>7, EventFacts DEF Inv, AheadReleased, TransferAhead, NoTransferActive, Started
  <2>3. Number(q) \in Nat /\ (~IsInput(q) => Number(q) > k) /\ Number(q)' = Number(q)
    BY <1>1, PortFacts DEF Inv, Number
  <2>4. TransferAhead(q)' => q # p /\ Number(q) >= k
    BY <1>1, <1>2, <1>8, <2>3 DEF TransferAhead
  <2> QED BY <2>1, <2>2, <2>4
<1>11. InputsAwaited(kernelWaitEvents)'
  <2> SUFFICES ASSUME NEW e \in InputEvents, active'[e]
               PROVE  <<e, event'[e]>> \in kernelWaitEvents'
    BY <1>1, EventsKept DEF InputsAwaited
  <2>1. e \in BufferEvents /\ e \in PortEvents /\ e[1] \in ports /\ IsInput(e[1])
    BY EventFacts DEF InputEvents
  <2>2. CASE e[1] = p
    <3>1. e \in WaitFor(p)
      BY <2>1, <2>2, EventFacts DEF WaitFor
    <3> QED BY <1>6, <1>7, <2>1, <2>2, <3>1 DEF Started
  <2>3. CASE e[1] # p
    <3>1. active[e] /\ event'[e] = event[e]
      BY <1>7, <2>1, <2>3 DEF Started
    <3>2. k # 1
      <4>1. Number(e[1]) \in Nat /\ Number(e[1]) >= 1
        BY <2>1, PortFacts, <1>1 DEF Inv
      <4> QED BY <1>1, <2>1, <3>1, <4>1, EventFacts
            DEF Inv, AheadReleased, TransferAhead, NoTransferActive
    <3> QED BY <1>1, <1>6, <3>1, <3>2 DEF Inv, Chain, InputsAwaited
  <2> QED BY <2>2, <2>3
<1>12. \A c \in queue' : c.event \in BufferEvents
  <2>1. \A c \in queue : c.event \in BufferEvents
    <3> SUFFICES ASSUME NEW c \in queue PROVE c.event \in BufferEvents
      OBVIOUS
    <3>1. c.event # KernelEvent
      BY <1>1 DEF Inv, Chain, Queued
    <3>2. c.event \in PortEvents /\ active[c.event]
      BY <3>1 DEF Inv, Latest
    <3>3. c.event \notin SizeEvents
      BY <1>1, <3>2, EventFacts DEF Inv, AheadReleased, ReadMetaAhead
    <3> QED BY <3>2, <3>3, EventFacts
  <2> QED BY <1>7, <2>1 DEF Started
<1>13. Chain'
  <2>1. ~Queued(KernelEvent)'
    BY <1>12, EventFacts DEF Queued
  <2> QED BY <1>1, <1>8, <1>11, <1>12, <2>1, EventFacts, EventsKept DEF Chain, AfterTask
<1> QED BY <1>7, <1>9, <1>10, <1>13 DEF Inv

LEMMA NewTesterKeeps ==
  ASSUME Inv, NewTester
  PROVE  Inv'
<1>1. /\ queue' = {} /\ active' = [e \in PortEvents' |-> FALSE]
      /\ event' = [e \in PortEvents' \union {KernelEvent} |-> -1]
      /\ ports' = Inputs \union Outputs /\ options' = options
      /\ pc' = "write" /\ k' = 1 /\ kernelWaitEvents' = {}
  BY DEF NewTester, Construct
<1>2. options.width \in Nat \ {0}
  BY WidthFacts DEF Inv
<1>3. Inputs' = Inputs /\ Outputs' = Outputs
  BY <1>1 DEF Inputs, Outputs
<1>4. HostTyped'
  BY <1>1, <1>2, <1>3 DEF Inv, HostTyped, AfterTask
<1>5. \A e \in PortEvents' : ~active'[e]
  BY <1>1
<1>6. AheadReleased'
  BY <1>5 DEF AheadReleased, NoTransferActive, PortEvents, BufferEvents, BufferEvent
<1>7. Latest' /\ \A e : ~Queued(e)'
  BY <1>1 DEF Latest, Queued
<1>8. InputsAwaited(kernelWaitEvents)'
  BY <1>5 DEF InputsAwaited, InputEvents, PortEvents
<1>9. Chain'
  BY <1>1, <1>7, <1>8 DEF Chain, AfterTask
<1> QED BY <1>4, <1>6, <1>7, <1>9 DEF Inv

LEMMA EnqueueTaskKeeps ==
  ASSUME Inv, EnqueueTask
  PROVE  Inv'
<1>1. /\ pc = "task" /\ pc' = "meta" /\ k' = 1 /\ ports' = ports /\ options' = options
      /\ kernelWaitEvents' = kernelWaitEvents
      /\ options.width \in Nat \ {0} /\ HostTyped /\ Latest
  BY WidthFacts DEF EnqueueTask, Inv, portVars, mainVars
<1>2. PICK commands, n : /\ commands = {Command(KernelEvent, n, 0, 0, kernelWaitEvents)}
                         /\ n = callIndex /\ Enqueue(commands)
  BY DEF EnqueueTask
<1>3. \A c \in commands : c.event = KernelEvent /\ c.call = n /\ c.waits = kernelWaitEvents
  BY <1>2 DEF Command
<1>4. ~Queued(KernelEvent) /\ InputsAwaited(kernelWaitEvents)
  BY <1>1 DEF Inv, Chain
<1>5. Latest' /\ EventsTyped' /\ InUseNow({c.event : c \in commands}, n)
  <2>1. NotInUse(commands, n)
    BY <1>3, <1>4, EventFacts DEF NotInUse
  <2> QED BY <1>1, <1>2, <2>1, Enqueued
<1>6. /\ {c.event : c \in commands} = {KernelEvent}
      /\ queue' = queue \union commands
  BY <1>2, <1>3 DEF Enqueue
<1>7. /\ \A e \in PortEvents : (active'[e] <=> active[e]) /\ event'[e] = event[e]
      /\ \A e : Queued(e)' <=> Queued(e) \/ e = KernelEvent
  BY <1>5, <1>6, EventFacts DEF InUseNow
<1>8. HostTyped'
  BY <1>1, <1>5 DEF HostTyped, EventsTyped, AfterTask, Inputs, Outputs
<1>9. AheadReleased'
  <2> SUFFICES ASSUME NEW q \in ports
               PROVE  /\ TransferAhead(q)' => NoTransferActive(q)'
                      /\ ReadMetaAhead(q)' => ~active'[SizeEvent(q)]
    BY <1>1 DEF AheadReleased
  <2>1. TransferAhead(q)' => TransferAhead(q)
    BY <1>1 DEF TransferAhead
  <2>2. ReadMetaAhead(q)
    BY <1>1 DEF ReadMetaAhead
  <2> QED BY <1>7, <2>1, <2>2, EventFacts DEF Inv, AheadReleased, NoTransferActive
<1>10. \A e \in SizeEvents : ~active[e] /\ ~active'[e]
  BY <1>1, <1>7, EventFacts DEF Inv, AheadReleased, ReadMetaAhead
<1>11. \A c \in queue : c.event \in BufferEvents
  BY <1>4, <1>10, EventFacts DEF Inv, Latest, Queued
<1>12. ASSUME NEW c \in queue'
       PROVE  /\ c.event = KernelEvent => InputsAwaited(c.waits)'
              /\ c.event \notin SizeEvents
  <2>1. InputsAwaited(kernelWaitEvents)'
    BY <1>1, <1>4, <1>7, EventsKept, EventFacts DEF InputsAwaited
  <2>2. c \in commands => c.waits = kernelWaitEvents' /\ c.event = KernelEvent
    BY <1>1, <1>3
  <2>3. c \in queue => c.event \in BufferEvents
    BY <1>11
  <2> QED BY <1>6, <2>1, <2>2, <2>3, EventFacts DEF InputsAwaited
<1>13. Chain'
  BY <1>1, <1>7, <1>10, <1>12, EventsKept DEF Chain, AfterTask
<1> QED BY <1>5, <1>8, <1>9, <1>13 DEF Inv

LEMMA ReadMetaKeeps ==
  ASSUME Inv, ReadMeta
  PROVE  Inv'
<1>1. /\ pc = "meta" /\ ports' = ports /\ options' = options
      /\ options.width \in Nat \ {0} /\ k \in 1 .. 2 * options.width
      /\ HostTyped /\ Latest
  BY WidthFacts DEF ReadMeta, Inv, HostTyped, portVars, mainVars
<1>2. PICK p \in ports :
        /\ p = IF k <= options.width THEN In(k) ELSE Out(k - options.width)
        /\ Number(p) = k
  <2>1. CASE k <= options.width
    BY <1>1, <2>1, PortFacts
  <2>2. CASE ~(k <= options.width)
    <3>1. k - options.width \in 1 .. options.width
      BY <1>1, <2>2
    <3>2. Out(k - options.width) \in ports
      BY <1>1, <3>1, PortFacts
    <3>3. Number(Out(k - options.width)) = options.width + (k - options.width)
      BY <1>1, <3>2, PortFacts
    <3> QED BY <1>1, <2>2, <3>2, <3>3
  <2> QED BY <2>1, <2>2
<1>3. ~active[SizeEvent(p)]
  BY <1>1, <1>2 DEF Inv, AheadReleased, ReadMetaAhead
<1>4. PICK commands, n, waits :
        /\ commands = {Command(SizeEvent(p), n, 0, 0, waits)} /\ Enqueue(commands)
        /\ waits = {<<KernelEvent, event[KernelEvent]>>}
  BY <1>2, <1>3 DEF ReadMeta, EnqueueReadMeta, MetaWaits
<1>5. \A c \in commands : c.event = SizeEvent(p) /\ c.call = n /\ c.waits = waits
  BY <1>4 DEF Command
<1>6. Latest' /\ EventsTyped' /\ InUseNow({c.event : c \in commands}, n)
  <2>1. NotInUse(commands, n)
    BY <1>3, <1>5, EventFacts DEF NotInUse
  <2> QED BY <1>1, <1>4, <2>1, Enqueued
<1>7. /\ {c.event : c \in commands} = {SizeEvent(p)}
      /\ queue' = queue \union commands
  BY <1>4, <1>5 DEF Enqueue
<1>8. /\ \A e \in PortEvents : active'[e] <=> active[e] \/ e = SizeEvent(p)
      /\ \A e \in PortEvents \union {KernelEvent} :
           e # SizeEvent(p) => event'[e] = event[e]
      /\ \A e : Queued(e)' <=> Queued(e) \/ e = SizeEvent(p)
  BY <1>6, <1>7, EventFacts DEF InUseNow
<1>9. /\ k' \in Nat \ {0} /\ pc' \in {"meta", "kernel"}
      /\ pc' = "meta" => k' = k + 1 /\ k' <= 2 * options.width
      /\ pc' = "kernel" => k' = 1
  BY <1>1, <1>2, <1>3 DEF ReadMeta, NextPort
<1>10. HostTyped'
  BY <1>1, <1>6, <1>9 DEF HostTyped, EventsTyped, AfterTask, Inputs, Outputs
<1>11. AheadReleased'
  <2> SUFFICES ASSUME NEW q \in ports
               PROVE  /\ TransferAhead(q)' => NoTransferActive(q)'
                      /\ ReadMetaAhead(q)' => ~active'[SizeEvent(q)]
    BY <1>1 DEF AheadReleased
  <2>1. TransferAhead(q)' => TransferAhead(q)
    BY <1>1, <1>9 DEF TransferAhead
  <2>2. BufferEvent(q, "first") # SizeEvent(p) /\ BufferEvent(q, "second") # SizeEvent(p)
    BY EventFacts
  <2>3. ReadMetaAhead(q)' => ReadMetaAhead(q) /\ q # p
    <3>1. Number(q)' = Number(q) /\ Number(q) \in Nat
      BY <1>1, PortFacts DEF Number
    <3> QED BY <1>1, <1>2, <1>9, <3>1 DEF ReadMetaAhead
  <2>4. q # p => SizeEvent(q) # SizeEvent(p)
    BY EventFacts
  <2> QED BY <1>8, <2>1, <2>2, <2>3, <2>4, EventFacts DEF Inv, AheadReleased, NoTransferActive
<1>12. ASSUME NEW c \in queue'
       PROVE  /\ c.event = KernelEvent => InputsAwaited(c.waits)'
              /\ c.event \in SizeEvents => <<KernelEvent, event'[KernelEvent]>> \in c.waits
  <2>1. event'[KernelEvent] = event[KernelEvent] /\ KernelEvent # SizeEvent(p)
    BY <1>8, EventFacts
  <2>2. CASE c \in queue
    <3>1. c.event = KernelEvent => InputsAwaited(c.waits)
      BY <2>2 DEF Inv, Chain
    <3>2. InputsAwaited(c.waits) => InputsAwaited(c.waits)'
      BY <1>1, <1>8, EventsKept, EventFacts DEF InputsAwaited
    <3>3. c.event \in SizeEvents => <<KernelEvent, event[KernelEvent]>> \in c.waits
      BY <2>2 DEF Inv, Chain
    <3> QED BY <2>1, <3>1, <3>2, <3>3
  <2>3. CASE c \in commands
    BY <1>4, <1>5, <2>1, <2>3
  <2> QED BY <1>7, <2>2, <2>3
<1>13. Chain'
  <2>1. active'[SizeEvent(In(1))]
    <3>1. CASE k > 1
      BY <1>1, <1>8, <3>1, PortFacts, EventFacts DEF Inv, Chain
    <3>2. CASE k = 1
      BY <1>1, <1>2, <1>8, <3>2, PortFacts, EventFacts
    <3> QED BY <1>1, <3>1, <3>2
  <2>2. SizeEvent(p) \notin InputEvents /\ SizeEvent(p) # KernelEvent
    BY EventFacts
  <2> QED BY <1>1, <1>8, <1>9, <1>12, <2>1, <2>2, EventsKept, EventFacts
        DEF Inv, Chain, AfterTask
<1> QED BY <1>6, <1>10, <1>11, <1>13 DEF Inv

\* Under Latest, an event is complete when no command of it is in the queue.
LEMMA CompleteFacts ==
  ASSUME Latest
  PROVE  \A e : EventComplete(e) <=> ~Queued(e)
BY DEF Latest, EventComplete, Pending, Queued

LEMMA WaitForKernelKeeps ==
  ASSUME Inv, WaitUntil("kernel", KernelFinished, "read")
  PROVE  Inv'
<1>1. /\ pc = "kernel" /\ pc' = "read" /\ KernelFinished
      /\ UNCHANGED <<ports, options, queue, event, active, k, kernelWaitEvents>>
  BY DEF WaitUntil, portVars, mainVars, infoVars
<1>2. HostTyped /\ Latest /\ options.width \in Nat \ {0}
  BY WidthFacts DEF Inv
<1>3. \A e \in SizeEvents : ~Queued(e)
  <2> SUFFICES ASSUME NEW e \in SizeEvents, Queued(e) PROVE FALSE
    OBVIOUS
  <2>1. active[e]
    BY <1>2, EventFacts DEF Latest, Queued
  <2>2. EventComplete(e)
    BY <1>1, <2>1, EventFacts DEF KernelFinished
  <2> QED BY <1>2, <2>2, CompleteFacts
<1>4. ~Queued(KernelEvent)
  <2>1. active[SizeEvent(In(1))] /\ SizeEvent(In(1)) \in SizeEvents
    BY <1>1, <1>2, PortFacts, EventFacts DEF Inv, Chain
  <2> QED BY <1>1, <1>3, <2>1 DEF Inv, Chain
<1>5. HostTyped'
  BY <1>1, <1>2, EventsKept DEF HostTyped, AfterTask, Inputs, Outputs
<1>6. AheadReleased'
  <2> SUFFICES ASSUME NEW q \in ports
               PROVE  /\ TransferAhead(q)' => NoTransferActive(q)'
                      /\ ReadMetaAhead(q)' => ~active'[SizeEvent(q)]
    BY <1>1 DEF AheadReleased
  <2>1. TransferAhead(q)' => TransferAhead(q)
    BY <1>1 DEF TransferAhead
  <2>2. ~ReadMetaAhead(q)'
    BY <1>1 DEF ReadMetaAhead
  <2> QED BY <1>1, <2>1, <2>2 DEF Inv, AheadReleased, NoTransferActive
<1>7. Latest'
  BY <1>1, <1>2, EventsKept DEF Latest
<1>8. Chain'
  BY <1>1, <1>3, <1>4, EventsKept DEF Inv, Chain, AfterTask, Queued, InputsAwaited
<1> QED BY <1>5, <1>6, <1>7, <1>8 DEF Inv

LEMMA ReadOutputKeeps ==
  ASSUME Inv, ReadOutput
  PROVE  Inv'
<1>1. /\ pc = "read" /\ ports' = ports /\ options' = options
      /\ kernelWaitEvents' = kernelWaitEvents
      /\ options.width \in Nat \ {0} /\ k \in 1 .. options.width
      /\ HostTyped /\ Latest
  BY WidthFacts DEF ReadOutput, Inv, HostTyped, portVars, mainVars
<1>2. PICK p \in ports : p = Out(k) /\ ~IsInput(p) /\ p[2] = k
  BY <1>1, PortFacts
<1>3. NoTransferActive(p)
  BY <1>1, <1>2 DEF Inv, AheadReleased, TransferAhead
<1>4. PICK from, to, n : Transfer(p, from, to, n)
  BY <1>2, <1>3 DEF ReadOutput
<1>5. Latest' /\ EventsTyped' /\ Started(p, n)
  BY <1>1, <1>3, <1>4, TransferStarts
<1>6. /\ k' \in Nat \ {0} /\ pc' \in {"read", "output"}
      /\ pc' = "read" => k' = k + 1 /\ k' <= options.width
  BY <1>1, <1>2, <1>3 DEF ReadOutput, NextPort
<1>7. HostTyped'
  BY <1>1, <1>5, <1>6 DEF HostTyped, EventsTyped, AfterTask, Inputs, Outputs
<1>8. AheadReleased'
  <2> SUFFICES ASSUME NEW q \in ports
               PROVE  /\ TransferAhead(q)' => NoTransferActive(q)'
                      /\ ReadMetaAhead(q)' => ~active'[SizeEvent(q)]
    BY <1>1 DEF AheadReleased
  <2>1. ~ReadMetaAhead(q)'
    BY <1>6 DEF ReadMetaAhead
  <2>2. q[2] \in Nat
    BY <1>1, PortFacts
  <2>3. TransferAhead(q)' => TransferAhead(q) /\ q # p
    BY <1>1, <1>2, <1>6, <2>2 DEF TransferAhead
  <2>4. TransferAhead(q) /\ q # p => NoTransferActive(q)'
    BY <1>5, EventFacts DEF Inv, AheadReleased, NoTransferActive, Started
  <2> QED BY <2>1, <2>3, <2>4
<1>9. ~Queued(KernelEvent) /\ \A e \in SizeEvents \union InputEvents : ~Queued(e)
  BY <1>1 DEF Inv, Chain, AfterTask
<1>10. ~Queued(KernelEvent)' /\ \A e \in SizeEvents \union InputEvents : ~Queued(e)'
  BY <1>2, <1>5, <1>9, EventFacts DEF Started, InputEvents
<1>11. \A c \in queue' : c.event # KernelEvent /\ c.event \notin SizeEvents
  BY <1>10 DEF Queued
<1>12. Chain'
  BY <1>1, <1>6, <1>10, <1>11, EventsKept DEF Chain, AfterTask
<1> QED BY <1>5, <1>7, <1>8, <1>12 DEF Inv

LEMMA WaitForOutputKeeps ==
  ASSUME Inv, WaitUntil("output", ReadFinished, "release")
  PROVE  Inv'
<1>1. /\ pc = "output" /\ pc' = "release" /\ ReadFinished
      /\ UNCHANGED <<ports, options, queue, event, active, k, kernelWaitEvents>>
  BY DEF WaitUntil, portVars, mainVars, infoVars
<1>2. HostTyped /\ Latest
  BY DEF Inv
<1>3. ~Queued(KernelEvent) /\ \A e \in SizeEvents \union InputEvents : ~Queued(e)
  BY <1>1 DEF Inv, Chain, AfterTask
<1>4. \A e \in BufferEvents : ~Queued(e)
  <2> SUFFICES ASSUME NEW e \in BufferEvents, Queued(e) PROVE FALSE
    OBVIOUS
  <2>1. e[1] \in Outputs
    BY <1>1, <1>2, <1>3, EventFacts, PortFacts DEF InputEvents
  <2>2. active[e]
    BY <1>2, EventFacts DEF Latest, Queued
  <2>3. EventComplete(e)
    BY <1>1, <2>1, <2>2, EventFacts DEF ReadFinished
  <2> QED BY <1>2, <2>3, CompleteFacts
<1>5. HostTyped'
  BY <1>1, <1>2, EventsKept DEF HostTyped, AfterTask, Inputs, Outputs
<1>6. AheadReleased'
  BY <1>1 DEF AheadReleased, TransferAhead, ReadMetaAhead
<1>7. Latest'
  BY <1>1, <1>2, EventsKept DEF Latest
<1>8. Chain'
  BY <1>1, <1>3, <1>4, EventsKept DEF Inv, Chain, AfterTask, Queued, InputsAwaited
<1> QED BY <1>5, <1>6, <1>7, <1>8 DEF Inv

\* Before events are released, the queue is empty.
LEMMA QueueEmpty ==
  ASSUME Inv, pc = "release"
  PROVE  queue = {}
<1>1. ~Queued(KernelEvent) /\ \A e \in SizeEvents \union BufferEvents : ~Queued(e)
  BY DEF Inv, Chain
<1> QED BY <1>1, EventFacts DEF Inv, Latest, Queued

LEMMA ReleaseKeeps ==
  ASSUME Inv, Release
  PROVE  Inv'
<1>1. /\ pc = "release" /\ pc' = "end" /\ active' = [e \in PortEvents |-> FALSE]
      /\ UNCHANGED <<ports, options, queue, event, k, kernelWaitEvents>>
  BY DEF Release, ReleaseEvents, Released, portVars, mainVars
<1>2. queue' = {}
  BY <1>1, QueueEmpty
<1>3. HostTyped'
  BY <1>1, EventsKept DEF Inv, HostTyped, AfterTask, Inputs, Outputs
<1>4. AheadReleased'
  BY <1>1, EventFacts DEF AheadReleased, NoTransferActive
<1>5. Latest' /\ \A e : ~Queued(e)'
  BY <1>2 DEF Latest, Queued
<1>6. Chain'
  BY <1>1, <1>2, <1>5 DEF Chain, AfterTask
<1> QED BY <1>3, <1>4, <1>5, <1>6 DEF Inv

LEMMA NextCallKeeps ==
  ASSUME Inv, NextCall
  PROVE  Inv'
<1>1. /\ pc = "end" /\ pc' \in {"write", "construct", "exit"} /\ k' = 1
      /\ UNCHANGED <<ports, options, queue, event, active, kernelWaitEvents>>
  BY DEF NextCall, portVars, infoVars
<1>2. options.width \in Nat \ {0}
  BY WidthFacts DEF Inv
<1>3. queue' = {}
  BY <1>1 DEF Inv, Chain
<1>4. HostTyped'
  BY <1>1, <1>2, EventsKept DEF Inv, HostTyped, AfterTask, Inputs, Outputs
<1>5. \A p \in ports : NoTransferActive(p) /\ ~active[SizeEvent(p)]
  BY <1>1 DEF Inv, AheadReleased, TransferAhead, ReadMetaAhead
<1>6. AheadReleased'
  BY <1>1, <1>5 DEF AheadReleased, NoTransferActive
<1>7. Latest' /\ \A e : ~Queued(e)'
  BY <1>3 DEF Latest, Queued
<1>8. InputsAwaited(kernelWaitEvents)'
  <2>1. \A e \in InputEvents : ~active[e]
    BY <1>5, EventFacts DEF NoTransferActive
  <2> QED BY <1>1, <2>1, EventsKept DEF InputsAwaited
<1>9. Chain'
  BY <1>1, <1>3, <1>7, <1>8 DEF Chain, AfterTask
<1> QED BY <1>4, <1>6, <1>7, <1>9 DEF Inv

LEMMA CompleteKeeps ==
  ASSUME Inv, NEW c \in queue, Complete(c)
  PROVE  Inv'
<1>1. /\ Ready(c) /\ queue' = queue \ {c}
      /\ UNCHANGED <<ports, options, event, active, pc, k, kernelWaitEvents>>
  BY DEF Complete, portVars, infoVars, mainVars, testVars
<1>2. HostTyped /\ Latest
  BY DEF Inv
<1>3. \A e : Queued(e)' => Queued(e)
  BY <1>1 DEF Queued
<1>4. \A e : e # c.event => (Queued(e)' <=> Queued(e))
  BY <1>1 DEF Queued
<1>5. HostTyped'
  BY <1>1, <1>2, EventsKept DEF HostTyped, Inputs, Outputs
<1>6. AheadReleased'
  BY <1>1 DEF Inv, AheadReleased, NoTransferActive, TransferAhead, ReadMetaAhead, Number
<1>7. Latest'
  BY <1>1, <1>2, EventsKept DEF Latest
<1>8. \A e : <<e, event[e]>> \in c.waits => ~Queued(e)
  <2> SUFFICES ASSUME NEW e, <<e, event[e]>> \in c.waits, Queued(e) PROVE FALSE
    OBVIOUS
  <2>1. Pending(e, event[e])
    BY <1>2 DEF Pending, Queued, Latest
  <2> QED BY <1>1, <2>1 DEF Ready
<1>9. pc \in AfterTask /\ ~Queued(KernelEvent)' => \A e \in InputEvents : ~Queued(e)'
  <2>1. CASE c.event = KernelEvent
    <3>1. InputsAwaited(c.waits)
      BY <2>1 DEF Inv, Chain
    <3>2. ASSUME NEW e \in InputEvents, Queued(e)' PROVE FALSE
      <4>1. active[e]
        BY <1>2, <1>3, <3>2, EventFacts DEF Queued, Latest
      <4> QED BY <1>3, <1>8, <3>1, <3>2, <4>1 DEF InputsAwaited
    <3> QED BY <3>2
  <2>2. CASE c.event # KernelEvent
    BY <1>3, <1>4, <2>2 DEF Inv, Chain
  <2> QED BY <2>1, <2>2
<1>10. pc \in {"meta", "kernel"} /\ Queued(KernelEvent)' =>
         \A e \in SizeEvents : active[e] => Queued(e)'
  <2>1. c.event \in SizeEvents => ~Queued(KernelEvent)
    BY <1>8 DEF Inv, Chain
  <2> QED BY <1>3, <1>4, <2>1 DEF Inv, Chain
<1>11. Chain'
  BY <1>1, <1>3, <1>9, <1>10, EventsKept DEF Inv, Chain, InputsAwaited
<1> QED BY <1>5, <1>6, <1>7, <1>11 DEF Inv

-----------------------------------------------------------------------------
(* The invariant holds.                                                    *)

LEMMA Initially ==
  ASSUME Init
  PROVE  Inv
<1>1. /\ pc = "construct" /\ k = 1 /\ options \in Options /\ ports = {} /\ queue = {}
      /\ active = <<>> /\ DOMAIN event = {KernelEvent}
  BY DEF Init, NoPorts
<1>2. PortEvents = {}
  BY <1>1 DEF PortEvents, BufferEvents
<1>3. active \in [PortEvents -> BOOLEAN]
  BY <1>1, <1>2
<1>4. HostTyped
  BY <1>1, <1>2, <1>3 DEF HostTyped, AfterTask
<1> QED BY <1>1, <1>4 DEF Inv, AheadReleased, Latest, Chain, AfterTask, Queued

LEMMA InvUnchanged ==
  ASSUME Inv, UNCHANGED vars
  PROVE  Inv'
<1>1. UNCHANGED <<ports, options, queue, event, active, pc, k, kernelWaitEvents>>
  BY DEF vars, portVars, infoVars, mainVars, testVars
<1>2. HostTyped'
  BY <1>1, EventsKept DEF Inv, HostTyped, Inputs, Outputs
<1>3. AheadReleased'
  BY <1>1 DEF Inv, AheadReleased, NoTransferActive, TransferAhead, ReadMetaAhead, Number
<1>4. Latest' /\ \A e : Queued(e)' <=> Queued(e)
  BY <1>1, EventsKept DEF Inv, Latest, Queued
<1>5. Chain'
  BY <1>1, <1>4, EventsKept DEF Inv, Chain, InputsAwaited
<1> QED BY <1>2, <1>3, <1>4, <1>5 DEF Inv

LEMMA InvHolds == Spec => []Inv
<1>1. ASSUME Inv, [Next]_vars PROVE Inv'
  <2>1. CASE Host
    BY <1>1, <2>1, NewTesterKeeps, WriteInputKeeps, EnqueueTaskKeeps, ReadMetaKeeps,
       WaitForKernelKeeps, ReadOutputKeeps, WaitForOutputKeeps, ReleaseKeeps, NextCallKeeps
       DEF Host
  <2>2. CASE Device
    BY <1>1, <2>2, CompleteKeeps DEF Device
  <2>3. CASE Ended \/ UNCHANGED vars
    BY <1>1, <2>3, InvUnchanged DEF Ended
  <2> QED BY <1>1, <2>1, <2>2, <2>3 DEF Next
<1> QED BY <1>1, Initially, PTL DEF Spec

\* What releaseEvents and the profiling of test() look at (lines 250 to 261) has
\* completed, for any number of ports and calls and any ring: the writes and the
\* kernel, for which test() does not wait, because the wait lists order them
\* before the indices for which it does.
THEOREM ReleaseCorrect == Spec => []ReleasedComplete
<1>1. ASSUME Inv PROVE ReleasedComplete
  <2>1. pc = "release" => \A e : ~Queued(e)
    BY <1>1, QueueEmpty DEF Queued
  <2> QED BY <1>1, <2>1, CompleteFacts DEF Inv, ReleasedComplete
<1> QED BY <1>1, InvHolds, PTL

\* No assertion of device-port.cc fails: in any call, on any port, the events of
\* the call before have been released before they are used again.
THEOREM AssertionsHold == Spec => []NoAssertionFails
<1>1. ASSUME Inv PROVE NoAssertionFails
  BY <1>1 DEF Inv, HostTyped, AfterTask, NoAssertionFails
<1> QED BY <1>1, InvHolds, PTL

-----------------------------------------------------------------------------
(* What the host computes stays within the rings, and no two transfers of  *)
(* a port overlap.                                                         *)

AfterMeta == {"kernel", "read", "output", "release", "end"}

Counted ==
  /\ repeat \in 0 .. options.repeats - 1
  /\ pc \in {"write", "task", "meta"} => callIndex = repeat
  /\ pc \in AfterMeta => callIndex = repeat + 1
  /\ callIndex \in 0 .. options.repeats
  /\ pc \notin {"write", "meta", "read"} => k = 1
  /\ pc = "construct" => repeat = 0
  /\ buffer \in options.min .. 2 * options.max
  /\ pc # "exit" => buffer <= options.max
  /\ userAllocSize \in 0 .. options.max
  /\ pc # "construct" => userAllocSize > 0
  /\ ports \in {{}, Inputs \union Outputs}

Index == [ports -> Slots]

RingTyped ==
  /\ head \in Index /\ tail \in Index /\ hostMeta \in Index /\ deviceMeta \in Index
  /\ args \in [ports -> [head : Slots, tail : Slots]]
  /\ event \in [PortEvents \union {KernelEvent} -> -1 .. options.repeats]

CommandTyped(c) ==
  /\ c.call \in Nat /\ c.offset \in Slots
  /\ c.tokens \in Nat /\ c.offset + c.tokens <= userAllocSize

\* Two commands are of different events, and transfers of a port are disjoint.
Disjoint(c, d) ==
  /\ c.event # d.event
  /\ c.event \in BufferEvents /\ d.event \in BufferEvents /\ c.event[1] = d.event[1] =>
       Covered(c) \intersect Covered(d) = {}
QueueTyped == \A c \in queue : CommandTyped(c)
Apart == \A c, d \in queue : c # d => Disjoint(c, d)

Rings == Counted /\ RingTyped /\ QueueTyped /\ Apart
LEMMA SlotFacts ==
  ASSUME userAllocSize \in Nat \ {0}
  PROVE  0 \in Slots /\ \A x \in Int : x % userAllocSize \in Slots
BY DEF Slots

\* Slots and what is made of them depend on ports and sizes only.
LEMMA RingsKept ==
  ASSUME Rings, UNCHANGED <<portVars, options, event, head, tail, args>>,
         hostMeta' \in Index, deviceMeta' \in Index, queue' \subseteq queue
  PROVE  RingTyped' /\ QueueTyped' /\ Apart'
<1>1. UNCHANGED <<ports, userAllocSize, BufferEvents, PortEvents, Slots, Index>>
  BY EventsKept DEF portVars, Slots, Index
<1>2. RingTyped'
  BY <1>1 DEF Rings, RingTyped
<1>3. \A c \in queue : CommandTyped(c)' /\ \A d \in queue : c # d => Disjoint(c, d)'
  BY <1>1 DEF Rings, QueueTyped, CommandTyped, Apart, Disjoint, Covered
<1> QED BY <1>2, <1>3 DEF QueueTyped, Apart

LEMMA EnqueuedApart ==
  ASSUME HostTyped, Latest, Rings, UNCHANGED <<portVars, options>>,
         NEW commands, NEW n \in 0 .. options.repeats, Enqueue(commands), NotInUse(commands, n),
         \A c \in commands : CommandTyped(c) /\ \A d \in commands : c # d => Disjoint(c, d),
         \A c \in commands : \A d \in queue :
           c.event \in BufferEvents /\ d.event \in BufferEvents => c.event[1] # d.event[1]
  PROVE  /\ QueueTyped' /\ Apart'
         /\ event' \in [PortEvents \union {KernelEvent} -> -1 .. options.repeats]'
<1>1. UNCHANGED <<ports, userAllocSize, BufferEvents, PortEvents, Slots>>
  BY EventsKept DEF portVars, Slots
<1>2. queue' = queue \union commands
  BY DEF Enqueue
<1>3. QueueTyped'
  BY <1>1, <1>2 DEF Rings, QueueTyped, CommandTyped
<1>4. \A c \in commands : \A d \in queue : c.event # d.event
  BY DEF NotInUse, Latest, Queued
<1>5. \A c, d \in queue' : c # d => Disjoint(c, d)
  BY <1>2, <1>4 DEF Rings, Apart, Disjoint
<1>6. Apart'
  BY <1>1, <1>5 DEF Apart, Disjoint, Covered
<1>7. event' \in [PortEvents \union {KernelEvent} -> -1 .. options.repeats]
  <2>1. InUseNow({c.event : c \in commands}, n)
    BY <1>1, Enqueued
  <2>2. DOMAIN event = PortEvents \union {KernelEvent}
    BY DEF HostTyped
  <2>3. \A e \in PortEvents \union {KernelEvent} : event'[e] \in -1 .. options.repeats
    BY <2>1 DEF InUseNow, Rings, RingTyped
  <2>4. event' = [e \in PortEvents \union {KernelEvent} |-> event'[e]]
    BY <2>2 DEF Enqueue
  <2> QED BY <2>3, <2>4
<1> QED BY <1>1, <1>3, <1>6, <1>7

\* The parts of a transfer are disjoint, and there is no other of the port.
LEMMA TransferApart ==
  ASSUME HostTyped, Latest, Rings, UNCHANGED <<portVars, options>>,
         userAllocSize \in Nat \ {0}, NEW p \in ports, NoTransferActive(p),
         NEW from \in Slots, NEW to \in Slots, NEW n \in 0 .. options.repeats,
         Transfer(p, from, to, n)
  PROVE  /\ QueueTyped' /\ Apart'
         /\ event' \in [PortEvents \union {KernelEvent} -> -1 .. options.repeats]'
<1> DEFINE parts == Split(userAllocSize, from, to)
<1>1. PICK commands :
        /\ commands = {Command(BufferEvent(p, t[1]), n, t[2], t[3], {}) : t \in parts}
        /\ Enqueue(commands)
  BY DEF Transfer
<1>2. \A t \in parts : t[1] \in {"first", "second"}
  BY DEF Split
<1>3. \A t, u \in parts : t[1] = u[1] => t = u
  BY DEF Split
<1>4. /\ \A t \in parts : /\ t[2] \in Slots /\ t[3] \in Nat \ {0}
                          /\ t[2] + t[3] <= userAllocSize
      /\ \A t, u \in parts : \A s \in t[2] .. t[2] + t[3] - 1 :
           s \in u[2] .. u[2] + u[3] - 1 => t = u
  BY TransfersExact DEF Slots
<1>5. ASSUME NEW c \in commands
      PROVE  \E t \in parts : /\ c.event = BufferEvent(p, t[1]) /\ c.call = n
                              /\ c.offset = t[2] /\ c.tokens = t[3] /\ c.waits = {}
                              /\ c = Command(BufferEvent(p, t[1]), n, t[2], t[3], {})
  BY <1>1 DEF Command
<1>6. ASSUME NEW c \in commands
      PROVE  c.event \in BufferEvents /\ c.event[1] = p /\ c.call = n /\ ~active[c.event]
  <2>1. PICK t \in parts : c.event = BufferEvent(p, t[1]) /\ c.call = n
    BY <1>5
  <2> QED BY <1>2, <2>1, EventFacts DEF NoTransferActive
<1>7. NotInUse(commands, n)
  BY <1>6, EventFacts DEF NotInUse
<1>8. \A c \in commands : CommandTyped(c)
  <2> SUFFICES ASSUME NEW c \in commands PROVE CommandTyped(c)
    OBVIOUS
  <2>1. PICK t \in parts : c.call = n /\ c.offset = t[2] /\ c.tokens = t[3]
    BY <1>5
  <2>2. n \in Nat
    BY WidthFacts
  <2> QED BY <1>4, <2>1, <2>2 DEF CommandTyped
<1>9. \A c, d \in commands : c # d => Disjoint(c, d)
  <2> SUFFICES ASSUME NEW c \in commands, NEW d \in commands, c # d PROVE Disjoint(c, d)
    OBVIOUS
  <2>1. PICK t \in parts : /\ c.event = BufferEvent(p, t[1]) /\ c.offset = t[2]
                           /\ c.tokens = t[3]
                           /\ c = Command(BufferEvent(p, t[1]), n, t[2], t[3], {})
    BY <1>5
  <2>2. PICK u \in parts : /\ d.event = BufferEvent(p, u[1]) /\ d.offset = u[2]
                           /\ d.tokens = u[3]
                           /\ d = Command(BufferEvent(p, u[1]), n, u[2], u[3], {})
    BY <1>5
  <2>3. t # u
    BY <2>1, <2>2
  <2>4. c.event # d.event
    BY <1>3, <2>1, <2>2, <2>3, EventFacts
  <2>5. Covered(c) \intersect Covered(d) = {}
    BY <1>4, <2>1, <2>2, <2>3 DEF Covered
  <2> QED BY <2>4, <2>5 DEF Disjoint
<1>10. \A c \in commands : \A d \in queue :
         c.event \in BufferEvents /\ d.event \in BufferEvents => c.event[1] # d.event[1]
  <2> SUFFICES ASSUME NEW d \in queue, d.event \in BufferEvents, d.event[1] = p PROVE FALSE
    BY <1>6
  <2>1. active[d.event]
    BY EventFacts DEF Latest
  <2> QED BY <2>1, EventFacts DEF NoTransferActive
<1> QED BY <1>1, <1>7, <1>8, <1>9, <1>10, EnqueuedApart
LEMMA NewTesterRings ==
  ASSUME Inv, Rings, NewTester
  PROVE  Rings'
<1>1. /\ Construct(Inputs \union Outputs, buffer) /\ callIndex' = 0 /\ pc' = "write" /\ k' = 1
      /\ args' = [p \in Inputs \union Outputs |-> [head |-> 0, tail |-> 0]]
      /\ UNCHANGED <<options, buffer, repeat>> /\ pc = "construct"
  BY DEF NewTester
<1>2. ports' = Inputs \union Outputs /\ userAllocSize' = buffer /\ queue' = {}
  BY <1>1 DEF Construct
<1>3. options.width \in Nat \ {0} /\ options.repeats \in Nat \ {0}
  BY WidthFacts DEF Inv
<1>4. options.min \in Nat \ {0} /\ options.max \in Nat
  BY OptionsAssumption DEF Inv, HostTyped
<1>5. userAllocSize' \in Nat \ {0} /\ userAllocSize' <= options.max
  BY <1>1, <1>2, <1>4 DEF Rings, Counted
<1>6. repeat = 0
  BY <1>1 DEF Rings, Counted
<1>7. Counted'
  BY <1>1, <1>2, <1>3, <1>4, <1>5, <1>6 DEF Rings, Counted, AfterMeta, Inputs, Outputs
<1>8. 0 \in Slots'
  <2>1. 0 \in 0 .. buffer - 1 /\ Slots' = 0 .. buffer - 1
    BY <1>2, <1>5 DEF Slots
  <2> QED BY <2>1
<1>9. RingTyped'
  <2>1. /\ head' \in [ports' -> Slots'] /\ tail' \in [ports' -> Slots']
        /\ hostMeta' \in [ports' -> Slots'] /\ deviceMeta' \in [ports' -> Slots']
    BY <1>1, <1>2, <1>8 DEF Construct
  <2>2. args' \in [ports' -> [head : Slots', tail : Slots']]
    BY <1>1, <1>2, <1>8
  <2>3. event' \in [PortEvents' \union {KernelEvent} -> -1 .. options.repeats]
    BY <1>1, <1>3 DEF Construct
  <2> QED BY <1>1, <2>1, <2>2, <2>3 DEF RingTyped, Index
<1> QED BY <1>2, <1>7, <1>9 DEF Rings, QueueTyped, Apart

\* Typed numbers, in test().
LEMMA CallFacts ==
  ASSUME Inv, Rings, pc # "construct"
  PROVE  /\ userAllocSize \in Nat \ {0} /\ options.width \in Nat \ {0}
         /\ options.repeats \in Nat \ {0} /\ options.max \in Nat
         /\ HostTyped /\ Latest /\ callIndex \in 0 .. options.repeats
<1>1. options.max \in Nat /\ options.min \in Nat
  BY OptionsAssumption DEF Inv, HostTyped
<1> QED BY <1>1, WidthFacts DEF Inv, Rings, Counted

LEMMA WriteInputRings ==
  ASSUME Inv, Rings, WriteInput
  PROVE  Rings'
<1>1. /\ pc = "write" /\ k \in 1 .. options.width
      /\ UNCHANGED <<portVars, options, buffer, repeat, callIndex, hostMeta, deviceMeta>>
  BY DEF WriteInput, Inv, HostTyped, mainVars, hostVars, deviceVars
<1>2. /\ userAllocSize \in Nat \ {0} /\ HostTyped /\ Latest
      /\ options.repeats \in Nat \ {0} /\ callIndex \in 0 .. options.repeats
      /\ options.width \in Nat \ {0}
  BY <1>1, CallFacts
<1>3. PICK p \in ports : p = In(k) /\ Number(p) = k
  BY <1>1, <1>2, PortFacts
<1>4. NoTransferActive(p)
  BY <1>1, <1>3 DEF Inv, AheadReleased, TransferAhead
<1>5. PICK start \in Starts :
        /\ tail' = [tail EXCEPT ![p] = start]
        /\ head' = [head EXCEPT ![p] = (start + userAllocSize - 1) % userAllocSize]
  BY <1>3 DEF WriteInput
<1>6. /\ Transfer(p, tail'[p], head'[p], callIndex)
      /\ args' = [args EXCEPT ![p] = [head |-> head'[p], tail |-> tail'[p]]]
      /\ NextPort(options.width, "task")
  BY <1>3, <1>4 DEF WriteInput
<1>7. start \in Slots /\ (start + userAllocSize - 1) % userAllocSize \in Slots
  BY <1>2, SlotFacts DEF Starts, Slots
<1>8. /\ tail' \in Index /\ head' \in Index /\ tail'[p] \in Slots /\ head'[p] \in Slots
      /\ args' \in [ports -> [head : Slots, tail : Slots]]
  BY <1>5, <1>6, <1>7 DEF Rings, RingTyped, Index
<1>9. /\ QueueTyped' /\ Apart'
      /\ event' \in [PortEvents \union {KernelEvent} -> -1 .. options.repeats]'
  BY <1>1, <1>2, <1>4, <1>6, <1>8, TransferApart
<1>10. UNCHANGED <<ports, userAllocSize, Index, Slots>>
  BY <1>1 DEF portVars, Index, Slots
<1>11. RingTyped'
  BY <1>1, <1>8, <1>9, <1>10 DEF Rings, RingTyped
<1>12. Counted'
  BY <1>1, <1>2, <1>6, <1>10 DEF Rings, Counted, NextPort, AfterMeta, Inputs, Outputs
<1> QED BY <1>9, <1>11, <1>12 DEF Rings

LEMMA EnqueueTaskRings ==
  ASSUME Inv, Rings, EnqueueTask
  PROVE  Rings'
<1>1. /\ pc = "task" /\ pc' = "meta" /\ k' = 1
      /\ UNCHANGED <<portVars, options, buffer, repeat, callIndex, hostMeta, deviceMeta>>
  BY DEF EnqueueTask, mainVars, hostVars, deviceVars
<1>2. /\ userAllocSize \in Nat \ {0} /\ HostTyped /\ Latest
      /\ options.width \in Nat \ {0} /\ callIndex \in 0 .. options.repeats
  BY <1>1, CallFacts
<1>3. PICK start \in [Outputs -> Starts] :
        /\ tail' = [p \in ports |-> IF p \in Outputs THEN start[p] ELSE tail[p]]
        /\ head' = [p \in ports |-> IF p \in Outputs THEN start[p] ELSE head[p]]
        /\ args' = [p \in ports |->
             IF p \in Outputs
             THEN [p_1 \in Outputs |-> [head |-> start[p_1], tail |-> start[p_1]]][p]
             ELSE args[p]]
  BY DEF EnqueueTask
<1>4. Starts \subseteq Slots
  BY <1>2, SlotFacts DEF Starts
<1>5. tail' \in Index /\ head' \in Index /\ args' \in [ports -> [head : Slots, tail : Slots]]
  <2>1. \A p \in Outputs : start[p] \in Slots
    BY <1>4
  <2>2. tail' \in Index /\ head' \in Index
    BY <1>3, <2>1 DEF Rings, RingTyped, Index
  <2>3. \A p \in ports : args'[p] \in [head : Slots, tail : Slots]
    BY <1>3, <2>1 DEF Rings, RingTyped
  <2> QED BY <1>3, <2>2, <2>3
<1>6. PICK commands : /\ commands = {Command(KernelEvent, callIndex, 0, 0, kernelWaitEvents)}
                      /\ Enqueue(commands)
  BY DEF EnqueueTask
<1>7. \A c, d \in commands : /\ c.event = KernelEvent /\ c.call = callIndex
                             /\ c.offset = 0 /\ c.tokens = 0 /\ c = d
  BY <1>6 DEF Command
<1>8. NotInUse(commands, callIndex)
  BY <1>1, <1>7, EventFacts DEF NotInUse, Inv, Chain
<1>9. \A c \in commands : CommandTyped(c) /\ c.event \notin BufferEvents
  <2>1. callIndex \in Nat
    BY <1>2
  <2>2. \A c \in commands : c.event \notin BufferEvents
    BY <1>7, EventFacts
  <2>3. 0 + 0 <= userAllocSize /\ 0 \in Nat /\ 0 \in Slots
    BY <1>2, SlotFacts
  <2> QED BY <1>7, <2>1, <2>2, <2>3 DEF CommandTyped
<1>10. /\ QueueTyped' /\ Apart'
       /\ event' \in [PortEvents \union {KernelEvent} -> -1 .. options.repeats]'
  BY <1>1, <1>2, <1>6, <1>7, <1>8, <1>9, EnqueuedApart DEF Rings
<1>11. UNCHANGED <<ports, userAllocSize, Index, Slots>>
  BY <1>1 DEF portVars, Index, Slots
<1>12. RingTyped'
  BY <1>1, <1>5, <1>10, <1>11 DEF Rings, RingTyped
<1>13. Counted'
  BY <1>1, <1>2, <1>11 DEF Rings, Counted, AfterMeta, Inputs, Outputs
<1> QED BY <1>10, <1>12, <1>13 DEF Rings

LEMMA ReadMetaRings ==
  ASSUME Inv, Rings, ReadMeta
  PROVE  Rings'
<1>1. /\ pc = "meta" /\ k \in 1 .. 2 * options.width
      /\ UNCHANGED <<portVars, options, buffer, repeat, hostMeta, deviceMeta, head, tail, args>>
  BY DEF ReadMeta, Inv, HostTyped, mainVars, hostVars, deviceVars
<1>2. /\ userAllocSize \in Nat \ {0} /\ HostTyped /\ Latest
      /\ options.width \in Nat \ {0} /\ callIndex \in 0 .. options.repeats
      /\ options.repeats \in Nat \ {0}
  BY <1>1, CallFacts
<1>3. PICK p \in ports : p = IF k <= options.width THEN In(k) ELSE Out(k - options.width)
  <2>1. k <= options.width \/ k - options.width \in 1 .. options.width
    BY <1>1, <1>2
  <2> QED BY <1>1, <1>2, <2>1, PortFacts
<1>4. /\ ~active[SizeEvent(p)]
      /\ EnqueueReadMeta(p, callIndex, {<<KernelEvent, event[KernelEvent]>>})
      /\ NextPort(2 * options.width, "kernel")
      /\ callIndex' = IF k = 2 * options.width THEN callIndex + 1 ELSE callIndex
  <2>1. pc' \in AfterTask
    BY <1>1, ReadMetaKeeps DEF Inv, HostTyped, AfterTask, ReadMeta, NextPort, AssertionFailed
  <2>2. ~active[SizeEvent(p)]
    <3>1. Number(p) = k
      <4>1. CASE k <= options.width
        BY <1>1, <1>2, <1>3, <4>1, PortFacts
      <4>2. CASE ~(k <= options.width)
        <5>1. ~IsInput(p) /\ p[2] = k - options.width
          BY <1>1, <1>2, <1>3, <4>2, PortFacts
        <5> QED BY <1>1, <1>2, <5>1 DEF Number
      <4> QED BY <4>1, <4>2
    <3> QED BY <1>1, <1>2, <3>1 DEF Inv, AheadReleased, ReadMetaAhead
  <2> QED BY <1>3, <2>2 DEF ReadMeta
<1>5. PICK commands, waits : /\ commands = {Command(SizeEvent(p), callIndex, 0, 0, waits)}
                             /\ Enqueue(commands)
  BY <1>4 DEF EnqueueReadMeta, MetaWaits
<1>6. \A c, d \in commands : /\ c.event = SizeEvent(p) /\ c.call = callIndex
                             /\ c.offset = 0 /\ c.tokens = 0 /\ c = d
  BY <1>5 DEF Command
<1>7. NotInUse(commands, callIndex)
  BY <1>4, <1>6, EventFacts DEF NotInUse
<1>8. \A c \in commands : CommandTyped(c) /\ c.event \notin BufferEvents
  <2>1. callIndex \in Nat
    BY <1>2
  <2> QED BY <1>2, <1>6, <2>1, SlotFacts, EventFacts DEF CommandTyped
<1>9. /\ QueueTyped' /\ Apart'
      /\ event' \in [PortEvents \union {KernelEvent} -> -1 .. options.repeats]'
  BY <1>1, <1>2, <1>5, <1>6, <1>7, <1>8, EnqueuedApart DEF Rings
<1>10. UNCHANGED <<ports, userAllocSize, Index, Slots>>
  BY <1>1 DEF portVars, Index, Slots
<1>11. RingTyped'
  BY <1>1, <1>9, <1>10 DEF Rings, RingTyped
<1>12. Counted'
  <2>1. callIndex = repeat /\ repeat \in 0 .. options.repeats - 1
    BY <1>1 DEF Rings, Counted
  <2>2. \/ k < 2 * options.width /\ pc' = "meta" /\ callIndex' = repeat
        \/ k = 2 * options.width /\ k' = 1 /\ pc' = "kernel" /\ callIndex' = repeat + 1
    BY <1>1, <1>2, <1>4, <2>1 DEF NextPort
  <2> QED BY <1>1, <1>2, <1>10, <2>1, <2>2 DEF Rings, Counted, AfterMeta, Inputs, Outputs
<1> QED BY <1>9, <1>11, <1>12 DEF Rings
LEMMA ReadOutputRings ==
  ASSUME Inv, Rings, ReadOutput
  PROVE  Rings'
<1>1. /\ pc = "read" /\ k \in 1 .. options.width
      /\ UNCHANGED <<portVars, options, buffer, repeat, callIndex, hostMeta, deviceMeta,
                     tail, args>>
  BY DEF ReadOutput, Inv, HostTyped, mainVars, hostVars, deviceVars
<1>2. /\ userAllocSize \in Nat \ {0} /\ HostTyped /\ Latest
      /\ options.repeats \in Nat \ {0} /\ callIndex \in 0 .. options.repeats
      /\ options.width \in Nat \ {0}
  BY <1>1, CallFacts
<1>3. PICK p \in ports : p = Out(k) /\ ~IsInput(p) /\ p[2] = k
  BY <1>1, <1>2, PortFacts
<1>4. NoTransferActive(p)
  BY <1>1, <1>3 DEF Inv, AheadReleased, TransferAhead
<1>5. /\ Transfer(p, head[p], hostMeta[p], callIndex)
      /\ head' = [head EXCEPT ![p] = hostMeta[p]]
      /\ NextPort(options.width, "output")
  BY <1>3, <1>4 DEF ReadOutput
<1>6. head' \in Index /\ head[p] \in Slots /\ hostMeta[p] \in Slots
  BY <1>5 DEF Rings, RingTyped, Index
<1>7. /\ QueueTyped' /\ Apart'
      /\ event' \in [PortEvents \union {KernelEvent} -> -1 .. options.repeats]'
  BY <1>1, <1>2, <1>4, <1>5, <1>6, TransferApart
<1>8. UNCHANGED <<ports, userAllocSize, Index, Slots>>
  BY <1>1 DEF portVars, Index, Slots
<1>9. RingTyped'
  BY <1>1, <1>6, <1>7, <1>8 DEF Rings, RingTyped
<1>10. Counted'
  BY <1>1, <1>2, <1>5, <1>8 DEF Rings, Counted, NextPort, AfterMeta, Inputs, Outputs
<1> QED BY <1>7, <1>9, <1>10 DEF Rings

\* The steps of the host that leave the queue alone.
LEMMA OtherHostRings ==
  ASSUME Inv, Rings,
         \/ WaitUntil("kernel", KernelFinished, "read")
         \/ WaitUntil("output", ReadFinished, "release")
         \/ Release \/ NextCall \/ UNCHANGED vars
  PROVE  Rings'
<1>1. UNCHANGED <<portVars, options, event, head, tail, args, hostMeta, deviceMeta, queue>>
  BY DEF WaitUntil, Release, NextCall, vars, infoVars, mainVars, testVars, hostVars, deviceVars
<1>2. RingTyped' /\ QueueTyped' /\ Apart'
  BY <1>1, RingsKept DEF Rings, RingTyped
<1>3. ports' = ports /\ userAllocSize' = userAllocSize
  BY <1>1 DEF portVars
<1>4. /\ options.repeats \in Nat \ {0} /\ options.max \in Nat /\ options.min \in Nat \ {0}
  BY OptionsAssumption DEF Inv, HostTyped
<1>5. CASE UNCHANGED <<pc, k, repeat, buffer, callIndex>>
  BY <1>1, <1>2, <1>3, <1>5 DEF Rings, Counted, Inputs, Outputs
<1>6. CASE /\ UNCHANGED <<repeat, buffer, callIndex, k>>
           /\ pc \in AfterMeta \ {"read"} /\ pc' \in AfterMeta
  BY <1>1, <1>2, <1>3, <1>6 DEF Rings, Counted, AfterMeta, Inputs, Outputs
<1>7. CASE NextCall
  BY <1>1, <1>2, <1>3, <1>4, <1>7 DEF NextCall, Rings, Counted, AfterMeta, NextSize,
     Inputs, Outputs
<1> QED BY <1>5, <1>6, <1>7 DEF WaitUntil, Release, vars, mainVars, testVars, AfterMeta

LEMMA CompleteRings ==
  ASSUME Inv, Rings, NEW c \in queue, Complete(c)
  PROVE  Rings'
<1>1. /\ queue' = queue \ {c}
      /\ CompleteTransfer(c) \/ CompleteReadMeta(c) \/ RunKernel(c)
      /\ UNCHANGED <<portVars, options, event, head, tail, args, pc, k, repeat, buffer, callIndex>>
  BY DEF Complete, infoVars, mainVars, testVars
<1>2. pc # "construct"
  BY DEF Inv, Chain
<1>3. userAllocSize \in Nat \ {0} /\ options.width \in Nat \ {0} /\ HostTyped
  BY <1>2, CallFacts
<1>4. hostMeta' \in Index /\ deviceMeta' \in Index
  <2>1. CASE CompleteTransfer(c)
    BY <2>1 DEF CompleteTransfer, Rings, RingTyped
  <2>2. CASE CompleteReadMeta(c)
    BY <2>2 DEF CompleteReadMeta, deviceVars, Rings, RingTyped, Index
  <2>3. CASE RunKernel(c)
    <3>1. PICK moved \in [1 .. options.width -> 0 .. userAllocSize - 1] : Loopback(moved)
      BY <2>3 DEF RunKernel
    <3>2. ASSUME NEW p \in ports
          PROVE  Around(IF IsInput(p) THEN args[p].tail ELSE args[p].head, moved[p[2]]) \in Slots
      <4>1. moved[p[2]] \in Int
        BY <1>2, <1>3, PortFacts
      <4>2. args[p].tail \in Int /\ args[p].head \in Int
        BY <1>3 DEF Rings, RingTyped, Slots
      <4>3. PICK start \in Int : start = IF IsInput(p) THEN args[p].tail ELSE args[p].head
        BY <4>2
      <4>4. (start + moved[p[2]]) % userAllocSize \in Slots
        <5>1. start + moved[p[2]] \in Int
          BY <4>1
        <5> QED BY ONLY <1>3, <5>1, SlotFacts
      <4> QED BY <4>3, <4>4 DEF Around
    <3>3. deviceMeta' \in Index
      BY <3>1, <3>2 DEF Loopback, Index
    <3> QED BY <2>3, <3>3 DEF RunKernel, hostVars, Rings, RingTyped
  <2> QED BY <1>1, <2>1, <2>2, <2>3
<1>5. RingTyped' /\ QueueTyped' /\ Apart'
  BY <1>1, <1>4, RingsKept
<1>6. Counted'
  BY <1>1 DEF Rings, Counted, portVars, Inputs, Outputs
<1> QED BY <1>5, <1>6 DEF Rings

LEMMA RingsInitially ==
  ASSUME Init
  PROVE  Rings
<1>1. /\ pc = "construct" /\ k = 1 /\ callIndex = 0 /\ repeat = 0 /\ args = <<>>
      /\ options \in Options /\ buffer = options.min /\ options.min <= options.max
      /\ NoPorts
  BY DEF Init
<1>2. ports = {} /\ userAllocSize = 0 /\ queue = {} /\ event = [e \in {KernelEvent} |-> -1]
  BY <1>1 DEF NoPorts
<1>3. PortEvents = {}
  BY <1>2 DEF PortEvents, BufferEvents
<1>4. options.repeats \in Nat \ {0} /\ options.max \in Nat /\ options.min \in Nat \ {0}
  BY <1>1, OptionsAssumption
<1>5. <<>> \in [{} -> Slots] /\ <<>> \in [{} -> [head : Slots, tail : Slots]]
  OBVIOUS
<1>6. RingTyped
  BY <1>1, <1>2, <1>3, <1>4, <1>5 DEF NoPorts, RingTyped, Index
<1>7. Counted
  BY <1>1, <1>2, <1>4 DEF Counted, AfterMeta
<1> QED BY <1>2, <1>6, <1>7 DEF Rings, QueueTyped, Apart

LEMMA RingsHold == Spec => []Rings
<1>1. ASSUME Inv, Rings, [Next]_vars PROVE Rings'
  <2>1. CASE Host
    BY <1>1, <2>1, NewTesterRings, WriteInputRings, EnqueueTaskRings, ReadMetaRings,
       ReadOutputRings, OtherHostRings DEF Host
  <2>2. CASE Device
    BY <1>1, <2>2, CompleteRings DEF Device
  <2>3. CASE Ended \/ UNCHANGED vars
    BY <1>1, <2>3, OtherHostRings DEF Ended
  <2> QED BY <1>1, <2>1, <2>2, <2>3 DEF Next
<1> QED BY <1>1, RingsInitially, InvHolds, PTL DEF Spec

\* Every variable of the tester keeps its type, for every command line: indices
\* and intervals of commands stay within the rings, and calls are numbered up to
\* the number asked for.
THEOREM TypeCorrect == Spec => []TypeOK
<1>1. ASSUME Inv, Rings PROVE TypeOK
  <2>1. options.width \in Nat \ {0}
    BY <1>1, WidthFacts DEF Inv
  <2>2. k \in 1 .. 2 * options.width
    <3>1. k = 1 \/ k <= options.width \/ k <= 2 * options.width
      BY <1>1 DEF Rings, Counted, Inv, HostTyped
    <3> QED BY <1>1, <2>1, <3>1 DEF Inv, HostTyped
  <2>3. \A c \in queue :
          /\ c.event \in PortEvents \union {KernelEvent} /\ c.call \in Nat
          /\ c.offset \in Slots /\ c.offset + c.tokens <= userAllocSize
    BY <1>1 DEF Inv, Latest, Rings, QueueTyped, CommandTyped
  <2> QED BY <1>1, <2>2, <2>3 DEF TypeOK, Inv, HostTyped, AfterTask, Rings, Counted, RingTyped,
        Index
<1> QED BY <1>1, InvHolds, RingsHold, PTL

\* For every command line: two commands of the out-of-order queue that touch the
\* same part of the device are ordered by a wait list, the two parts of a
\* transfer among them, which touch none in common.
THEOREM ConflictFree == Spec => []NoConflict
<1>1. ASSUME Inv, Rings, NEW c \in queue, NEW d \in queue, c # d,
             c.event = KernelEvent, d.event # KernelEvent
      PROVE  <<c.event, c.call>> \in d.waits \/ <<d.event, d.call>> \in c.waits
  <2>1. c.call = event[c.event] /\ d.call = event[d.event] /\ active[d.event]
    BY <1>1 DEF Inv, Latest
  <2>2. CASE d.event \in SizeEvents
    BY <1>1, <2>1, <2>2 DEF Inv, Chain
  <2>3. CASE d.event \in InputEvents
    BY <1>1, <2>1, <2>3 DEF Inv, Chain, InputsAwaited
  <2>4. CASE d.event \in BufferEvents \ InputEvents
    <3>1. ~IsInput(d.event[1]) /\ d.event[1] \in ports
      BY <2>4, EventFacts DEF InputEvents
    <3>2. Queued(KernelEvent)
      BY <1>1 DEF Queued
    <3>3. pc \in {"meta", "kernel"}
      BY <1>1, <3>2 DEF Inv, Chain, HostTyped, AfterTask
    <3>4. NoTransferActive(d.event[1])
      BY <1>1, <3>1, <3>3 DEF Inv, AheadReleased, TransferAhead
    <3> QED BY <2>1, <2>4, <3>4, EventFacts DEF NoTransferActive
  <2> QED BY <1>1, <2>2, <2>3, <2>4, EventFacts DEF Inv, Latest
<1>2. ASSUME Inv, Rings, NEW c \in queue, NEW d \in queue, c # d,
             c.event # KernelEvent, d.event # KernelEvent
      PROVE  Footprint(c) \intersect Footprint(d) = {}
  <2>1. Disjoint(c, d) /\ CommandTyped(c) /\ CommandTyped(d)
    BY <1>2 DEF Rings, Apart, QueueTyped
  <2>2. c.event \in PortEvents /\ d.event \in PortEvents
    BY <1>2 DEF Inv, Latest
  <2>3. Meta \notin Covered(c) /\ Meta \notin Covered(d)
    BY <2>1 DEF CommandTyped, Slots, Covered, Meta
  <2>4. /\ Footprint(c) = {<<c.event[1], s>> : s \in IF c.event \in BufferEvents THEN Covered(c) ELSE {Meta}}
        /\ Footprint(d) = {<<d.event[1], s>> : s \in IF d.event \in BufferEvents THEN Covered(d) ELSE {Meta}}
    BY <1>2 DEF Footprint
  <2>5. CASE c.event[1] # d.event[1]
    BY <2>4, <2>5
  <2>6. CASE c.event[1] = d.event[1]
    <3>1. c.event \in BufferEvents \/ d.event \in BufferEvents
      BY <2>1, <2>2, <2>6, EventFacts DEF Disjoint
    <3> QED BY <2>1, <2>3, <2>4, <2>6, <3>1 DEF Disjoint
  <2> QED BY <2>5, <2>6
<1>3. ASSUME Inv, Rings PROVE NoConflict
  <2> SUFFICES ASSUME NEW c \in queue, NEW d \in queue, c # d
               PROVE  \/ Footprint(c) \intersect Footprint(d) = {}
                      \/ <<c.event, c.call>> \in d.waits \/ <<d.event, d.call>> \in c.waits
    BY DEF NoConflict
  <2>1. c.event # d.event
    BY <1>3 DEF Rings, Apart, Disjoint
  <2> QED BY <1>1, <1>2, <1>3, <2>1
<1> QED BY <1>3, InvHolds, RingsHold, PTL

-----------------------------------------------------------------------------
(* The way of a token: written to the device, looped back by the kernel    *)
(* when it is there, read back from the index on that the kernel has left. *)

\* A transfer of slot s of port p is in the queue.
Moving(p, s) ==
  \E c \in queue : c.event \in BufferEvents /\ c.event[1] = p /\ s \in Covered(c)

\* This call has enqueued the writes of input n.
Sent(n) == (pc = "write" /\ n < k) \/ pc = "task" \/ pc \in AfterTask

InputsWritten ==
  /\ \A n \in 1 .. options.width : Sent(n) =>
       /\ head[In(n)] = Around(tail[In(n)], userAllocSize - 1)
       /\ args[In(n)].tail = tail[In(n)]
       /\ \A s \in Slots \ {head[In(n)]} :
            Moving(In(n), s) \/ deviceData[In(n)][s] = <<repeat, s>>
  /\ \A c \in queue : c.event \in InputEvents => c.call = repeat

\* This call has not yet read output n.
Unread(n) == pc \in {"meta", "kernel"} \/ (pc = "read" /\ n >= k)

OutputsStarted ==
  \A n \in 1 .. options.width :
    /\ pc \in AfterTask => args[Out(n)].head = tail[Out(n)]
    /\ Unread(n) => head[Out(n)] = tail[Out(n)]

KernelDone == pc \in AfterTask /\ ~Queued(KernelEvent)

Looped ==
  KernelDone => \A n \in 1 .. options.width :
    \E m \in 0 .. userAllocSize - 1 :
      /\ deviceMeta[Out(n)] = Around(tail[Out(n)], m)
      /\ \A i \in 0 .. m - 1 :
           deviceData[Out(n)][Around(tail[Out(n)], i)] = <<repeat, Around(tail[In(n)], i)>>

SizesRead ==
  \A p \in ports :
    /\ \/ pc = "meta" /\ Number(p) < k
       \/ pc \in AfterTask \ {"meta"}
       => active[SizeEvent(p)]
    /\ KernelDone /\ active[SizeEvent(p)] =>
         Queued(SizeEvent(p)) \/ hostMeta[p] = deviceMeta[p]

OutputsRead ==
  \A n \in 1 .. options.width : pc \in AfterTask /\ ~Unread(n) =>
    /\ head[Out(n)] = deviceMeta[Out(n)]
    /\ \A s \in Slots : Between(tail[Out(n)], head[Out(n)], s) =>
         Moving(Out(n), s) \/ hostData[Out(n)][s] = deviceData[Out(n)][s]

Echo ==
  /\ DOMAIN deviceData = ports /\ DOMAIN hostData = ports
  /\ InputsWritten /\ OutputsStarted /\ Looped /\ SizesRead /\ OutputsRead

-----------------------------------------------------------------------------
(* Places in the ring.                                                     *)

LEMMA ModuloOnce ==
  ASSUME NEW b \in Nat \ {0}, NEW a \in b .. 2 * b - 1
  PROVE  a % b = a - b
OBVIOUS

LEMMA AroundFacts ==
  ASSUME userAllocSize \in Nat \ {0}, NEW start \in Slots, NEW i \in Slots
  PROVE  /\ Around(start, i) = IF start + i < userAllocSize THEN start + i
                               ELSE start + i - userAllocSize
         /\ Around(start, i) \in Slots
<1>1. CASE start + i < userAllocSize
  <2>1. (start + i) % userAllocSize = start + i
    BY <1>1 DEF Slots
  <2> QED BY <1>1, <2>1 DEF Around, Slots
<1>2. CASE ~(start + i < userAllocSize)
  <2>1. start + i \in userAllocSize .. 2 * userAllocSize - 1
    BY <1>2 DEF Slots
  <2>2. (start + i) % userAllocSize = start + i - userAllocSize
    BY <2>1, ModuloOnce DEF Slots
  <2> QED BY <1>2, <2>2 DEF Around, Slots
<1> QED BY <1>1, <1>2

\* Distinct numbers stand for distinct places.
LEMMA AroundInjective ==
  ASSUME userAllocSize \in Nat \ {0}, NEW start \in Slots, NEW i \in Slots, NEW j \in Slots,
         Around(start, i) = Around(start, j)
  PROVE  i = j
<1>1. Around(start, i) = IF start + i < userAllocSize THEN start + i
                         ELSE start + i - userAllocSize
  BY AroundFacts
<1>2. Around(start, j) = IF start + j < userAllocSize THEN start + j
                         ELSE start + j - userAllocSize
  BY AroundFacts
<1>3. \A size \in Nat : \A a, x, y \in 0 .. size - 1 :
        (IF a + x < size THEN a + x ELSE a + x - size) =
          (IF a + y < size THEN a + y ELSE a + y - size) => x = y
  OBVIOUS
<1> QED BY <1>1, <1>2, <1>3 DEF Slots

\* The interval from a place to the one m further on.
LEMMA IntervalFacts ==
  ASSUME userAllocSize \in Nat \ {0}, NEW start \in Slots, NEW m \in Slots
  PROVE  /\ Tokens(userAllocSize, start, Around(start, m)) = m
         /\ \A i \in 0 .. m - 1 :
              i \in Slots /\ Between(start, Around(start, m), Around(start, i))
<1>1. Around(start, m) = IF start + m < userAllocSize THEN start + m
                         ELSE start + m - userAllocSize
  BY AroundFacts
<1>2. Tokens(userAllocSize, start, Around(start, m)) = m
  BY <1>1 DEF Tokens, Slots
<1>3. ASSUME NEW i \in 0 .. m - 1
      PROVE  i \in Slots /\ Between(start, Around(start, m), Around(start, i))
  <2>1. i \in Slots
    BY DEF Slots
  <2>2. Around(start, i) = IF start + i < userAllocSize THEN start + i
                           ELSE start + i - userAllocSize
    BY <2>1, AroundFacts
  <2> QED BY <1>1, <2>1, <2>2 DEF Between, Slots
<1> QED BY <1>2, <1>3

\* All but the last place of the ring are in the interval up to that.
LEMMA AllButOne ==
  ASSUME userAllocSize \in Nat \ {0}, NEW start \in Slots,
         NEW s \in Slots \ {Around(start, userAllocSize - 1)}
  PROVE  Between(start, Around(start, userAllocSize - 1), s)
<1>1. userAllocSize - 1 \in Slots
  BY DEF Slots
<1>2. Around(start, userAllocSize - 1) = IF start + (userAllocSize - 1) < userAllocSize
        THEN start + (userAllocSize - 1) ELSE start + (userAllocSize - 1) - userAllocSize
  BY <1>1, AroundFacts
<1> QED BY <1>2 DEF Between, Slots

-----------------------------------------------------------------------------
(* Transfers.                                                              *)

\* Ports and their events, in test().
LEMMA PlaceFacts ==
  ASSUME Inv, Rings, pc # "construct"
  PROVE  /\ userAllocSize \in Nat \ {0} /\ options.width \in Nat \ {0}
         /\ HostTyped /\ Latest /\ callIndex \in 0 .. options.repeats
         /\ \A n \in 1 .. options.width :
              /\ In(n) \in ports /\ Out(n) \in ports /\ In(n) # Out(n)
              /\ In(n) \in Inputs /\ In(n) \notin Outputs /\ Out(n) \in Outputs
              /\ IsInput(In(n)) /\ ~IsInput(Out(n)) /\ In(n)[2] = n /\ Out(n)[2] = n
              /\ Number(In(n)) = n /\ Number(Out(n)) = options.width + n
              /\ head[In(n)] \in Slots /\ tail[In(n)] \in Slots
              /\ head[Out(n)] \in Slots /\ tail[Out(n)] \in Slots
              /\ deviceMeta[Out(n)] \in Slots /\ hostMeta[Out(n)] \in Slots
<1>1. /\ userAllocSize \in Nat \ {0} /\ options.width \in Nat \ {0}
      /\ HostTyped /\ Latest /\ callIndex \in 0 .. options.repeats
  BY CallFacts
<1>2. ASSUME NEW n \in 1 .. options.width
      PROVE  /\ In(n) \in ports /\ Out(n) \in ports /\ In(n) # Out(n)
             /\ In(n) \in Inputs /\ In(n) \notin Outputs /\ Out(n) \in Outputs
             /\ IsInput(In(n)) /\ ~IsInput(Out(n)) /\ In(n)[2] = n /\ Out(n)[2] = n
             /\ Number(In(n)) = n /\ Number(Out(n)) = options.width + n
  <2>1. In(n) \in ports /\ Out(n) \in ports /\ IsInput(In(n)) /\ ~IsInput(Out(n))
    BY <1>1, PortFacts
  <2> QED BY <1>1, <2>1, PortFacts DEF Inputs, Outputs, In, Out
<1> QED BY <1>1, <1>2 DEF Rings, RingTyped, Index

LEMMA TransferMoves ==
  ASSUME HostTyped, userAllocSize \in Nat \ {0}, UNCHANGED portVars, NEW p \in ports,
         NEW from \in Slots, NEW to \in Slots, NEW n, Transfer(p, from, to, n)
  PROVE  /\ \A s \in Slots : Between(from, to, s) => Moving(p, s)'
         /\ \A q, s : Moving(q, s) => Moving(q, s)'
         /\ \A c \in queue' : c \in queue \/ (c.event[1] = p /\ c.call = n)
<1> DEFINE parts == Split(userAllocSize, from, to)
<1>1. PICK commands :
        /\ commands = {Command(BufferEvent(p, t[1]), n, t[2], t[3], {}) : t \in parts}
        /\ Enqueue(commands)
  BY DEF Transfer
<1>2. BufferEvents' = BufferEvents
  BY EventsKept DEF portVars
<1>3. queue' = queue \union commands
  BY <1>1 DEF Enqueue
<1>4. \A q, s : Moving(q, s) => Moving(q, s)'
  BY <1>2, <1>3 DEF Moving, Covered
<1>5. ASSUME NEW s \in Slots, Between(from, to, s) PROVE Moving(p, s)'
  <2>1. PICK t \in parts : s \in t[2] .. t[2] + t[3] - 1
    BY <1>5, TransfersExact DEF Slots
  <2>2. t[1] \in {"first", "second"}
    BY DEF Split
  <2>3. PICK c \in commands : c = Command(BufferEvent(p, t[1]), n, t[2], t[3], {})
    BY <1>1
  <2>4. c.event = BufferEvent(p, t[1]) /\ c.offset = t[2] /\ c.tokens = t[3]
    BY <2>3 DEF Command
  <2>5. c.event \in BufferEvents /\ c.event[1] = p
    BY <2>2, <2>4, EventFacts
  <2> QED BY <1>2, <1>3, <2>1, <2>4, <2>5 DEF Moving, Covered
<1>6. \A c \in commands : c.event[1] = p /\ c.call = n
  <2> SUFFICES ASSUME NEW c \in commands PROVE c.event[1] = p /\ c.call = n
    OBVIOUS
  <2>1. PICK t \in parts : c = Command(BufferEvent(p, t[1]), n, t[2], t[3], {})
    BY <1>1
  <2>2. c.event = BufferEvent(p, t[1]) /\ c.call = n
    BY <2>1 DEF Command
  <2> QED BY <2>2, EventFacts
<1> QED BY <1>3, <1>4, <1>5, <1>6
-----------------------------------------------------------------------------
(* The steps of test().                                                    *)

\* Outside of test() the queue is empty and nothing is promised.
LEMMA IdleEcho ==
  ASSUME pc' \in {"construct", "end", "exit"} \/ (pc' = "write" /\ k' = 1), queue' = {},
         DOMAIN deviceData' = ports', DOMAIN hostData' = ports'
  PROVE  Echo'
<1>1. \A n \in 1 .. options'.width : ~Sent(n)' /\ ~Unread(n)'
  BY DEF Sent, Unread, AfterTask
<1> QED BY <1>1 DEF Echo, InputsWritten, OutputsStarted, Looped, SizesRead, OutputsRead,
      KernelDone, AfterTask

LEMMA WriteInputEcho ==
  ASSUME Inv, Rings, Echo, WriteInput
  PROVE  Echo'
<1>1. /\ pc = "write" /\ k \in 1 .. options.width
      /\ UNCHANGED <<portVars, options, repeat, deviceData, hostData>>
      /\ callIndex = repeat
  BY DEF WriteInput, Inv, HostTyped, mainVars, hostVars, deviceVars, Rings, Counted
<1>2. /\ userAllocSize \in Nat \ {0} /\ HostTyped /\ options.width \in Nat \ {0}
  BY <1>1, PlaceFacts
<1>3. PICK p \in ports : p = In(k) /\ p \in Inputs
  BY <1>1, PlaceFacts
<1>4. NoTransferActive(p)
  <2>1. Number(p) = k
    BY <1>1, <1>3, PlaceFacts
  <2> QED BY <1>1, <2>1 DEF Inv, AheadReleased, TransferAhead
<1>5. PICK start \in Starts :
        /\ tail' = [tail EXCEPT ![p] = start]
        /\ head' = [head EXCEPT ![p] = (start + userAllocSize - 1) % userAllocSize]
  BY <1>3 DEF WriteInput
<1>6. /\ Transfer(p, tail'[p], head'[p], callIndex)
      /\ args' = [args EXCEPT ![p] = [head |-> head'[p], tail |-> tail'[p]]]
      /\ NextPort(options.width, "task")
  BY <1>3, <1>4 DEF WriteInput
<1>7. start \in Slots
  BY <1>2, SlotFacts DEF Starts
<1>8. /\ tail'[p] = start /\ head'[p] = Around(start, userAllocSize - 1)
      /\ args'[p].tail = start
      /\ \A q \in ports : q # p => /\ tail'[q] = tail[q] /\ head'[q] = head[q]
                                   /\ args'[q] = args[q]
  <2>1. start + userAllocSize - 1 = start + (userAllocSize - 1)
    BY <1>2, <1>7 DEF Slots
  <2> QED BY <1>5, <1>6, <2>1 DEF Rings, RingTyped, Index, Around
<1>9. head'[p] \in Slots
  BY <1>2, <1>7, <1>8, AroundFacts DEF Slots
<1>10. /\ \A s \in Slots : Between(start, head'[p], s) => Moving(p, s)'
       /\ \A q, s : Moving(q, s) => Moving(q, s)'
       /\ \A c \in queue' : c \in queue \/ (c.event[1] = p /\ c.call = callIndex)
  <2>1. Transfer(p, start, head'[p], callIndex)
    BY <1>6, <1>8
  <2>2. UNCHANGED portVars
    BY <1>1
  <2> QED BY <1>2, <1>7, <1>9, <2>1, <2>2, TransferMoves
<1>11. UNCHANGED <<ports, userAllocSize, Slots, InputEvents>>
  BY <1>1, EventsKept DEF portVars, Slots
<1>12. pc' \in {"write", "task"} /\ \A n \in 1 .. options.width : Sent(n)' => Sent(n) \/ n = k
  BY <1>1, <1>2, <1>6 DEF NextPort, Sent, AfterTask
<1>13. ASSUME NEW n \in 1 .. options.width, Sent(n)'
       PROVE  /\ head'[In(n)] = Around(tail'[In(n)], userAllocSize - 1)
              /\ args'[In(n)].tail = tail'[In(n)]
              /\ \A s \in Slots \ {head'[In(n)]} :
                   Moving(In(n), s)' \/ deviceData[In(n)][s] = <<repeat, s>>
  <2>1. CASE n = k
    <3>1. \A s \in Slots \ {head'[p]} : Moving(p, s)'
      BY <1>2, <1>7, <1>8, <1>10, AllButOne
    <3> QED BY <1>3, <1>8, <2>1, <3>1
  <2>2. CASE n # k
    <3>1. In(n) # p /\ In(n) \in ports
      BY <1>1, <1>3, <2>2, PlaceFacts
    <3>2. /\ head[In(n)] = Around(tail[In(n)], userAllocSize - 1)
          /\ args[In(n)].tail = tail[In(n)]
          /\ \A s \in Slots \ {head[In(n)]} :
               Moving(In(n), s) \/ deviceData[In(n)][s] = <<repeat, s>>
      BY <1>12, <1>13, <2>2 DEF Echo, InputsWritten
    <3> QED BY <1>8, <1>10, <3>1, <3>2
  <2> QED BY <2>1, <2>2
<1>14. \A c \in queue' : c.event \in InputEvents => c.call = repeat
  BY <1>1, <1>10 DEF Echo, InputsWritten
<1>15. InputsWritten'
  BY <1>1, <1>11, <1>13, <1>14 DEF InputsWritten, Around
<1> QED BY <1>1, <1>11, <1>12, <1>15 DEF Echo, OutputsStarted, Looped, SizesRead, OutputsRead,
      KernelDone, Unread, AfterTask

LEMMA EnqueueTaskEcho ==
  ASSUME Inv, Rings, Echo, EnqueueTask
  PROVE  Echo'
<1>1. /\ pc = "task" /\ pc' = "meta" /\ k' = 1
      /\ UNCHANGED <<portVars, options, repeat, deviceData, hostData>>
  BY DEF EnqueueTask, mainVars, hostVars, deviceVars
<1>2. options.width \in Nat \ {0}
  BY <1>1, PlaceFacts
<1>3. PICK start \in [Outputs -> Starts] :
        /\ tail' = [p \in ports |-> IF p \in Outputs THEN start[p] ELSE tail[p]]
        /\ head' = [p \in ports |-> IF p \in Outputs THEN start[p] ELSE head[p]]
        /\ args' = [p \in ports |->
             IF p \in Outputs
             THEN [p_1 \in Outputs |-> [head |-> start[p_1], tail |-> start[p_1]]][p]
             ELSE args[p]]
  BY DEF EnqueueTask
<1>4. PICK commands : /\ commands = {Command(KernelEvent, callIndex, 0, 0, kernelWaitEvents)}
                      /\ Enqueue(commands)
  BY DEF EnqueueTask
<1>5. queue' = queue \union commands /\ \A c \in commands : c.event = KernelEvent
  BY <1>4 DEF Enqueue, Command
<1>6. Queued(KernelEvent)'
  BY <1>4, <1>5 DEF Queued
<1>7. UNCHANGED <<ports, userAllocSize, Slots, InputEvents, BufferEvents>>
  BY <1>1, EventsKept DEF portVars, Slots
<1>8. \A q, s : Moving(q, s) => Moving(q, s)'
  BY <1>5, <1>7 DEF Moving, Covered
<1>9. ASSUME NEW n \in 1 .. options.width
      PROVE  /\ tail'[In(n)] = tail[In(n)] /\ head'[In(n)] = head[In(n)]
             /\ args'[In(n)] = args[In(n)]
             /\ head'[Out(n)] = tail'[Out(n)] /\ args'[Out(n)].head = tail'[Out(n)]
  <2>1. In(n) \in ports /\ In(n) \notin Outputs /\ Out(n) \in ports /\ Out(n) \in Outputs
    BY <1>1, PlaceFacts
  <2> QED BY <1>3, <2>1
<1>10. \A n : Sent(n)
  BY <1>1 DEF Sent
<1>11. InputsWritten'
  <2>1. \A c \in queue' : c.event \in InputEvents => c.call = repeat
    BY <1>5, EventFacts DEF Echo, InputsWritten
  <2> QED BY <1>1, <1>7, <1>8, <1>9, <1>10, <2>1 DEF Echo, InputsWritten, Around
<1>12. OutputsStarted'
  BY <1>1, <1>9 DEF OutputsStarted
<1>13. SizesRead'
  <2>1. \A p \in ports : Number(p) \in Nat /\ ~(Number(p) < 1)
    BY <1>1, <1>2, PlaceFacts, PortFacts DEF Number
  <2>2. \A p \in ports : Number(p)' = Number(p)
    BY <1>1 DEF Number
  <2> QED BY <1>1, <1>6, <1>7, <2>1, <2>2 DEF SizesRead, KernelDone, AfterTask
<1> QED BY <1>1, <1>6, <1>7, <1>11, <1>12, <1>13 DEF Echo, Looped, OutputsRead, KernelDone,
      Unread

LEMMA ReadMetaEcho ==
  ASSUME Inv, Rings, Echo, ReadMeta
  PROVE  Echo'
<1>1. /\ pc = "meta" /\ k \in 1 .. 2 * options.width
      /\ UNCHANGED <<portVars, options, repeat, deviceData, deviceMeta, hostData, hostMeta,
                     head, tail, args>>
  BY DEF ReadMeta, Inv, HostTyped, mainVars, hostVars, deviceVars
<1>2. HostTyped /\ Latest /\ options.width \in Nat \ {0}
  BY <1>1, PlaceFacts
<1>3. PICK p \in ports : /\ p = IF k <= options.width THEN In(k) ELSE Out(k - options.width)
                         /\ Number(p) = k
  <2>1. k <= options.width \/ k - options.width \in 1 .. options.width
    BY <1>1, <1>2
  <2>2. CASE k <= options.width
    BY <1>1, <2>2, PlaceFacts
  <2>3. CASE ~(k <= options.width)
    <3>1. PICK n \in 1 .. options.width : n = k - options.width
      BY <2>1, <2>3
    <3>2. Out(n) \in ports /\ Number(Out(n)) = options.width + n
      BY <1>1, PlaceFacts
    <3> QED BY <1>1, <1>2, <2>3, <3>1, <3>2
  <2> QED BY <2>2, <2>3
<1>4. \A q \in ports : Number(q) \in Nat /\ (Number(q) = k => q = p)
  <2>1. \A q \in ports : q[2] \in 1 .. options.width
    BY <1>1, <1>2, PortFacts
  <2>2. \A q \in ports : Number(q) = Number(p) => q = p
    BY <1>1, <1>2, <2>1, PortFacts DEF Number
  <2>3. ASSUME NEW q \in ports PROVE Number(q) \in Nat
    <3>1. PICK n \in 1 .. options.width : n = q[2]
      BY <2>1
    <3> QED BY <1>2, <3>1 DEF Number
  <2> QED BY <1>3, <2>2, <2>3
<1>5. ~active[SizeEvent(p)]
  BY <1>1, <1>3 DEF Inv, AheadReleased, ReadMetaAhead
<1>6. PICK commands, n, waits :
        commands = {Command(SizeEvent(p), n, 0, 0, waits)} /\ Enqueue(commands)
  BY <1>3, <1>5 DEF ReadMeta, EnqueueReadMeta, MetaWaits
<1>7. /\ queue' = queue \union commands
      /\ \A c \in commands : c.event = SizeEvent(p)
      /\ {c.event : c \in commands} = {SizeEvent(p)}
      /\ active' = [e \in PortEvents |-> active[e] \/ e \in {c.event : c \in commands}]
  BY <1>6 DEF Enqueue, Command
<1>8. NextPort(2 * options.width, "kernel")
  BY <1>3, <1>5 DEF ReadMeta
<1>9. UNCHANGED <<ports, userAllocSize, Slots, InputEvents, BufferEvents>>
  BY <1>1, EventsKept DEF portVars, Slots
<1>10. \A q, s : Moving(q, s)' <=> Moving(q, s)
  BY <1>7, <1>9, EventFacts DEF Moving, Covered
<1>11. \A e : Queued(e)' <=> Queued(e) \/ e = SizeEvent(p)
  BY <1>6, <1>7 DEF Queued
<1>12. pc' \in {"meta", "kernel"} /\ (KernelDone' <=> KernelDone)
  BY <1>1, <1>2, <1>8, <1>11, EventFacts DEF NextPort, KernelDone, AfterTask
<1>13. InputsWritten'
  <2>1. \A c \in queue' : c.event \in InputEvents => c.call = repeat
    BY <1>7, EventFacts DEF Echo, InputsWritten
  <2>2. \A m : Sent(m)
    BY <1>1 DEF Sent, AfterTask
  <2> QED BY <1>1, <1>9, <1>10, <2>1, <2>2 DEF Echo, InputsWritten, Around
<1>14. OutputsStarted'
  BY <1>1, <1>12 DEF Echo, OutputsStarted, Unread, AfterTask
<1>15. Looped'
  BY <1>1, <1>9, <1>12 DEF Echo, Looped, Around
<1>16. ASSUME NEW q \in ports
       PROVE  /\ pc' = "kernel" \/ (pc' = "meta" /\ Number(q) < k') => active'[SizeEvent(q)]
              /\ KernelDone' /\ active'[SizeEvent(q)] =>
                   Queued(SizeEvent(q))' \/ hostMeta[q] = deviceMeta[q]
  <2>1. active'[SizeEvent(q)] <=> active[SizeEvent(q)] \/ q = p
    <3>1. SizeEvent(q) \in PortEvents /\ (SizeEvent(q) = SizeEvent(p) <=> q = p)
      BY EventFacts
    <3> QED BY <1>7, <3>1
  <2>2. pc' = "kernel" \/ (pc' = "meta" /\ Number(q) < k') => Number(q) < k \/ q = p
    <3>1. Number(q) \in 1 .. 2 * options.width
      <4>1. q[2] \in 1 .. options.width
        BY <1>1, <1>2, PortFacts
      <4> QED BY <1>2, <4>1 DEF Number
    <3>2. \/ k < 2 * options.width /\ k' = k + 1
          \/ k = 2 * options.width
      BY <1>1, <1>2, <1>8 DEF NextPort
    <3>3. k < 2 * options.width => pc' = "meta"
      BY <1>1, <1>8 DEF NextPort
    <3> QED BY <1>1, <1>2, <1>4, <1>8, <3>1, <3>2, <3>3
  <2>3. KernelDone /\ active[SizeEvent(q)] =>
          Queued(SizeEvent(q)) \/ hostMeta[q] = deviceMeta[q]
    BY DEF Echo, SizesRead
  <2>4. Number(q) < k => active[SizeEvent(q)]
    BY <1>1 DEF Echo, SizesRead
  <2> QED BY <1>11, <1>12, <2>1, <2>2, <2>3, <2>4
<1>17. SizesRead'
  <2>1. \A q \in ports : Number(q)' = Number(q)
    BY <1>1 DEF Number
  <2> QED BY <1>1, <1>9, <1>12, <1>16, <2>1 DEF SizesRead, AfterTask
<1>18. OutputsRead'
  BY <1>12 DEF OutputsRead, Unread
<1> QED BY <1>1, <1>9, <1>13, <1>14, <1>15, <1>17, <1>18 DEF Echo
\* A step that changes nothing but where the host is, within a call.
LEMMA WaitEcho ==
  ASSUME Inv, Rings, Echo,
         \/ WaitUntil("kernel", KernelFinished, "read")
         \/ WaitUntil("output", ReadFinished, "release")
         \/ UNCHANGED vars
  PROVE  Echo'
<1>1. /\ UNCHANGED <<portVars, options, repeat, deviceData, deviceMeta, hostData, hostMeta,
                     head, tail, args, queue, active, k>>
      /\ \/ pc' = pc
         \/ pc = "kernel" /\ pc' = "read"
         \/ pc = "output" /\ pc' = "release"
  BY DEF WaitUntil, vars, mainVars, testVars, hostVars, deviceVars, infoVars
<1>2. UNCHANGED <<ports, userAllocSize, Slots, InputEvents, BufferEvents>>
  BY <1>1, EventsKept DEF portVars, Slots
<1>3. /\ \A q, s : Moving(q, s)' <=> Moving(q, s)
      /\ \A e : Queued(e)' <=> Queued(e)
      /\ \A n : Sent(n)' <=> Sent(n)
  BY <1>1, <1>2 DEF Moving, Covered, Queued, Sent, AfterTask
<1>4. /\ KernelDone' <=> KernelDone
      /\ pc' \in AfterTask <=> pc \in AfterTask
      /\ pc \in AfterTask \ {"meta"} <=> pc' \in AfterTask \ {"meta"}
  BY <1>1, <1>3 DEF KernelDone, AfterTask
<1>5. ASSUME NEW n \in 1 .. options.width PROVE Unread(n)' <=> Unread(n)
  <2>1. CASE pc' = pc
    BY <1>1, <2>1 DEF Unread
  <2>2. CASE pc = "kernel" /\ pc' = "read"
    BY <1>1, <2>2 DEF Unread, Inv, HostTyped
  <2>3. CASE pc = "output" /\ pc' = "release"
    BY <2>3 DEF Unread
  <2> QED BY <1>1, <2>1, <2>2, <2>3
<1>6. InputsWritten' /\ OutputsStarted' /\ Looped' /\ OutputsRead'
  <2>1. InputsWritten'
    BY <1>1, <1>2, <1>3, <1>4 DEF Echo, InputsWritten, Around
  <2>2. OutputsStarted'
    BY <1>1, <1>2, <1>3, <1>4, <1>5 DEF Echo, OutputsStarted
  <2>3. Looped'
    BY <1>1, <1>2, <1>3, <1>4 DEF Echo, Looped, Around
  <2>4. OutputsRead'
    BY <1>1, <1>2, <1>3, <1>4, <1>5 DEF Echo, OutputsRead
  <2> QED BY <2>1, <2>2, <2>3, <2>4
<1>7. SizesRead'
  <2>1. (pc' = "meta" => pc = "meta") /\ \A p \in ports : Number(p)' = Number(p)
    BY <1>1 DEF Number
  <2> QED BY <1>1, <1>2, <1>3, <1>4, <2>1 DEF Echo, SizesRead
<1> QED BY <1>1, <1>2, <1>6, <1>7 DEF Echo

LEMMA ReadOutputEcho ==
  ASSUME Inv, Rings, Echo, ReadOutput
  PROVE  Echo'
<1>1. /\ pc = "read" /\ k \in 1 .. options.width
      /\ UNCHANGED <<portVars, options, repeat, deviceData, deviceMeta, hostData, hostMeta,
                     tail, args>>
  BY DEF ReadOutput, Inv, HostTyped, mainVars, hostVars, deviceVars
<1>2. /\ userAllocSize \in Nat \ {0} /\ HostTyped /\ Latest /\ options.width \in Nat \ {0}
  BY <1>1, PlaceFacts
<1>3. PICK p \in ports : p = Out(k) /\ ~IsInput(p) /\ p[2] = k
  BY <1>1, PlaceFacts
<1>4. NoTransferActive(p)
  BY <1>1, <1>3 DEF Inv, AheadReleased, TransferAhead
<1>5. /\ Transfer(p, head[p], hostMeta[p], callIndex)
      /\ head' = [head EXCEPT ![p] = hostMeta[p]]
      /\ NextPort(options.width, "output")
  BY <1>3, <1>4 DEF ReadOutput
<1>6. KernelDone /\ \A q \in ports : hostMeta[q] = deviceMeta[q]
  <2>1. KernelDone /\ \A e \in SizeEvents : ~Queued(e)
    BY <1>1 DEF Inv, Chain, KernelDone, AfterTask
  <2>2. \A q \in ports : active[SizeEvent(q)] /\ ~Queued(SizeEvent(q))
    BY <1>1, <2>1, EventFacts DEF Echo, SizesRead, AfterTask
  <2> QED BY <2>1, <2>2 DEF Echo, SizesRead
<1>7. head[p] = tail[p] /\ head[p] \in Slots /\ hostMeta[p] \in Slots
  BY <1>1, <1>3, PlaceFacts DEF Echo, OutputsStarted, Unread, AfterTask
<1>8. UNCHANGED <<ports, userAllocSize, Slots, InputEvents, SizeEvents, PortEvents>>
  BY <1>1, EventsKept DEF portVars, Slots
<1>9. /\ \A s \in Slots : Between(tail[p], hostMeta[p], s) => Moving(p, s)'
      /\ \A q, s : Moving(q, s) => Moving(q, s)'
      /\ \A c \in queue' : c \in queue \/ c.event[1] = p
  <2>1. Transfer(p, tail[p], hostMeta[p], callIndex) /\ UNCHANGED portVars /\ tail[p] \in Slots
    BY <1>1, <1>5, <1>7
  <2> QED BY <1>2, <1>7, <2>1, TransferMoves
<1>10. Started(p, callIndex)
  BY <1>2, <1>4, <1>5, <1>8, TransferStarts
<1>11. /\ \A e \in SizeEvents \union {KernelEvent} : Queued(e)' <=> Queued(e)
       /\ \A e \in SizeEvents : active'[e] <=> active[e]
  BY <1>10, EventFacts DEF Started
<1>12. pc' \in {"read", "output"} /\ (pc' = "read" => k' = k + 1)
  BY <1>1, <1>5 DEF NextPort
<1>13. pc' \in AfterTask \ {"meta"} /\ KernelDone'
  BY <1>6, <1>11, <1>12 DEF KernelDone, AfterTask
<1>14. ASSUME NEW n \in 1 .. options.width
       PROVE  /\ Unread(n)' => Unread(n) /\ n # k
              /\ ~Unread(n)' => ~Unread(n) \/ n = k
              /\ n # k => head'[Out(n)] = head[Out(n)]
              /\ head'[In(n)] = head[In(n)]
  <2>1. In(n) # p /\ (n # k => Out(n) # p)
    BY <1>1, <1>3, PlaceFacts
  <2>2. Out(n) \in ports /\ In(n) \in ports
    BY <1>1, PlaceFacts
  <2>3. head \in [ports -> Slots]
    BY DEF Rings, RingTyped, Index
  <2>4. /\ Unread(n)' => Unread(n) /\ n # k
        /\ ~Unread(n)' => ~Unread(n) \/ n = k
    <3>1. CASE pc' = "read"
      BY <1>1, <1>2, <1>5, <3>1 DEF Unread, NextPort
    <3>2. CASE pc' = "output"
      <4>1. k = options.width
        BY <1>1, <1>2, <1>5, <3>2 DEF NextPort
      <4> QED BY <1>1, <1>2, <3>2, <4>1 DEF Unread
    <3> QED BY <1>12, <3>1, <3>2
  <2> QED BY <1>5, <2>1, <2>2, <2>3, <2>4
<1>15. InputsWritten'
  <2>1. \A c \in queue' : c.event \in InputEvents => c.call = repeat
    BY <1>3, <1>9 DEF Echo, InputsWritten, InputEvents
  <2>2. \A n : Sent(n)
    BY <1>1 DEF Sent, AfterTask
  <2> QED BY <1>1, <1>8, <1>9, <1>14, <2>1, <2>2 DEF Echo, InputsWritten, Around
<1>16. OutputsStarted'
  BY <1>1, <1>14 DEF Echo, OutputsStarted, AfterTask
<1>17. Looped'
  BY <1>1, <1>6, <1>8 DEF Echo, Looped, Around
<1>18. SizesRead'
  BY <1>1, <1>6, <1>8, <1>11, <1>13, EventFacts DEF Echo, SizesRead, AfterTask
<1>19. OutputsRead'
  <2> SUFFICES ASSUME NEW n \in 1 .. options.width, ~Unread(n)'
               PROVE  /\ head'[Out(n)] = deviceMeta[Out(n)]
                      /\ \A s \in Slots : Between(tail[Out(n)], head'[Out(n)], s) =>
                           Moving(Out(n), s)' \/ hostData[Out(n)][s] = deviceData[Out(n)][s]
    BY <1>1, <1>8 DEF OutputsRead
  <2>1. CASE n = k
    <3>1. head'[p] = hostMeta[p]
      BY <1>5 DEF Rings, RingTyped, Index
    <3> QED BY <1>3, <1>6, <1>9, <2>1, <3>1
  <2>2. CASE n # k
    <3>1. ~Unread(n) /\ head'[Out(n)] = head[Out(n)]
      BY <1>14, <2>2
    <3> QED BY <1>1, <1>9, <3>1 DEF Echo, OutputsRead, AfterTask
  <2> QED BY <2>1, <2>2
<1> QED BY <1>1, <1>8, <1>15, <1>16, <1>17, <1>18, <1>19 DEF Echo
\* A ready kernel has nothing to wait for: the inputs are on the device.
LEMMA KernelReady ==
  ASSUME Inv, NEW c \in queue, c.event = KernelEvent, Ready(c)
  PROVE  pc \in {"meta", "kernel"} /\ \A e \in InputEvents : ~Queued(e)
<1>1. Queued(KernelEvent)
  BY DEF Queued
<1>2. pc \in {"meta", "kernel"}
  BY <1>1 DEF Inv, Chain, HostTyped, AfterTask
<1>3. ASSUME NEW e \in InputEvents, Queued(e) PROVE FALSE
  <2>1. active[e] /\ Pending(e, event[e])
    BY <1>3, EventFacts DEF Inv, Latest, Queued, Pending
  <2>2. <<e, event[e]>> \in c.waits
    BY <1>3, <2>1 DEF Inv, Chain, InputsAwaited
  <2> QED BY <2>1, <2>2 DEF Ready
<1> QED BY <1>2, <1>3

LEMMA TransferCompletes ==
  ASSUME Inv, Rings, Echo, NEW c \in queue, Complete(c), CompleteTransfer(c)
  PROVE  Echo'
<1>1. /\ queue' = queue \ {c} /\ c.event \in BufferEvents
      /\ UNCHANGED <<portVars, options, repeat, deviceMeta, hostMeta, head, tail, args, active, pc, k>>
  BY DEF Complete, CompleteTransfer, mainVars, testVars, infoVars
<1>2. pc # "construct"
  BY DEF Inv, Chain
<1>3. UNCHANGED <<ports, userAllocSize, Slots, InputEvents, BufferEvents>>
  BY <1>1, EventsKept DEF portVars, Slots
<1>4. PICK p \in ports : p = c.event[1]
  BY <1>1, EventFacts
<1>5. \A q, s : Moving(q, s) => Moving(q, s)' \/ (q = p /\ s \in Covered(c))
  BY <1>1, <1>3, <1>4 DEF Moving, Covered
<1>6. \A e : e \notin BufferEvents => (Queued(e)' <=> Queued(e))
  BY <1>1 DEF Queued
<1>7. KernelDone' <=> KernelDone
  BY <1>1, <1>6, EventFacts DEF KernelDone
<1>8. \A n : (Sent(n)' <=> Sent(n)) /\ (Unread(n)' <=> Unread(n))
  BY <1>1 DEF Sent, Unread
<1>9. \A d \in queue' : d.event \in InputEvents => d.call = repeat
  BY <1>1 DEF Echo, InputsWritten
<1>10. OutputsStarted' /\ SizesRead'
  <2>1. \A q \in ports : Number(q)' = Number(q)
    BY <1>1 DEF Number
  <2> QED BY <1>1, <1>3, <1>6, <1>7, <1>8, <2>1, EventFacts
        DEF Echo, OutputsStarted, SizesRead
<1>11. CASE IsInput(p)
  <2>1. /\ deviceData' = [deviceData EXCEPT ![p] =
             [s \in Slots |-> IF s \in Covered(c) THEN <<c.call, s>> ELSE @[s]]]
        /\ UNCHANGED hostData
    BY <1>4, <1>11 DEF CompleteTransfer
  <2>2. c.event \in InputEvents /\ c.call = repeat
    BY <1>1, <1>4, <1>11 DEF InputEvents, Echo, InputsWritten
  <2>3. \A q \in ports : q # p => deviceData'[q] = deviceData[q]
    BY <2>1 DEF Echo
  <2>4. \A s \in Slots : deviceData'[p][s] = IF s \in Covered(c) THEN <<repeat, s>>
                                            ELSE deviceData[p][s]
    BY <2>1, <2>2 DEF Echo
  <2>5. ASSUME NEW n \in 1 .. options.width, NEW s \in Slots,
               Moving(In(n), s) \/ deviceData[In(n)][s] = <<repeat, s>>
        PROVE  Moving(In(n), s)' \/ deviceData'[In(n)][s] = <<repeat, s>>
    BY <1>2, <1>5, <2>3, <2>4, <2>5, PlaceFacts
  <2>6. InputsWritten'
    BY <1>1, <1>3, <1>8, <1>9, <2>5 DEF Echo, InputsWritten, Around
  <2>7. \A n \in 1 .. options.width : deviceData'[Out(n)] = deviceData[Out(n)] /\ Out(n) # p
    BY <1>2, <1>11, <2>3, PlaceFacts
  <2>8. Looped' /\ OutputsRead'
    BY SMTT(30), <1>1, <1>3, <1>5, <1>7, <1>8, <2>1, <2>7 DEF Echo, Looped, OutputsRead, Around
  <2> QED BY <1>3, <1>10, <2>1, <2>6, <2>8 DEF Echo
<1>12. CASE ~IsInput(p)
  <2>1. /\ hostData' = [hostData EXCEPT ![p] =
             [s \in Slots |-> IF s \in Covered(c) THEN deviceData[p][s] ELSE @[s]]]
        /\ UNCHANGED deviceData
    BY <1>4, <1>12 DEF CompleteTransfer
  <2>2. \A q \in ports : q # p => hostData'[q] = hostData[q]
    BY <2>1 DEF Echo
  <2>3. \A s \in Slots : hostData'[p][s] = IF s \in Covered(c) THEN deviceData[p][s]
                                          ELSE hostData[p][s]
    BY <2>1 DEF Echo
  <2>4. \A n \in 1 .. options.width : In(n) # p /\ Out(n) \in ports
    BY <1>2, <1>12, PlaceFacts
  <2>5. InputsWritten' /\ Looped'
    <3>1. \A n \in 1 .. options.width : \A s : Moving(In(n), s) => Moving(In(n), s)'
      BY <1>5, <2>4
    <3>2. InputsWritten'
      BY <1>1, <1>3, <1>8, <1>9, <2>1, <3>1 DEF Echo, InputsWritten, Around
    <3>3. Looped'
      BY <1>1, <1>3, <1>7, <2>1 DEF Echo, Looped, Around
    <3> QED BY <3>2, <3>3
  <2>6. ASSUME NEW n \in 1 .. options.width, NEW s \in Slots,
               Moving(Out(n), s) \/ hostData[Out(n)][s] = deviceData[Out(n)][s]
        PROVE  Moving(Out(n), s)' \/ hostData'[Out(n)][s] = deviceData[Out(n)][s]
    BY <1>5, <2>2, <2>3, <2>4, <2>6
  <2>7. OutputsRead'
    BY <1>1, <1>3, <1>8, <2>1, <2>6 DEF Echo, OutputsRead
  <2> QED BY <1>3, <1>10, <2>1, <2>5, <2>7 DEF Echo
<1> QED BY <1>11, <1>12

LEMMA ReadMetaCompletes ==
  ASSUME Inv, Rings, Echo, NEW c \in queue, Complete(c), CompleteReadMeta(c)
  PROVE  Echo'
<1>1. /\ queue' = queue \ {c} /\ c.event \in SizeEvents
      /\ UNCHANGED <<portVars, options, repeat, deviceData, deviceMeta, hostData, head, tail,
                     args, active, pc, k>>
  BY EventFacts DEF Complete, CompleteReadMeta, mainVars, testVars, infoVars, deviceVars
<1>2. UNCHANGED <<ports, userAllocSize, Slots, InputEvents, BufferEvents>>
  BY <1>1, EventsKept DEF portVars, Slots
<1>3. PICK p \in ports : c.event = SizeEvent(p) /\ p = c.event[1]
  BY <1>1, EventFacts
<1>4. /\ hostMeta'[p] = deviceMeta[p]
      /\ \A q \in ports : q # p => hostMeta'[q] = hostMeta[q]
  BY <1>3 DEF CompleteReadMeta, Rings, RingTyped, Index
<1>5. /\ \A q, s : Moving(q, s)' <=> Moving(q, s)
      /\ \A e : e # SizeEvent(p) => (Queued(e)' <=> Queued(e))
  BY <1>1, <1>2, <1>3, EventFacts DEF Moving, Queued, Covered
<1>6. KernelDone' <=> KernelDone
  BY <1>1, <1>3, <1>5, EventFacts DEF KernelDone
<1>7. \A n : (Sent(n)' <=> Sent(n)) /\ (Unread(n)' <=> Unread(n))
  BY <1>1 DEF Sent, Unread
<1>8. InputsWritten' /\ OutputsStarted' /\ Looped' /\ OutputsRead'
  BY <1>1, <1>2, <1>5, <1>6, <1>7
     DEF Echo, InputsWritten, OutputsStarted, Looped, OutputsRead, Around
<1>9. SizesRead'
  <2>1. \A q \in ports : Number(q)' = Number(q)
    BY <1>1 DEF Number
  <2>2. \A q \in ports : q = p \/ SizeEvent(q) # SizeEvent(p)
    BY EventFacts
  <2> QED BY <1>1, <1>2, <1>4, <1>5, <1>6, <2>1, <2>2 DEF Echo, SizesRead
<1> QED BY <1>1, <1>2, <1>8, <1>9 DEF Echo

LEMMA KernelCompletes ==
  ASSUME Inv, Rings, Echo, NEW c \in queue, Complete(c), RunKernel(c)
  PROVE  Echo'
<1>1. /\ queue' = queue \ {c} /\ c.event = KernelEvent /\ Ready(c)
      /\ UNCHANGED <<portVars, options, repeat, hostData, hostMeta, head, tail,
                     args, active, pc, k>>
  BY DEF Complete, RunKernel, mainVars, testVars, infoVars, hostVars
<1>2. PICK moved \in [1 .. options.width -> 0 .. userAllocSize - 1] : Loopback(moved)
  BY DEF RunKernel
<1>3. pc \in {"meta", "kernel"} /\ \A e \in InputEvents : ~Queued(e)
  BY <1>1, KernelReady
<1>4. /\ userAllocSize \in Nat \ {0} /\ options.width \in Nat \ {0}
      /\ UNCHANGED <<ports, userAllocSize, Slots, InputEvents, BufferEvents>>
  BY <1>1, <1>3, PlaceFacts, EventsKept DEF portVars, Slots
<1>5. /\ \A q, s : Moving(q, s)' <=> Moving(q, s)
      /\ \A e : e # KernelEvent => (Queued(e)' <=> Queued(e))
  BY <1>1, <1>4, EventFacts DEF Moving, Queued, Covered
<1>6. \A n : (Sent(n)' <=> Sent(n)) /\ (Unread(n)' <=> Unread(n)) /\ Sent(n) /\ Unread(n)
  BY <1>1, <1>3 DEF Sent, Unread, AfterTask
<1>7. DOMAIN deviceData' = ports /\ \A q \in ports : IsInput(q) => deviceData'[q] = deviceData[q]
  BY <1>2 DEF Loopback
<1>8. InputsWritten'
  <2>1. \A n \in 1 .. options.width : deviceData'[In(n)] = deviceData[In(n)]
    BY <1>3, <1>7, PlaceFacts
  <2> QED BY <1>1, <1>4, <1>5, <1>6, <2>1 DEF Echo, InputsWritten, Around
<1>9. OutputsStarted' /\ OutputsRead'
  BY <1>1, <1>6 DEF Echo, OutputsStarted, OutputsRead
<1>10. SizesRead'
  <2>1. Queued(KernelEvent)
    BY <1>1 DEF Queued
  <2>2. \A q \in ports : active[SizeEvent(q)] => Queued(SizeEvent(q))'
    BY <1>3, <1>5, <2>1, EventFacts DEF Inv, Chain
  <2>3. \A q \in ports : Number(q)' = Number(q)
    BY <1>1 DEF Number
  <2> QED BY <1>1, <1>4, <2>2, <2>3 DEF Echo, SizesRead
<1>11. ASSUME NEW n \in 1 .. options.width
       PROVE  /\ deviceMeta'[Out(n)] = Around(tail[Out(n)], moved[n])
              /\ \A i \in 0 .. moved[n] - 1 :
                   deviceData'[Out(n)][Around(tail[Out(n)], i)] =
                     <<repeat, Around(tail[In(n)], i)>>
  <2>1. /\ Out(n) \in ports /\ ~IsInput(Out(n)) /\ Out(n)[2] = n /\ In(n) \in ports
        /\ tail[Out(n)] \in Slots /\ tail[In(n)] \in Slots
    BY <1>3, PlaceFacts
  <2>2. args[Out(n)].head = tail[Out(n)] /\ args[In(n)].tail = tail[In(n)]
    BY <1>3, <1>6 DEF Echo, OutputsStarted, InputsWritten, AfterTask
  <2>3. deviceMeta'[Out(n)] = Around(tail[Out(n)], moved[n])
    BY <1>2, <2>1, <2>2 DEF Loopback
  <2>4. ASSUME NEW i \in 0 .. moved[n] - 1
        PROVE  deviceData'[Out(n)][Around(tail[Out(n)], i)] = <<repeat, Around(tail[In(n)], i)>>
    <3> DEFINE s == Around(tail[Out(n)], i)
    <3>1. /\ i \in Slots /\ moved[n] \in Slots /\ i # userAllocSize - 1
          /\ 0 .. moved[n] - 1 \subseteq Slots /\ userAllocSize - 1 \in Slots
      BY <1>4 DEF Slots
    <3>2. s \in Slots
      BY <1>4, <2>1, <3>1, AroundFacts
    <3>3. \A j \in 0 .. moved[n] - 1 : s = Around(tail[Out(n)], j) => j = i
      BY <1>4, <2>1, <3>1, AroundInjective
    <3>4. deviceData'[Out(n)][s] =
            deviceData[In(n)][Around(tail[In(n)],
              CHOOSE j \in 0 .. moved[n] - 1 : s = Around(tail[Out(n)], j))]
      BY <1>2, <2>1, <2>2, <3>2 DEF Loopback
    <3>5. (CHOOSE j \in 0 .. moved[n] - 1 : s = Around(tail[Out(n)], j)) = i
      BY <3>3
    <3>6. /\ Around(tail[In(n)], i) \in Slots
          /\ Around(tail[In(n)], i) # Around(tail[In(n)], userAllocSize - 1)
      BY <1>4, <2>1, <3>1, AroundFacts, AroundInjective
    <3>7. ~Moving(In(n), Around(tail[In(n)], i))
      <4>1. IsInput(In(n))
        BY <1>3, PlaceFacts
      <4> QED BY <1>3, <4>1 DEF Moving, Queued, InputEvents
    <3>8. deviceData[In(n)][Around(tail[In(n)], i)] = <<repeat, Around(tail[In(n)], i)>>
      BY <1>6, <3>6, <3>7 DEF Echo, InputsWritten
    <3> QED BY <3>4, <3>5, <3>8
  <2> QED BY <2>3, <2>4
<1>12. Looped'
  <2>1. \A n \in 1 .. options.width : moved[n] \in 0 .. userAllocSize - 1
    OBVIOUS
  <2> QED BY <1>1, <1>4, <1>11, <2>1 DEF Looped, Around
<1> QED BY <1>1, <1>4, <1>7, <1>8, <1>9, <1>10, <1>12 DEF Echo
-----------------------------------------------------------------------------
(* The invariant holds.                                                    *)

LEMMA IdleSteps ==
  ASSUME Inv, Rings, Echo, NewTester \/ Release \/ NextCall
  PROVE  Echo'
<1>1. CASE NewTester
  <2>1. Construct(Inputs \union Outputs, buffer) /\ pc' = "write" /\ k' = 1
    BY <1>1 DEF NewTester
  <2>2. queue' = {} /\ DOMAIN deviceData' = ports' /\ DOMAIN hostData' = ports'
    BY <2>1 DEF Construct
  <2> QED BY <2>1, <2>2, IdleEcho
<1>2. CASE Release
  <2>1. /\ pc = "release" /\ pc' = "end"
        /\ UNCHANGED <<queue, ports, deviceData, hostData>>
    BY <1>2 DEF Release, portVars, deviceVars, hostVars
  <2>2. queue' = {}
    BY <2>1, QueueEmpty
  <2> QED BY <2>1, <2>2, IdleEcho DEF Echo
<1>3. CASE NextCall
  <2>1. /\ pc = "end" /\ pc' \in {"write", "construct", "exit"} /\ k' = 1
        /\ UNCHANGED <<queue, ports, deviceData, hostData>>
    BY <1>3 DEF NextCall, portVars, deviceVars, hostVars
  <2>2. queue' = {}
    BY <2>1 DEF Inv, Chain
  <2> QED BY <2>1, <2>2, IdleEcho DEF Echo
<1> QED BY <1>1, <1>2, <1>3

LEMMA EchoHolds == Spec => []Echo
<1>1. ASSUME Init PROVE Echo
  <2>1. pc = "construct" /\ queue = {} /\ ports = {} /\ deviceData = <<>> /\ hostData = <<>>
    BY <1>1 DEF Init, NoPorts
  <2>2. DOMAIN deviceData = ports /\ DOMAIN hostData = ports
    BY <2>1
  <2>3. \A n : ~Sent(n) /\ ~Unread(n)
    BY <2>1 DEF Sent, Unread, AfterTask
  <2> QED BY <2>1, <2>2, <2>3 DEF Echo, InputsWritten, OutputsStarted, Looped, SizesRead,
        OutputsRead, KernelDone, AfterTask
<1>2. ASSUME Inv, Rings, Echo, [Next]_vars PROVE Echo'
  <2>1. CASE Host
    BY <1>2, <2>1, IdleSteps, WriteInputEcho, EnqueueTaskEcho, ReadMetaEcho, WaitEcho,
       ReadOutputEcho DEF Host
  <2>2. CASE Device
    <3>1. PICK c \in queue : Complete(c)
      BY <2>2 DEF Device
    <3> QED BY <1>2, <3>1, TransferCompletes, ReadMetaCompletes, KernelCompletes DEF Complete
  <2>3. CASE Ended \/ UNCHANGED vars
    BY <1>2, <2>3, WaitEcho DEF Ended
  <2> QED BY <1>2, <2>1, <2>2, <2>3 DEF Next
<1> QED BY <1>1, <1>2, InvHolds, RingsHold, PTL DEF Spec

\* For every number of ports, calls and sizes of rings, wherever the rings are
\* started and in whatever order the commands complete: what a call has read back
\* when its reads have finished is all that the kernel has made of what this very
\* call has written, token for token.
THEOREM EchoCorrect == Spec => []Echoed
<1>1. ASSUME Inv, Rings, Echo, pc = "release", NEW n \in 1 .. options.width
      PROVE  /\ head[Out(n)] = deviceMeta[Out(n)]
             /\ \A i \in 0 .. Produced(n) - 1 :
                  hostData[Out(n)][Around(tail[Out(n)], i)] =
                    <<callIndex - 1, Around(tail[In(n)], i)>>
  <2>1. /\ userAllocSize \in Nat \ {0} /\ tail[Out(n)] \in Slots
        /\ callIndex = repeat + 1 /\ repeat \in Nat
    BY <1>1, PlaceFacts, WidthFacts DEF Rings, Counted, AfterMeta, Inv
  <2>2. queue = {}
    BY <1>1, QueueEmpty
  <2>3. KernelDone /\ ~Unread(n)
    BY <1>1, <2>2 DEF KernelDone, Unread, AfterTask, Queued
  <2>4. PICK m \in 0 .. userAllocSize - 1 :
          /\ deviceMeta[Out(n)] = Around(tail[Out(n)], m)
          /\ \A i \in 0 .. m - 1 :
               deviceData[Out(n)][Around(tail[Out(n)], i)] = <<repeat, Around(tail[In(n)], i)>>
    BY <1>1, <2>3 DEF Echo, Looped
  <2>5. m \in Slots
    BY DEF Slots
  <2>6. head[Out(n)] = deviceMeta[Out(n)]
    BY <1>1, <2>3 DEF Echo, OutputsRead, KernelDone
  <2>7. Produced(n) = m
    BY <2>1, <2>4, <2>5, <2>6, IntervalFacts DEF Produced
  <2>8. ASSUME NEW i \in 0 .. m - 1
        PROVE  hostData[Out(n)][Around(tail[Out(n)], i)] = <<repeat, Around(tail[In(n)], i)>>
    <3>1. i \in Slots /\ Between(tail[Out(n)], head[Out(n)], Around(tail[Out(n)], i))
      <4>1. \A j \in 0 .. m - 1 :
              j \in Slots /\ Between(tail[Out(n)], Around(tail[Out(n)], m), Around(tail[Out(n)], j))
        BY <2>1, <2>5, IntervalFacts
      <4> QED BY <2>4, <2>6, <4>1
    <3>2. Around(tail[Out(n)], i) \in Slots
      BY <2>1, <3>1, AroundFacts
    <3>3. ~Moving(Out(n), Around(tail[Out(n)], i))
      BY <2>2 DEF Moving
    <3>4. hostData[Out(n)][Around(tail[Out(n)], i)] = deviceData[Out(n)][Around(tail[Out(n)], i)]
      BY <1>1, <2>3, <3>1, <3>2, <3>3 DEF Echo, OutputsRead, KernelDone
    <3> QED BY <2>4, <3>4
  <2>9. callIndex - 1 = repeat
    BY <2>1
  <2> QED BY <2>6, <2>7, <2>8, <2>9
<1>2. ASSUME Inv, Rings, Echo PROVE Echoed
  BY <1>1, <1>2 DEF Echoed
<1> QED BY <1>2, InvHolds, RingsHold, EchoHolds, PTL

-----------------------------------------------------------------------------
(* The statistics: what a call has moved, and what it has logged of that.  *)

Part(p, ix) == IF active[BufferEvent(p, ix)] THEN profile[BufferEvent(p, ix)].tokens ELSE 0

\* The tokens of the active transfers of p.
Moved(p) == Part(p, "first") + Part(p, "second")

\* Calls that have released their events.
LoggedCalls == IF pc \in {"kernel", "read", "output", "release"} THEN callIndex - 1 ELSE callIndex

Entry == [call : Nat, offset : Nat, tokens : Nat]

LogInv ==
  /\ stats \in [ports -> Seq(Entry)]
  /\ \A p \in ports : \A l \in 1 .. Len(stats[p]) : stats[p][l].call \in 1 .. LoggedCalls
  /\ \A n \in 1 .. options.width : \A r \in 1 .. LoggedCalls : LoggedIn(In(n), r) = userAllocSize - 1
  /\ pc = "end" => \A n \in 1 .. options.width : LoggedIn(Out(n), callIndex) = Produced(n)
  /\ kernelStats = [r \in 1 .. LoggedCalls |-> r]

MovedInv ==
  /\ profile \in [BufferEvents -> [offset : Nat, tokens : Nat]]
  /\ \A n \in 1 .. options.width :
       /\ Sent(n) => Moved(In(n)) = userAllocSize - 1
       /\ pc \in AfterTask /\ ~Unread(n) => Moved(Out(n)) = Produced(n)

\* The tokens of the entries of log s for call n.
Total(s, n) ==
  SumFunctionOnSet([l \in DOMAIN s |-> s[l].tokens], {l \in DOMAIN s : s[l].call = n})

LEMMA TotalAppend ==
  ASSUME NEW s \in Seq(Entry), NEW e \in Entry, NEW n
  PROVE  Total(Append(s, e), n) = Total(s, n) + (IF e.call = n THEN e.tokens ELSE 0)
<1> DEFINE t == Append(s, e)
           S == {l \in 1 .. Len(s) : s[l].call = n}
           T == {l \in 1 .. Len(t) : t[l].call = n}
           f == [l \in 1 .. Len(s) |-> s[l].tokens]
           g == [l \in 1 .. Len(t) |-> t[l].tokens]
           x == Len(s) + 1
<1>0. \A y \in Entry : y.tokens \in Nat /\ y.tokens \in Int
  BY DEF Entry
<1>1. /\ Len(s) \in Nat /\ DOMAIN s = 1 .. Len(s) /\ DOMAIN t = 1 .. Len(t) /\ Len(t) = x
      /\ t \in Seq(Entry) /\ t[x] = e /\ \A l \in 1 .. Len(s) : t[l] = s[l]
  OBVIOUS
<1>2. Total(s, n) = SumOf(f, S) /\ Total(t, n) = SumOf(g, T)
  BY <1>1 DEF Total, SumOf
<1>3. /\ IsFiniteSet(S) /\ IsFiniteSet(T)
      /\ \A l \in T : g[l] \in Int
      /\ \A l \in S : f[l] \in Int /\ g[l] = f[l]
  <2>1. IsFiniteSet(1 .. Len(s)) /\ IsFiniteSet(1 .. Len(t))
    BY <1>1, FS_Interval
  <2>2. S \subseteq 1 .. Len(s) /\ T \subseteq 1 .. Len(t)
    OBVIOUS
  <2>3. \A l \in 1 .. Len(s) : f[l] = s[l].tokens /\ s[l] \in Entry
    BY <1>1
  <2>4. \A l \in 1 .. Len(t) : g[l] = t[l].tokens /\ t[l] \in Entry
    BY <1>1
  <2> HIDE DEF S, T, f, g
  <2>5. IsFiniteSet(S) /\ IsFiniteSet(T)
    BY <2>1, <2>2, FS_Subset
  <2>6. ASSUME NEW l \in S PROVE f[l] \in Int /\ g[l] = f[l]
    <3>1. l \in 1 .. Len(s) /\ l \in 1 .. Len(t)
      BY <1>1, <2>2
    <3>2. f[l] = s[l].tokens /\ g[l] = t[l].tokens /\ t[l] = s[l] /\ s[l] \in Entry
      BY <1>1, <2>3, <2>4, <3>1
    <3> QED BY <1>0, <3>2
  <2>7. ASSUME NEW l \in T PROVE g[l] \in Int
    <3>1. g[l] = t[l].tokens /\ t[l] \in Entry
      BY <2>2, <2>4
    <3> QED BY <1>0, <3>1
  <2> QED BY <2>5, <2>6, <2>7
<1>4. SumOf(f, S) = SumOf(g, S) /\ SumOf(f, S) \in Int
  <2> HIDE DEF S, T, f, g
  <2> QED BY <1>3, SumSame, SumType
<1>5. CASE e.call = n
  <2>1. x \in T /\ T \ {x} = S /\ g[x] = e.tokens
    BY <1>1, <1>5
  <2> HIDE DEF S, T, f, g
  <2>2. SumOf(g, T) = g[x] + SumOf(g, S)
    BY <1>3, <2>1, SumTake
  <2> QED BY <1>0, <1>2, <1>4, <1>5, <2>1, <2>2
<1>6. CASE e.call # n
  <2>1. T = S
    BY <1>1, <1>6
  <2> HIDE DEF S, T, f, g
  <2> QED BY <1>2, <1>4, <1>6, <2>1
<1> QED BY <1>5, <1>6

\* Where no entry is for call n, there is nothing logged for it.
LEMMA TotalZero ==
  ASSUME NEW s \in Seq(Entry), NEW n, \A l \in 1 .. Len(s) : s[l].call # n
  PROVE  Total(s, n) = 0
<1>1. {l \in DOMAIN s : s[l].call = n} = {}
  OBVIOUS
<1> QED BY <1>1, SumEmpty DEF Total, SumOf

LEMMA TotalNat ==
  ASSUME NEW s \in Seq(Entry), NEW n
  PROVE  Total(s, n) \in Int
<1> DEFINE S == {l \in 1 .. Len(s) : s[l].call = n}
           f == [l \in 1 .. Len(s) |-> s[l].tokens]
<1>1. DOMAIN s = 1 .. Len(s) /\ Len(s) \in Nat
  OBVIOUS
<1>2. Total(s, n) = SumOf(f, S)
  BY <1>1 DEF Total, SumOf
<1>3. IsFiniteSet(S)
  <2>1. IsFiniteSet(1 .. Len(s))
    BY <1>1, FS_Interval
  <2> QED BY <2>1, FS_Subset
<1>4. ASSUME NEW l \in S PROVE f[l] \in Int
  <2>1. f[l] = s[l].tokens /\ s[l] \in Entry
    BY <1>1
  <2> QED BY <2>1 DEF Entry
<1> HIDE DEF S, f
<1> QED BY <1>2, <1>3, <1>4, SumType

\* A transfer moves all of its interval, and nothing else is changed.
LEMMA TransferTotals ==
  ASSUME HostTyped, userAllocSize \in Nat \ {0}, UNCHANGED portVars, NEW p \in ports,
         NoTransferActive(p), NEW from \in Slots, NEW to \in Slots, NEW n,
         Transfer(p, from, to, n), profile \in [BufferEvents -> [offset : Nat, tokens : Nat]]
  PROVE  /\ profile' \in [BufferEvents -> [offset : Nat, tokens : Nat]]'
         /\ Moved(p)' = Tokens(userAllocSize, from, to)
         /\ \A q \in ports \ {p} : Moved(q)' = Moved(q)
<1> DEFINE parts == Split(userAllocSize, from, to)
           used == {t[1] : t \in parts}
<1>1. /\ BufferEvents' = BufferEvents /\ PortEvents' = PortEvents
      /\ BufferEvents \subseteq PortEvents
  BY EventsKept, EventFacts DEF portVars
<1>2. \A t \in parts : t[1] \in {"first", "second"} /\ t[2] \in Nat /\ t[3] \in Nat
  <2>1. \A t \in parts : t[2] \in 0 .. userAllocSize - 1 /\ t[3] \in Nat \ {0}
    BY TransfersExact DEF Slots
  <2>2. \A t \in parts : t[1] \in {"first", "second"}
    BY DEF Split
  <2> QED BY <2>1, <2>2
<1>3. \A e \in BufferEvents :
        active'[e] <=> active[e] \/ \E t \in parts : e = BufferEvent(p, t[1])
  <2>1. PICK commands :
          /\ commands = {Command(BufferEvent(p, t[1]), n, t[2], t[3], {}) : t \in parts}
          /\ Enqueue(commands)
    BY DEF Transfer
  <2>2. {c.event : c \in commands} = {BufferEvent(p, t[1]) : t \in parts}
    <3>1. \A t : Command(BufferEvent(p, t[1]), n, t[2], t[3], {}).event = BufferEvent(p, t[1])
      BY DEF Command
    <3> QED BY <2>1, <3>1
  <2>3. active' = [e \in PortEvents |-> active[e] \/ e \in {c.event : c \in commands}]
    BY <2>1 DEF Enqueue
  <2> QED BY <1>1, <2>2, <2>3
<1>4. profile' = [e \in BufferEvents |->
         IF \E t \in parts : e = BufferEvent(p, t[1])
         THEN LET part == CHOOSE t \in parts : e = BufferEvent(p, t[1])
              IN [offset |-> part[2], tokens |-> part[3]]
         ELSE profile[e]]
  BY DEF Transfer
<1>5. profile' \in [BufferEvents -> [offset : Nat, tokens : Nat]]
  BY <1>2, <1>4
<1>6. ASSUME NEW q \in ports \ {p} PROVE Moved(q)' = Moved(q)
  <2>1. \A ix \in {"first", "second"} :
          BufferEvent(q, ix) \in BufferEvents /\ \A t \in parts : BufferEvent(q, ix) # BufferEvent(p, t[1])
    BY DEF BufferEvent, BufferEvents
  <2>2. \A ix \in {"first", "second"} : Part(q, ix)' = Part(q, ix)
    BY <1>3, <1>4, <2>1 DEF Part, BufferEvent
  <2> QED BY <2>2 DEF Moved
<1>7. \A ix \in {"first", "second"} :
        /\ ~ active[BufferEvent(p, ix)] /\ BufferEvent(p, ix) \in BufferEvents
        /\ \A t \in parts : BufferEvent(p, ix) = BufferEvent(p, t[1]) <=> ix = t[1]
  BY DEF NoTransferActive, BufferEvent, BufferEvents
<1>8. ASSUME NEW ix \in {"first", "second"}, \A t \in parts : t[1] # ix
      PROVE  Part(p, ix)' = 0
  BY <1>3, <1>7, <1>8 DEF Part, BufferEvent
<1>9. ASSUME NEW t \in parts, \A u \in parts : u[1] = t[1] => u = t
      PROVE  Part(p, t[1])' = t[3]
  <2>1. t[1] \in {"first", "second"}
    BY <1>2
  <2>2. active'[BufferEvent(p, t[1])]
    BY <1>3, <1>7, <2>1
  <2>3. (CHOOSE u \in parts : BufferEvent(p, t[1]) = BufferEvent(p, u[1])) = t
    BY <1>7, <1>9, <2>1
  <2>4. profile'[BufferEvent(p, t[1])] = [offset |-> t[2], tokens |-> t[3]]
    BY <1>4, <1>7, <2>1, <2>3
  <2> QED BY <2>2, <2>4 DEF Part, BufferEvent
<1>10. Moved(p)' = Tokens(userAllocSize, from, to)
  <2> DEFINE tokens == Tokens(userAllocSize, from, to)
             rest == tokens - (userAllocSize - from)
  <2>1. tokens \in Int /\ userAllocSize \in Int /\ from \in Int /\ to \in Int
    BY DEF Tokens, Slots
  <2>2. CASE from = to
    <3>1. parts = {} /\ tokens = 0
      BY <2>2 DEF Split, Tokens, Slots
    <3> QED BY <1>8, <3>1 DEF Moved
  <2>3. CASE from # to /\ tokens + from < userAllocSize
    <3>1. parts = {<<"first", from, tokens>>}
      BY <2>3 DEF Split
    <3>2. Part(p, "first")' = tokens /\ Part(p, "second")' = 0
      BY <1>8, <1>9, <3>1
    <3> QED BY <2>1, <3>2 DEF Moved
  <2>4. CASE from # to /\ ~(tokens + from < userAllocSize) /\ ~(rest > 0)
    <3>1. parts = {<<"first", from, userAllocSize - from>>}
      BY <2>4 DEF Split
    <3>2. Part(p, "first")' = userAllocSize - from /\ Part(p, "second")' = 0
      BY <1>8, <1>9, <3>1
    <3> QED BY <2>1, <2>4, <3>2 DEF Moved
  <2>5. CASE from # to /\ ~(tokens + from < userAllocSize) /\ rest > 0
    <3>1. parts = {<<"first", from, userAllocSize - from>>, <<"second", 0, rest>>}
      BY <2>5 DEF Split
    <3>2. Part(p, "first")' = userAllocSize - from /\ Part(p, "second")' = rest
      BY <1>9, <3>1
    <3> QED BY <2>1, <2>5, <3>2 DEF Moved
  <2> QED BY <2>2, <2>3, <2>4, <2>5
<1> QED BY <1>1, <1>5, <1>6, <1>10

\* Steps that neither release events nor start a transfer.
LEMMA StatsKept ==
  ASSUME LogInv, UNCHANGED <<portVars, options, stats, kernelStats>>, LoggedCalls' = LoggedCalls,
         pc' # "end" \/ UNCHANGED <<pc, head, tail, callIndex>>
  PROVE  LogInv'
<1>1. UNCHANGED <<ports, userAllocSize>>
  BY DEF portVars
<1>2. \A p, r : LoggedIn(p, r)' = LoggedIn(p, r)
  BY DEF LoggedIn
<1>3. ASSUME pc' = "end"
      PROVE  \A n \in 1 .. options.width : LoggedIn(Out(n), callIndex)' = Produced(n)'
  BY <1>1, <1>2, <1>3 DEF LogInv, Produced, LoggedIn
<1> QED BY <1>1, <1>2, <1>3 DEF LogInv

\* Steps of the host that leave the events of transfers as they are.
LEMMA MovedKept ==
  ASSUME MovedInv, UNCHANGED <<portVars, options, profile>>,
         \A e \in BufferEvents : active'[e] = active[e],
         \A n \in 1 .. options.width :
           /\ In(n) \in ports /\ Out(n) \in ports
           /\ Sent(n)' => Sent(n)
           /\ pc' \in AfterTask /\ ~Unread(n)' => /\ pc \in AfterTask /\ ~Unread(n)
                                                   /\ Produced(n)' = Produced(n)
  PROVE  MovedInv'
<1>1. UNCHANGED <<ports, userAllocSize, BufferEvents>>
  BY EventsKept DEF portVars
<1>2. \A p \in ports : Moved(p)' = Moved(p)
  BY EventFacts DEF Moved, Part, BufferEvent
<1> QED BY <1>1, <1>2 DEF MovedInv

LEMMA WriteInputStats ==
  ASSUME Inv, Rings, Echo, LogInv, MovedInv, WriteInput
  PROVE  LogInv' /\ MovedInv'
<1>1. /\ pc = "write" /\ k \in 1 .. options.width
      /\ UNCHANGED <<portVars, options, stats, kernelStats, callIndex>>
  BY DEF WriteInput, Inv, HostTyped, mainVars
<1>2. /\ userAllocSize \in Nat \ {0} /\ HostTyped /\ options.width \in Nat \ {0}
  BY <1>1, PlaceFacts
<1>3. PICK p \in ports : p = In(k) /\ Number(p) = k
  BY <1>1, PlaceFacts
<1>4. NoTransferActive(p)
  BY <1>1, <1>3 DEF Inv, AheadReleased, TransferAhead
<1>5. PICK start \in Starts :
        /\ tail' = [tail EXCEPT ![p] = start]
        /\ head' = [head EXCEPT ![p] = (start + userAllocSize - 1) % userAllocSize]
  BY <1>3 DEF WriteInput
<1>6. Transfer(p, tail'[p], head'[p], callIndex) /\ NextPort(options.width, "task")
  BY <1>3, <1>4 DEF WriteInput
<1>7. start \in Slots /\ userAllocSize - 1 \in Slots
  BY <1>2 DEF Starts, Slots
<1>8. tail'[p] = start /\ head'[p] = Around(start, userAllocSize - 1)
  <2>1. start + userAllocSize - 1 = start + (userAllocSize - 1)
    BY <1>2, <1>7 DEF Slots
  <2> QED BY <1>5, <2>1 DEF Around, Rings, RingTyped, Index
<1>9. /\ profile' \in [BufferEvents -> [offset : Nat, tokens : Nat]]'
      /\ Moved(p)' = userAllocSize - 1
      /\ \A q \in ports \ {p} : Moved(q)' = Moved(q)
  <2>1. Around(start, userAllocSize - 1) \in Slots
    BY <1>2, <1>7, AroundFacts
  <2>2. Tokens(userAllocSize, start, Around(start, userAllocSize - 1)) = userAllocSize - 1
    BY <1>2, <1>7, IntervalFacts
  <2>3. profile \in [BufferEvents -> [offset : Nat, tokens : Nat]]
    BY DEF MovedInv
  <2> QED BY <1>1, <1>2, <1>4, <1>6, <1>7, <1>8, <2>1, <2>2, <2>3, TransferTotals
<1>10. pc' \in {"write", "task"} /\ (pc' = "write" => k' = k + 1) /\ (pc' = "task" => k = options.width)
  BY <1>1, <1>2, <1>6 DEF NextPort
<1>11. MovedInv'
  <2>1. ASSUME NEW n \in 1 .. options.width, Sent(n)' PROVE Moved(In(n))' = userAllocSize - 1
    <3>1. CASE n = k
      BY <1>3, <1>9, <3>1
    <3>2. CASE n # k
      <4>1. Sent(n)
        BY <1>1, <1>10, <2>1, <3>2 DEF Sent, AfterTask
      <4>2. In(n) \in ports \ {p}
        BY <1>1, <1>3, <3>2, PlaceFacts
      <4> QED BY <1>9, <4>1, <4>2 DEF MovedInv
    <3> QED BY <3>1, <3>2
  <2> QED BY <1>1, <1>9, <1>10, <2>1 DEF MovedInv, portVars, AfterTask
<1>12. LogInv'
  <2>1. LoggedCalls' = LoggedCalls
    BY <1>1, <1>10 DEF LoggedCalls
  <2> QED BY <1>1, <1>10, <2>1, StatsKept
<1> QED BY <1>11, <1>12

LEMMA ReadOutputStats ==
  ASSUME Inv, Rings, Echo, LogInv, MovedInv, ReadOutput
  PROVE  LogInv' /\ MovedInv'
<1>1. /\ pc = "read" /\ k \in 1 .. options.width
      /\ UNCHANGED <<portVars, options, stats, kernelStats, callIndex, tail>>
  BY DEF ReadOutput, Inv, HostTyped, mainVars
<1>2. /\ userAllocSize \in Nat \ {0} /\ HostTyped /\ options.width \in Nat \ {0}
  BY <1>1, PlaceFacts
<1>3. PICK p \in ports : p = Out(k) /\ ~IsInput(p) /\ p[2] = k
  BY <1>1, PlaceFacts
<1>4. NoTransferActive(p)
  BY <1>1, <1>3 DEF Inv, AheadReleased, TransferAhead
<1>5. /\ Transfer(p, head[p], hostMeta[p], callIndex)
      /\ head' = [head EXCEPT ![p] = hostMeta[p]]
      /\ NextPort(options.width, "output")
  BY <1>3, <1>4 DEF ReadOutput
<1>6. head[p] = tail[p] /\ head[p] \in Slots /\ hostMeta[p] \in Slots /\ head'[p] = hostMeta[p]
  BY <1>1, <1>3, <1>5, PlaceFacts DEF Echo, OutputsStarted, Unread, AfterTask, Rings, RingTyped, Index
<1>7. UNCHANGED <<ports, userAllocSize>>
  BY <1>1 DEF portVars
<1>8. /\ profile' \in [BufferEvents -> [offset : Nat, tokens : Nat]]'
      /\ Moved(p)' = Tokens(userAllocSize, tail[p], head'[p])
      /\ \A q \in ports \ {p} : Moved(q)' = Moved(q)
  <2>1. profile \in [BufferEvents -> [offset : Nat, tokens : Nat]]
    BY DEF MovedInv
  <2> QED BY <1>1, <1>2, <1>4, <1>5, <1>6, <2>1, TransferTotals
<1>9. /\ pc' \in {"read", "output"} /\ (pc' = "read" => k' = k + 1)
      /\ (pc' = "output" => k = options.width)
  BY <1>1, <1>2, <1>5 DEF NextPort
<1>10. MovedInv'
  <2>1. ASSUME NEW n \in 1 .. options.width PROVE Sent(n) /\ Moved(In(n))' = userAllocSize - 1
    <3>1. Sent(n) /\ In(n) \in ports \ {p}
      BY <1>1, <1>3, PlaceFacts DEF Sent, AfterTask
    <3> QED BY <1>8, <3>1 DEF MovedInv
  <2>2. ASSUME NEW n \in 1 .. options.width, ~Unread(n)' PROVE Moved(Out(n))' = Produced(n)'
    <3>1. CASE n = k
      BY <1>1, <1>3, <1>7, <1>8, <3>1 DEF Produced
    <3>2. CASE n # k
      <4>1. ~Unread(n) /\ pc \in AfterTask
        BY <1>1, <1>2, <1>9, <2>2, <3>2 DEF Unread, AfterTask
      <4>2. Out(n) \in ports \ {p} /\ head'[Out(n)] = head[Out(n)]
        BY <1>1, <1>3, <1>5, <3>2, PlaceFacts DEF Rings, RingTyped, Index
      <4>3. Produced(n)' = Produced(n)
        BY <1>1, <1>7, <4>2 DEF Produced
      <4> QED BY <1>8, <4>1, <4>2, <4>3 DEF MovedInv
    <3> QED BY <3>1, <3>2
  <2> QED BY <1>1, <1>7, <1>8, <2>1, <2>2 DEF MovedInv
<1>11. LogInv'
  <2>1. LoggedCalls' = LoggedCalls
    BY <1>1, <1>9 DEF LoggedCalls
  <2> QED BY <1>1, <1>9, <2>1, StatsKept
<1> QED BY <1>10, <1>11

\* The host enqueues the kernel or reads of indices, or waits.
LEMMA QuietStats ==
  ASSUME Inv, Rings, LogInv, MovedInv,
         \/ EnqueueTask \/ ReadMeta
         \/ WaitUntil("kernel", KernelFinished, "read")
         \/ WaitUntil("output", ReadFinished, "release")
  PROVE  LogInv' /\ MovedInv'
<1>1. /\ pc # "construct" /\ UNCHANGED <<portVars, options, stats, kernelStats, profile>>
      /\ pc' # "end"
  BY DEF EnqueueTask, ReadMeta, EnqueueReadMeta, WaitUntil, NextPort, AssertionFailed, infoVars,
     mainVars, testVars
<1>2. LoggedCalls' = LoggedCalls /\ \A n \in 1 .. options.width :
        /\ Sent(n)' => Sent(n)
        /\ pc' \in AfterTask /\ ~Unread(n)' => pc \in AfterTask /\ ~Unread(n)
        /\ pc' \in AfterTask /\ ~Unread(n)' => UNCHANGED <<head, tail>>
  <2>1. CASE EnqueueTask
    BY <2>1 DEF EnqueueTask, LoggedCalls, Sent, Unread, AfterTask
  <2>2. CASE ReadMeta
    <3>1. /\ pc = "meta" /\ options.width \in Nat \ {0} /\ k \in Nat /\ k <= 2 * options.width
          /\ callIndex \in Nat
      BY <1>1, <2>2, CallFacts DEF ReadMeta, HostTyped
    <3>2. \/ pc' = "meta" /\ callIndex' = callIndex
          \/ pc' = "kernel" /\ callIndex' = callIndex + 1
          \/ pc' = "failed" /\ callIndex' = callIndex
      BY <2>2, <3>1 DEF ReadMeta, NextPort, AssertionFailed
    <3> QED BY <3>1, <3>2 DEF LoggedCalls, Sent, Unread, AfterTask
  <2>3. CASE WaitUntil("kernel", KernelFinished, "read")
    BY <2>3 DEF WaitUntil, LoggedCalls, Sent, Unread, AfterTask, Inv, HostTyped
  <2>4. CASE WaitUntil("output", ReadFinished, "release")
    BY <2>4 DEF WaitUntil, LoggedCalls, Sent, Unread, AfterTask
  <2> QED BY <2>1, <2>2, <2>3, <2>4
<1>3. \A e \in BufferEvents : active'[e] = active[e]
  <2>1. active \in [PortEvents -> BOOLEAN]
    BY DEF Inv, HostTyped
  <2>2. CASE active' = active
    BY <2>2
  <2>3. CASE \E commands : /\ \A c \in commands : c.event \in SizeEvents \union {KernelEvent}
                           /\ Enqueue(commands)
    <3>1. PICK commands : /\ \A c \in commands : c.event \in SizeEvents \union {KernelEvent}
                          /\ Enqueue(commands)
      BY <2>3
    <3>2. active' = [e \in PortEvents |-> active[e] \/ e \in {c.event : c \in commands}]
      BY <3>1 DEF Enqueue
    <3>3. \A e \in BufferEvents : e \in PortEvents /\ e \notin {c.event : c \in commands}
      BY <3>1, EventFacts
    <3>4. ASSUME NEW e \in BufferEvents PROVE active'[e] = active[e]
      <4>1. active[e] \in BOOLEAN
        BY <2>1, <3>3
      <4>2. active'[e] = (active[e] \/ e \in {c.event : c \in commands})
        BY <3>2, <3>3
      <4> QED BY <3>3, <4>1, <4>2
    <3> QED BY <3>4
  <2>4. CASE EnqueueTask
    <3>1. Enqueue({Command(KernelEvent, callIndex, 0, 0, kernelWaitEvents)})
      BY <2>4 DEF EnqueueTask
    <3>2. Command(KernelEvent, callIndex, 0, 0, kernelWaitEvents).event = KernelEvent
      BY DEF Command
    <3> QED BY <2>3, <3>1, <3>2
  <2>5. CASE ReadMeta
    <3>1. active' = active \/
          \E p \in ports : \E w : Enqueue({Command(SizeEvent(p), callIndex, 0, 0, w)})
      <4> DEFINE p == IF k <= options.width THEN In(k) ELSE Out(k - options.width)
      <4>1. p \in ports
        BY <1>1, <2>5, CallFacts, PlaceFacts DEF ReadMeta, HostTyped
      <4> HIDE DEF p
      <4> QED BY <2>5, <4>1 DEF ReadMeta, EnqueueReadMeta, infoVars, p
    <3>2. \A p, w : Command(SizeEvent(p), callIndex, 0, 0, w).event = SizeEvent(p)
      BY DEF Command
    <3>3. ASSUME NEW p \in ports, NEW w, Enqueue({Command(SizeEvent(p), callIndex, 0, 0, w)})
          PROVE  \A e \in BufferEvents : active'[e] = active[e]
      <4>1. \A c \in {Command(SizeEvent(p), callIndex, 0, 0, w)} : c.event \in SizeEvents
        BY <3>2, EventFacts
      <4> QED BY <2>3, <3>3, <4>1
    <3> QED BY <2>2, <3>1, <3>3
  <2> QED BY <2>2, <2>4, <2>5 DEF WaitUntil, infoVars
<1>4. \A n \in 1 .. options.width : /\ In(n) \in ports /\ Out(n) \in ports
        /\ UNCHANGED <<head, tail>> => Produced(n)' = Produced(n)
  BY <1>1, PlaceFacts DEF Produced, portVars
<1>5. ASSUME NEW n \in 1 .. options.width
      PROVE  /\ In(n) \in ports /\ Out(n) \in ports
             /\ Sent(n)' => Sent(n)
             /\ pc' \in AfterTask /\ ~Unread(n)' => /\ pc \in AfterTask /\ ~Unread(n)
                                                     /\ Produced(n)' = Produced(n)
  <2>1. pc' \in AfterTask /\ ~Unread(n)' => Produced(n)' = Produced(n)
    BY <1>1, <1>2 DEF Unread, Produced, portVars
  <2>2. /\ Sent(n)' => Sent(n)
        /\ pc' \in AfterTask /\ ~Unread(n)' => pc \in AfterTask /\ ~Unread(n)
    BY <1>2 DEF Sent, Unread
  <2>3. In(n) \in ports /\ Out(n) \in ports
    BY <1>1, PlaceFacts
  <2> QED BY <2>1, <2>2, <2>3
<1>6. MovedInv'
  BY <1>1, <1>3, <1>5, MovedKept
<1> QED BY <1>1, <1>2, <1>6, StatsKept

LEMMA IdleStats ==
  ASSUME Inv, Rings, LogInv, MovedInv, NewTester \/ NextCall
  PROVE  LogInv' /\ MovedInv'
<1>1. CASE NewTester
  <2>1. /\ Construct(Inputs \union Outputs, buffer) /\ callIndex' = 0 /\ kernelStats' = <<>>
        /\ pc' = "write" /\ k' = 1
    BY <1>1 DEF NewTester
  <2>2. LoggedCalls' = 0
    BY <2>1 DEF LoggedCalls
  <2>3. stats' = [p \in ports' |-> <<>>] /\ profile' = [e \in BufferEvents' |-> [offset |-> 0, tokens |-> 0]]
    BY <2>1 DEF Construct
  <2>4. <<>> \in Seq(Entry) /\ Len(<<>>) = 0 /\ [r \in 1 .. 0 |-> r] = <<>>
    OBVIOUS
  <2>5. \A n : n \in 1 .. options'.width => ~Sent(n)'
    BY <2>1 DEF Sent, AfterTask
  <2>6. LogInv'
    BY <2>1, <2>2, <2>3, <2>4 DEF LogInv
  <2> QED BY <2>1, <2>3, <2>5, <2>6 DEF MovedInv, AfterTask
<1>2. CASE NextCall
  <2>1. /\ pc = "end" /\ pc' \in {"write", "construct", "exit"} /\ (pc' = "write" => k' = 1)
        /\ UNCHANGED <<portVars, options, stats, kernelStats, profile, active, callIndex>>
    BY <1>2 DEF NextCall, infoVars
  <2>2. LoggedCalls' = LoggedCalls
    BY <2>1 DEF LoggedCalls
  <2>3. \A n \in 1 .. options.width : ~Sent(n)'
    BY <2>1 DEF Sent, AfterTask
  <2>4. UNCHANGED <<ports, BufferEvents>>
    BY <2>1, EventsKept DEF portVars
  <2>5. MovedInv'
    BY <2>1, <2>3, <2>4 DEF MovedInv, AfterTask
  <2> QED BY <2>1, <2>2, <2>5, StatsKept
<1> QED BY <1>1, <1>2

LEMMA StillStats ==
  ASSUME LogInv, MovedInv,
         UNCHANGED <<portVars, options, stats, kernelStats, profile, active, callIndex, pc, k, head, tail>>
  PROVE  LogInv' /\ MovedInv'
<1>1. UNCHANGED <<ports, userAllocSize, BufferEvents>>
  BY EventsKept DEF portVars
<1>2. \A p : Moved(p)' = Moved(p)
  BY DEF Moved, Part
<1>3. \A n : Sent(n)' = Sent(n) /\ Unread(n)' = Unread(n) /\ Produced(n)' = Produced(n)
  BY <1>1 DEF Sent, Unread, Produced
<1>4. MovedInv'
  BY <1>1, <1>2, <1>3 DEF MovedInv
<1>5. LoggedCalls' = LoggedCalls
  BY DEF LoggedCalls
<1> QED BY <1>4, <1>5, StatsKept

\* What releaseEvents appends to the log of a port.
LEMMA LoggedTotals ==
  ASSUME Inv, Rings, LogInv, MovedInv, NEW p \in ports, NEW c \in Nat
  PROVE  /\ stats[p] \o Logged(p, c) \in Seq(Entry)
         /\ \A l \in 1 .. Len(stats[p] \o Logged(p, c)) :
              LET e == (stats[p] \o Logged(p, c))[l]
              IN  e.call = c \/ (l \in 1 .. Len(stats[p]) /\ e = stats[p][l])
         /\ \A n : Total(stats[p] \o Logged(p, c), n) = Total(stats[p], n) + (IF n = c THEN Moved(p) ELSE 0)
<1> DEFINE Extended(s, ix, t) ==
             /\ t \in Seq(Entry)
             /\ \A l \in 1 .. Len(t) : t[l].call = c \/ (l \in 1 .. Len(s) /\ t[l] = s[l])
             /\ \A n : Total(t, n) = Total(s, n) + (IF n = c THEN Part(p, ix) ELSE 0)
<1>1. ASSUME NEW s \in Seq(Entry), NEW ix \in {"first", "second"}
      PROVE  Extended(s, ix, s \o Log(p, c, ix))
  <2> DEFINE e == BufferEvent(p, ix)
             r == [call |-> c, offset |-> profile[e].offset, tokens |-> profile[e].tokens]
  <2>1. e \in BufferEvents /\ profile[e] \in [offset : Nat, tokens : Nat]
    BY EventFacts DEF MovedInv
  <2>2. \A n : Total(s, n) \in Int
    BY TotalNat
  <2>3. CASE active[e]
    <3>1. r \in Entry /\ r.call = c /\ r.tokens = profile[e].tokens
      BY <2>1 DEF Entry
    <3>2. s \o Log(p, c, ix) = Append(s, r)
      <4>1. Log(p, c, ix) = <<r>>
        BY <2>3 DEF Log
      <4> HIDE DEF r
      <4> QED BY <3>1, <4>1
    <3>3. Part(p, ix) = profile[e].tokens
      BY <2>3 DEF Part
    <3> HIDE DEF r, e
    <3>4. \A n : Total(Append(s, r), n) = Total(s, n) + (IF r.call = n THEN r.tokens ELSE 0)
      BY <3>1, TotalAppend
    <3>5. Append(s, r) \in Seq(Entry) /\ \A l \in 1 .. Len(Append(s, r)) :
            Append(s, r)[l].call = c \/ (l \in 1 .. Len(s) /\ Append(s, r)[l] = s[l])
      BY <3>1
    <3>6. \A n : Total(Append(s, r), n) = Total(s, n) + (IF n = c THEN Part(p, ix) ELSE 0)
      BY <3>1, <3>3, <3>4
    <3> QED BY <3>2, <3>5, <3>6
  <2>4. CASE ~active[e]
    <3>1. s \o Log(p, c, ix) = s /\ Part(p, ix) = 0
      BY <2>4 DEF Log, Part
    <3> QED BY <2>2, <3>1
  <2> QED BY <2>3, <2>4
<1> DEFINE s == stats[p]
           t == s \o Log(p, c, "first")
           u == t \o Log(p, c, "second")
<1>2. s \in Seq(Entry)
  BY DEF LogInv
<1>3. Extended(s, "first", t)
  BY <1>1, <1>2
<1>4. Extended(t, "second", u)
  BY <1>1, <1>3
<1>5. stats[p] \o Logged(p, c) = u
  <2>1. \A ix \in {"first", "second"} : Log(p, c, ix) \in Seq(Entry)
    <3>1. \A ix \in {"first", "second"} :
            profile[BufferEvent(p, ix)] \in [offset : Nat, tokens : Nat]
      BY EventFacts DEF MovedInv
    <3>2. ASSUME NEW ix \in {"first", "second"} PROVE Log(p, c, ix) \in Seq(Entry)
      <4>1. [call |-> c, offset |-> profile[BufferEvent(p, ix)].offset,
             tokens |-> profile[BufferEvent(p, ix)].tokens] \in Entry
        BY <3>1 DEF Entry
      <4>2. \A x \in Entry : <<x>> \in Seq(Entry) /\ <<>> \in Seq(Entry)
        OBVIOUS
      <4> QED BY <4>1, <4>2 DEF Log
    <3> QED BY <3>2
  <2> HIDE DEF s
  <2>2. \A X : \A x, y, z \in Seq(X) : x \o (y \o z) = (x \o y) \o z
    OBVIOUS
  <2>3. s \o (Log(p, c, "first") \o Log(p, c, "second")) = (s \o Log(p, c, "first")) \o Log(p, c, "second")
    BY <1>2, <2>1, <2>2
  <2> QED BY <2>3 DEF Logged, s
<1>6. /\ \A ix \in {"first", "second"} : Part(p, ix) \in Nat
      /\ \A n : Total(s, n) \in Int
  <2>1. \A ix \in {"first", "second"} : BufferEvent(p, ix) \in BufferEvents
    BY EventFacts
  <2> QED BY <1>2, <2>1, TotalNat DEF MovedInv, Part
<1> HIDE DEF s, t, u
<1>7. \A n : Total(u, n) = Total(s, n) + (IF n = c THEN Moved(p) ELSE 0)
  BY <1>3, <1>4, <1>6 DEF Moved
<1> QED BY <1>3, <1>4, <1>5, <1>7 DEF s

LEMMA ReleaseStats ==
  ASSUME Inv, Rings, LogInv, MovedInv, Release
  PROVE  LogInv' /\ MovedInv'
<1>1. /\ pc = "release" /\ pc' = "end" /\ kernelStats' = Append(kernelStats, callIndex)
      /\ stats' = [p \in ports |-> stats[p] \o Logged(p, callIndex)]
      /\ UNCHANGED <<portVars, options, callIndex, profile, head, tail>>
  BY DEF Release, ReleaseEvents, mainVars
<1>2. UNCHANGED <<ports, userAllocSize, BufferEvents>>
  BY <1>1, EventsKept DEF portVars
<1>3. callIndex \in Nat \ {0} /\ LoggedCalls = callIndex - 1 /\ LoggedCalls' = callIndex
  <2>1. callIndex = repeat + 1 /\ repeat \in Nat
    BY <1>1, WidthFacts DEF Rings, Counted, AfterMeta, Inv
  <2> QED BY <1>1, <2>1 DEF LoggedCalls
<1>4. ASSUME NEW p \in ports
      PROVE  /\ stats'[p] \in Seq(Entry)
             /\ \A l \in 1 .. Len(stats'[p]) : stats'[p][l].call \in 1 .. callIndex
             /\ \A n : LoggedIn(p, n)' = Total(stats[p], n) + (IF n = callIndex THEN Moved(p) ELSE 0)
             /\ \A n : Total(stats'[p], n) = Total(stats[p], n) + (IF n = callIndex THEN Moved(p) ELSE 0)
  <2>1. stats'[p] = stats[p] \o Logged(p, callIndex)
    BY <1>1
  <2>2. /\ stats'[p] \in Seq(Entry)
        /\ \A l \in 1 .. Len(stats'[p]) :
             stats'[p][l].call = callIndex \/ (l \in 1 .. Len(stats[p]) /\ stats'[p][l] = stats[p][l])
        /\ \A n : Total(stats'[p], n) = Total(stats[p], n) + (IF n = callIndex THEN Moved(p) ELSE 0)
    <3>1. callIndex \in Nat
      BY <1>3
    <3>2. /\ stats[p] \o Logged(p, callIndex) \in Seq(Entry)
          /\ \A l \in 1 .. Len(stats[p] \o Logged(p, callIndex)) :
               \/ (stats[p] \o Logged(p, callIndex))[l].call = callIndex
               \/ (l \in 1 .. Len(stats[p]) /\ (stats[p] \o Logged(p, callIndex))[l] = stats[p][l])
          /\ \A n : Total(stats[p] \o Logged(p, callIndex), n) =
                     Total(stats[p], n) + (IF n = callIndex THEN Moved(p) ELSE 0)
      BY <3>1, LoggedTotals
    <3> QED BY <2>1, <3>2
  <2>3. \A l \in 1 .. Len(stats[p]) : stats[p][l].call \in 1 .. callIndex
    BY <1>3 DEF LogInv
  <2>4. \A n : LoggedIn(p, n)' = Total(stats'[p], n)
    BY DEF LoggedIn, Total
  <2> QED BY <1>3, <2>2, <2>3, <2>4
<1>5. \A p \in ports : Total(stats[p], callIndex) = 0 /\ Moved(p) \in Nat
  <2>1. \A p \in ports : \A l \in 1 .. Len(stats[p]) : stats[p][l].call # callIndex
    BY <1>3 DEF LogInv
  <2>2. \A p \in ports : Total(stats[p], callIndex) = 0
    BY <2>1, TotalZero DEF LogInv
  <2>3. \A p \in ports : \A ix \in {"first", "second"} : Part(p, ix) \in Nat
    <3>1. \A p \in ports : \A ix \in {"first", "second"} : BufferEvent(p, ix) \in BufferEvents
      BY EventFacts
    <3> QED BY <3>1 DEF MovedInv, Part
  <2>4. ASSUME NEW p \in ports PROVE Moved(p) \in Nat
    <3>1. Part(p, "first") \in Nat /\ Part(p, "second") \in Nat
      BY <2>3
    <3> QED BY <3>1 DEF Moved
  <2> QED BY <2>2, <2>4
<1>6. ASSUME NEW n \in 1 .. options.width
      PROVE  /\ \A r \in 1 .. callIndex : LoggedIn(In(n), r)' = userAllocSize - 1
             /\ LoggedIn(Out(n), callIndex)' = Produced(n)
  <2>1. In(n) \in ports /\ Out(n) \in ports
    BY <1>1, PlaceFacts
  <2>2. Moved(In(n)) = userAllocSize - 1 /\ Moved(Out(n)) = Produced(n)
    BY <1>1 DEF MovedInv, Sent, Unread, AfterTask
  <2>3. ASSUME NEW r \in 1 .. callIndex PROVE LoggedIn(In(n), r)' = userAllocSize - 1
    <3>1. LoggedIn(In(n), r)' = Total(stats[In(n)], r) + (IF r = callIndex THEN Moved(In(n)) ELSE 0)
      BY <1>4, <2>1
    <3>2. CASE r = callIndex
      BY <1>5, <2>1, <2>2, <3>1, <3>2
    <3>3. CASE r # callIndex
      <4>1. LoggedIn(In(n), r) = userAllocSize - 1
        BY <1>3, <3>3 DEF LogInv
      <4>2. Total(stats[In(n)], r) = LoggedIn(In(n), r)
        BY DEF Total, LoggedIn
      <4>3. userAllocSize \in Nat
        BY <1>1, PlaceFacts
      <4> QED BY <3>1, <3>3, <4>1, <4>2, <4>3
    <3> QED BY <3>2, <3>3
  <2>4. LoggedIn(Out(n), callIndex)' = Produced(n)
    <3>1. Total(stats'[Out(n)], callIndex) = Total(stats[Out(n)], callIndex) + Moved(Out(n))
      BY <1>4, <2>1
    <3>2. LoggedIn(Out(n), callIndex)' = Total(stats'[Out(n)], callIndex')
      BY DEF LoggedIn, Total
    <3> QED BY <1>1, <1>5, <2>1, <2>2, <3>1, <3>2
  <2> QED BY <2>3, <2>4
<1>7. LogInv'
  <2>1. stats' \in [ports -> Seq(Entry)]
    BY <1>1, <1>4
  <2>2. kernelStats' = [r \in 1 .. callIndex |-> r]
    <3>1. kernelStats = [r \in 1 .. callIndex - 1 |-> r]
      BY <1>3 DEF LogInv
    <3> QED BY <1>1, <1>3, <3>1
  <2>3. \A n \in 1 .. options.width : Produced(n)' = Produced(n)
    BY <1>1, <1>2 DEF Produced
  <2>4. \A n \in 1 .. options'.width : LoggedIn(Out(n), callIndex)' = Produced(n)'
    BY <1>1, <1>6, <2>3
  <2> QED BY <1>1, <1>2, <1>3, <1>4, <1>6, <2>1, <2>2, <2>4 DEF LogInv
<1>8. MovedInv'
  <2>1. \A n \in 1 .. options'.width : ~Sent(n)'
    BY <1>1 DEF Sent, AfterTask
  <2> QED BY <1>1, <1>2, <2>1 DEF MovedInv, AfterTask
<1> QED BY <1>7, <1>8

LEMMA StatsHold == Spec => [](LogInv /\ MovedInv)
<1>1. ASSUME Init PROVE LogInv /\ MovedInv
  <2>1. /\ pc = "construct" /\ callIndex = 0 /\ kernelStats = <<>> /\ ports = {}
        /\ stats = <<>> /\ profile = <<>>
    BY <1>1 DEF Init, NoPorts
  <2>2. LoggedCalls = 0 /\ BufferEvents = {}
    BY <2>1 DEF LoggedCalls, BufferEvents
  <2>3. <<>> \in [{} -> Seq(Entry)] /\ <<>> \in [{} -> [offset : Nat, tokens : Nat]]
        /\ [r \in 1 .. 0 |-> r] = <<>>
    OBVIOUS
  <2>4. \A n : ~Sent(n)
    BY <2>1 DEF Sent, AfterTask
  <2> QED BY <2>1, <2>2, <2>3, <2>4 DEF LogInv, MovedInv, AfterTask
<1>2. ASSUME Inv, Rings, Echo, LogInv, MovedInv, [Next]_vars PROVE LogInv' /\ MovedInv'
  <2>1. CASE Host
    BY <1>2, <2>1, IdleStats, WriteInputStats, QuietStats, ReadOutputStats, ReleaseStats DEF Host
  <2>2. CASE Device \/ Ended \/ UNCHANGED vars
    <3>1. UNCHANGED <<portVars, options, stats, kernelStats, profile, active, callIndex, pc, k,
                      head, tail>>
      BY <2>2 DEF Device, Complete, Ended, vars, infoVars, mainVars, testVars
    <3> QED BY <1>2, <3>1, StillStats
  <2> QED BY <1>2, <2>1, <2>2 DEF Next
<1> QED BY <1>1, <1>2, InvHolds, RingsHold, EchoHolds, PTL DEF Spec

\* For every command line: when a call of test() has ended, the statistics have each
\* token that this call and every earlier one has sent, once, under the index of its
\* call, and each token this call has read back; the kernel has one entry per call.
THEOREM StatisticsRight == Spec => []StatsComplete
<1>1. ASSUME LogInv PROVE StatsComplete
  BY <1>1 DEF StatsComplete, LogInv, LoggedCalls
<1> QED BY <1>1, StatsHold, PTL
=============================================================================

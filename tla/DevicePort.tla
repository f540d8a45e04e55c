------------------------------ MODULE DevicePort ------------------------------
(***************************************************************************)
(* The ports between host and accelerator (device-port.cc): a ring on the  *)
(* device with a copy on the host, of which index intervals are moved by   *)
(* asynchronous commands, and a meta buffer that holds one index.          *)
(*                                                                         *)
(* A command is in queue until it has completed; the OpenCL queue is out   *)
(* of order, so only its wait list holds a command back.  An event is      *)
(* named by the place that refers to it and the number of the call of      *)
(* test() in which it was made; event[e] is that number for the latest one.*)
(*                                                                         *)
(* A token <<n, s>> is what slot s of an input ring held on the host in    *)
(* call n.  Sizes are in tokens.  The callback of an event counts for its  *)
(* message only, and is left out.                                          *)
(*                                                                         *)
(* The operators named Bad... are plausible bugs: with one of them in the  *)
(* place of the definition that follows it, a property must fail.          *)
(***************************************************************************)
EXTENDS Integers, Sequences

VARIABLES
  ports,            \* <<"in", k>> and <<"out", k>>
  userAllocSize,    \* user_alloc_size, the same for all ports
  head,             \* device_buffer.head
  tail,             \* device_buffer.tail
  queue,            \* commands that have not completed
  event,            \* buffer_event, buffer_size_event and the kernel's
  active,           \* active of the EventInfo of a port's events
  profile,          \* offset and size in the EventInfo of a transfer
  stats,            \* stats of a port
  deviceData, deviceMeta,  \* buffers on the device
  hostData, hostMeta       \* their copies on the host

portVars == <<ports, userAllocSize>>
infoVars == <<event, active, profile>>
deviceVars == <<deviceData, deviceMeta>>
hostVars == <<hostData, hostMeta>>

Slots == 0 .. userAllocSize - 1
Blank == <<-1, 0>>

BufferEvent(p, ix) == <<p, ix>>
SizeEvent(p) == <<p, "size">>
BufferEvents == ports \X {"first", "second"}
PortEvents == BufferEvents \union {SizeEvent(p) : p \in ports}
KernelEvent == <<<<"kernel", 0>>, "task">>
IsInput(p) == p[1] = "in"

NoPorts ==
  /\ ports = {} /\ userAllocSize = 0
  /\ head = <<>> /\ tail = <<>> /\ active = <<>> /\ profile = <<>> /\ stats = <<>>
  /\ deviceData = <<>> /\ deviceMeta = <<>> /\ hostData = <<>> /\ hostMeta = <<>>
  /\ queue = {}
  /\ event = [e \in {KernelEvent} |-> -1]

\* The constructor and allocate, for all ports.
Construct(created, size) ==
  /\ ports' = created /\ userAllocSize' = size
  /\ head' = [p \in created |-> 0] /\ tail' = [p \in created |-> 0]
  /\ queue' = {}
  /\ event' = [e \in PortEvents' \union {KernelEvent} |-> -1]
  /\ active' = [e \in PortEvents' |-> FALSE]
  /\ profile' = [e \in BufferEvents' |-> [offset |-> 0, tokens |-> 0]]
  /\ stats' = [p \in created |-> <<>>]
  /\ deviceData' = [p \in created |-> [s \in Slots' |-> Blank]]
  /\ hostData' = [p \in created |-> [s \in Slots' |-> Blank]]
  /\ deviceMeta' = [p \in created |-> 0] /\ hostMeta' = [p \in created |-> 0]

-----------------------------------------------------------------------------
(* The queue.                                                              *)

Command(e, n, offset, tokens, waits) ==
  [event |-> e, call |-> n, offset |-> offset, tokens |-> tokens, waits |-> waits]

Pending(e, n) == \E c \in queue : c.event = e /\ c.call = n
EventComplete(e) == ~Pending(e, event[e])
Ready(c) == \A w \in c.waits : ~Pending(w[1], w[2])

\* Commands are enqueued; those of them that are events of a port are active.
Enqueue(commands) ==
  LET new == {c.event : c \in commands} IN
  /\ queue' = queue \union commands
  /\ event' = [e \in DOMAIN event |->
       IF e \in new THEN (CHOOSE c \in commands : c.event = e).call ELSE event[e]]
  /\ active' = [e \in PortEvents |-> active[e] \/ e \in new]

-----------------------------------------------------------------------------
(* Transfers: the interval from .. to of the ring is cut at its end.       *)

Tokens(size, from, to) == IF from <= to THEN to - from ELSE size - from + to

BadSplit(size, from, to) ==
  IF from = to THEN {} ELSE {<<"first", from, Tokens(size, from, to)>>}

\* What writeToDeviceBuffer and readFromDeviceBuffer enqueue: event, offset
\* and size of one transfer, or of two.
Split(size, from, to) ==
  LET tokens == Tokens(size, from, to)
      rest == tokens - (size - from) IN
  IF from = to THEN {}
  ELSE IF tokens + from < size THEN {<<"first", from, tokens>>}
  ELSE {<<"first", from, size - from>>} \union
       (IF rest > 0 THEN {<<"second", 0, rest>>} ELSE {})

NoTransferActive(p) == ~active[BufferEvent(p, "first")] /\ ~active[BufferEvent(p, "second")]

\* hostToDeviceTransfer and deviceToHostTransfer for both parts.
Transfer(p, from, to, n) ==
  LET parts == Split(userAllocSize, from, to) IN
  /\ Enqueue({Command(BufferEvent(p, t[1]), n, t[2], t[3], {}) : t \in parts})
  /\ profile' = [e \in BufferEvents |->
       IF \E t \in parts : e = BufferEvent(p, t[1])
       THEN LET part == CHOOSE t \in parts : e = BufferEvent(p, t[1])
            IN [offset |-> part[2], tokens |-> part[3]]
       ELSE profile[e]]

BadMetaWaits(events) == {}
MetaWaits(events) == events

EnqueueReadMeta(p, n, events) ==
  /\ Enqueue({Command(SizeEvent(p), n, 0, 0, MetaWaits(events))})
  /\ UNCHANGED profile

BadReleased(e) == e[2] = "second" /\ active[e]
Released(e) == FALSE

Log(p, n, ix) ==
  LET e == BufferEvent(p, ix)
  IN  IF active[e]
      THEN <<[call |-> n, offset |-> profile[e].offset, tokens |-> profile[e].tokens]>> ELSE <<>>

BadLogged(p, n) == Log(p, n, "first")
Logged(p, n) == Log(p, n, "first") \o Log(p, n, "second")

\* releaseEvents of every port.
ReleaseEvents(n) ==
  /\ stats' = [p \in ports |-> stats[p] \o Logged(p, n)]
  /\ active' = [e \in PortEvents |-> Released(e)]

-----------------------------------------------------------------------------
(* Completion of a command, in the driver.                                 *)

Covered(c) == c.offset .. c.offset + c.tokens - 1

CompleteTransfer(c) ==
  LET p == c.event[1] IN
  /\ c.event \in BufferEvents
  /\ IF IsInput(p)
     THEN /\ deviceData' = [deviceData EXCEPT ![p] =
               [s \in Slots |-> IF s \in Covered(c) THEN <<c.call, s>> ELSE @[s]]]
          /\ UNCHANGED hostData
     ELSE /\ hostData' = [hostData EXCEPT ![p] =
               [s \in Slots |-> IF s \in Covered(c) THEN deviceData[p][s] ELSE @[s]]]
          /\ UNCHANGED deviceData
  /\ UNCHANGED <<deviceMeta, hostMeta>>

CompleteReadMeta(c) ==
  LET p == c.event[1] IN
  /\ c.event \in PortEvents \ BufferEvents
  /\ hostMeta' = [hostMeta EXCEPT ![p] = deviceMeta[p]]
  /\ UNCHANGED <<deviceVars, hostData>>
=============================================================================

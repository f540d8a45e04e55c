----------------------------- MODULE LoopbackTest -----------------------------
(***************************************************************************)
(* bandwidth.cpp: for each buffer size a LoopbackTester, whose test() is   *)
(* called repeatedly.  A call writes all but one slot of every input ring, *)
(* runs the kernel, reads the indices it has left in the meta buffers,     *)
(* reads back what it has produced, and logs the transfers.  Busy waits    *)
(* poll events of an out-of-order queue that nothing but wait lists orders.*)
(*                                                                         *)
(* The kernel is external: on every input it takes some of the tokens, in  *)
(* order, and puts one on the output of the same number for each.  Bad...  *)
(* are plausible bugs, as in DevicePort.                                   *)
(***************************************************************************)
EXTENDS DevicePort, Functions

CONSTANT Options  \* command lines: [width, min, max, repeats, randomize]

ASSUME OptionsAssumption ==
  \A o \in Options :
    /\ o.width \in Nat \ {0} /\ o.min \in Nat \ {0}
    /\ o.max \in Nat /\ o.repeats \in Nat \ {0} /\ o.randomize \in BOOLEAN

VARIABLES
  options,           \* of main
  buffer, repeat,    \* buffer and c, the loop variables of main
  pc, k,             \* where test() is, number of a port
  callIndex,         \* call_index
  kernelWaitEvents,  \* kernel_wait_events
  args,              \* arguments of the kernel: head and tail of each port
  kernelStats        \* kernel_stats, the call indices only

mainVars == <<options, buffer, repeat>>
testVars == <<pc, k, callIndex, kernelWaitEvents, args, kernelStats>>
vars == <<portVars, head, tail, queue, infoVars, stats, deviceVars, hostVars,
          mainVars, testVars>>

In(n) == <<"in", n>>
Out(n) == <<"out", n>>
Inputs == {In(n) : n \in 1 .. options.width}
Outputs == {Out(n) : n \in 1 .. options.width}

Init ==
  /\ options \in {o \in Options : o.min <= o.max}
  /\ buffer = options.min /\ repeat = 0
  /\ NoPorts
  /\ pc = "construct" /\ k = 1
  /\ callIndex = 0 /\ kernelWaitEvents = {} /\ args = <<>> /\ kernelStats = <<>>

\* The constructor of LoopbackTester.
NewTester ==
  /\ pc = "construct"
  /\ Construct(Inputs \union Outputs, buffer)
  /\ args' = [p \in Inputs \union Outputs |-> [head |-> 0, tail |-> 0]]
  /\ callIndex' = 0 /\ kernelWaitEvents' = {} /\ kernelStats' = <<>>
  /\ pc' = "write" /\ k' = 1
  /\ UNCHANGED <<options, buffer, repeat>>

-----------------------------------------------------------------------------
(* test()                                                                  *)

\* To the next port of the loop, or past it.
NextPort(last, label) ==
  IF k < last THEN k' = k + 1 /\ UNCHANGED pc ELSE k' = 1 /\ pc' = label

\* randint(0, payload_size - 1), or nothing random.
Starts == IF options.randomize THEN Slots ELSE {0}

\* OCL_ASSERT ends the program.
AssertionFailed == pc' = "failed" /\ UNCHANGED k

BadWaitFor(p) == {e \in {BufferEvent(p, "first")} : active'[e]}

\* Lines 190 to 193.
WaitFor(p) == {e \in {BufferEvent(p, "first"), BufferEvent(p, "second")} : active'[e]}

WriteInput ==
  LET p == In(k) IN
  /\ pc = "write"
  /\ \E start \in Starts :
       /\ tail' = [tail EXCEPT ![p] = start]
       /\ head' = [head EXCEPT ![p] = (start + userAllocSize - 1) % userAllocSize]
  /\ IF NoTransferActive(p)
     THEN /\ Transfer(p, tail'[p], head'[p], callIndex)
          /\ kernelWaitEvents' = {<<e, callIndex>> : e \in WaitFor(p)} \union
                                 (IF k = 1 THEN {} ELSE kernelWaitEvents)
          /\ args' = [args EXCEPT ![p] = [head |-> head'[p], tail |-> tail'[p]]]
          /\ NextPort(options.width, "task")
     ELSE /\ AssertionFailed
          /\ UNCHANGED <<queue, infoVars, kernelWaitEvents, args>>
  /\ UNCHANGED <<portVars, stats, deviceVars, hostVars, mainVars,
                 callIndex, kernelStats>>

\* Lines 202 to 218.
EnqueueTask ==
  /\ pc = "task"
  /\ \E start \in [Outputs -> Starts] :
       LET Restarted(f, at) == [p \in ports |-> IF p \in Outputs THEN at[p] ELSE f[p]] IN
       /\ tail' = Restarted(tail, start)
       /\ head' = Restarted(head, start)
       /\ args' = Restarted(args, [p \in Outputs |-> [head |-> start[p], tail |-> start[p]]])
  /\ Enqueue({Command(KernelEvent, callIndex, 0, 0, kernelWaitEvents)})
  /\ pc' = "meta" /\ k' = 1
  /\ UNCHANGED <<portVars, profile, stats, deviceVars, hostVars, mainVars,
                 callIndex, kernelWaitEvents, kernelStats>>

ReadMeta ==
  LET p == IF k <= options.width THEN In(k) ELSE Out(k - options.width) IN
  /\ pc = "meta"
  /\ IF ~active[SizeEvent(p)]
     THEN /\ EnqueueReadMeta(p, callIndex, {<<KernelEvent, event[KernelEvent]>>})
          /\ NextPort(2 * options.width, "kernel")
          /\ callIndex' = IF k = 2 * options.width THEN callIndex + 1 ELSE callIndex
     ELSE AssertionFailed /\ UNCHANGED <<queue, infoVars, callIndex>>
  /\ UNCHANGED <<portVars, head, tail, stats, deviceVars, hostVars, mainVars,
                 kernelWaitEvents, args, kernelStats>>

\* The busy waits.  They look at one event after the other; an event that has
\* completed stays so.
KernelFinished ==
  \A p \in ports : active[SizeEvent(p)] => EventComplete(SizeEvent(p))

BadReadFinished ==
  \A p \in Outputs : LET e == BufferEvent(p, "first") IN active[e] => EventComplete(e)
ReadFinished ==
  \A p \in Outputs : \A ix \in {"first", "second"} :
    LET e == BufferEvent(p, ix) IN active[e] => EventComplete(e)

WaitUntil(label, finished, next) ==
  /\ pc = label
  /\ finished
  /\ pc' = next
  /\ UNCHANGED <<portVars, head, tail, queue, infoVars, stats, deviceVars, hostVars,
                 mainVars, k, callIndex, kernelWaitEvents, args, kernelStats>>

ReadOutput ==
  LET p == Out(k) IN
  /\ pc = "read"
  /\ IF NoTransferActive(p)
     THEN /\ Transfer(p, head[p], hostMeta[p], callIndex)
          /\ head' = [head EXCEPT ![p] = hostMeta[p]]
          /\ NextPort(options.width, "output")
     ELSE AssertionFailed /\ UNCHANGED <<head, queue, infoVars>>
  /\ UNCHANGED <<portVars, tail, stats, deviceVars, hostVars, mainVars,
                 callIndex, kernelWaitEvents, args, kernelStats>>

Release ==
  /\ pc = "release"
  /\ ReleaseEvents(callIndex)
  /\ kernelStats' = Append(kernelStats, callIndex)
  /\ pc' = "end"
  /\ UNCHANGED <<portVars, head, tail, queue, event, profile, deviceVars, hostVars,
                 mainVars, k, callIndex, kernelWaitEvents, args>>

-----------------------------------------------------------------------------
(* main                                                                    *)

BadNextSize == buffer
NextSize == 2 * buffer

\* The next call, the next buffer size, or the end.
NextCall ==
  /\ pc = "end"
  /\ IF repeat + 1 < options.repeats
     THEN pc' = "write" /\ repeat' = repeat + 1 /\ UNCHANGED buffer
     ELSE /\ pc' = IF NextSize <= options.max THEN "construct" ELSE "exit"
          /\ repeat' = 0 /\ buffer' = NextSize
  /\ k' = 1
  /\ UNCHANGED <<portVars, head, tail, queue, infoVars, stats, deviceVars, hostVars,
                 options, callIndex, kernelWaitEvents, args, kernelStats>>

-----------------------------------------------------------------------------
(* The device.                                                             *)

\* Slot number i after start.
Around(start, i) == (start + i) % userAllocSize

\* The kernel takes and puts moved[n] tokens on ports number n.
Loopback(moved) ==
  /\ deviceData' = [p \in ports |->
       IF IsInput(p) THEN deviceData[p]
       ELSE LET from == args[In(p[2])].tail
                to == args[p].head IN
            [s \in Slots |->
               IF \E i \in 0 .. moved[p[2]] - 1 : s = Around(to, i)
               THEN LET i == CHOOSE i \in 0 .. moved[p[2]] - 1 : s = Around(to, i)
                    IN deviceData[In(p[2])][Around(from, i)]
               ELSE deviceData[p][s]]]
  /\ deviceMeta' = [p \in ports |->
       Around(IF IsInput(p) THEN args[p].tail ELSE args[p].head, moved[p[2]])]

RunKernel(c) ==
  /\ c.event = KernelEvent
  /\ \E moved \in [1 .. options.width -> 0 .. userAllocSize - 1] : Loopback(moved)
  /\ UNCHANGED hostVars

Complete(c) ==
  /\ c \in queue /\ Ready(c)
  /\ queue' = queue \ {c}
  /\ CompleteTransfer(c) \/ CompleteReadMeta(c) \/ RunKernel(c)
  /\ UNCHANGED <<portVars, head, tail, infoVars, stats, mainVars, testVars>>

Host ==
  \/ NewTester \/ WriteInput \/ EnqueueTask \/ ReadMeta
  \/ WaitUntil("kernel", KernelFinished, "read")
  \/ ReadOutput
  \/ WaitUntil("output", ReadFinished, "release")
  \/ Release \/ NextCall

\* The program ends, by itself or by a failed assertion.
Ended == pc \in {"exit", "failed"} /\ UNCHANGED vars

Device == \E c \in queue : Complete(c)

Next == Host \/ Device \/ Ended

Spec == Init /\ [][Next]_vars

\* The host polls, and the driver completes every command that is ready.
FairSpec == Spec /\ WF_vars(Host) /\ WF_vars(Device)

-----------------------------------------------------------------------------
(* Properties.                                                             *)

TypeOK ==
  /\ options \in Options /\ repeat \in 0 .. options.repeats - 1
  /\ pc \in {"construct", "write", "task", "meta", "kernel", "read", "output", "release",
             "end", "exit", "failed"}
  /\ k \in 1 .. 2 * options.width
  /\ ports \in {{}, Inputs \union Outputs} /\ userAllocSize \in 0 .. options.max
  /\ buffer \in options.min .. 2 * options.max
  /\ callIndex \in 0 .. options.repeats
  /\ head \in [ports -> Slots] /\ tail \in [ports -> Slots]
  /\ \A c \in queue :
       /\ c.event \in PortEvents \union {KernelEvent} /\ c.call \in Nat
       /\ c.offset \in Slots /\ c.offset + c.tokens <= userAllocSize
  /\ event \in [PortEvents \union {KernelEvent} -> -1 .. options.repeats]
  /\ active \in [PortEvents -> BOOLEAN]
  /\ hostMeta \in [ports -> Slots] /\ deviceMeta \in [ports -> Slots]

Meta == -1

\* Where a command reads or writes: a slot of the ring, or the meta buffer, of
\* a port on the device.
Footprint(c) ==
  IF c.event = KernelEvent
  THEN UNION {{<<p, s>> : s \in Slots \union {Meta}} : p \in ports}
  ELSE {<<c.event[1], s>> : s \in IF c.event \in BufferEvents THEN Covered(c) ELSE {Meta}}

\* In an out-of-order queue two commands that touch the same part of the device
\* are ordered by a wait list (lines 210, 217, 221): no transfer runs while the
\* kernel does, and no index is read before the kernel has left it.
NoConflict ==
  \A c, d \in queue :
    \/ c = d \/ Footprint(c) \intersect Footprint(d) = {}
    \/ <<c.event, c.call>> \in d.waits \/ <<d.event, d.call>> \in c.waits

Produced(n) == Tokens(userAllocSize, tail[Out(n)], head[Out(n)])

\* When the reads have finished (line 247), the host has on each output all that
\* the kernel has made of what the host has written to the input of the same
\* number in this very call, token for token in order, wherever both rings were
\* started and wherever they wrap.
Echoed ==
  pc = "release" =>
    \A n \in 1 .. options.width :
      /\ head[Out(n)] = deviceMeta[Out(n)]
      /\ \A i \in 0 .. Produced(n) - 1 :
           hostData[Out(n)][Around(tail[Out(n)], i)] =
             <<callIndex - 1, Around(tail[In(n)], i)>>

\* Profiling information is there only for events that have completed (lines
\* 250 to 261); the host has waited for none of the writes and not for the kernel.
ReleasedComplete ==
  pc = "release" =>
    /\ \A e \in PortEvents : active[e] => EventComplete(e)
    /\ EventComplete(KernelEvent)

\* The tokens of all entries for call n.
LoggedIn(p, n) ==
  SumFunctionOnSet([l \in DOMAIN stats[p] |-> stats[p][l].tokens],
                   {l \in DOMAIN stats[p] : stats[p][l].call = n})

\* The statistics of a call are those of its own transfers: every token that
\* crossed a port is counted once under the index of the call, and there is one
\* entry of the kernel for each call.
StatsComplete ==
  pc = "end" =>
    /\ \A n \in 1 .. options.width :
         /\ \A r \in 1 .. callIndex : LoggedIn(In(n), r) = userAllocSize - 1
         /\ LoggedIn(Out(n), callIndex) = Produced(n)
    /\ kernelStats = [r \in 1 .. callIndex |-> r]

\* No OCL_ASSERT fails: events are released before they are used again.
NoAssertionFails == pc # "failed"

\* All calls for all buffer sizes return.
Exits == <>(pc = "exit")
=============================================================================

------------------------------- MODULE Sched -------------------------------
(***************************************************************************)
(* The per-core cooperative scheduler of kernel/sched.nim: the run loop,   *)
(* the bounded queue that interrupt handlers post to, the pool and heap of *)
(* timers, the timed poll hooks and the programming of the compare         *)
(* register, interleaved with the interrupt handlers.                      *)
(*                                                                         *)
(* One step of the scheduler is one statement, or one section that the     *)
(* code runs under withInterruptsDisabled; interrupt handlers run between  *)
(* steps.  A pending timer interrupt is taken before the next statement:   *)
(* the core does not execute task code past an enabled, pending interrupt. *)
(*                                                                         *)
(* Abstractions.  A callback is the kind of its poster.  A timer is its    *)
(* pool slot (TimerIds are unique while a timer is live).  The heap is the *)
(* set of slots it holds, and its root is any slot of least deadline.  The *)
(* completion ring of kernel/isrbridge.nim is its length.                  *)
(***************************************************************************)
EXTENDS Integers, Sequences

CONSTANTS
  MaxSchedulerTimers,      \* size of the timer pool
  MaxIsrPendingCallbacks,  \* size of the ISR callback queue
  MaxSchedulerTimedPollHooks,
  CompletionRingSize,      \* size of the completion ring of the ISR bridge
  HasPollHook,             \* an untimed poll hook is registered
  RepostForever,           \* BOUND lifted: callbacks may post without limit
  MaxTick,                 \* BOUND on the clock
  MaxReady,                \* BOUND on the length of the ready queue
  MaxOps,                  \* BOUND on the operations task code performs
  MaxIrqs                  \* BOUND on the device interrupts

ASSUME SizesAssumption ==
  /\ MaxSchedulerTimers \in Nat /\ MaxIsrPendingCallbacks \in Nat
  /\ MaxSchedulerTimedPollHooks \in Nat /\ CompletionRingSize \in Nat
  /\ MaxTick \in Nat /\ MaxReady \in Nat
  /\ MaxOps \in Nat /\ MaxIrqs \in Nat
ASSUME FlagsAssumption ==
  HasPollHook \in BOOLEAN /\ RepostForever \in BOOLEAN

VARIABLES
  running,        \* runScheduler was entered: interrupts are enabled
  pc, ret,        \* where the loop is; where the running callback returns to
  pass,           \* first or second drain-and-fire of an iteration
  ready, batch,   \* scheduler.ready and the snapshot runReadyCallbacks took
  isrPending,     \* the ISR callback queue, oldest first
  ringCount,      \* completions waiting in the ISR bridge
  heap,           \* slots in scheduler.timers
  used,           \* timerPoolUsed
  deadline, cancelled,  \* fields of the pool entries
  firing,         \* the entry heapPop returned, until it is released
  tick, compare,  \* mtime and mtimecmp
  programmed, fired, timerIsrFired,  \* the variables shared with the timer ISR
  now, interruptDeadline, nextDeadline,  \* locals of the loop's procedures
  hooks,          \* deadlines of the timed poll hooks
  hookIndex, hookCount, \* index and limit of the loop of runTimedPollHooks
  ops, irqs,      \* operations and device interrupts still to come
  late            \* ghost: an interrupt ran after the last check before WFI

loopVars  == <<running, pc, ret, pass>>
queueVars == <<ready, batch, isrPending, ringCount>>
timerVars == <<heap, used, deadline, cancelled, firing>>
clockVars == <<tick, compare, programmed, fired, timerIsrFired>>
localVars == <<now, interruptDeadline, nextDeadline>>
hookVars  == <<hooks, hookIndex, hookCount>>
vars == <<loopVars, queueVars, timerVars, clockVars, localVars, hookVars,
          ops, irqs, late>>

Slots == 1 .. MaxSchedulerTimers
NoSlot == 0
Ticks == 0 .. MaxTick
Never == MaxTick + 1          \* mtimecmp = 2^64 - 1: no compare interrupt
Callbacks == {"task", "isr"}

Labels == {"start", "top", "drain", "fire", "takeFlag", "takeDeadline", "clearDeadline",
           "fireLoop", "release", "ready", "batch", "poll", "timedPoll",
           "timedHook", "hookReturn", "reprogram", "setDeadline", "check", "recheck", "wfi",
           "asleep", "callback", "armTimer", "halted"}

Max2(a, b) == IF a > b THEN a ELSE b

-----------------------------------------------------------------------------

(* schedulerInit; main then starts the tasks, as a callback would. *)
Init ==
  /\ running = FALSE
  /\ pc = "callback" /\ ret = "start" /\ pass = 1
  /\ ready = <<>> /\ batch = <<>> /\ isrPending = <<>> /\ ringCount = 0
  /\ heap = {} /\ used = {} /\ firing = NoSlot
  /\ deadline = [s \in Slots |-> 0]
  /\ cancelled = [s \in Slots |-> FALSE]
  /\ tick = 0 /\ compare = Never
  /\ programmed = 0 /\ fired = 0 /\ timerIsrFired = FALSE
  /\ now = 0 /\ interruptDeadline = 0 /\ nextDeadline = 0
  /\ hooks = <<>> /\ hookIndex = 1 /\ hookCount = 0
  /\ ops = MaxOps /\ irqs = MaxIrqs /\ late = FALSE

(* The level of the machine timer interrupt. *)
TimerDue == tick >= compare

(* Code at label l runs only when no enabled interrupt is pending. *)
At(l) == pc = l /\ ~(running /\ TimerDue)

Goto(l) == pc' = l /\ UNCHANGED <<running, ret, pass>>

(* Run task code, then continue at label l. *)
Call(l) == pc' = "callback" /\ ret' = l /\ UNCHANGED <<running, pass>>

IsHeapTop(s) == s \in heap /\ \A r \in heap : deadline[s] <= deadline[r]

(***************************************************************************)
(* Interrupt handlers.  Each runs with interrupts disabled, and ends WFI.  *)
(***************************************************************************)

InterruptReturn ==
  /\ pc' = IF pc = "asleep" THEN "top" ELSE pc
  /\ late' = (late \/ pc = "wfi")
  /\ UNCHANGED <<running, ret, pass>>

DeviceInterrupt == running /\ pc # "halted" /\ irqs > 0 /\ irqs' = irqs - 1

timerIsrHandler ==
  /\ running /\ pc # "halted"
  /\ TimerDue
  /\ fired' = programmed
  /\ programmed' = 0
  /\ compare' = Never
  /\ timerIsrFired' = TRUE
  /\ InterruptReturn
  /\ UNCHANGED <<queueVars, timerVars, tick, localVars, hookVars, ops, irqs>>

(* Mutant: the queue accepts one callback too many. *)
postFromIsrOffByOne ==
  /\ DeviceInterrupt
  /\ isrPending' = IF Len(isrPending) > MaxIsrPendingCallbacks
                   THEN isrPending
                   ELSE Append(isrPending, "isr")
  /\ InterruptReturn
  /\ UNCHANGED <<ready, batch, ringCount, timerVars, clockVars, localVars,
                 hookVars, ops>>

postFromIsr ==
  /\ DeviceInterrupt
  /\ isrPending' = IF Len(isrPending) >= MaxIsrPendingCallbacks
                   THEN isrPending
                   ELSE Append(isrPending, "isr")
  /\ InterruptReturn
  /\ UNCHANGED <<ready, batch, ringCount, timerVars, clockVars, localVars,
                 hookVars, ops>>

completeIsrSlot ==
  /\ DeviceInterrupt
  /\ ringCount' = IF ringCount >= CompletionRingSize THEN ringCount
                  ELSE ringCount + 1
  /\ InterruptReturn
  /\ UNCHANGED <<ready, batch, isrPending, timerVars, clockVars, localVars,
                 hookVars, ops>>

Tick ==
  /\ tick < MaxTick
  /\ tick' = tick + 1
  /\ UNCHANGED <<loopVars, queueVars, timerVars, compare, programmed, fired,
                 timerIsrFired, localVars, hookVars, ops, irqs, late>>

(***************************************************************************)
(* Task code: what a callback, a continuation or a poll hook may call.     *)
(***************************************************************************)

post ==
  /\ At("callback")
  /\ Len(ready) < MaxReady
  /\ RepostForever \/ ops > 0
  /\ ready' = Append(ready, "task")
  /\ ops' = IF RepostForever THEN ops ELSE ops - 1
  /\ UNCHANGED <<loopVars, batch, isrPending, ringCount, timerVars, clockVars,
                 localVars, hookVars, late, irqs>>

(* The first unused pool entry. *)
IsFree(s) == s \in Slots \ used /\ \A r \in Slots \ used : s <= r

(* allocTimerEntry, heapPush and, when the new timer is at the root,       *)
(* programmedTimerDeadline; setDeadline is the next step, armTimer.        *)
addTimer(d) ==
  /\ At("callback")
  /\ ops > 0
  /\ ops' = ops - 1
  /\ \E s \in Slots :
       /\ IsFree(s)
       /\ used' = used \cup {s}
       /\ heap' = heap \cup {s}
       /\ deadline' = [deadline EXCEPT ![s] = d]
       /\ cancelled' = [cancelled EXCEPT ![s] = FALSE]
       /\ IF \A r \in heap : d < deadline[r]
          THEN programmed' = d /\ nextDeadline' = d /\ Goto("armTimer")
          ELSE UNCHANGED <<programmed, nextDeadline, loopVars>>
  /\ UNCHANGED <<queueVars, firing, tick, compare, fired, timerIsrFired, now,
                 interruptDeadline, hookVars, late, irqs>>

armTimer ==
  /\ At("armTimer")
  /\ compare' = nextDeadline
  /\ Goto("callback")
  /\ UNCHANGED <<queueVars, timerVars, tick, programmed, fired, timerIsrFired,
                 localVars, hookVars, ops, irqs, late>>

(* allocTimerEntry returned nil: faultHalt. *)
addTimerFault ==
  /\ At("callback")
  /\ ops > 0
  /\ used = Slots
  /\ Goto("halted")
  /\ UNCHANGED <<queueVars, timerVars, clockVars, localVars, hookVars, ops, irqs,
                 late>>

(* Mutant: cancelling returns the entry to the pool but leaves the pointer *)
(* in the heap. *)
cancelTimerReleases(s) ==
  /\ At("callback")
  /\ s \in heap
  /\ ops > 0
  /\ ops' = ops - 1
  /\ cancelled' = [cancelled EXCEPT ![s] = TRUE]
  /\ used' = used \ {s}
  /\ UNCHANGED <<loopVars, queueVars, heap, deadline, firing, clockVars,
                 localVars, hookVars, irqs, late>>

cancelTimer(s) ==
  /\ At("callback")
  /\ s \in heap
  /\ ops > 0
  /\ ops' = ops - 1
  /\ cancelled' = [cancelled EXCEPT ![s] = TRUE]
  /\ UNCHANGED <<loopVars, queueVars, heap, used, deadline, firing, clockVars,
                 localVars, hookVars, late, irqs>>

addSchedulerTimedPollHook(d) ==
  /\ At("callback")
  /\ Len(hooks) < MaxSchedulerTimedPollHooks
  /\ ops > 0
  /\ ops' = ops - 1
  /\ hooks' = Append(hooks, d)
  /\ UNCHANGED <<loopVars, queueVars, timerVars, clockVars, localVars,
                 hookIndex, hookCount, late, irqs>>

callbackReturn ==
  /\ At("callback")
  /\ pc' = ret
  /\ UNCHANGED <<running, ret, pass, queueVars, timerVars, clockVars, localVars,
                 hookVars, ops, irqs, late>>

(***************************************************************************)
(* The run loop.                                                           *)
(***************************************************************************)

runScheduler ==
  /\ At("start")
  /\ running' = TRUE
  /\ pc' = "top"
  /\ UNCHANGED <<ret, pass, queueVars, timerVars, clockVars, localVars,
                 hookVars, ops, irqs, late>>

(* Mutant: the queue is drained only when callbacks are ready anyway. *)
drainIsrPendingIfReady ==
  /\ At("top")
  /\ IF ready # <<>>
     THEN ready' = ready \o isrPending /\ isrPending' = <<>>
     ELSE UNCHANGED <<ready, isrPending>>
  /\ pc' = "drain" /\ pass' = 1 /\ late' = FALSE
  /\ UNCHANGED <<running, ret, batch, ringCount, timerVars, clockVars,
                 localVars, hookVars, ops, irqs>>

(* 1. drainIsrPending, with interrupts disabled *)
drainIsrPending ==
  /\ At("top")
  /\ ready' = ready \o isrPending
  /\ isrPending' = <<>>
  /\ pc' = "drain" /\ pass' = 1 /\ late' = FALSE
  /\ UNCHANGED <<running, ret, batch, ringCount, timerVars, clockVars, localVars,
                 hookVars, ops, irqs>>

(* Mutant: the ring is drained once, and not until it is empty. *)
drainIsrCompletionsKeeps ==
  /\ At("drain")
  /\ UNCHANGED ringCount
  /\ IF ringCount > 0 /\ pass = 1 THEN Call("fire") ELSE Goto("fire")
  /\ UNCHANGED <<ready, batch, isrPending, timerVars, clockVars, localVars,
                 hookVars, ops, irqs, late>>

(* drainIsrCompletions: take one entry, then complete its future. *)
drainIsrCompletions ==
  /\ At("drain")
  /\ IF ringCount > 0
     THEN ringCount' = ringCount - 1 /\ Call("drain")
     ELSE UNCHANGED ringCount /\ Goto("fire")
  /\ UNCHANGED <<ready, batch, isrPending, timerVars, clockVars, localVars,
                 hookVars, ops, irqs, late>>

(* 2. fireExpiredTimers *)
fireReadTick ==
  /\ At("fire")
  /\ now' = tick /\ interruptDeadline' = 0
  /\ Goto("takeFlag")
  /\ UNCHANGED <<queueVars, timerVars, clockVars, nextDeadline, hookVars, ops, irqs,
                 late>>

fireTakeFlag ==
  /\ At("takeFlag")
  /\ timerIsrFired' = FALSE
  /\ Goto(IF timerIsrFired THEN "takeDeadline" ELSE "fireLoop")
  /\ UNCHANGED <<queueVars, timerVars, tick, compare, programmed, fired,
                 localVars, hookVars, ops, irqs, late>>

fireTakeDeadline ==
  /\ At("takeDeadline")
  /\ interruptDeadline' = fired
  /\ now' = Max2(now, fired)
  /\ Goto("clearDeadline")
  /\ UNCHANGED <<queueVars, timerVars, clockVars, nextDeadline, hookVars, ops, irqs,
                 late>>

fireClearDeadline ==
  /\ At("clearDeadline")
  /\ fired' = 0
  /\ Goto("fireLoop")
  /\ UNCHANGED <<queueVars, timerVars, tick, compare, programmed,
                 timerIsrFired, localVars, hookVars, ops, irqs, late>>

(* Mutants: a timer fires one tick early; a cancelled timer fires; a       *)
(* cancelled timer at the root ends the pass. *)
firePopEarly ==
  /\ At("fireLoop")
  /\ \E s \in heap :
       /\ IsHeapTop(s)
       /\ deadline[s] <= now + 1
       /\ heap' = heap \ {s}
       /\ firing' = s
       /\ IF cancelled[s] THEN Goto("release") ELSE Call("release")
  /\ UNCHANGED <<queueVars, used, deadline, cancelled, clockVars, localVars,
                 hookVars, ops, irqs, late>>

firePopCancelled ==
  /\ At("fireLoop")
  /\ \E s \in heap :
       /\ IsHeapTop(s)
       /\ deadline[s] <= now
       /\ heap' = heap \ {s}
       /\ firing' = s
       /\ Call("release")
  /\ UNCHANGED <<queueVars, used, deadline, cancelled, clockVars, localVars,
                 hookVars, ops, irqs, late>>

firePopStuck ==
  /\ At("fireLoop")
  /\ \E s \in heap :
       /\ IsHeapTop(s)
       /\ deadline[s] <= now
       /\ IF cancelled[s]
          THEN /\ Goto(IF pass = 1 THEN "ready" ELSE "reprogram")
               /\ UNCHANGED <<heap, firing>>
          ELSE heap' = heap \ {s} /\ firing' = s /\ Call("release")
  /\ UNCHANGED <<queueVars, used, deadline, cancelled, clockVars, localVars,
                 hookVars, ops, irqs, late>>

(* heapPop, and the callback unless the timer was cancelled *)
firePop ==
  /\ At("fireLoop")
  /\ \E s \in heap :
       /\ IsHeapTop(s)
       /\ deadline[s] <= now
       /\ heap' = heap \ {s}
       /\ firing' = s
       /\ IF cancelled[s] THEN Goto("release") ELSE Call("release")
  /\ UNCHANGED <<queueVars, used, deadline, cancelled, clockVars, localVars,
                 hookVars, ops, irqs, late>>

fireDone ==
  /\ At("fireLoop")
  /\ \A s \in heap : deadline[s] > now
  /\ Goto(IF pass = 1 THEN "ready" ELSE "reprogram")
  /\ UNCHANGED <<queueVars, timerVars, clockVars, localVars, hookVars, ops, irqs,
                 late>>

releaseTimerEntry ==
  /\ At("release")
  /\ deadline' = [deadline EXCEPT ![firing] = 0]
  /\ cancelled' = [cancelled EXCEPT ![firing] = FALSE]
  /\ used' = used \ {firing}
  /\ firing' = NoSlot
  /\ now' = Max2(tick, interruptDeadline)
  /\ Goto("fireLoop")
  /\ UNCHANGED <<queueVars, heap, clockVars, interruptDeadline, nextDeadline,
                 hookVars, ops, irqs, late>>

(* 3. runReadyCallbacks *)
takeBatch ==
  /\ At("ready")
  /\ batch' = ready /\ ready' = <<>>
  /\ Goto(IF ready = <<>> THEN "poll" ELSE "batch")
  /\ UNCHANGED <<isrPending, ringCount, timerVars, clockVars, localVars,
                 hookVars, ops, irqs, late>>

runBatch ==
  /\ At("batch")
  /\ IF batch # <<>>
     THEN batch' = Tail(batch) /\ Call("batch") /\ UNCHANGED <<ready, isrPending>>
     ELSE /\ ready' = ready \o isrPending /\ isrPending' = <<>>
          /\ Goto("ready") /\ UNCHANGED batch
  /\ UNCHANGED <<ringCount, timerVars, clockVars, localVars, hookVars, ops, irqs,
                 late>>

(* 4. runPollHooks and runTimedPollHooks(readTick()) *)
runPollHooks ==
  /\ At("poll")
  /\ IF HasPollHook THEN Call("timedPoll") ELSE Goto("timedPoll")
  /\ UNCHANGED <<queueVars, timerVars, clockVars, localVars, hookVars, ops, irqs,
                 late>>

HookDue(i, t) == hooks[i] # 0 /\ hooks[i] <= t

timedPollReadTick ==
  /\ At("timedPoll")
  /\ now' = tick
  /\ hookIndex' = 1 /\ hookCount' = Len(hooks)
  /\ Goto("timedHook")
  /\ UNCHANGED <<queueVars, timerVars, clockVars, interruptDeadline,
                 nextDeadline, hooks, ops, irqs, late>>

runTimedHook ==
  /\ At("timedHook")
  /\ hookIndex <= hookCount
  /\ IF HookDue(hookIndex, now)
     THEN Call("hookReturn") /\ UNCHANGED hookIndex
     ELSE hookIndex' = hookIndex + 1 /\ UNCHANGED loopVars
  /\ UNCHANGED <<queueVars, timerVars, clockVars, localVars, hooks, hookCount,
                 ops, irqs, late>>

(* A hook returns its next deadline; 0 disables it. *)
timedHookReturn ==
  /\ At("hookReturn")
  /\ \E d \in {0} \cup (now + 1 .. MaxTick) :
       hooks' = [hooks EXCEPT ![hookIndex] = d]
  /\ hookIndex' = hookIndex + 1
  /\ Goto("timedHook")
  /\ UNCHANGED <<queueVars, timerVars, clockVars, localVars, hookCount, ops, irqs,
                 late>>

(* 5. the second drainIsrCompletions and fireExpiredTimers *)
secondPass ==
  /\ At("timedHook")
  /\ hookIndex > hookCount
  /\ pc' = "drain" /\ pass' = 2
  /\ UNCHANGED <<running, ret, queueVars, timerVars, clockVars, localVars, hookVars,
                 ops, irqs, late>>

(* 6. reprogramNextDeadline: the earliest heap or hook deadline, 0 if none *)
HookDeadlines == {hooks[i] : i \in {j \in 1 .. Len(hooks) : hooks[j] # 0}}
Deadlines == {deadline[s] : s \in heap} \cup HookDeadlines

reprogramNextDeadline ==
  /\ At("reprogram")
  /\ \/ Deadlines = {} /\ nextDeadline' = 0
     \/ nextDeadline' \in Deadlines /\ \A d \in Deadlines : nextDeadline' <= d
  /\ programmed' = nextDeadline'
  /\ Goto("setDeadline")
  /\ UNCHANGED <<queueVars, timerVars, tick, compare, fired, timerIsrFired,
                 now, interruptDeadline, hookVars, ops, irqs, late>>

(* setDeadline(programmedTimerDeadline): the timer ISR may have cleared    *)
(* the variable since, and the compiler may or may not read it again.      *)
setDeadline ==
  /\ At("setDeadline")
  /\ IF nextDeadline # 0 THEN compare' \in {nextDeadline, programmed}
     ELSE compare' = Never
  /\ Goto("check")
  /\ UNCHANGED <<queueVars, timerVars, tick, programmed, fired, timerIsrFired,
                 localVars, hookVars, ops, irqs, late>>

(* Mutant: the flag of the timer ISR is not looked at. *)
shouldSleepIgnoringTimer ==
  /\ ready = <<>> /\ isrPending = <<>> /\ ringCount = 0
  /\ ~HasPollHook
  /\ \A i \in 1 .. Len(hooks) : ~HookDue(i, tick)

shouldSleep ==
  /\ ready = <<>> /\ isrPending = <<>> /\ ringCount = 0
  /\ ~timerIsrFired
  /\ ~HasPollHook
  /\ \A i \in 1 .. Len(hooks) : ~HookDue(i, tick)

checkSleep ==
  /\ At("check")
  /\ Goto(IF shouldSleep THEN "recheck" ELSE "top")
  /\ UNCHANGED <<queueVars, timerVars, clockVars, localVars, hookVars, ops, irqs,
                 late>>

(* The second check; interrupts are enabled again before wfi(). *)
recheckSleep ==
  /\ At("recheck")
  /\ Goto(IF shouldSleep THEN "wfi" ELSE "top")
  /\ UNCHANGED <<queueVars, timerVars, clockVars, localVars, hookVars, ops, irqs,
                 late>>

wfi ==
  /\ At("wfi")
  /\ Goto("asleep")
  /\ UNCHANGED <<queueVars, timerVars, clockVars, localVars, hookVars, ops, irqs,
                 late>>

(* faultHalt never returns. *)
faultHalt ==
  /\ pc = "halted"
  /\ UNCHANGED vars

-----------------------------------------------------------------------------

TaskCode ==
  \/ post \/ armTimer \/ addTimerFault \/ callbackReturn
  \/ \E d \in tick .. MaxTick : addTimer(d)
  \/ \E s \in Slots : cancelTimer(s)
  \/ \E d \in tick .. MaxTick : addSchedulerTimedPollHook(d)

Loop ==
  \/ runScheduler \/ drainIsrPending \/ drainIsrCompletions
  \/ fireReadTick \/ fireTakeFlag \/ fireTakeDeadline \/ fireClearDeadline
  \/ firePop \/ fireDone \/ releaseTimerEntry
  \/ takeBatch \/ runBatch
  \/ runPollHooks \/ timedPollReadTick \/ runTimedHook
  \/ timedHookReturn \/ secondPass
  \/ reprogramNextDeadline \/ setDeadline
  \/ checkSleep \/ recheckSleep \/ wfi

Interrupts == timerIsrHandler \/ postFromIsr \/ completeIsrSlot

Next == TaskCode \/ Loop \/ Interrupts \/ Tick \/ faultHalt

Spec == Init /\ [][Next]_vars

(* The core executes instructions, takes a pending timer interrupt, and    *)
(* time passes; devices owe the system no interrupt.                       *)
FairSpec ==
  /\ Spec
  /\ WF_vars(TaskCode \/ Loop)
  /\ WF_vars(timerIsrHandler)
  /\ WF_vars(Tick)
-----------------------------------------------------------------------------
(***************************************************************************)
(* Properties.                                                             *)
(***************************************************************************)

(* Every variable has its type: queues within their fixed sizes, entries   *)
(* inside the pool, deadlines on the clock. *)
TypeOK ==
  /\ running \in BOOLEAN
  /\ pc \in Labels /\ ret \in Labels /\ pass \in {1, 2}
  /\ ready \in Seq(Callbacks) /\ batch \in Seq(Callbacks)
  /\ isrPending \in Seq(Callbacks)
  /\ Len(isrPending) <= MaxIsrPendingCallbacks
  /\ ringCount \in 0 .. CompletionRingSize
  /\ heap \in SUBSET Slots /\ used \in SUBSET Slots
  /\ firing \in Slots \cup {NoSlot}
  /\ deadline \in [Slots -> Ticks] /\ cancelled \in [Slots -> BOOLEAN]
  /\ tick \in Ticks /\ compare \in Ticks \cup {Never}
  /\ programmed \in Ticks /\ fired \in Ticks /\ timerIsrFired \in BOOLEAN
  /\ now \in Ticks /\ interruptDeadline \in Ticks /\ nextDeadline \in Ticks
  /\ hooks \in Seq(Ticks) /\ Len(hooks) <= MaxSchedulerTimedPollHooks
  /\ hookIndex \in Nat \ {0} /\ hookCount \in 0 .. Len(hooks)
  /\ ops \in 0 .. MaxOps /\ irqs \in 0 .. MaxIrqs /\ late \in BOOLEAN

FiringSlots == {firing} \ {NoSlot}

(* The timer pool neither leaks nor aliases an entry (allocTimerEntry,     *)
(* heapPop, releaseTimerEntry): an entry is in use exactly while the heap  *)
(* points to it or its callback runs, and never both. *)
PoolConsistent ==
  /\ used = heap \cup FiringSlots
  /\ firing \notin heap

(* fireExpiredTimers calls a timer's callback only at or after its         *)
(* deadline, although it takes the current time from the variables the     *)
(* timer ISR and addTimer share, and never calls it for a cancelled timer. *)
TimerCallbackRuns == pc = "callback" /\ ret = "release"
NoEarlyTimer == TimerCallbackRuns => deadline[firing] <= tick
NoCancelledTimer == TimerCallbackRuns => ~cancelled[firing]

(* When the core sleeps, and no interrupt ran between the last check and   *)
(* the WFI instruction, there was nothing to do: both interrupt queues and *)
(* the ready queue are empty, and the compare register is set no later     *)
(* than the earliest timer or hook deadline, so that it wakes the core. *)
SleepsOnlyWhenIdle ==
  pc = "asleep" /\ ~late =>
    /\ ready = <<>> /\ isrPending = <<>> /\ ringCount = 0
    /\ \A d \in Deadlines : compare <= d

(* drainIsrPending: what an ISR posted is moved to the ready queue. *)
IsrPostsDrained == isrPending # <<>> ~> (isrPending = <<>> \/ pc = "halted")

(* drainIsrCompletions: what an ISR completed is taken from the ring. *)
CompletionsDrained == ringCount > 0 ~> (ringCount = 0 \/ pc = "halted")

(* Every timer leaves the heap: it fires, or is discarded if cancelled. *)
TimersExpire == \A s \in Slots : s \in heap ~> (s \notin heap \/ pc = "halted")
=============================================================================

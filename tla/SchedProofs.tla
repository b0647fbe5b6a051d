---------------------------- MODULE SchedProofs ----------------------------
(***************************************************************************)
(* Proofs about Sched, for every size of its queues, pools and bounds.     *)
(***************************************************************************)
EXTENDS Sched, SequenceTheorems, TLAPS

USE DEF loopVars, queueVars, timerVars, clockVars, localVars, hookVars

-----------------------------------------------------------------------------
(* Type correctness. *)

LEMMA LabelFacts ==
  /\ "start" \in Labels /\ "top" \in Labels /\ "drain" \in Labels
  /\ "fire" \in Labels /\ "takeFlag" \in Labels /\ "takeDeadline" \in Labels
  /\ "clearDeadline" \in Labels /\ "fireLoop" \in Labels
  /\ "release" \in Labels /\ "ready" \in Labels /\ "batch" \in Labels
  /\ "poll" \in Labels /\ "timedPoll" \in Labels /\ "timedHook" \in Labels
  /\ "hookReturn" \in Labels /\ "reprogram" \in Labels
  /\ "setDeadline" \in Labels /\ "check" \in Labels /\ "recheck" \in Labels
  /\ "wfi" \in Labels /\ "asleep" \in Labels /\ "callback" \in Labels
  /\ "armTimer" \in Labels /\ "halted" \in Labels
BY Zenon DEF Labels

LEMMA QueueFacts ==
  /\ \A s, t \in Seq(Callbacks) : s \o t \in Seq(Callbacks)
  /\ \A s \in Seq(Callbacks) : s # <<>> => Tail(s) \in Seq(Callbacks)
  /\ <<>> \in Seq(Callbacks) /\ Len(<<>>) = 0
BY ConcatProperties, HeadTailProperties

LEMMA TickFacts ==
  /\ Ticks \subseteq Int /\ Never \in Int
  /\ \A t \in Ticks : 0 <= t /\ t < Never
BY SizesAssumption DEF Ticks, Never

LEMMA MaxType == \A a, b \in Ticks : Max2(a, b) \in Ticks
BY Zenon DEF Max2

LEMMA HookUpdate ==
  ASSUME NEW h \in Seq(Ticks), NEW i, NEW d \in Ticks
  PROVE  /\ [h EXCEPT ![i] = d] \in Seq(Ticks)
         /\ Len([h EXCEPT ![i] = d]) = Len(h)
<1> DEFINE u == [h EXCEPT ![i] = d]
<1>1. h \in [1 .. Len(h) -> Ticks] /\ Len(h) \in Nat
  BY Zenon, LenProperties
<1>2. u \in [1 .. Len(h) -> Ticks]
  BY Zenon, <1>1
<1>3. u \in Seq(Ticks)
  BY <1>1, <1>2, SeqDef, Zenon
<1>4. Len(u) = Len(h)
  BY <1>1, <1>2, <1>3, LenProperties
<1> QED BY Zenon, <1>3, <1>4

LEMMA DeadlinesType == TypeOK => Deadlines \in SUBSET Ticks
<1> SUFFICES ASSUME TypeOK, NEW d \in Deadlines PROVE d \in Ticks
    OBVIOUS
<1>1. CASE \E s \in heap : d = deadline[s]
  BY Zenon, <1>1 DEF TypeOK
<1>2. CASE \E i \in 1 .. Len(hooks) : d = hooks[i]
  BY <1>2, ElementOfSeq DEF TypeOK
<1> QED BY Zenon, <1>1, <1>2 DEF Deadlines, HookDeadlines

LEMMA InitType == Init => TypeOK
<1> SUFFICES ASSUME Init PROVE TypeOK
    OBVIOUS
<1> USE SizesAssumption, LabelFacts
<1>1. /\ running \in BOOLEAN /\ late \in BOOLEAN /\ timerIsrFired \in BOOLEAN
      /\ pc \in Labels /\ ret \in Labels /\ pass \in {1, 2}
  BY Zenon DEF Init
<1>2. /\ ready \in Seq(Callbacks) /\ batch \in Seq(Callbacks)
      /\ isrPending \in Seq(Callbacks) /\ Len(isrPending) = 0
      /\ hooks \in Seq(Ticks) /\ Len(hooks) = 0
  BY DEF Init
<1>3. /\ ringCount \in 0 .. CompletionRingSize
      /\ ops \in 0 .. MaxOps /\ irqs \in 0 .. MaxIrqs
      /\ tick \in Ticks /\ compare \in Ticks \cup {Never}
      /\ programmed \in Ticks /\ fired \in Ticks /\ now \in Ticks
      /\ interruptDeadline \in Ticks /\ nextDeadline \in Ticks
      /\ hookIndex \in Nat \ {0} /\ hookCount \in 0 .. 0
  BY DEF Init, Ticks, Never
<1>4. /\ heap \in SUBSET Slots /\ used \in SUBSET Slots
      /\ firing \in Slots \cup {NoSlot}
  BY Zenon DEF Init
<1>5. deadline \in [Slots -> Ticks] /\ cancelled \in [Slots -> BOOLEAN]
  BY DEF Init, Ticks
<1> QED BY <1>1, <1>2, <1>3, <1>4, <1>5 DEF TypeOK

LEMMA InterruptType ==
  TypeOK /\ Interrupts => TypeOK'
<1> SUFFICES ASSUME TypeOK, Interrupts PROVE TypeOK'
    OBVIOUS
<1> USE SizesAssumption, LabelFacts
<1>1. CASE timerIsrHandler
  BY <1>1 DEF TypeOK, timerIsrHandler, InterruptReturn, Ticks, Never
<1>2. CASE postFromIsr
  BY <1>2 DEF TypeOK, postFromIsr, DeviceInterrupt, InterruptReturn, Callbacks
<1>3. CASE completeIsrSlot
  BY <1>3 DEF TypeOK, completeIsrSlot, DeviceInterrupt, InterruptReturn
<1> QED BY Zenon, <1>1, <1>2, <1>3 DEF Interrupts

LEMMA TaskType ==
  TypeOK /\ TaskCode => TypeOK'
<1> SUFFICES ASSUME TypeOK, TaskCode PROVE TypeOK'
    OBVIOUS
<1> USE SizesAssumption, LabelFacts DEF At, Goto
<1>1. CASE post
  BY <1>1 DEF TypeOK, post, Callbacks
<1>2. CASE armTimer
  BY Zenon, <1>2 DEF TypeOK, armTimer
<1>3. CASE addTimerFault
  BY Zenon, <1>3 DEF TypeOK, addTimerFault
<1>4. CASE callbackReturn
  BY Zenon, <1>4 DEF TypeOK, callbackReturn
<1>5. ASSUME NEW d \in tick .. MaxTick, addTimer(d) PROVE TypeOK'
  <2>1. d \in Ticks
    BY DEF TypeOK, Ticks
  <2>2. /\ used' \in SUBSET Slots /\ heap' \in SUBSET Slots
        /\ deadline' \in [Slots -> Ticks] /\ cancelled' \in [Slots -> BOOLEAN]
    <3>1. PICK s \in Slots : /\ used' = used \cup {s} /\ heap' = heap \cup {s}
                             /\ deadline' = [deadline EXCEPT ![s] = d]
                             /\ cancelled' = [cancelled EXCEPT ![s] = FALSE]
      BY Zenon, <1>5 DEF addTimer
    <3>2. /\ heap \in SUBSET Slots /\ used \in SUBSET Slots
          /\ deadline \in [Slots -> Ticks] /\ cancelled \in [Slots -> BOOLEAN]
      BY Zenon DEF TypeOK
    <3> QED BY <2>1, <3>1, <3>2
  <2>3. /\ running' \in BOOLEAN /\ pc' \in Labels /\ ret' \in Labels
        /\ pass' \in {1, 2} /\ programmed' \in Ticks /\ nextDeadline' \in Ticks
    BY Zenon, <1>5, <2>1 DEF TypeOK, addTimer
  <2>4. ops' \in 0 .. MaxOps
    <3>1. ops \in 0 .. MaxOps /\ ops > 0 /\ ops' = ops - 1
      BY Zenon, <1>5 DEF TypeOK, addTimer
    <3> QED BY <3>1
  <2> QED BY Zenon, <1>5, <2>2, <2>3, <2>4 DEF TypeOK, addTimer
<1>6. ASSUME NEW s \in Slots, cancelTimer(s) PROVE TypeOK'
  BY <1>6 DEF TypeOK, cancelTimer
<1>7. ASSUME NEW d \in tick .. MaxTick, addSchedulerTimedPollHook(d)
      PROVE TypeOK'
  <2>1. d \in Ticks
    BY DEF TypeOK, Ticks
  <2>2. /\ hooks \in Seq(Ticks) /\ hooks' = Append(hooks, d)
        /\ Len(hooks) < MaxSchedulerTimedPollHooks
        /\ hookCount \in 0 .. Len(hooks) /\ hookCount' = hookCount
        /\ ops \in 0 .. MaxOps /\ ops > 0 /\ ops' = ops - 1
    BY Zenon, <1>7 DEF TypeOK, addSchedulerTimedPollHook
  <2>3. hooks' \in Seq(Ticks) /\ Len(hooks') = Len(hooks) + 1
    BY <2>1, <2>2
  <2>4. /\ Len(hooks') <= MaxSchedulerTimedPollHooks
        /\ hookCount' \in 0 .. Len(hooks') /\ ops' \in 0 .. MaxOps
    BY <2>2, <2>3
  <2> QED BY Zenon, <1>7, <2>3, <2>4 DEF TypeOK, addSchedulerTimedPollHook
<1> QED BY Zenon, <1>1, <1>2, <1>3, <1>4, <1>5, <1>6, <1>7 DEF TaskCode

LEMMA LoopType ==
  TypeOK /\ Loop => TypeOK'
<1> SUFFICES ASSUME TypeOK, Loop PROVE TypeOK'
    OBVIOUS
<1> USE SizesAssumption, LabelFacts DEF At, Goto, Call
<1>1. CASE runScheduler
  BY Zenon, <1>1 DEF TypeOK, runScheduler
<1>2. CASE drainIsrPending
  <2>1. /\ ready' \in Seq(Callbacks)
        /\ isrPending' \in Seq(Callbacks) /\ Len(isrPending') = 0
    BY Zenon, <1>2, QueueFacts DEF TypeOK, drainIsrPending
  <2>2. pc' \in Labels /\ pass' \in {1, 2} /\ late' \in BOOLEAN
    BY Zenon, <1>2 DEF drainIsrPending
  <2>3. Len(isrPending') <= MaxIsrPendingCallbacks
    BY <2>1
  <2> QED BY Zenon, <1>2, <2>1, <2>2, <2>3 DEF TypeOK, drainIsrPending
<1>3. CASE drainIsrCompletions
  BY <1>3 DEF TypeOK, drainIsrCompletions
<1>4. CASE fireReadTick
  BY <1>4 DEF TypeOK, fireReadTick, Ticks
<1>5. CASE fireTakeFlag
  BY Zenon, <1>5 DEF TypeOK, fireTakeFlag
<1>6. CASE fireTakeDeadline
  BY Zenon, <1>6, MaxType DEF TypeOK, fireTakeDeadline
<1>7. CASE fireClearDeadline
  BY <1>7 DEF TypeOK, fireClearDeadline, Ticks
<1>8. CASE firePop
  BY Zenon, <1>8 DEF TypeOK, firePop, IsHeapTop
<1>9. CASE fireDone
  BY Zenon, <1>9 DEF TypeOK, fireDone
<1>10. CASE releaseTimerEntry
  <2>1. 0 \in Ticks /\ now' \in Ticks
    BY <1>10, MaxType DEF TypeOK, releaseTimerEntry, Ticks
  <2>2. deadline' \in [Slots -> Ticks] /\ cancelled' \in [Slots -> BOOLEAN]
    BY Zenon, <1>10, <2>1 DEF TypeOK, releaseTimerEntry
  <2> QED BY Zenon, <1>10, <2>1, <2>2 DEF TypeOK, releaseTimerEntry
<1>11. CASE takeBatch
  BY <1>11 DEF TypeOK, takeBatch
<1>12. CASE runBatch
  <2>1. CASE batch # <<>>
    <3>1. batch' \in Seq(Callbacks)
      BY Zenon, <1>12, <2>1, QueueFacts DEF TypeOK, runBatch
    <3> QED BY Zenon, <1>12, <2>1, <3>1 DEF TypeOK, runBatch
  <2>2. CASE batch = <<>>
    <3>1. /\ ready' \in Seq(Callbacks)
          /\ isrPending' \in Seq(Callbacks) /\ Len(isrPending') = 0
      <4>1. ready' = ready \o isrPending /\ isrPending' = <<>>
        BY Zenon, <1>12, <2>2 DEF runBatch
      <4>2. ready \in Seq(Callbacks) /\ isrPending \in Seq(Callbacks)
        BY Zenon DEF TypeOK
      <4> QED BY Zenon, <4>1, <4>2, QueueFacts
    <3>2. Len(isrPending') <= MaxIsrPendingCallbacks
      BY <3>1
    <3> QED BY Zenon, <1>12, <2>2, <3>1, <3>2 DEF TypeOK, runBatch
  <2> QED BY Zenon, <2>1, <2>2
<1>13. CASE runPollHooks
  BY Zenon, <1>13 DEF TypeOK, runPollHooks
<1>14. CASE timedPollReadTick
  BY <1>14 DEF TypeOK, timedPollReadTick
<1>15. CASE runTimedHook
  BY <1>15 DEF TypeOK, runTimedHook
<1>16. CASE timedHookReturn
  <2>1. PICK d \in {0} \cup (now + 1 .. MaxTick) :
          hooks' = [hooks EXCEPT ![hookIndex] = d]
    BY Zenon, <1>16 DEF timedHookReturn
  <2>2. d \in Ticks
    BY DEF TypeOK, Ticks
  <2>3. hooks' \in Seq(Ticks) /\ Len(hooks') = Len(hooks)
    BY Zenon, <2>1, <2>2, HookUpdate DEF TypeOK
  <2> QED BY <1>16, <2>3 DEF TypeOK, timedHookReturn
<1>17. CASE secondPass
  BY Zenon, <1>17 DEF TypeOK, secondPass
<1>18. CASE reprogramNextDeadline
  <2>1. 0 \in Ticks
    BY DEF Ticks
  <2>2. nextDeadline' \in Ticks /\ programmed' \in Ticks
    BY Zenon, <1>18, <2>1, DeadlinesType DEF reprogramNextDeadline
  <2> QED BY Zenon, <1>18, <2>2 DEF TypeOK, reprogramNextDeadline
<1>19. CASE setDeadline
  BY Zenon, <1>19 DEF TypeOK, setDeadline
<1>20. CASE checkSleep
  BY Zenon, <1>20 DEF TypeOK, checkSleep
<1>21. CASE recheckSleep
  BY Zenon, <1>21 DEF TypeOK, recheckSleep
<1>22. CASE wfi
  BY Zenon, <1>22 DEF TypeOK, wfi
<1> QED
  BY Zenon, <1>1, <1>2, <1>3, <1>4, <1>5, <1>6, <1>7, <1>8, <1>9, <1>10, <1>11,
     <1>12, <1>13, <1>14, <1>15, <1>16, <1>17, <1>18, <1>19, <1>20, <1>21,
     <1>22 DEF Loop

LEMMA StepType == TypeOK /\ [Next]_vars => TypeOK'
<1> SUFFICES ASSUME TypeOK, [Next]_vars PROVE TypeOK'
    OBVIOUS
<1>1. CASE Tick
  BY <1>1, SizesAssumption DEF TypeOK, Tick, Ticks
<1>2. CASE faultHalt \/ UNCHANGED vars
  BY Zenon, <1>2 DEF TypeOK, faultHalt, vars
<1> QED BY Zenon, <1>1, <1>2, InterruptType, TaskType, LoopType DEF Next

(* The scheduler keeps its variables in their types: in particular the     *)
(* ISR queue and the completion ring never hold more than their sizes, and *)
(* every deadline the loop handles is one that was asked for. *)
THEOREM TypeCorrect == Spec => []TypeOK
BY InitType, StepType, PTL DEF Spec

-----------------------------------------------------------------------------
(* The timer pool.                                                         *)
(*                                                                         *)
(* PoolConsistent is not inductive: firePop overwrites firing, and         *)
(* releaseTimerEntry trusts it.  FiringPhase ties firing to the only part  *)
(* of the loop that owns a popped entry.                                   *)

InTimerCallback ==
  pc \in {"callback", "armTimer", "halted"} /\ ret = "release"

FiringPhase == firing # NoSlot <=> (pc = "release" \/ InTimerCallback)

FiringNotCancelled == InTimerCallback => ~cancelled[firing]

PoolInv == TypeOK /\ PoolConsistent /\ FiringPhase /\ FiringNotCancelled

LEMMA InitPool == Init => PoolInv
BY Zenon, InitType DEF Init, PoolInv, PoolConsistent, FiringSlots, FiringPhase,
                FiringNotCancelled, InTimerCallback

LEMMA StepPool == PoolInv /\ [Next]_vars => PoolInv'
<1> SUFFICES ASSUME PoolInv, [Next]_vars PROVE PoolInv'
    OBVIOUS
<1>t. TypeOK /\ TypeOK'
  BY Zenon, StepType DEF PoolInv
<1> USE DEF PoolInv, PoolConsistent, FiringSlots, FiringPhase,
            FiringNotCancelled, InTimerCallback
<1>1. CASE TaskCode
  <2> USE <1>t DEF At, Goto
  <2>1. CASE post BY Zenon, <2>1 DEF post
  <2>2. CASE armTimer BY Zenon, <2>2 DEF armTimer
  <2>3. CASE addTimerFault BY Zenon, <2>3 DEF addTimerFault
  <2>4. CASE callbackReturn BY Zenon, <2>4 DEF callbackReturn
  <2>5. ASSUME NEW d \in tick .. MaxTick, addTimer(d) PROVE PoolInv'
    <3>1. PICK s \in Slots : /\ s \notin used
                             /\ used' = used \cup {s} /\ heap' = heap \cup {s}
                             /\ cancelled' = [cancelled EXCEPT ![s] = FALSE]
      BY Zenon, <2>5 DEF addTimer, IsFree
    <3>2. firing' = firing /\ ret' = ret
          /\ pc = "callback" /\ pc' \in {"callback", "armTimer"}
      BY Zenon, <2>5 DEF addTimer
    <3>3. firing # s
      BY <3>1 DEF TypeOK, Slots, NoSlot
    <3> QED BY Zenon, <3>1, <3>2, <3>3 DEF TypeOK
  <2>6. ASSUME NEW s \in Slots, cancelTimer(s) PROVE PoolInv'
    BY Zenon, <2>6 DEF cancelTimer, TypeOK
  <2>7. ASSUME NEW d \in tick .. MaxTick, addSchedulerTimedPollHook(d)
        PROVE PoolInv'
    BY Zenon, <2>7 DEF addSchedulerTimedPollHook
  <2> QED BY Zenon, <1>1, <2>1, <2>2, <2>3, <2>4, <2>5, <2>6, <2>7 DEF TaskCode
<1>2. CASE Loop
  <2> USE <1>t DEF At, Goto, Call
  <2>1. CASE runScheduler BY Zenon, <2>1 DEF runScheduler
  <2>2. CASE drainIsrPending BY Zenon, <2>2 DEF drainIsrPending
  <2>3. CASE drainIsrCompletions BY Zenon, <2>3 DEF drainIsrCompletions
  <2>4. CASE fireReadTick BY Zenon, <2>4 DEF fireReadTick
  <2>5. CASE fireTakeFlag BY Zenon, <2>5 DEF fireTakeFlag
  <2>6. CASE fireTakeDeadline BY Zenon, <2>6 DEF fireTakeDeadline
  <2>7. CASE fireClearDeadline BY Zenon, <2>7 DEF fireClearDeadline
  <2>8. CASE firePop
    <3>1. PICK s \in heap : /\ heap' = heap \ {s} /\ firing' = s
                            /\ IF cancelled[s] THEN Goto("release")
                               ELSE Call("release")
      BY Zenon, <2>8 DEF firePop
    <3>2. /\ pc = "fireLoop" /\ used' = used /\ cancelled' = cancelled
          /\ firing = NoSlot /\ s # NoSlot
      BY Zenon, <2>8 DEF firePop, TypeOK, Slots, NoSlot
    <3> QED BY Zenon, <3>1, <3>2
  <2>9. CASE fireDone BY Zenon, <2>9 DEF fireDone
  <2>10. CASE releaseTimerEntry
    <3>1. /\ pc = "release" /\ pc' = "fireLoop" /\ firing' = NoSlot
          /\ heap' = heap /\ used' = used \ {firing}
      BY Zenon, <2>10 DEF releaseTimerEntry
    <3>2. firing # NoSlot
      BY Zenon, <3>1
    <3>3. NoSlot \notin heap
      BY DEF TypeOK, Slots, NoSlot
    <3>4. used' = heap'
      BY Zenon, <3>1, <3>2
    <3> QED BY Zenon, <3>1, <3>3, <3>4
  <2>11. CASE takeBatch BY Zenon, <2>11 DEF takeBatch
  <2>12. CASE runBatch BY Zenon, <2>12 DEF runBatch
  <2>13. CASE runPollHooks BY Zenon, <2>13 DEF runPollHooks
  <2>14. CASE timedPollReadTick BY Zenon, <2>14 DEF timedPollReadTick
  <2>15. CASE runTimedHook BY Zenon, <2>15 DEF runTimedHook
  <2>16. CASE timedHookReturn BY Zenon, <2>16 DEF timedHookReturn
  <2>17. CASE secondPass BY Zenon, <2>17 DEF secondPass
  <2>18. CASE reprogramNextDeadline BY Zenon, <2>18 DEF reprogramNextDeadline
  <2>19. CASE setDeadline BY Zenon, <2>19 DEF setDeadline
  <2>20. CASE checkSleep BY Zenon, <2>20 DEF checkSleep
  <2>21. CASE recheckSleep BY Zenon, <2>21 DEF recheckSleep
  <2>22. CASE wfi BY Zenon, <2>22 DEF wfi
  <2> QED
    BY Zenon, <1>2, <2>1, <2>2, <2>3, <2>4, <2>5, <2>6, <2>7, <2>8, <2>9,
       <2>10, <2>11, <2>12, <2>13, <2>14, <2>15, <2>16, <2>17, <2>18,
       <2>19, <2>20, <2>21, <2>22 DEF Loop
<1>3. CASE Interrupts
  BY Zenon, <1>3, <1>t
  DEF Interrupts, timerIsrHandler, postFromIsr, completeIsrSlot,
                    DeviceInterrupt, InterruptReturn
<1>4. CASE Tick
  BY Zenon, <1>4, <1>t DEF Tick
<1>5. CASE faultHalt \/ UNCHANGED vars
  BY Zenon, <1>5, <1>t DEF faultHalt, vars
<1> QED BY Zenon, <1>1, <1>2, <1>3, <1>4, <1>5 DEF Next

LEMMA PoolInvariant == Spec => []PoolInv
BY InitPool, StepPool, PTL DEF Spec

(* The timer pool neither leaks nor aliases an entry, whatever the         *)
(* callbacks add and cancel and whenever interrupts arrive. *)
THEOREM PoolNeverLeaks == Spec => []PoolConsistent
<1>1. PoolInv => PoolConsistent
  BY Zenon DEF PoolInv
<1> QED BY <1>1, PoolInvariant, PTL

(* cancelTimer: the callback of a cancelled timer does not run, also when  *)
(* an earlier callback of the same expiry pass cancels it. *)
THEOREM CancelledTimersStaySilent == Spec => []NoCancelledTimer
<1>1. PoolInv => NoCancelledTimer
  BY Zenon DEF PoolInv, FiringNotCancelled, InTimerCallback, NoCancelledTimer,
         TimerCallbackRuns
<1> QED BY <1>1, PoolInvariant, PTL

-----------------------------------------------------------------------------
(* The core sleeps only when idle.                                         *)

CompareCovers == \A d \in Deadlines : compare <= d

NoZeroDeadline == pc = "reprogram" => \A s \in heap : deadline[s] > 0

NextCovers ==
  pc = "setDeadline" =>
    /\ programmed \in {0, nextDeadline}
    /\ nextDeadline = 0 => Deadlines = {}
    /\ \A d \in Deadlines : nextDeadline <= d

CheckCovers ==
  pc \in {"check", "recheck"} => timerIsrFired \/ CompareCovers

SleepCovers ==
  pc \in {"wfi", "asleep"} /\ ~late =>
    /\ ready = <<>> /\ isrPending = <<>> /\ ringCount = 0
    /\ CompareCovers

ReturnLabels ==
  ret \in {"start", "drain", "release", "batch", "timedPoll", "hookReturn"}

SleepInv ==
  /\ TypeOK
  /\ NoZeroDeadline /\ NextCovers /\ CheckCovers /\ SleepCovers /\ ReturnLabels

LEMMA InitSleep == Init => SleepInv
BY Zenon, InitType DEF Init, SleepInv, NoZeroDeadline, NextCovers, CheckCovers,
                SleepCovers, ReturnLabels

(* Where the loop is not on its way to sleep, only ReturnLabels matters. *)
Awake == pc \notin {"reprogram", "setDeadline", "check", "recheck", "wfi",
                    "asleep"}

LEMMA AwakeSleep == TypeOK /\ Awake /\ ReturnLabels => SleepInv
BY Zenon
DEF Awake, SleepInv, NoZeroDeadline, NextCovers, CheckCovers, SleepCovers

LEMMA StepSleep == SleepInv /\ [Next]_vars => SleepInv'
<1> SUFFICES ASSUME SleepInv, [Next]_vars PROVE SleepInv'
    OBVIOUS
<1>t. TypeOK /\ TypeOK' /\ ReturnLabels
  BY Zenon, StepType DEF SleepInv
<1>a. ASSUME Awake', ReturnLabels' PROVE SleepInv'
  BY <1>a, <1>t, AwakeSleep, PTL
<1>1. CASE TaskCode
  <2>1. Awake' /\ ReturnLabels'
    BY Zenon, <1>1, <1>t
    DEF TaskCode, post, armTimer, addTimerFault, callbackReturn,
       addTimer, cancelTimer, addSchedulerTimedPollHook, At, Goto,
       Awake, ReturnLabels
  <2> QED BY Zenon, <2>1, <1>a
<1>2. CASE Loop
  <2>1. CASE runScheduler \/ drainIsrPending \/ drainIsrCompletions \/
             fireReadTick \/ fireTakeFlag \/ fireTakeDeadline
             \/ fireClearDeadline \/ firePop \/
             releaseTimerEntry \/ takeBatch \/ runBatch \/
             runPollHooks \/ timedPollReadTick \/ runTimedHook
             \/ timedHookReturn \/ secondPass
    <3>1. Awake' /\ ReturnLabels'
      BY Zenon, <2>1, <1>t DEF runScheduler, drainIsrPending,
         drainIsrCompletions, fireReadTick, fireTakeFlag,
         fireTakeDeadline, fireClearDeadline, firePop,
         releaseTimerEntry, takeBatch, runBatch, runPollHooks,
         timedPollReadTick, runTimedHook, timedHookReturn, secondPass,
         At, Goto, Call, Awake, ReturnLabels
    <3> QED BY Zenon, <3>1, <1>a
  <2>2. CASE fireDone
    <3>1. CASE pass = 1
      <4>1. Awake' /\ ReturnLabels'
        BY Zenon, <2>2, <3>1, <1>t DEF fireDone, At, Goto, Awake, ReturnLabels
      <4> QED BY Zenon, <4>1, <1>a
    <3>2. CASE pass # 1
      <4>1. /\ pc' = "reprogram" /\ heap' = heap /\ deadline' = deadline
            /\ ret' = ret /\ \A s \in heap : deadline[s] > now
        BY Zenon, <2>2, <3>2 DEF fireDone, At, Goto
      <4>2. \A s \in heap : deadline[s] > 0
        <5> SUFFICES ASSUME NEW s \in heap PROVE deadline[s] > 0
            OBVIOUS
        <5>1. deadline[s] \in Int
          BY Zenon, <1>t, TickFacts DEF TypeOK
        <5>2. now \in Int /\ 0 <= now
          BY Zenon, <1>t, TickFacts DEF TypeOK
        <5> QED BY <4>1, <5>1, <5>2
      <4> QED
          BY Zenon, <4>1, <4>2, <1>t DEF SleepInv, NoZeroDeadline, NextCovers,
                CheckCovers, SleepCovers, ReturnLabels
    <3> QED BY Zenon, <3>1, <3>2
  <2>3. CASE reprogramNextDeadline
    <3>1. /\ pc = "reprogram" /\ pc' = "setDeadline" /\ ret' = ret
          /\ heap' = heap /\ deadline' = deadline /\ hooks' = hooks
          /\ programmed' = nextDeadline'
          /\ \/ Deadlines = {} /\ nextDeadline' = 0
             \/ /\ nextDeadline' \in Deadlines
                /\ \A d \in Deadlines : nextDeadline' <= d
      BY Zenon, <2>3 DEF reprogramNextDeadline, At, Goto
    <3>2. 0 \notin Deadlines
      <4>1. \A s \in heap : deadline[s] # 0
        BY <3>1, <1>t, TickFacts DEF SleepInv, NoZeroDeadline
      <4>2. 0 \notin HookDeadlines
        BY Zenon DEF HookDeadlines
      <4> QED BY Zenon, <4>1, <4>2 DEF Deadlines
    <3>3. Deadlines' = Deadlines
      BY Zenon, <3>1 DEF Deadlines, HookDeadlines
    <3>4. NextCovers'
      BY Zenon, <3>1, <3>2, <3>3 DEF NextCovers
    <3> QED
        BY Zenon, <3>1, <3>4, <1>t DEF SleepInv, NoZeroDeadline, CheckCovers,
              SleepCovers, ReturnLabels
  <2>4. CASE setDeadline
    <3>1. /\ pc = "setDeadline" /\ pc' = "check" /\ ret' = ret
          /\ heap' = heap /\ deadline' = deadline /\ hooks' = hooks
          /\ IF nextDeadline # 0 THEN compare' \in {nextDeadline, programmed}
             ELSE compare' = Never
      BY Zenon, <2>4 DEF setDeadline, At, Goto
    <3>2. Deadlines' = Deadlines
      BY Zenon, <3>1 DEF Deadlines, HookDeadlines
    <3>3. \A d \in Deadlines : compare' <= d
      <4>1. \A d \in Deadlines : d \in Int /\ 0 <= d
        BY Zenon, <1>t, DeadlinesType, TickFacts
      <4>2. /\ programmed \in {0, nextDeadline}
            /\ nextDeadline = 0 => Deadlines = {}
            /\ \A d \in Deadlines : nextDeadline <= d
        BY Zenon, <3>1 DEF SleepInv, NextCovers
      <4> QED BY Zenon, <3>1, <4>1, <4>2
    <3>4. CompareCovers'
      BY Zenon, <3>2, <3>3 DEF CompareCovers
    <3> QED
        BY Zenon, <3>1, <3>4, <1>t DEF SleepInv, NoZeroDeadline, NextCovers,
              CheckCovers, SleepCovers, ReturnLabels
  <2>5. CASE checkSleep
    <3>1. /\ pc = "check" /\ pc' \in {"recheck", "top"} /\ UNCHANGED <<ret,
             heap, deadline, hooks, compare, timerIsrFired>>
      BY Zenon, <2>5 DEF checkSleep, At, Goto
    <3>2. CompareCovers' <=> CompareCovers
      BY Zenon, <3>1 DEF CompareCovers, Deadlines, HookDeadlines
    <3> QED
        BY Zenon, <3>1, <3>2, <1>t DEF SleepInv, NoZeroDeadline, NextCovers,
              CheckCovers, SleepCovers, ReturnLabels
  <2>6. CASE recheckSleep
    <3>1. /\ pc = "recheck" /\ pc' = IF shouldSleep THEN "wfi" ELSE "top"
          /\ UNCHANGED <<ret, heap, deadline, hooks, compare, timerIsrFired,
                         ready, isrPending, ringCount>>
      BY Zenon, <2>6 DEF recheckSleep, At, Goto
    <3>2. CompareCovers' <=> CompareCovers
      BY Zenon, <3>1 DEF CompareCovers, Deadlines, HookDeadlines
    <3> QED
        BY Zenon, <3>1, <3>2, <1>t DEF SleepInv, NoZeroDeadline, NextCovers,
              CheckCovers, SleepCovers, ReturnLabels, shouldSleep
  <2>7. CASE wfi
    <3>1. /\ pc = "wfi" /\ pc' = "asleep"
          /\ UNCHANGED <<ret, heap, deadline, hooks, compare, late,
                         ready, isrPending, ringCount>>
      BY Zenon, <2>7 DEF wfi, At, Goto
    <3>2. CompareCovers' <=> CompareCovers
      BY Zenon, <3>1 DEF CompareCovers, Deadlines, HookDeadlines
    <3> QED
        BY Zenon, <3>1, <3>2, <1>t DEF SleepInv, NoZeroDeadline, NextCovers,
              CheckCovers, SleepCovers, ReturnLabels
  <2> QED BY Zenon, <1>2, <2>1, <2>2, <2>3, <2>4, <2>5, <2>6, <2>7 DEF Loop
<1>3. CASE timerIsrHandler
  <2>1. /\ pc' = IF pc = "asleep" THEN "top" ELSE pc
        /\ late' = (late \/ pc = "wfi") /\ timerIsrFired'
        /\ programmed' = 0
        /\ UNCHANGED <<ret, heap, deadline, hooks, nextDeadline>>
    BY Zenon, <1>3 DEF timerIsrHandler, InterruptReturn
  <2>2. Deadlines' = Deadlines
    BY Zenon, <2>1 DEF Deadlines, HookDeadlines
  <2> QED BY Zenon, <2>1, <2>2, <1>t DEF SleepInv, NoZeroDeadline, NextCovers,
            CheckCovers, SleepCovers, ReturnLabels
<1>4. CASE postFromIsr \/ completeIsrSlot
  <2>1. /\ pc' = IF pc = "asleep" THEN "top" ELSE pc
        /\ late' = (late \/ pc = "wfi")
        /\ UNCHANGED <<ret, heap, deadline, hooks, nextDeadline, compare,
                       programmed, timerIsrFired>>
    BY Zenon, <1>4
    DEF postFromIsr, completeIsrSlot, DeviceInterrupt, InterruptReturn
  <2>2. Deadlines' = Deadlines
    BY Zenon, <2>1 DEF Deadlines, HookDeadlines
  <2> QED BY Zenon, <2>1, <2>2, <1>t DEF SleepInv, NoZeroDeadline, NextCovers,
            CheckCovers, SleepCovers, CompareCovers, ReturnLabels
<1>5. CASE Tick \/ faultHalt \/ UNCHANGED vars
  <2>1. UNCHANGED <<pc, ret, late, heap, deadline, hooks, nextDeadline, compare,
                    programmed, timerIsrFired, ready, isrPending, ringCount>>
    BY Zenon, <1>5 DEF Tick, faultHalt, vars
  <2>2. Deadlines' = Deadlines
    BY Zenon, <2>1 DEF Deadlines, HookDeadlines
  <2> QED BY Zenon, <2>1, <2>2, <1>t DEF SleepInv, NoZeroDeadline, NextCovers,
            CheckCovers, SleepCovers, CompareCovers, ReturnLabels
<1> QED BY Zenon, <1>1, <1>2, <1>3, <1>4, <1>5 DEF Next, Interrupts

(* The scheduler sleeps only when idle: when wfi is reached with no        *)
(* interrupt since the last check, nothing is queued and the compare       *)
(* register is set for the earliest deadline of timers and hooks. *)
THEOREM SleepIsSafe == Spec => []SleepsOnlyWhenIdle
<1>1. SleepInv => SleepsOnlyWhenIdle
  BY Zenon DEF SleepInv, SleepCovers, CompareCovers, SleepsOnlyWhenIdle
<1> QED BY <1>1, InitSleep, StepSleep, PTL DEF Spec

-----------------------------------------------------------------------------
(* No timer fires early when no timed poll hook exists.                    *)
(*                                                                         *)
(* fireExpiredTimers believes fired, which the ISR copies from programmed. *)
(* So programmed must never exceed an armed compare register; and that     *)
(* holds in addTimer, which lowers programmed first, because an armed      *)
(* register that has not expired holds the deadline of a timer still in    *)
(* the heap.                                                               *)

Armed == compare # Never

ClockBehindTick == now <= tick /\ interruptDeadline <= tick /\ fired <= tick

ProgrammedFirst == Armed => programmed <= compare

InHeap(d) == \E s \in heap : deadline[s] = d

ArmedForHeap == Armed => (running /\ compare <= tick) \/ InHeap(compare)

ArmPending ==
  pc = "armTimer" => InHeap(nextDeadline) /\ programmed <= nextDeadline

SetPending ==
  pc = "setDeadline" => /\ programmed \in {0, nextDeadline}
                        /\ nextDeadline # 0 => InHeap(nextDeadline)

BeforeRun ==
  ~running => pc \in {"callback", "armTimer", "start", "halted"}
              /\ ret = "start"

FiringExpired == InTimerCallback => deadline[firing] <= tick

EarlyInv ==
  /\ ClockBehindTick /\ ProgrammedFirst /\ ArmedForHeap
  /\ ArmPending /\ SetPending /\ BeforeRun /\ FiringExpired

LEMMA InitEarly == Init => EarlyInv
BY SizesAssumption DEF Init, EarlyInv, ClockBehindTick, ProgrammedFirst,
   ArmedForHeap, Armed, ArmPending, SetPending, BeforeRun, FiringExpired,
   InTimerCallback

(* Steps that touch neither the heap nor the clock variables. *)
Quiet == UNCHANGED <<running, heap, deadline, firing, tick, compare,
                     programmed, fired, now, interruptDeadline, nextDeadline>>

LEMMA QuietEarly ==
  ASSUME EarlyInv, Quiet,
         \/ pc' = pc /\ ret' = ret
         \/ /\ pc' \notin {"armTimer", "setDeadline"}
            /\ InTimerCallback' => InTimerCallback
            /\ BeforeRun'
  PROVE  EarlyInv'
<1> USE DEF Quiet
<1>1. ClockBehindTick'
  BY Zenon DEF EarlyInv, ClockBehindTick
<1>2. ProgrammedFirst' /\ ArmedForHeap'
  BY Zenon DEF EarlyInv, ProgrammedFirst, ArmedForHeap, Armed, InHeap
<1>3. ArmPending' /\ SetPending'
  BY Zenon DEF EarlyInv, ArmPending, SetPending, InHeap
<1>4. BeforeRun'
  BY Zenon DEF EarlyInv, BeforeRun
<1>5. FiringExpired'
  BY Zenon DEF EarlyInv, FiringExpired, InTimerCallback
<1> QED BY Zenon, <1>1, <1>2, <1>3, <1>4, <1>5 DEF EarlyInv

LEMMA ClockType ==
  TypeOK => /\ tick \in Int /\ compare \in Int /\ programmed \in Int
            /\ fired \in Int /\ now \in Int /\ interruptDeadline \in Int
            /\ nextDeadline \in Int /\ 0 <= nextDeadline
            /\ 0 <= tick /\ tick < Never /\ 0 <= programmed
            /\ \A s \in Slots : deadline[s] \in Int /\ deadline[s] < Never
            /\ heap \subseteq Slots
BY Zenon, TickFacts DEF TypeOK

LEMMA QuietTask ==
  ASSUME EarlyInv, ReturnLabels,
         \/ post \/ addTimerFault \/ callbackReturn
         \/ \E s \in Slots : cancelTimer(s)
         \/ \E d \in tick .. MaxTick : addSchedulerTimedPollHook(d)
  PROVE  EarlyInv'
<1> USE DEF At, Goto
<1>1. Quiet /\ pc = "callback" /\ ret' = ret
      /\ pc' \in {"callback", "halted", ret}
  BY Zenon DEF post, addTimerFault, callbackReturn, cancelTimer,
         addSchedulerTimedPollHook, Quiet
<1>2. BeforeRun'
  BY Zenon, <1>1 DEF EarlyInv, BeforeRun, Quiet
<1> QED BY Zenon, <1>1, <1>2, QuietEarly DEF ReturnLabels, InTimerCallback

LEMMA QuietLoop ==
  ASSUME EarlyInv,
         \/ drainIsrPending \/ drainIsrCompletions \/ fireTakeFlag \/ fireDone
         \/ takeBatch \/ runBatch \/ runPollHooks \/ runTimedHook
         \/ timedHookReturn \/ secondPass \/ checkSleep \/ recheckSleep \/ wfi
  PROVE  EarlyInv'
<1> USE DEF At, Goto, Call
<1>1. Quiet
  BY Zenon DEF drainIsrPending, drainIsrCompletions, fireTakeFlag, fireDone,
     takeBatch, runBatch, runPollHooks, runTimedHook, timedHookReturn,
     secondPass, checkSleep, recheckSleep, wfi, Quiet
<1>2. pc \notin {"callback", "armTimer", "start", "halted"}
  BY Zenon DEF drainIsrPending, drainIsrCompletions, fireTakeFlag, fireDone,
     takeBatch, runBatch, runPollHooks, runTimedHook, timedHookReturn,
     secondPass, checkSleep, recheckSleep, wfi
<1>3. /\ pc' \notin {"armTimer", "setDeadline", "halted"}
      /\ pc' = "callback" => ret' # "release"
  BY Zenon DEF drainIsrPending, drainIsrCompletions, fireTakeFlag, fireDone,
     takeBatch, runBatch, runPollHooks, runTimedHook, timedHookReturn,
     secondPass, checkSleep, recheckSleep, wfi
<1>4. BeforeRun'
  BY Zenon, <1>1, <1>2 DEF EarlyInv, BeforeRun, Quiet
<1> QED BY Zenon, <1>1, <1>3, <1>4, QuietEarly DEF InTimerCallback

(* addTimer lowers programmed below the deadline of every timer in the     *)
(* heap, hence below a register that is armed and has not expired. *)
LEMMA AddTimerEarly ==
  ASSUME PoolInv, TypeOK', EarlyInv, NEW d \in tick .. MaxTick, addTimer(d)
  PROVE  EarlyInv'
<1>t. TypeOK /\ PoolConsistent /\ FiringPhase
  BY Zenon DEF PoolInv
<1>1. PICK s \in Slots :
        /\ s \notin used /\ heap' = heap \cup {s}
        /\ deadline' = [deadline EXCEPT ![s] = d]
        /\ IF \A r \in heap : d < deadline[r]
           THEN programmed' = d /\ nextDeadline' = d /\ Goto("armTimer")
           ELSE UNCHANGED <<programmed, nextDeadline, loopVars>>
  BY Zenon DEF addTimer, IsFree
<1>2. /\ pc = "callback" /\ ~(running /\ tick >= compare)
      /\ pc' \in {"callback", "armTimer"}
      /\ UNCHANGED <<running, ret, firing, tick, compare, fired, now,
                     interruptDeadline>>
  BY Zenon DEF addTimer, At, TimerDue, Goto
<1>3. s \notin heap /\ s # firing
  BY <1>1, <1>t DEF PoolConsistent, FiringSlots, Slots, NoSlot
<1>4. \A r \in heap : r \in Slots /\ r # s /\ deadline'[r] = deadline[r]
  BY Zenon, <1>1, <1>3, <1>t DEF TypeOK
<1>5. deadline'[s] = d /\ s \in heap' /\ d \in Int
  BY <1>1, <1>t DEF TypeOK
<1>6. Armed => \E r \in heap : deadline[r] = compare
  BY Zenon, <1>2, <1>t, ClockType DEF EarlyInv, ArmedForHeap, InHeap
<1>7. ClockBehindTick' /\ BeforeRun'
  BY Zenon, <1>2 DEF EarlyInv, ClockBehindTick, BeforeRun
<1>8. ArmedForHeap'
  BY Zenon, <1>1, <1>2, <1>4, <1>6 DEF ArmedForHeap, Armed, InHeap
<1>9. ProgrammedFirst'
  <2>1. CASE \A r \in heap : d < deadline[r]
    BY <1>1, <1>2, <1>5, <1>6, <2>1, <1>t, ClockType DEF ProgrammedFirst, Armed
  <2>2. CASE ~ \A r \in heap : d < deadline[r]
    BY Zenon, <1>1, <1>2, <2>2 DEF EarlyInv, ProgrammedFirst, Armed
  <2> QED BY Zenon, <2>1, <2>2
<1>10. ArmPending'
  <2>1. CASE \A r \in heap : d < deadline[r]
    BY <1>1, <1>5, <2>1 DEF ArmPending, InHeap
  <2>2. CASE ~ \A r \in heap : d < deadline[r]
    BY Zenon, <1>1, <1>2, <2>2 DEF ArmPending
  <2> QED BY Zenon, <2>1, <2>2
<1>11. SetPending'
  BY Zenon, <1>2 DEF SetPending
<1>12. FiringExpired'
  <2>1. InTimerCallback' => InTimerCallback /\ firing \in Slots
    BY Zenon, <1>2, <1>t DEF InTimerCallback, FiringPhase, TypeOK
  <2>2. firing \in Slots => deadline'[firing] = deadline[firing]
    BY Zenon, <1>1, <1>3, <1>t DEF TypeOK
  <2> QED BY Zenon, <1>2, <2>1, <2>2 DEF EarlyInv, FiringExpired
<1> QED BY Zenon, <1>7, <1>8, <1>9, <1>10, <1>11, <1>12 DEF EarlyInv

LEMMA FireEarly ==
  ASSUME PoolInv, TypeOK', EarlyInv,
         \/ fireReadTick \/ fireTakeDeadline \/ fireClearDeadline
         \/ timedPollReadTick
  PROVE  EarlyInv'
<1>t. TypeOK
  BY Zenon DEF PoolInv
<1>1. /\ UNCHANGED <<running, ret, heap, deadline, firing, tick, compare,
                     programmed, nextDeadline>>
      /\ pc \notin {"callback", "armTimer", "start", "halted"}
      /\ pc' \notin {"callback", "armTimer", "halted", "setDeadline"}
  BY Zenon
  DEF fireReadTick, fireTakeDeadline, fireClearDeadline, timedPollReadTick,
         At, Goto
<1>2. ClockBehindTick'
  BY <1>t, ClockType DEF EarlyInv, ClockBehindTick, fireReadTick,
     fireTakeDeadline, fireClearDeadline, timedPollReadTick, Max2
<1>3. ProgrammedFirst' /\ ArmedForHeap'
  BY Zenon, <1>1 DEF EarlyInv, ProgrammedFirst, ArmedForHeap, Armed, InHeap
<1>4. ArmPending' /\ SetPending' /\ BeforeRun' /\ FiringExpired'
  BY Zenon, <1>1
  DEF EarlyInv, ArmPending, SetPending, BeforeRun, FiringExpired,
              InTimerCallback
<1> QED BY Zenon, <1>2, <1>3, <1>4 DEF EarlyInv

LEMMA PopEarly ==
  ASSUME PoolInv, TypeOK', EarlyInv, firePop
  PROVE  EarlyInv'
<1>t. TypeOK
  BY Zenon DEF PoolInv
<1>1. PICK s \in heap : /\ deadline[s] <= now /\ heap' = heap \ {s}
                        /\ firing' = s
  BY Zenon DEF firePop
<1>2. /\ UNCHANGED <<running, deadline, tick, compare, programmed, fired, now,
                     interruptDeadline, nextDeadline>>
      /\ pc = "fireLoop" /\ pc' \in {"callback", "release"}
      /\ ~(running /\ tick >= compare)
  BY Zenon DEF firePop, At, Goto, Call, TimerDue
<1>3. running
  BY Zenon, <1>2 DEF EarlyInv, BeforeRun
<1>4. deadline[s] <= tick
  BY <1>1, <1>t, ClockType DEF EarlyInv, ClockBehindTick
<1>5. ArmedForHeap'
  <2> SUFFICES ASSUME Armed' PROVE ArmedForHeap'
      BY Zenon DEF ArmedForHeap
  <2>1. PICK r \in heap : deadline[r] = compare
    BY Zenon, <1>2, <1>3, <1>t, ClockType
    DEF EarlyInv, ArmedForHeap, Armed, InHeap
  <2>2. r # s
    BY Zenon, <2>1, <1>2, <1>3, <1>4, <1>t, ClockType
  <2> QED BY Zenon, <1>1, <1>2, <2>1, <2>2 DEF ArmedForHeap, InHeap
<1>6. ClockBehindTick' /\ ProgrammedFirst'
  BY Zenon, <1>2 DEF EarlyInv, ClockBehindTick, ProgrammedFirst, Armed
<1>7. ArmPending' /\ SetPending' /\ BeforeRun' /\ FiringExpired'
  BY Zenon, <1>1, <1>2, <1>3, <1>4 DEF ArmPending, SetPending, BeforeRun,
     FiringExpired, InTimerCallback
<1> QED BY Zenon, <1>5, <1>6, <1>7 DEF EarlyInv

LEMMA ReleaseEarly ==
  ASSUME PoolInv, TypeOK', EarlyInv, releaseTimerEntry
  PROVE  EarlyInv'
<1>t. TypeOK /\ PoolConsistent
  BY Zenon DEF PoolInv
<1>1. /\ UNCHANGED <<running, heap, tick, compare, programmed, fired,
                     interruptDeadline, nextDeadline>>
      /\ pc = "release" /\ pc' = "fireLoop"
      /\ now' = Max2(tick, interruptDeadline)
      /\ deadline' = [deadline EXCEPT ![firing] = 0]
  BY Zenon DEF releaseTimerEntry, At, Goto
<1>2. \A s \in heap : deadline'[s] = deadline[s]
  BY Zenon, <1>1, <1>t DEF TypeOK, PoolConsistent
<1>3. ClockBehindTick'
  BY <1>1, <1>t, ClockType DEF EarlyInv, ClockBehindTick, Max2
<1>4. ProgrammedFirst' /\ ArmedForHeap'
  BY Zenon, <1>1, <1>2
  DEF EarlyInv, ProgrammedFirst, ArmedForHeap, Armed, InHeap
<1>5. ArmPending' /\ SetPending' /\ BeforeRun' /\ FiringExpired'
  BY Zenon, <1>1
  DEF EarlyInv, ArmPending, SetPending, BeforeRun, FiringExpired,
              InTimerCallback
<1> QED BY Zenon, <1>3, <1>4, <1>5 DEF EarlyInv

LEMMA ArmEarly ==
  ASSUME PoolInv, TypeOK', EarlyInv, armTimer
  PROVE  EarlyInv'
<1>1. /\ UNCHANGED <<running, ret, heap, deadline, firing, tick, programmed,
                     fired, now, interruptDeadline, nextDeadline>>
      /\ pc = "armTimer" /\ pc' = "callback" /\ compare' = nextDeadline
  BY Zenon DEF armTimer, At, Goto
<1>2. ProgrammedFirst' /\ ArmedForHeap'
  BY Zenon, <1>1
  DEF EarlyInv, ArmPending, ProgrammedFirst, ArmedForHeap, InHeap
<1>3. ClockBehindTick' /\ ArmPending' /\ SetPending' /\ BeforeRun'
  BY Zenon, <1>1
  DEF EarlyInv, ClockBehindTick, ArmPending, SetPending, BeforeRun
<1>4. FiringExpired'
  BY Zenon, <1>1 DEF EarlyInv, FiringExpired, InTimerCallback
<1> QED BY Zenon, <1>2, <1>3, <1>4 DEF EarlyInv

LEMMA StartEarly ==
  ASSUME EarlyInv, runScheduler
  PROVE  EarlyInv'
<1>1. /\ UNCHANGED <<ret, heap, deadline, firing, tick, compare, programmed,
                     fired, now, interruptDeadline, nextDeadline>>
      /\ running' /\ pc' = "top"
  BY Zenon DEF runScheduler, At
<1>2. ProgrammedFirst' /\ ArmedForHeap'
  BY Zenon, <1>1 DEF EarlyInv, ProgrammedFirst, ArmedForHeap, Armed, InHeap
<1>3. ClockBehindTick' /\ ArmPending' /\ SetPending' /\ BeforeRun'
      /\ FiringExpired'
  BY Zenon, <1>1
  DEF EarlyInv, ClockBehindTick, ArmPending, SetPending, BeforeRun,
              FiringExpired, InTimerCallback
<1> QED BY Zenon, <1>2, <1>3 DEF EarlyInv

LEMMA ReprogramEarly ==
  ASSUME MaxSchedulerTimedPollHooks = 0,
         PoolInv, TypeOK', EarlyInv, reprogramNextDeadline
  PROVE  EarlyInv'
<1>t. TypeOK
  BY Zenon DEF PoolInv
<1>1. /\ UNCHANGED <<running, ret, heap, deadline, firing, tick, compare,
                     fired, now, interruptDeadline>>
      /\ pc = "reprogram" /\ pc' = "setDeadline"
      /\ ~(running /\ tick >= compare)
      /\ programmed' = nextDeadline'
      /\ \/ Deadlines = {} /\ nextDeadline' = 0
         \/ /\ nextDeadline' \in Deadlines
            /\ \A d \in Deadlines : nextDeadline' <= d
  BY Zenon DEF reprogramNextDeadline, At, Goto, TimerDue
<1>2. Deadlines = {deadline[s] : s \in heap}
  <2>1. 1 .. Len(hooks) = {}
    <3>1. hooks \in Seq(Ticks) /\ Len(hooks) <= MaxSchedulerTimedPollHooks
      BY Zenon, <1>t DEF TypeOK
    <3> QED BY <3>1
  <2> QED BY Zenon, <2>1 DEF Deadlines, HookDeadlines
<1>3. running
  BY Zenon, <1>1 DEF EarlyInv, BeforeRun
<1>4. Armed => compare \in Deadlines
  BY Zenon, <1>1, <1>2, <1>3, <1>t, ClockType
  DEF EarlyInv, ArmedForHeap, InHeap
<1>5. ProgrammedFirst'
  BY Zenon, <1>1, <1>4 DEF ProgrammedFirst, Armed
<1>6. ArmedForHeap'
  BY Zenon, <1>1 DEF EarlyInv, ArmedForHeap, Armed, InHeap
<1>7. SetPending'
  BY Zenon, <1>1, <1>2 DEF SetPending, InHeap
<1>8. ClockBehindTick' /\ ArmPending' /\ BeforeRun' /\ FiringExpired'
  BY Zenon, <1>1, <1>3 DEF EarlyInv, ClockBehindTick, ArmPending, BeforeRun,
                    FiringExpired, InTimerCallback
<1> QED BY Zenon, <1>5, <1>6, <1>7, <1>8 DEF EarlyInv

LEMMA SetEarly ==
  ASSUME PoolInv, TypeOK', EarlyInv, setDeadline
  PROVE  EarlyInv'
<1>t. TypeOK
  BY Zenon DEF PoolInv
<1>1. /\ UNCHANGED <<running, ret, heap, deadline, firing, tick, programmed,
                     fired, now, interruptDeadline, nextDeadline>>
      /\ pc = "setDeadline" /\ pc' = "check"
      /\ IF nextDeadline # 0 THEN compare' \in {nextDeadline, programmed}
         ELSE compare' = Never
  BY Zenon DEF setDeadline, At, Goto
<1>2. running
  BY Zenon, <1>1 DEF EarlyInv, BeforeRun
<1>3. programmed \in {0, nextDeadline}
      /\ (nextDeadline # 0 => InHeap(nextDeadline))
  BY Zenon, <1>1 DEF EarlyInv, SetPending
<1>4. ProgrammedFirst'
  BY <1>1, <1>3, <1>t, ClockType DEF ProgrammedFirst, Armed
<1>5. ArmedForHeap'
  BY Zenon, <1>1, <1>2, <1>3, <1>t, ClockType DEF ArmedForHeap, Armed, InHeap
<1>6. ClockBehindTick' /\ ArmPending' /\ SetPending' /\ BeforeRun'
      /\ FiringExpired'
  BY Zenon, <1>1, <1>2 DEF EarlyInv, ClockBehindTick, ArmPending, SetPending,
                    BeforeRun, FiringExpired, InTimerCallback
<1> QED BY Zenon, <1>4, <1>5, <1>6 DEF EarlyInv

(* The interrupt is due, so fired' = programmed <= compare <= tick. *)
LEMMA IsrEarly ==
  ASSUME PoolInv, TypeOK', EarlyInv, timerIsrHandler
  PROVE  EarlyInv'
<1>t. TypeOK
  BY Zenon DEF PoolInv
<1>1. /\ UNCHANGED <<running, ret, heap, deadline, firing, tick, now,
                     interruptDeadline, nextDeadline>>
      /\ running /\ tick >= compare
      /\ fired' = programmed /\ programmed' = 0 /\ compare' = Never
      /\ pc' = IF pc = "asleep" THEN "top" ELSE pc
  BY Zenon DEF timerIsrHandler, TimerDue, InterruptReturn
<1>2. programmed <= tick
  BY <1>1, <1>t, ClockType DEF EarlyInv, ProgrammedFirst, Armed
<1>3. ClockBehindTick' /\ ProgrammedFirst' /\ ArmedForHeap'
  BY Zenon, <1>1, <1>2
  DEF EarlyInv, ClockBehindTick, ProgrammedFirst, ArmedForHeap,
                    Armed
<1>4. ArmPending'
  <2>1. pc = "armTimer" => /\ InHeap(nextDeadline)
                           /\ programmed <= nextDeadline
    BY Zenon DEF EarlyInv, ArmPending
  <2> QED BY Zenon, <1>1, <2>1, <1>t, ClockType DEF ArmPending, InHeap
<1>5. SetPending'
  BY Zenon, <1>1 DEF EarlyInv, SetPending, InHeap
<1>6. BeforeRun' /\ FiringExpired'
  BY Zenon, <1>1 DEF EarlyInv, BeforeRun, FiringExpired, InTimerCallback
<1> QED BY Zenon, <1>3, <1>4, <1>5, <1>6 DEF EarlyInv

LEMMA TickEarly ==
  ASSUME PoolInv, TypeOK', EarlyInv, Tick
  PROVE  EarlyInv'
<1>t. TypeOK /\ FiringPhase
  BY Zenon DEF PoolInv
<1>1. /\ UNCHANGED <<running, pc, ret, heap, deadline, firing, compare,
                     programmed, fired, now, interruptDeadline, nextDeadline>>
      /\ tick' = tick + 1
  BY Zenon DEF Tick
<1>2. ClockBehindTick' /\ ArmedForHeap'
  BY <1>1, <1>t, ClockType DEF EarlyInv, ClockBehindTick, ArmedForHeap, Armed,
                               InHeap
<1>3. ProgrammedFirst' /\ ArmPending' /\ SetPending' /\ BeforeRun'
  BY Zenon, <1>1 DEF EarlyInv, ProgrammedFirst, Armed, ArmPending, SetPending,
              BeforeRun, InHeap
<1>4. InTimerCallback => firing \in Slots
  BY Zenon, <1>t DEF FiringPhase, TypeOK
<1>5. FiringExpired'
  BY <1>1, <1>4, <1>t, ClockType DEF EarlyInv, FiringExpired, InTimerCallback
<1> QED BY Zenon, <1>2, <1>3, <1>5 DEF EarlyInv

LEMMA StepEarly ==
  ASSUME MaxSchedulerTimedPollHooks = 0
  PROVE  PoolInv /\ SleepInv /\ EarlyInv /\ [Next]_vars => EarlyInv'
<1> SUFFICES ASSUME PoolInv, SleepInv, EarlyInv, [Next]_vars PROVE EarlyInv'
    OBVIOUS
<1>t. TypeOK' /\ ReturnLabels
  BY Zenon, StepType DEF PoolInv, SleepInv
<1>1. CASE TaskCode
  BY Zenon, <1>1, <1>t, QuietTask, ArmEarly, AddTimerEarly DEF TaskCode
<1>2. CASE Loop
  <2>1. CASE runScheduler \/ firePop \/ releaseTimerEntry
             \/ reprogramNextDeadline \/ setDeadline
    BY Zenon, <2>1, <1>t, StartEarly, PopEarly, ReleaseEarly, ReprogramEarly, SetEarly
  <2>2. CASE fireReadTick \/ fireTakeDeadline \/ fireClearDeadline
             \/ timedPollReadTick
    BY Zenon, <2>2, <1>t, FireEarly
  <2>3. CASE \/ drainIsrPending \/ drainIsrCompletions \/ fireTakeFlag
             \/ fireDone \/ takeBatch \/ runBatch \/ runPollHooks
             \/ runTimedHook \/ timedHookReturn \/ secondPass \/ checkSleep
             \/ recheckSleep \/ wfi
    BY Zenon, <2>3, QuietLoop
  <2> QED BY Zenon, <1>2, <2>1, <2>2, <2>3 DEF Loop
<1>3. CASE timerIsrHandler
  BY Zenon, <1>3, <1>t, IsrEarly
<1>4. CASE postFromIsr \/ completeIsrSlot
  <2>1. Quiet /\ running /\ ret' = ret
        /\ pc' = IF pc = "asleep" THEN "top" ELSE pc
    BY Zenon, <1>4 DEF postFromIsr, completeIsrSlot, DeviceInterrupt,
                InterruptReturn, Quiet
  <2>2. BeforeRun'
    BY Zenon, <2>1 DEF BeforeRun, Quiet
  <2> QED BY Zenon, <2>1, <2>2, QuietEarly DEF InTimerCallback
<1>5. CASE Tick
  BY Zenon, <1>5, <1>t, TickEarly
<1>6. CASE faultHalt \/ UNCHANGED vars
  <2>1. Quiet /\ pc' = pc /\ ret' = ret
    BY Zenon, <1>6 DEF faultHalt, vars, Quiet
  <2> QED BY Zenon, <2>1, QuietEarly
<1> QED BY Zenon, <1>1, <1>2, <1>3, <1>4, <1>5, <1>6 DEF Next, Interrupts

(* addTimer: on a core without timed poll hooks no timer fires before its  *)
(* deadline, however its callbacks add and cancel timers and wherever the  *)
(* timer interrupt strikes.  (With a timed hook the statement is false:    *)
(* the register may then expire for the hook while addTimer is between its *)
(* two writes.) *)
THEOREM NoHooksNoEarlyTimer ==
  ASSUME MaxSchedulerTimedPollHooks = 0
  PROVE  Spec => []NoEarlyTimer
<1>1. Init => PoolInv /\ SleepInv /\ EarlyInv
  BY Zenon, InitPool, InitSleep, InitEarly
<1>2. PoolInv /\ SleepInv /\ EarlyInv /\ [Next]_vars
      => (PoolInv /\ SleepInv /\ EarlyInv)'
  BY Zenon, StepPool, StepSleep, StepEarly
<1>3. EarlyInv => NoEarlyTimer
  BY Zenon DEF EarlyInv, FiringExpired, InTimerCallback, NoEarlyTimer,
         TimerCallbackRuns
<1> QED BY <1>1, <1>2, <1>3, PTL DEF Spec

=============================================================================

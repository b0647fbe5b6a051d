\* Timers, a timed poll hook and full interrupt queues; no untimed poll hook,
\* so the core sleeps, and may sleep for good.
CONSTANTS
  MaxSchedulerTimers = 2
  MaxIsrPendingCallbacks = 1
  MaxSchedulerTimedPollHooks = 1
  CompletionRingSize = 1
  HasPollHook = FALSE
  RepostForever = FALSE
  MaxTick = 3
  MaxReady = 1
  MaxOps = 3
  MaxIrqs = 2
SPECIFICATION Spec
INVARIANTS TypeOK PoolConsistent NoCancelledTimer SleepsOnlyWhenIdle
CHECK_DEADLOCK FALSE

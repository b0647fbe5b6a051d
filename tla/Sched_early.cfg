\* A timer next to a timed poll hook.
CONSTANTS
  MaxSchedulerTimers = 1
  MaxIsrPendingCallbacks = 1
  MaxSchedulerTimedPollHooks = 1
  CompletionRingSize = 0
  HasPollHook = FALSE
  RepostForever = FALSE
  MaxTick = 2
  MaxReady = 1
  MaxOps = 2
  MaxIrqs = 1
SPECIFICATION Spec
INVARIANT NoEarlyTimer
CHECK_DEADLOCK FALSE

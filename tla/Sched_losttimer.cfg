\* No poll hook: the timer interrupt between the last check and WFI.
CONSTANTS
  MaxSchedulerTimers = 1
  MaxIsrPendingCallbacks = 0
  MaxSchedulerTimedPollHooks = 0
  CompletionRingSize = 0
  HasPollHook = FALSE
  RepostForever = FALSE
  MaxTick = 2
  MaxReady = 1
  MaxOps = 1
  MaxIrqs = 0
SPECIFICATION FairSpec
PROPERTY TimersExpire
CHECK_DEADLOCK FALSE

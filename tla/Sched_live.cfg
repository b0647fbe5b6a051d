\* Progress when an untimed poll hook keeps the core awake, as on every core
\* that runs the IPC bridge.
CONSTANTS
  MaxSchedulerTimers = 2
  MaxIsrPendingCallbacks = 1
  MaxSchedulerTimedPollHooks = 0
  CompletionRingSize = 1
  HasPollHook = TRUE
  RepostForever = FALSE
  MaxTick = 2
  MaxReady = 1
  MaxOps = 2
  MaxIrqs = 2
SPECIFICATION FairSpec
INVARIANTS NoEarlyTimer
PROPERTIES IsrPostsDrained CompletionsDrained TimersExpire

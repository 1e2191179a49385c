SPECIFICATION FairSpec
CONSTANTS
  t1 = t1
  t2 = t2
  Thread <- Threads
  Backends <- AllBackends
  MaxCalls = 3
  MaxToggles = 1
INVARIANTS LoadedOnce GatesObeyed LifecycleOneToOne NoSilentSuccess
PROPERTIES EveryCallReturns
CHECK_DEADLOCK FALSE

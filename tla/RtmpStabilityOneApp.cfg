SPECIFICATION FairSpec
CONSTANTS
  t1 = t1
  t2 = t2
  w1 = w1
  w2 = w2
  Nobody = Nobody
  Watchdog <- MCWatchdog
  App <- OneApp
  Configs <- Ending
  Calls <- AllCalls
INVARIANT WatchdogMatchesState
PROPERTY RecoveryEnds
PROPERTY LossIsNoticed
CHECK_DEADLOCK FALSE

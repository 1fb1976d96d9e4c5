SPECIFICATION FairSpec
CONSTANTS
  t1 = t1
  t2 = t2
  w1 = w1
  w2 = w2
  Nobody = Nobody
  Watchdog <- MCWatchdog
  App <- OneApp
  Configs <- Default
  Calls <- OnlyStop
PROPERTY RecoversOnlyDead
CHECK_DEADLOCK FALSE

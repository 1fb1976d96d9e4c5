SPECIFICATION Spec
CONSTANTS
  t1 = t1
  t2 = t2
  w1 = w1
  w2 = w2
  Nobody = Nobody
  Watchdog <- MCWatchdog
  App <- TwoApps
  Configs <- All
  Calls <- AllCalls
INVARIANT OneReconnector
PROPERTY LimitRespected
CHECK_DEADLOCK FALSE

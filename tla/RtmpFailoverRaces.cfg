SPECIFICATION Spec
CONSTANTS
  t1 = t1
  t2 = t2
  s1 = s1
  s2 = s2
  Nobody = Nobody
  NoName = NoName
  App <- TwoApps
  Server <- MCServer
  Configs <- Varied
  Events <- AllEvents
INVARIANT OneSwitch
INVARIANT IdleHasNoThread
INVARIANT NetworkNeedsServer
PROPERTY RecordsOffline
CHECK_DEADLOCK FALSE

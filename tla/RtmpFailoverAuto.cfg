SPECIFICATION FairSpec
CONSTANTS
  t1 = t1
  t2 = t2
  s1 = s1
  s2 = s2
  Nobody = Nobody
  NoName = NoName
  App <- OneApp
  Server <- MCServer
  Configs <- Full
  Events <- OnlyElapse
PROPERTY AutoFailover
CHECK_DEADLOCK FALSE

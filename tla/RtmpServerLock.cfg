SPECIFICATION FairSpec
CONSTANTS
  a1 = a1
  a2 = a2
  h1 = h1
  h2 = h2
  NoAddr = NoAddr
  Addr <- MCAddr
  Handler <- MCHandler
  Events <- LockingEvents
PROPERTY LockComesBack
CHECK_DEADLOCK FALSE

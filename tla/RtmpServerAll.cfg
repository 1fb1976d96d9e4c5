SPECIFICATION Spec
CONSTANTS
  a1 = a1
  a2 = a2
  h1 = h1
  h2 = h2
  NoAddr = NoAddr
  Addr <- MCAddr
  Handler <- MCHandler
  Events <- MonitoredEvents
SYMMETRY Symmetry
INVARIANT CountMatchesList
 
 
INVARIANT StopQuiesces
INVARIANT RoleMatchesState
INVARIANT NoLockAfterDestroy
PROPERTY RefinesRegistry
CHECK_DEADLOCK FALSE

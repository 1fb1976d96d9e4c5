SPECIFICATION FairSpec
CONSTANTS
  p1 = p1
  Ctl = Ctl
  NoMsg = NoMsg
  Producer <- OneProducer
  MaxQueue = 3
  MaxSession = 2
INVARIANT QueueBounded
INVARIANT PopNeverWaits
INVARIANT DownIsClean
INVARIANT ErrorShows
INVARIANT MediaInsidePublish
PROPERTY DisconnectReturns
CHECK_DEADLOCK FALSE

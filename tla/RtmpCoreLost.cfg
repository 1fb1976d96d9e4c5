SPECIFICATION FairSpec
CONSTANTS
  p1 = p1
  Ctl = Ctl
  NoMsg = NoMsg
  Producer <- NoProducer
  MaxQueue = 2
  MaxSession = 1
PROPERTY PublishIsSent
CHECK_DEADLOCK FALSE

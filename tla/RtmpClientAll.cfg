SPECIFICATION FairSpec
CONSTANTS
  NoSocket = NoSocket
  d1 = d1
  d2 = d2
  Nobody = Nobody
  u1 = u1
  u2 = u2
  u3 = u3
  n1 = n1
  n2 = n2
  audio = audio
  video = video
  s1 = s1
  s2 = s2
  NoInput = NoInput
  Descriptor <- MCDescriptor
  Word = 5
  Window <- MCWindow
  DefaultWindow = 2
  MaxPacket = 2
  Input <- AmfInput
  NumberSize = 3
  Object <- Nested
  Encoding <- AmfEncoding
  Timer <- MCTimer
  MaxTiming = 2
  Slow = 1
  MaxClock = 3
  MaxOpen = 2
  Rates <- MCRates
  Buffers <- MCBuffers
  Drops <- MCDrops
  Latencies <- MCLatencies
  Times <- MCTimes
  CustomRate = 5000000
  CustomFPS = 60
  LastOffset = 3
  Nonce <- MCNonce
  Type <- MCType
  Stream <- MCStream
  Stamp <- MCStamp
  Word24 = 4
  Length <- MCLength
  Incoming <- MCIncoming
INVARIANT TypeOK
INVARIANT ClosedIsClean
INVARIANT LinkAgrees
INVARIANT MediaIsAnnounced
INVARIANT EveryTimingFound
INVARIANT OverrunNeedsTwo
INVARIANT TargetsInRange
INVARIANT DoneIsGenuine
 
INVARIANT StaysInBuffer
INVARIANT DecodesWhatWasSent
PROPERTY CallsReturn
PROPERTY AckKept
CHECK_DEADLOCK FALSE

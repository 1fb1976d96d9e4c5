SPECIFICATION FairSpec
CONSTANTS
  f1 = f1
  f2 = f2
  NoFrame = NoFrame
  Frame <- MCFrame
  MaxPending = 2
  MaxJobs = 1
INVARIANT SessionMatchesState
INVARIANT FrameOwned
PROPERTY StartingEnds
PROPERTY DelegateKnows

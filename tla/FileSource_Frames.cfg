SPECIFICATION FairSpec
CONSTANTS
  Sessions = {s1, s2}
  NumFiles = 3
  FileSize <- Sizes
  KeyFiles = {1}
  InitialSize = 2
  MaxFrames = 4
  MaxRuns = 2
CHECK_DEADLOCK FALSE
INVARIANTS
  FrameFitsBuffer
  BuffersAreAccountedFor
PROPERTIES
  TimeStampsIncrease
  StopIsObeyed

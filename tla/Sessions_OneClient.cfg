SPECIFICATION FairSpec
CONSTANTS
  p1 = p1
  p2 = p2
  Peers <- OnePeer
  HashOf <- OnePeerHash
  QueueBlocks = {b1}
  MaxPending = 1
  NULL = NULL
  Sessions = {s1, s2, s3}
  MaxSessions = 2
INVARIANT NoStrandedCandidate
PROPERTIES
  TerminatedIsFreed
  RegistrySpec
  RoundsSpec

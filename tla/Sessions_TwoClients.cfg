SPECIFICATION Spec
CONSTANTS
  p1 = p1
  p2 = p2
  Peers <- TwoPeers
  HashOf <- DistinctHashes
  QueueBlocks = {b1}
  MaxPending = 1
  NULL = NULL
  Sessions = {s1, s2}
  MaxSessions = 2
SYMMETRY Blocks
CHECK_DEADLOCK FALSE
INVARIANTS
  ListedOnceAndLive
  NoSessionLeak
  SinkWritesToLiveSession
  RoutedUnlessOfferFailed

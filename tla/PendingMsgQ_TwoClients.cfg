SPECIFICATION MsgQSpec
CONSTANTS
  p1 = p1
  p2 = p2
  Peers <- TwoPeers
  HashOf <- DistinctHashes
  QueueBlocks = {b1, b2}
  MaxPending = 2
  NULL = NULL
CHECK_DEADLOCK FALSE

  
PROPERTIES
  DanglesOnlyByForeignOffer
  BoxSpec

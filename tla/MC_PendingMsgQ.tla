--------------------------- MODULE MC_PendingMsgQ ---------------------------
(* Instances of PendingMsgQ for TLC: two clients with different CRC32 values. *)
EXTENDS PendingMsgQ, TLC

CONSTANTS p1, p2

TwoPeers == {p1, p2}
DistinctHashes == (p1 :> 1) @@ (p2 :> 2)
=============================================================================

------------------------ MODULE MC_StreamingSessions ------------------------
(* Instances of StreamingSessions for TLC: one or two clients, two or three  *)
(* session blocks, at most two sessions at a time.                           *)
EXTENDS StreamingSessions, TLC

CONSTANTS p1, p2

OnePeer == {p1}
TwoPeers == {p1, p2}
OnePeerHash == p1 :> 1
DistinctHashes == (p1 :> 1) @@ (p2 :> 2)

Blocks == Permutations(Sessions)
=============================================================================

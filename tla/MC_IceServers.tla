---------------------------- MODULE MC_IceServers ----------------------------
(* An instance of IceServers, and of SignalingClient in it, for TLC: a client *)
(* and its successor, two ICE agents beside the signaling thread, and a TURN  *)
(* configuration of up to two URIs that just fits.                            *)
EXTENDS IceServers
=============================================================================

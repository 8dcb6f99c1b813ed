-------------------------- MODULE MC_MediaControl ---------------------------
(* MediaControl for TLC.  Two sessions and two names of threads: a session   *)
(* can end while the other goes on, and a thread while its successor starts. *)
EXTENDS MediaControl
=============================================================================

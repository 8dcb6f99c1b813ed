--------------------------- MODULE MC_AppLifecycle ---------------------------
(* An instance of AppLifecycle for TLC: a pool whose limit of one is         *)
(* exceeded by one while a third certificate is used and a fourth generated; *)
(* two retries of the station and three rounds of the wait for the time.     *)
EXTENDS AppLifecycle
=============================================================================

--------------------------- MODULE MC_Negotiation ---------------------------
(* Instances of Negotiation for TLC: two sessions that overlap, with two     *)
(* candidates each.                                                          *)
EXTENDS Negotiation
=============================================================================

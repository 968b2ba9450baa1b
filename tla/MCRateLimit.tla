------------------------------ MODULE MCRateLimit -----------------------------
(* RateLimit for TLC: its constants are numbers, given in the .cfg files. *)
EXTENDS RateLimit
=============================================================================

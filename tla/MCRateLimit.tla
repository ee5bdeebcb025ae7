---------------------------- MODULE MCRateLimit ----------------------------
(* Two senders. *)
EXTENDS RateLimit

CONSTANTS k1, k2

MCKeys == {k1, k2}
=============================================================================

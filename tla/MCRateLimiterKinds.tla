------------------------- MODULE MCRateLimiterKinds -------------------------
(* Two addresses in one chain, and two buckets.                                *)
EXTENDS RateLimiterKinds
CONSTANTS a1, a2, t1
MCHash(a) == 0
MCHashes == {0}
=============================================================================

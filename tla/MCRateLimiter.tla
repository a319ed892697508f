--------------------------- MODULE MCRateLimiter ---------------------------
(* Three addresses, two of which share a chain, and two buckets.              *)
EXTENDS RateLimiterLog
CONSTANTS a1, a2, a3, t1, t2
MCHash(a) == IF a = a3 THEN 1 ELSE 0
MCHashes == {0, 1}
=============================================================================

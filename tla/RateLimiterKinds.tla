------------------------- MODULE RateLimiterKinds -------------------------
(* RateLimiterLog with requests of two kinds, as SVC_ApplyAuthorizeIpPacket-   *)
(* Limit and the limits of the other requests: an address has one bucket for    *)
(* both, each request looks it up and charges it with the burst of its own      *)
(* kind, and one with the smaller burst reclaims buckets sooner.                *)
EXTENDS RateLimiterLog

CONSTANT SmallBurst  \* of the other requests, in 1..Burst; Burst is the larger one

VARIABLE kind  \* per thread, that of the request it works on

Small == INSTANCE RateLimiter WITH Burst <- SmallBurst

Kinds == {"small", "large"}

KindsInit == LogInit /\ kind = [t \in Threads |-> "large"]

\* SVC_RateLimitAddress's arguments: the lookup, and the charge, of a kind.
Lookup(t, a) ==
    /\ \E k \in Kinds :
         /\ kind' = [kind EXCEPT ![t] = k]
         /\ IF k = "small" THEN Small!BucketForAddress(t, a) ELSE BucketForAddress(t, a)
    /\ UNCHANGED logVars
Charge(t) ==
    /\ IF kind[t] = "small" THEN Small!RateLimitAddress(t) ELSE RateLimitAddress(t)
    /\ LogAddress(t)
    /\ UNCHANGED kind

KindsNext ==
    \/ Tick /\ UNCHANGED <<logVars, kind>>
    \/ \E t \in Threads :
         \/ \E a \in Addresses : Lookup(t, a)
         \/ Charge(t)
         \/ RateLimitOutbound(t) /\ UNCHANGED <<logVars, kind>>
KindsSpec == KindsInit /\ [][KindsNext]_<<limiterVars, logVars, kind>>

-----------------------------------------------------------------------------
\* What is left of the larger limit when requests of the smaller kind reclaim its
\* buckets ("Reclaim expired buckets"): an address starts with an empty bucket again
\* only after a silence of the smaller kind's whole burst, so that a window of time
\* holds at most the bursts of the buckets it may have had in it.
SmallExpiry == SmallBurst * Period
MixedBound ==
    \A a \in Addresses, from \in 0..now :
        LET length == now - from + Period - 1
            made == 1 + length \div (SmallExpiry + 1)
        IN  admitted[a][from] <= made * Burst + length \div Period
===========================================================================

-------------------------- MODULE RateLimiterLog --------------------------
(* RateLimiter with a log of what it let through and what it refused, for the *)
(* properties that speak of windows of time. The log ends when the clock is   *)
(* set back: the limiter promises nothing about times that come twice.        *)
EXTENDS RateLimiter

VARIABLES
    steady,    \* the clock has never been set back
    verdict,   \* the last charge of an address: whose, by which bucket, when
    admitted,  \* per address and time, the requests let through since that time
    admittedOut  \* per time, those the outbound bucket let through since then
logVars == <<steady, verdict, admitted, admittedOut>>

NoVerdict == [adr |-> NoAddress, limited |-> FALSE, bucket |-> 0, time |-> 0]
Never == [x \in 0..MaxTime |-> 0]
OneMore(f) == [x \in 0..MaxTime |-> IF x <= now THEN f[x] + 1 ELSE f[x]]

LogInit ==
    /\ LimiterInit /\ steady = TRUE
    /\ verdict = NoVerdict
    /\ admitted = [a \in Addresses |-> Never]
    /\ admittedOut = Never

LogSetBack ==
    /\ steady' = FALSE
    /\ verdict' = NoVerdict
    /\ admitted' = [a \in Addresses |-> Never]
    /\ admittedOut' = Never

\* SVC_RateLimitAddress returns to the thread.
LogAddress(t) ==
    LET limited == pc'[t] = "idle"
    IN  /\ verdict' = [adr |-> adr[t], limited |-> limited, bucket |-> cur[t],
                       time |-> now]
        /\ admitted' = IF limited THEN admitted
                       ELSE [admitted EXCEPT ![adr[t]] = OneMore(@)]
        /\ UNCHANGED <<steady, admittedOut>>
\* SVC_RateLimit of the outbound bucket returns.
LogOutbound ==
    /\ admittedOut' = IF out'.burst > Leaked(out, OutBurst, OutPeriod).burst
                      THEN OneMore(admittedOut) ELSE admittedOut
    /\ UNCHANGED <<steady, verdict, admitted>>
IfSteady(log) == (steady /\ log) \/ (~steady /\ UNCHANGED logVars)

LogNext ==
    \/ Tick /\ UNCHANGED logVars
    \/ SetBack /\ LogSetBack
    \/ \E t \in Threads :
         \/ (\E a \in Addresses : BucketForAddress(t, a)) /\ UNCHANGED logVars
         \/ RateLimitAddress(t) /\ IfSteady(LogAddress(t))
         \/ RateLimitOutbound(t) /\ IfSteady(LogOutbound)
LogSpec == LogInit /\ [][LogNext]_<<limiterVars, logVars>>

-----------------------------------------------------------------------------
\* In every window that ends now; those that ended before were checked then.
Bounded(f, burst, period) ==
    \A from \in 0..now : f[from] <= burst + (now - from + period - 1) \div period

\* In no window of time does an address get more through than the burst and one
\* request per period, although its bucket is reclaimed and made anew.
RateBound == \A a \in Addresses : Bounded(admitted[a], Burst, Period)

\* Likewise for all that is sent out, whatever number of addresses ask.
OutRateBound == Bounded(admittedOut, OutBurst, OutPeriod)

\* A request that its bucket refuses is one of a busy address: the bucket counts
\* no request twice and forgets none of the time that passed.
RefusedOnlyWhenBusy ==
    verdict.limited /\ verdict.bucket # 0 =>
        LET from == verdict.time - Burst * Period
        IN  admitted[verdict.adr][IF from < 0 THEN 0 ELSE from] >= Burst

\* Both limits: each address's own, and the server's of what it sends out.
LimitsHold == RateBound /\ OutRateBound
===========================================================================

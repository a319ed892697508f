---------------------------- MODULE RateLimiter ----------------------------
(* The rate limiter of connectionless requests, src/code/ratelimiter.cpp: a     *)
(* table of leaky buckets, one per address, linked into hash chains, and a      *)
(* bucket for everything a server sends out. The game thread and the main       *)
(* threads of the proxies share the table under one recursive lock.             *)
(*                                                                            *)
(* A request goes through SVC_RateLimitAddress (the address's bucket is looked  *)
(* up or made, then charged, under one hold of the lock, reading the clock      *)
(* twice) and then through SVC_RateLimit of the outbound bucket.                *)
(*                                                                            *)
(* Abstractions: an address is a model value; the callers' other conditions     *)
(* (proxy addresses, script callbacks) decide only whether a request comes here;*)
(* all the requests of a run have one burst and period (RateLimiterKinds: two). *)
EXTENDS Naturals, Integers, FiniteSets, FiniteSetsExt

CONSTANTS
    Threads,               \* the game thread and the proxies' main threads
    Addresses,             \* the addresses requests come from
    MaxBuckets,            \* MAX_BUCKETS
    Hash(_), Hashes,       \* SVC_HashForAddress and its values
    Burst, Period,         \* limits of an address
    OutBurst, OutPeriod,   \* limits of the outbound bucket
    IntHalf,               \* 2^31: an int holds -IntHalf .. IntHalf - 1
    MaxTime,               \* bound of the model: the last time
    ClockSteps,            \* TRUE when the wall clock may be set back
    NoThread, NoAddress

ASSUME LimitsAssumption == /\ Burst \in Nat \ {0} /\ Period \in Nat \ {0}
                           /\ OutBurst \in Nat \ {0} /\ OutPeriod \in Nat \ {0}
ASSUME SizesAssumption == /\ MaxBuckets \in Nat \ {0} /\ MaxTime \in Nat
                          /\ IntHalf \in Nat \ {0} /\ ClockSteps \in BOOLEAN
ASSUME NamesAssumption == /\ NoThread \notin Threads /\ NoAddress \notin Addresses
                          /\ \A a \in Addresses : Hash(a) \in Hashes

Ids == 1..MaxBuckets  \* a bucket is its index in buckets[], NULL is 0

VARIABLES
    now,       \* Sys_Milliseconds64(), from the first call on
    critsect,      \* holder of CRITSECT_RATELIMITER
    buckets, heads,   \* buckets[] and bucketHashes[]
    out,       \* outboundLeakyBuckets[index]
    pc, adr, cur      \* per thread: where it is, its request, its bucket

table == <<buckets, heads>>
limiterVars == <<now, critsect, buckets, heads, out, pc, adr, cur>>

Free == [adr |-> NoAddress, lastTime |-> 0, burst |-> 0, prev |-> 0, next |-> 0]

LimiterInit ==
    /\ now = 0 /\ critsect = NoThread
    /\ buckets = [i \in Ids |-> Free] /\ heads = [h \in Hashes |-> 0]
    /\ out = Free
    /\ pc = [t \in Threads |-> "idle"]
    /\ adr = [t \in Threads |-> NoAddress] /\ cur = [t \in Threads |-> 0]

\* int interval = now - lastTime: the low bits of the difference, signed.
Interval(last) ==
    LET d == (now - last) % (2 * IntHalf)
    IN  IF d < IntHalf THEN d ELSE d - 2 * IntHalf

-----------------------------------------------------------------------------
(* SVC_BucketForAddress *)

\* The buckets of a chain in the order of the walk, 0 from its end on.
Walk(h) == LET w[n \in 0..MaxBuckets] ==
                 IF n = 0 THEN heads[h]
                 ELSE IF w[n-1] = 0 THEN 0 ELSE buckets[w[n-1]].next
           IN  w
Chain(h) == {Walk(h)[n] : n \in 0..MaxBuckets} \ {0}
Known(a) == {i \in Chain(Hash(a)) : buckets[i].adr = a}

MutantExpired(b) == b.lastTime # 0  \* the age is not looked at
\* lastTime is unsigned: one from before time 0, after the clock was set back, is
\* a large number.
Expired(b) ==
    b.lastTime # 0 /\ (Interval(b.lastTime) > Burst * Period \/ Interval(b.lastTime) < 0)
Usable == {i \in Ids : buckets[i].adr = NoAddress \/ Expired(buckets[i])}

MutantUnlink(i) ==  \* the successor keeps its link to the bucket
    LET b == buckets[i]
    IN  [buckets |-> [j \in Ids |->
             IF j = i THEN Free
             ELSE IF j = b.prev THEN [buckets[j] EXCEPT !.next = b.next]
             ELSE buckets[j]],
         heads |-> [h \in Hashes |->
             IF heads[h] = i THEN b.next ELSE heads[h]]]

\* A bucket taken out of its chain and cleared.
Unlink(i) ==
    LET b == buckets[i]
    IN  [buckets |-> [j \in Ids |->
             IF j = i THEN Free
             ELSE IF j = b.prev THEN [buckets[j] EXCEPT !.next = b.next]
             ELSE IF j = b.next THEN [buckets[j] EXCEPT !.prev = b.prev]
             ELSE buckets[j]],
         heads |-> IF buckets[i].adr # NoAddress /\ b.prev = 0
                   THEN [heads EXCEPT ![Hash(b.adr)] = b.next] ELSE heads]

\* A free bucket given to an address and put at the head of its chain.
Link(tbl, i, a) ==
    LET h == Hash(a)
        old == tbl.heads[h]
    IN  /\ buckets' = [j \in Ids |->
               IF j = i THEN [adr |-> a, lastTime |-> now, burst |-> 0,
                              prev |-> 0, next |-> old]
               ELSE IF j = old THEN [tbl.buckets[j] EXCEPT !.prev = i]
               ELSE tbl.buckets[j]]
        /\ heads' = [tbl.heads EXCEPT ![h] = i]

MutantHeldBy(t) == NoThread  \* lookup and charge take the lock one by one

\* The recursive lock stays with the thread between lookup and charge.
HeldBy(t) == t

\* The lookup. The first bucket of the array that is free or expired serves an
\* address that has none; there may be no such bucket.
BucketForAddress(t, a) ==
    /\ pc[t] = "idle" /\ critsect = NoThread
    /\ pc' = [pc EXCEPT ![t] = "charge"] /\ adr' = [adr EXCEPT ![t] = a]
    /\ \/ \E i \in Known(a) : cur' = [cur EXCEPT ![t] = i] /\ UNCHANGED table
       \/ /\ Known(a) = {} /\ Usable # {}
          /\ Link(Unlink(Min(Usable)), Min(Usable), a)
          /\ cur' = [cur EXCEPT ![t] = Min(Usable)]
       \/ /\ Known(a) = {} /\ Usable = {}
          /\ cur' = [cur EXCEPT ![t] = 0] /\ UNCHANGED table
    /\ critsect' = HeldBy(t)
    /\ UNCHANGED <<now, out>>

-----------------------------------------------------------------------------
(* SVC_RateLimit *)

MutantLeaked(b, burst, period) ==  \* the remainder of the period is forgotten
    LET interval == Interval(b.lastTime)
        expired == interval \div period
    IN  IF interval < 0 \/ expired > b.burst
        THEN [b EXCEPT !.burst = 0, !.lastTime = now]
        ELSE [b EXCEPT !.burst = b.burst - expired, !.lastTime = now]

MutantLeakedAhead(b, burst, period) ==  \* the remainder is added
    LET interval == Interval(b.lastTime)
        expired == interval \div period
    IN  IF interval < 0 \/ expired > b.burst
        THEN [b EXCEPT !.burst = 0, !.lastTime = now]
        ELSE [b EXCEPT !.burst = b.burst - expired,
                       !.lastTime = now + (interval % period)]

\* What has leaked out of the bucket since it was last charged.
Leaked(b, burst, period) ==
    LET interval == Interval(b.lastTime)
        expired == interval \div period
    IN  IF interval < 0 \/ expired > b.burst
        THEN [b EXCEPT !.burst = 0, !.lastTime = now]
        ELSE [b EXCEPT !.burst = b.burst - expired,
                       !.lastTime = now - (interval % period)]

MutantHasRoom(b, burst) == b.burst <= burst
HasRoom(b, burst) == b.burst < burst
Charged(b, burst) == IF HasRoom(b, burst) THEN [b EXCEPT !.burst = @ + 1] ELSE b

RateLimitAddress(t) ==
    LET i == cur[t]
        b == Leaked(buckets[i], Burst, Period)
        limited == i = 0 \/ ~HasRoom(b, Burst)
    IN  /\ pc[t] = "charge" /\ critsect = HeldBy(t)
        /\ buckets' = IF i = 0 THEN buckets
                      ELSE [buckets EXCEPT ![i] = Charged(b, Burst)]
        /\ pc' = [pc EXCEPT ![t] = IF limited THEN "idle" ELSE "outbound"]
        /\ adr' = [adr EXCEPT ![t] = NoAddress] /\ cur' = [cur EXCEPT ![t] = 0]
        /\ critsect' = NoThread
        /\ UNCHANGED <<now, heads, out>>

\* The request passes the outbound bucket, or is dropped there; the address has
\* been charged for it in either case.
RateLimitOutbound(t) ==
    LET b == Leaked(out, OutBurst, OutPeriod)
    IN  /\ pc[t] = "outbound" /\ critsect = NoThread
        /\ out' = Charged(b, OutBurst)
        /\ pc' = [pc EXCEPT ![t] = "idle"]
        /\ UNCHANGED <<now, critsect, table, adr, cur>>

Tick ==
    /\ now < MaxTime /\ now' = now + 1
    /\ UNCHANGED <<critsect, table, out, pc, adr, cur>>
SetBack ==
    /\ ClockSteps /\ now > 0 /\ now' = now - 1
    /\ UNCHANGED <<critsect, table, out, pc, adr, cur>>

LimiterNext ==
    \/ Tick \/ SetBack
    \/ \E t \in Threads : \/ \E a \in Addresses : BucketForAddress(t, a)
                          \/ RateLimitAddress(t) \/ RateLimitOutbound(t)
LimiterSpec == LimiterInit /\ [][LimiterNext]_limiterVars

-----------------------------------------------------------------------------
BucketType == [adr : Addresses \cup {NoAddress}, lastTime : Int,
               burst : Nat, prev : 0..MaxBuckets, next : 0..MaxBuckets]
LimiterTypeOK ==
    /\ now \in 0..MaxTime /\ critsect \in Threads \cup {NoThread}
    /\ buckets \in [Ids -> BucketType] /\ heads \in [Hashes -> 0..MaxBuckets]
    /\ out \in BucketType
    /\ pc \in [Threads -> {"idle", "charge", "outbound"}]
    /\ adr \in [Threads -> Addresses \cup {NoAddress}]
    /\ cur \in [Threads -> 0..MaxBuckets]

\* The doubly linked chains stay chains while buckets are reclaimed from one and
\* linked into another: every walk ends, a bucket in use is in the chain of its
\* address's hash, a free one is in none, the links agree, and no address has
\* two buckets.
ChainsWellFormed ==
    /\ \A h \in Hashes :
         /\ Walk(h)[MaxBuckets] = 0
         /\ heads[h] # 0 => buckets[heads[h]].prev = 0
         /\ \A i \in Chain(h) :
              /\ buckets[i].adr # NoAddress /\ Hash(buckets[i].adr) = h
              /\ LET n == buckets[i].next IN n # 0 => buckets[n].prev = i
    /\ \A i \in Ids : buckets[i].adr # NoAddress =>
         /\ i \in Chain(Hash(buckets[i].adr))
         /\ \A j \in Ids : buckets[j].adr = buckets[i].adr => j = i

\* The bucket a thread looked up is still its address's when it is charged: no
\* other thread has reclaimed it for another address in between.
ChargesOwnBucket ==
    \A t \in Threads : pc[t] = "charge" /\ cur[t] # 0 =>
        buckets[cur[t]].adr = adr[t]

\* The table between any two steps of its two threads.
TableSound == LimiterTypeOK /\ ChainsWellFormed /\ ChargesOwnBucket
=============================================================================

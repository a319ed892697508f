-------------------------- MODULE ProxyQueryCache --------------------------
(* The query cache of one proxy (src/code/proxy/proxy.c): a thread asks the    *)
(* main server for its info and status over one UDP socket and keeps the       *)
(* answers; the proxy's main thread answers getinfo and getstatus from them;   *)
(* the master server thread announces the proxy once both are there.           *)
(*                                                                            *)
(* The main server answers its packets in order, between frames, and not at    *)
(* all while it loads a map: an answer may come after the 1 s timeout of the    *)
(* read that wanted it, and then waits in the socket's buffer for the next one. *)
(*                                                                            *)
(* Abstractions: an answer is its kind and the map it describes; the cache lock *)
(* is held over a copy only, so each copy is one step.                         *)
EXTENDS Naturals, Sequences

CONSTANTS MaxMap,    \* bound of the model: maps the server loads
          MaxLate,   \* bound: answers that come after the timeout
          MaxFaults  \* bound: stray or lost packets, failed sends

ASSUME BoundsAssumption ==
    MaxMap \in Nat \ {0} /\ MaxLate \in Nat /\ MaxFaults \in Nat

VARIABLES
    server,    \* main server: "down" (com_sv_running is 0), "loading", "up"
    map,       \* the map it runs, 0 before the first
    requests,  \* queries waiting in the main server's socket
    rbuf,      \* answers waiting in the query thread's socket
    qpc,       \* query thread: "top" of its loop, or reading "info", "status"
    info,      \* queryCache.infoResponse: the map it describes, 0 when invalid
    status,    \* queryCache.statusResponse, likewise
    served,    \* history: the last map a client was told of, per kind
    hpc,       \* master server thread: reads "running", "info", "status", or at "send"
    announced, \* a heartbeat was sent to the master server
    late,      \* reads that timed out while the server was loading
    faults     \* stray or lost packets and failed sends so far

cacheVars == <<info, status>>
heartVars == <<hpc, announced>>
clientVars == <<served, heartVars>>
serverVars == <<server, map>>
netVars == <<requests, rbuf>>
envVars == <<late, faults>>
queryVars == <<serverVars, netVars, qpc, cacheVars, clientVars, envVars>>

QueryKinds == {"info", "status"}
Answer(k) == [from |-> "server", kind |-> k, map |-> map]
Stray == [from |-> "other", kind |-> "info", map |-> 0]

CacheInit ==
    /\ server = "down" /\ map = 0
    /\ requests = <<>> /\ rbuf = <<>>
    /\ qpc = "top"
    /\ info = 0 /\ status = 0
    /\ served = [k \in QueryKinds |-> 0]
    /\ hpc = "running" /\ announced = FALSE
    /\ late = 0 /\ faults = 0

Fault == faults < MaxFaults /\ faults' = faults + 1 /\ UNCHANGED late

(***************************************************************************)
(* The main server and the network.                                        *)
(***************************************************************************)
Load ==
    /\ server # "loading" /\ map < MaxMap
    /\ server' = "loading" /\ map' = map + 1
    /\ UNCHANGED <<netVars, qpc, cacheVars, clientVars, envVars>>
Loaded ==
    /\ server = "loading" /\ server' = "up"
    /\ UNCHANGED <<map, netVars, qpc, cacheVars, clientVars, envVars>>
LoadFails ==
    /\ server = "loading" /\ map < MaxMap /\ server' = "down"
    /\ UNCHANGED <<map, netVars, qpc, cacheVars, clientVars, envVars>>
ServerAnswers ==
    /\ server = "up" /\ requests # <<>>
    /\ requests' = Tail(requests)
    /\ rbuf' = Append(rbuf, Answer(Head(requests)))
    /\ UNCHANGED <<serverVars, qpc, cacheVars, clientVars, envVars>>
LoseRequest ==
    /\ Fault /\ requests # <<>> /\ requests' = Tail(requests)
    /\ UNCHANGED <<serverVars, rbuf, qpc, cacheVars, clientVars>>
StrayArrives ==
    /\ Fault /\ rbuf' = Append(rbuf, Stray)
    /\ UNCHANGED <<serverVars, requests, qpc, cacheVars, clientVars>>

(***************************************************************************)
(* The query thread: SV_ProxyQueryCacheLoop.                               *)
(***************************************************************************)
MutantAcceptable(m, k) == m.kind = k  \* the source is not checked

\* The checks of the source and of the response header.
Acceptable(m, k) == m.from = "server" /\ m.kind = k

MutantRequest(k) == requests' = requests \o <<k, k>> /\ qpc' = k  \* asks twice

Request(k) == requests' = Append(requests, k) /\ qpc' = k

Cached(k) == IF k = "info" THEN info ELSE status

\* What a cache holds after a datagram was read for it.
MutantRefreshed(m, k) ==  \* a failed refresh invalidates the cache
    IF Acceptable(m, k) THEN m.map ELSE 0
Refreshed(m, k) == IF Acceptable(m, k) THEN m.map ELSE Cached(k)

\* usleep() is over, the server runs, getinfo is sent.
QueryInfo ==
    /\ qpc = "top" /\ server # "down"
    /\ Request("info")
    /\ UNCHANGED <<serverVars, rbuf, cacheVars, clientVars, envVars>>

\* SV_RefreshInfoCache reads one datagram. An acceptable one refreshes the cache
\* and getstatus is sent; any other ends the round.
ReadInfo ==
    /\ qpc = "info" /\ rbuf # <<>> /\ rbuf' = Tail(rbuf)
    /\ info' = Refreshed(Head(rbuf), "info")
    /\ IF Acceptable(Head(rbuf), "info") THEN Request("status")
       ELSE qpc' = "top" /\ UNCHANGED requests
    /\ UNCHANGED <<serverVars, status, clientVars, envVars>>

\* SV_RefreshStatusCache reads one datagram.
ReadStatus ==
    /\ qpc = "status" /\ rbuf # <<>> /\ rbuf' = Tail(rbuf)
    /\ status' = Refreshed(Head(rbuf), "status")
    /\ qpc' = "top"
    /\ UNCHANGED <<serverVars, requests, info, clientVars, envVars>>

MutantTimeout == FALSE  \* the socket has no timeout

\* The 1 s timeout. A server that is up answers in time, so it takes a server
\* that does not answer, or a request that was lost.
ReadTimeout ==
    /\ qpc # "top" /\ rbuf = <<>>
    /\ \/ /\ server # "up"
          /\ late < MaxLate /\ late' = late + 1 /\ UNCHANGED faults
       \/ server = "up" /\ requests = <<>> /\ UNCHANGED envVars
    /\ qpc' = "top"
    /\ UNCHANGED <<serverVars, netVars, cacheVars, clientVars>>

\* sendto() fails; the round is over (a failing getinfo changes nothing).
SendFails ==
    /\ Fault
    /\ qpc = "info" /\ rbuf # <<>> /\ Acceptable(Head(rbuf), "info")
    /\ rbuf' = Tail(rbuf) /\ info' = Head(rbuf).map
    /\ qpc' = "top"
    /\ UNCHANGED <<serverVars, requests, status, clientVars>>

(***************************************************************************)
(* The readers of the cache.                                               *)
(***************************************************************************)
\* SV_SendCachedInfoResponse and SV_SendCachedStatusResponse.
Serve(k) ==
    /\ server # "down" /\ Cached(k) # 0
    /\ served' = [served EXCEPT ![k] = Cached(k)]
    /\ UNCHANGED <<serverVars, netVars, qpc, cacheVars, heartVars, envVars>>

\* SV_ProxyMasterServerLoop waits until com_sv_running and the two flags are set.  It
\* reads them one after the other, without the cache lock, and starts over when one
\* is not; after the last it sends the heartbeat, whatever the first has become.
CheckRunning ==
    /\ hpc = "running" /\ server # "down" /\ hpc' = "info"
    /\ UNCHANGED <<announced, serverVars, netVars, qpc, cacheVars, served, envVars>>
CheckFlag(k) ==
    /\ hpc = k
    /\ hpc' = IF Cached(k) = 0 THEN "running" ELSE IF k = "info" THEN "status" ELSE "send"
    /\ UNCHANGED <<announced, serverVars, netVars, qpc, cacheVars, served, envVars>>
Heartbeat ==
    /\ hpc = "send" /\ hpc' = "running" /\ announced' = TRUE
    /\ UNCHANGED <<serverVars, netVars, qpc, cacheVars, served, envVars>>

-----------------------------------------------------------------------------
QueryThread == QueryInfo \/ ReadInfo \/ ReadStatus \/ ReadTimeout
CacheNext ==
    \/ Load \/ Loaded \/ LoadFails \/ ServerAnswers \/ LoseRequest \/ StrayArrives
    \/ QueryThread \/ SendFails
    \/ \E k \in QueryKinds : Serve(k) \/ CheckFlag(k)
    \/ CheckRunning \/ Heartbeat
CacheSpec == CacheInit /\ [][CacheNext]_queryVars

\* A map load ends, a server that is up reads its socket every frame, and the
\* query thread is scheduled. Clients, faults and new maps are not fair.
CacheFairSpec == /\ CacheSpec
            /\ WF_queryVars(Loaded) /\ WF_queryVars(ServerAnswers) /\ WF_queryVars(QueryThread)

-----------------------------------------------------------------------------
Packets == [from : {"server", "other"}, kind : QueryKinds, map : 0..MaxMap]
CacheTypeOK ==
    /\ server \in {"down", "loading", "up"} /\ map \in 0..MaxMap
    /\ requests \in Seq(QueryKinds) /\ rbuf \in Seq(Packets)
    /\ Len(requests) <= MaxLate + MaxFaults + 1
    /\ qpc \in QueryKinds \cup {"top"}
    /\ info \in 0..MaxMap /\ status \in 0..MaxMap
    /\ served \in [QueryKinds -> 0..MaxMap]
    /\ hpc \in QueryKinds \cup {"running", "send"} /\ announced \in BOOLEAN
    /\ late \in 0..MaxLate /\ faults \in 0..MaxFaults

\* However far the answers lag behind the questions, an answer that is taken into
\* a cache never takes the cache, nor what clients are told, back to an older map.
NeverBackwards ==
    [][/\ info' >= info /\ status' >= status
       /\ \A k \in QueryKinds : served'[k] >= served[k]]_queryVars

\* The socket carries at most one answer per timed out, stray or failed exchange
\* more than the query thread is waiting for: it must not fall behind further with
\* every round.
LagBounded ==
    Len(requests) + Len(rbuf) <= late + faults + (IF qpc = "top" THEN 0 ELSE 1)

\* The master server lists the proxy only when it can answer both queries, and it
\* can from then on: the flags that the thread reads one by one, while the query
\* thread refreshes the caches, or fails to, hold together when it sends.
AnnouncedWhenServable == announced => info # 0 /\ status # 0

\* After the last map load the info cache, and what a client is told, comes to
\* describe the running map, whatever was late, stray or lost before.
InfoCatchesUp == (server = "up" /\ map = MaxMap) ~> (info = MaxMap)

\* The comment of SV_ProxyQueryCacheLoop: a quick update of the caches once the
\* server responds again, although an answer came too late.
StatusCatchesUp == (server = "up" /\ map = MaxMap) ~> (status = MaxMap)

\* What a restart or a fault could break at any moment: the buffer falls behind
\* no further than its faults explain.
CachesSound == CacheTypeOK /\ LagBounded
=============================================================================

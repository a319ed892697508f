# Verification of libcod

libcod is a shared library loaded into the Call of Duty 2 dedicated server (`src/code`). It hooks the
engine's functions, rewrites much of its network code, adds script functions, and brings subsystems of
its own: UDP proxies for other protocol versions, a rate limiter, asynchronous MySQL, an HTTP and
WebSocket client, JSON documents, waypoint graphs. This directory holds TLA+ modules of the parts that
keep state over time, configurations that check them with TLC, and proofs checked by TLAPS.

Contents: [inventory](#inventory), [modules](#modules), [runs](#runs), [fairness](#fairness),
[proofs](#proofs), [disagreements](#disagreements), [limits](#limits), [not modelled](#not-modelled),
[plan](#plan).

## Inventory

The engine runs one **game thread**: it reads packets, runs frames and scripts, and calls almost all
of libcod. Other threads are started by the proxies, by MySQL, by `exec_async_*` and by JSON
loads and saves. Scripts poll for asynchronous results, or get a callback at the end of a frame.

| Component | Source | State it keeps | Operations | What is hard |
|---|---|---|---|---|
| Proxy forwarding | `proxy/proxy.c` | slots hashed by client address, sockets, one thread per client, `stopped`, `numClients` | receive, forward, thread exit, `SV_ShutdownProxies` | hash collisions evict clients whose threads live on; descriptors are reused; shutdown races threads |
| Proxy query cache | `proxy/proxy.c` | cached info and status, the query socket's buffer | refresh round, serve, heartbeat | answers later than the timeout, stray packets, map loads |
| Rate limiter | `ratelimiter.cpp` | buckets, hash chains, an outbound bucket per server | look up or reclaim, charge | game thread and proxies share the table; `int` intervals; the wall clock |
| MySQL (default) | `gsc_mysql.cpp` | task list, connections, lock | initialize, create, list, free; handler; executing threads | flags written without the lock; partial initialization |
| HTTP, WebSocket | `http_websocket_client.hpp`, `gsc_http_ws.cpp` | requests, sockets, slots, event queue, level generation | fetch, open, send, close, `poll`, level change, quit | callbacks that close, open or change the level inside the queue's delivery |
| JSON | `gsc_json.cpp` | documents, job list, one worker per job | load, save, result, level load, quit | saves of one file that overtake each other; level loads under running workers |
| Connection set-up | `libcod.cpp` | challenges, client slots, ages of last packets | getchallenge, ipAuthorize, connect, packet, drop, timeouts | late authorizations, repeated connects, translated ports, slots left behind, long frames |
| Netchan | `libcod.cpp` | sequences, fragment buffer | process, transmit, next fragment | lost, repeated, reordered packets |
| Reliable commands | `libcod.cpp` | a ring per side, acknowledgements, the server id | add, send, acknowledge, execute | a ring that wraps before it is acknowledged; messages ignored because of a map load |
| Downloads | `libcod.cpp` | the client's window of blocks | open, write, retransmit, nextdl, donedl | slots reused under a retransmission; a map load in the middle |
| Client snapshots | `libcod.cpp` | ring of frames, rings of entities and players of all clients | build, write, acknowledge, enter world | a base overwritten by other clients' snapshots or a map load |
| Graph search | `gsc_graph.cpp` | waypoint graph, cached trees, scratch stamps, graph file | add, change, remove, autodiscover, precompute, find path, save, load | caches and stamps that outlive a change |
| MySQL (voron), async commands | `gsc_mysql_voron.cpp`, `gsc_exec.cpp` | task lists, flags | create, poll, free | lists walked without the lock |
| Notify queue, archived snapshots | `libcod.cpp` | bounded queues | add, get | bounds |
| Script functions, hooks | `gsc_*.cpp`, `cracking.cpp`, `jump.cpp`, `dvar.cpp` | engine structures | getters and setters | sequential |

How they interact: a proxy's main thread answers queries from the cache, sends every other packet
through the rate limiter and then to a client thread's socket; the engine sees proxy clients as
clients of its own, all of one local address. A packet that names an address and qport finds its slot
(connection set-up), its netchan puts the message together, which then carries reliable commands,
blocks of a download and a snapshot, and acknowledges those of the other side. HTTP, MySQL, exec and
JSON share nothing but the script engine, whose level change makes every pending script handle void.

What makes each correct:

- forwarding: no client gets another's packets, the table of threads stays exact, the shutdown ends;
- query cache: what clients are told never goes back to an older map, and recovers;
- rate limiter: a limit holds in every window of time and no idle client is refused;
- MySQL: one thread per connection, one result per query, none reaches a freed task;
- HTTP: one outcome per request, an ordered story per socket, silence for a dead level;
- JSON: a file holds the newest save that was reported, no worker loses its job;
- connection set-up: packets reach the session of who sent them, nobody is dropped by a hitch;
- netchan: whole messages, in order, at most once;
- commands, downloads, snapshots: nothing skipped, nothing mixed up, nobody dropped or stuck;
- graphs: paths that can be walked, the cheapest where that is promised.

## Modules

| Module | Models | Correspondence |
|---|---|---|
| `ProxyForward`, `MCProxyForward` | one proxy: main thread, client threads, `SV_ShutdownProxies` | `mpc` is where the main thread is in `SV_StartProxy`; `slot` is `clientThreadInfo`; `conn[s]` is the thread of descriptor `s` with its `args`; `spc`, `scan`, `scanFd` are the shutdown's position. A critical section of a client thread is one action; the main thread's is several, since it can be cancelled at its `sendto` |
| `ProxyQueryCache` | query thread, cache readers, master server thread, a main server that does not answer while it loads | `rbuf` is the query socket's buffer, `qpc` the read the thread is blocked in; an answer is its kind and map; `hpc` is the condition the master server thread reads next |
| `RateLimiter`, `RateLimiterLog`, `MCRateLimiter` | `SVC_BucketForAddress`, `SVC_RateLimit`, the outbound bucket; history of what was let through | `buckets`, `heads` are the two arrays with their links as indices; an interval is the low bits of a difference, as an `int` of `-IntHalf` to `IntHalf - 1` has them; `admitted[a][x]` is what the address got through since time `x` |
| `RateLimiterKinds`, `MCRateLimiterKinds` | `SVC_RateLimitAddress` called with two different bursts on one table | instantiates `RateLimiter` a second time, with the smaller burst; `kind[t]` is that of the request of thread `t` |
| `MysqlPool` | initializer, handler thread, executing threads, script functions | `tasks` is the list, `task` the fields of its members, `connTask[c]` is `c->task`; `hq`, `hc` are the handler's `q` and `c`; `exec[i].pc` is the statement the thread of query `i` is at |
| `WebSocketClient` | sockets, slots, event queue, `poll` | `phase` is the part of `poll` that runs; `ws[k].conn` stands for `live`, `wsi` and `connected`; `heard` is what a script makes of its callbacks |
| `HttpClient` | composes `WebSocketClient` with the requests of `httpFetch` | both use the same queue, frame and generation: a request step leaves the sockets alone, a frame step takes both |
| `MessageChannel` | abstract: what a netchan promises | the messages under way, the one received last |
| `Netchan` | one direction of `Netchan_Transmit*` and `custom_Netchan_Process` over a network that loses, repeats and reorders | `unsent` is `unsentFragments` with its length and start; `net` keeps every packet sent, so that each may arrive at any time, again or never |
| `ClientSession` | one client from its connect on, over map loads and fast restarts: `custom_SV_PacketEvent`, `custom_SV_ExecuteClientMessage`, `custom_SV_SendClientSnapshot`, the commands and downloads | `level` and `restart` are the halves of the server id; `up` and `down` are the messages under way as in `MessageChannel`; message numbers are reduced to "before, at or after the latest gamestate", all they are compared for; the stock client is modelled by what the handlers expect of it |
| `ClientSlots` | `custom_SV_DirectConnect`, `custom_ClientConnect`, the routing in `custom_SV_PacketEvent`, `custom_SV_DropClient`, `custom_SV_CheckTimeouts` | `slot` is `svs.clients`; times are ages in frames; `copy` is a duplicate of a connect still in the network |
| `Challenges` | the challenge table and the authorize server | an entry's number is known by the entry; `answered` is history |
| `Snapshots` | the snapshots of one client as differences to older ones | `frames`, `snapshotEntities`, `snapshotClients` are the rings; an entry is known by the message it was stored for |
| `JsonSaves` | the job list, workers, `json_save_rename`, level loads, quit | `jobs` is the list by id, `worker` where a thread is; a document is the number of its save |
| `GraphPaths`, `MCGraphPaths` | building and changing a graph, A*, cached trees, the file | `job` is a search in progress, one step per element taken from the heap; the heap is a set that hands out a smallest entry, which one is left open |
| `...Proofs` | proofs about the module of that name (`ProxyProofs`: about `ProxyForward`, `ProxyQueryCache`, `RateLimiter` and its log; `AsyncJobsProofs`: about `MysqlPool` and `JsonSaves`) | |

In `WebSocketClient` several script calls may happen while a callback runs (phase "callback"), which
is how a callback closes sockets whose events wait further down the queue.

`RateLimiterLog` and the variables marked *history* observe the code and guard none of its steps.
Operators named `Mutant...` are seeded mistakes: the operator below each is the code, and for every
property of a run `PROJECT.json` names the mistake that must break it. They are used nowhere else.

## Runs

| Run | Result | Shows |
|---|---|---|
| `proxy_forward` | holds | no client gets another's packets, slots name their owners and keep them until evicted, the count is right, no orphaned lock, no slot missed, the shutdown returns |
| `proxy_query_cache` | holds | the lag is bounded (`CachesSound`), a proxy that was announced can answer (`AnnouncedWhenServable`), caches never go back, the info cache recovers |
| `rate_limiter` | holds | chains and exclusive charging (`TableSound`), both limits in every window (`LimitsHold`), no idle client refused |
| `mysql_pool` | holds | queries start in order and freed tasks are not reached (`TasksSound`), connections and results are not shared or confused (`ResultsNotMixed`), queries are executed and the lock is given back (`PoolServes`) |
| `web_socket` | holds | byte count, slots, no use of freed sockets (`SocketsSound`), callbacks in order and silence for old levels (`StoryInOrder`), no reconnect after close |
| `http_client` | holds | at most one outcome per request (`RequestsSound`), never none, closed sockets are freed (`NothingLingers`) |
| `netchan` | holds | the fragment buffer is the beginning of one message; `Netchan` implements `MessageChannel` |
| `client_session` | holds | the client is not dropped and its file is intact (`DownloadSound`), no command is skipped, it is in the world only of its own level, does not get stuck, its commands are executed |
| `client_slots` | holds | packets reach the right slot, a slot has its own client's address (`SlotSound`), a late connect restarts nothing, hitches time nobody out, a peer whose session is gone is told |
| `json_saves` | holds | workers keep their jobs and limits hold (`JobsSound`), the newest save stays, every job ends |
| `graph_paths` | holds | the edge count is exact, paths can be walked, and are as cheap as promised |
| `challenges_guid` | violated | a client connects with the guid of the address that had its challenge before |

### Bounds

- `proxy_forward`: 3 clients on 2 slots and 2 descriptors, 2 openings of a slot. Two clients collide,
  so one evicts the other; the third keeps the second slot busy; with 2 descriptors the evicted
  thread's descriptor is reused as soon as it is closed. A third opening adds no new kind of owner.
- `proxy_query_cache`: 2 maps, 2 late answers, 2 faults (stray or lost packet, failed send). Two late
  answers put the socket a whole round behind, the most that changes which answer meets which read.
- `rate_limiter`: 2 threads, 3 addresses on 2 chains, 2 buckets, burst 1, period 2 and 4 units of time,
  `IntHalf` 4. Three addresses on two buckets force reclaiming from the middle of a chain; time
  passes `Burst * Period` and the sign bit of the interval (-4 to 3). What lies beyond these times is proved.
- `MCRateLimiterKinds` (by hand): 2 addresses in one chain, 2 buckets, bursts 2 and 1, period 2, 5 units of time: more
  than the smaller burst's silence of 2 units, less than the larger one's 4 in which its bucket still
  counts. One thread, since lookup and charge are under one lock (`rate_limiter`); the outbound bucket
  and a clock that is set back play no part.
- `mysql_pool`: 2 connections, 3 queries: one has to wait. Connects and threads may fail at each point.
- `web_socket`: 2 slots, 2 sockets, 1 level change, 1 event left over by a frame, receive queue of 1
  message. `MaxEvents` limits what waits for the next frame: a message is queued behind at most that
  many events, and a socket's end adds two more, so that error, close and message of two sockets queue together.
- `http_client`: 1 socket and 1 request, 1 level change: what they share is the queue and the frame.
- `netchan`: 3 messages of up to 6 units, fragments of 2, a buffer of 5: messages of one, two, three and
  four fragments, with an empty last one, and one that does not fit. Three messages give a fragment of
  a message before and of one after the one that is collected.
- `client_session`: a file of 2 blocks and its end in a window of 2, so that slots are reused; a ring of
  2 commands, which may get full; 3 levels, the first and the last with a file, a fast restart of the
  first two, one chat line that reads "nextdl"; one message under way per direction. The third level is
  needed for a request that is executed at the next level but one. Any message may be lost, since one that is
  sent takes the place of the one under way; a message that waits while the state changes is late.
- `MCClientSessionRefusal` (by hand): 1 level, a file of 1 block and one message under way per direction suffice for
  a refusal that is lost.
- `client_slots`: 2 peers of one address and 2 slots, one of them private and one peer with its
  password; 2 ports and 1 restart per peer; timeout 2, zombie time 1, reconnect limit 2, 1 frame of
  grace and frames of up to 2 units, so that one frame alone can make a client overdue. No property
  needs a third peer: who is confused with whom is a matter of two. `NoReplay` is about copies that come
  while the slot of their connect is still their peer's. Nothing in the code relates `sv_reconnectlimit`
  to `sv_zombietime`: where the limit is the longer one by two units or more, a copy that comes when the
  session is over and another peer has had its slot starts a session again, which the bounds of
  this run cannot show.
- `json_saves`: 2 files, 3 saves, 3 jobs, 2 at a time, 1 held load, 1 kept save: two workers of one file
  overtake each other while a save at once comes between them.
- `graph_paths`: 4 nodes, graphs from the script or from a file of 4 nodes and 5 edges (a detour and a
  short cut) or of 3 whose edges cost less than their length, 1 change, 1 cached tree, 2 searches out of
  8 queries (skip list, masks, weight 2, a budget, another start, start = goal). Stamps wrap around
  modulo 2, so that the third use of the scratch meets the stamps of the first.
- `challenges_guid`: 3 addresses on 2 entries, so that one is issued again.
- `CHECK_DEADLOCK FALSE` stands where the model may stop: the proxy was shut down, the client was
  destroyed or is gone, the server has quit, or all that the bounds allow was done.

### Assumptions of the models

- `ClientSlots`: peers have distinct qports (a peer draws one at random at its start), the NAT gives no
  port twice, packets are delayed by less than `sv_reconnectlimit`, and a frame takes no longer than
  `sv_timeout`. All peers share one address, where only ports and qports tell them apart.
- `ClientSession`: `sv_downloadMessage` is set or cleared while no file is being sent, a file that was
  opened is read without errors (one would end it early, `libcod.cpp:4700`), and no message overflows so
  far that the client is dropped (`libcod.cpp:3944`).
- `ClientSession`, `Snapshots`: messages travel as `MessageChannel` allows, which `Netchan` implements.
- `Snapshots`: the client downloads nothing while it is in the world, levels are numbered without the
  wrap of the server id, there are no fast restarts (they change neither rings nor the gamestate),
  and bots and demo recording are left out. Entries of a ring are known by their message only.
- `Challenges`: addresses are not local, and authorization is on.
- `GraphPaths`: nodes stand on a line and distances are whole numbers; rounding of `float` is left out.

## Fairness

- Proxy: a thread that can run runs, and one that waits for a mutex that is free again and again
  gets it (strong fairness of `Exit`, which competes for `proxy->lock`). Packets, timeouts of the
  sockets and the order to quit owe nothing; in particular the shutdown does not rely on the long
  receive timeout of the client threads, only on `shutdown()`, which makes `recvfrom` return.
- Query cache: a map load ends, the main server reads its socket each frame when it is up, the
  query thread runs.
- MySQL: the handler runs, `mysql_query` returns. No script has to poll.
- HTTP: frames follow each other, lws carries out what `kill()` asked for, a deadline passes. Peer, network and
  scripts owe nothing. Strong fairness is needed as these happen in one part of a frame only.
- `ClientSession`: the server sends in every frame the rate leaves room in, the client in each of its own;
  of the messages that are sent again and again some arrive, with what is new to the receiver in
  them (strong fairness, since any one may be lost). Map loads, restarts and chats owe nothing.
- `ClientSlots`: frames follow each other, and a peer that goes on sending is answered at last.
- `JsonSaves`: the system runs every worker until it returns. Nothing is required of scripts, and the
  quit may cut the wait short.

## Proofs

Each module of proofs follows one plan: `IInv`, stronger than the properties, holds initially and is
kept by every step (a lemma per action), and the theorems follow from it. They hold for every value of
the constants that satisfies the named `ASSUME` of the module (for `Snapshots`, `Sizes`, which the
theorems state). The bounds on steps, messages and jobs are constants too.

- `ProxyProofs`, of `ProxyForward`: `TypeCorrect`, `PacketsOfOwner`, `SlotsOwned`, `LockNeverOrphaned`, `NoSlotMissed`,
  `ClientsCounted`, `SlotsKept`. `IInv` adds: a packet in work has a sender; the main thread holds the
  lock exactly in its critical section (`LockInv`); how far the shutdown has come bounds where the main
  thread can be, and once the flag is up it is outside of the critical section for good (`StopInv`);
  within the section the slot stays the sender's (`SendInv`); what a descriptor carried is its client's
  and a closed one carried nothing, so reuse starts clean (`SentInv`); the slots the loop has passed are
  empty or shut down (`ScanInv`); the connection being opened still has its packet's flag when
  `pthread_create` fails (`OpeningInv`, for the count). Openings are numbered for `SlotKept`.
  Of `ProxyQueryCache`: `CachesAreSound`, `AnnouncedOnlyServable`, `MapsOnlyAdvance`. The server's answers in
  the buffer are in the order of their maps, and none is older than what is cached (`OrderInv`); a flag the
  master server thread has seen stays set (`HeartInv`), so that it needs no lock. What it saw of
  `com_sv_running` may have changed: one heartbeat can leave after the server came to rest.
  Of `RateLimiter` and its log: `TableStaysSound`, `LimitsAreKept`, `OnlyBusyAreRefused`. Each hash has a
  path of different buckets whose links and head are the array's and which holds every bucket with that
  hash (`Sound`); unlinking takes one bucket out of its path, linking puts one before another path, and the
  walk of the lookup goes along the path, which is no longer than the array (`WalkIs`). For the limits, a
  bucket is related to what its address got through (`Counted`): from any time on no more than its level
  and one per period up to its own time (`AtMost`), nothing since a period after it (`Quiet`), and since
  it was last empty exactly its level and what leaked (`AtLeast`). Leaking lowers the level and raises the
  time together; a bucket may be emptied or reclaimed because its address is then like one that has none
  (`Anew`). `LimitsAreKept` assumes that burst times period fits an `int`, which `ratelimiter.cpp:73`
  needs as well: with more, a negative interval empties a bucket that has not leaked yet, and TLC finds
  the limit broken. `OnlyBusyAreRefused` assumes that less than a full turn of the 32 bits passes (see
  [limits](#limits)).
- `NetchanProofs`: `BufferSound` and `Refinement`, the simulation of `MessageChannel`. `IInv` adds: each
  message consists of its own units; what is unsent is a tail of the last message that starts at a
  multiple of the fragment size; each packet in the network belongs to a message that was begun; the
  receiver is not ahead of the sender. The key lemmas are about the arithmetic of fragments: a last
  fragment is the one that is shorter, and joining it to the buffer gives the whole message.
- `ClientSessionProofs`: `CommandsInOrder`, `DownloadsAreSound`, `WorldOfItsLevel`. As long as the ring has
  room, acknowledgements under way lie between the one the server read last and what the client has
  received, and grow along the channel (`RingInv`); so none is out of range, and none is taken for "all
  of them". The download needs an invariant of its own, `SInv`: a gamestate under way is the only one,
  and reaches a client whose server has no download open (`Coming`); the commands a client issues for a
  file are a script (`Script`), and the server's download is where the commands it executed left it in
  that script (`Stage`: the request is to come, was executed, was denied, or the window is open and slides
  with each acknowledgement, `Served`); a request that is to come is read with all commands before it
  (`Early`). What a message's commands do is an induction along them (`CommandsRead`, over the recursive
  function of `ClientCommands`, whose existence is `Recursion`). `FillFacts` says that filling the window
  overwrites no slot of a block the client may still be sent.
- `HttpClientProofs`: `Bookkeeping`, `Stories`, `ClosedForGood`, for the sockets alone and, `SocketsBeside`,
  beside requests; `OneAnswer`. `Core` says what the counters and slots are of (`SocketsInv`, `SlotsInv`),
  that the queue holds what is told of live entries (`EventsInv`), that what a script will know once
  the queue is delivered is a story in order (`StoryInv`, the invariant that makes `StoryInOrder`
  inductive), `ReqsInv` that a request has an outcome, an event on its way, or neither. Sums
  and stories over queues are folds, about which the module proves what appending and removing do.
- `ClientSlotsProofs`: `SessionsAreReached`, `AddressesAreOwn`, `CopiesAreRefused`, `NobodyDroppedInHaste`.
  The loops that look for a slot stop at the first match, so what matters is the order of a peer's slots:
  one that is held shares neither port nor qport with one before it (`Apart`), and a newer port came with
  no older qport (`Ordered`). A free slot keeps the addresses it had, so both are about free slots too. A copy
  of a connect fits into that order, is no older than what is held, and finds first the slot it was
  given, which has aged no more than the copy (`CopyInv`). For timeouts: a client's count is less than
  the frames it was silent (`SilenceInv`).
- `SnapshotsProofs`: `BaseSound` and `SnapshotsReadable`, for rings of any size. Levels grow along the
  messages and no gamestate lies between a snapshot and its base (`DownInv`); the client is never ahead
  (`KnownInv`); in the world all its messages are of this level and the base it asks for is one it has
  (`StateInv`, `SnapshotInv`, `MoveInv`); a frame that is young enough is the snapshot's own, and its
  entities are in the ring while no index passed them (`RingInv`, which rests on lemmas about slots of
  rings: two indices less than a ring apart have different slots).
- `AsyncJobsProofs`, of `MysqlPool`: `TasksAreSound`, `ResultsAreOwn`. The list is in the order of ids and started in that
  order (`ListInv`); a thread has the connection it was started with, and its query is listed until it is
  marked as done (`ExecInv`); the handler walks with the lock and leaves nothing unstarted behind
  (`WalkInv`); a query has no result before it ran and one that failed stores none (`ResultInv`).
  Of `JsonSaves`: `JobsAreSound`, `NewestSaveStays`. A worker has its job while it runs (`WorkInv`); saves
  are numbered in the order of their jobs, and one that is not written yet is newer than the file
  unless it is marked as superseded (`SaveInv`); the jobs counted and held stay within their limits.

- `GraphPathsProofs`: `EdgesStayCounted`, `PathsStayWalkable`, `PathsStayCheap`, for graphs, costs, masks, skip
  lists and weights of every size. The assumptions are those of the code: costs are not negative, the
  weight is at least 1 (the model has whole ones), and a file of `graphSave` is a graph of its own
  counts. A path is as long as its costs add up to, and `FltMax` or more counts as no path.
  What is asked for is a definition of its own, `Cheapest`: rounds that each allow one edge more
  (Bellman-Ford), as many as there are nodes. It, `Walk` and `PathCost` are recursive functions; that
  they exist is `Recursion`, and what they give is an induction over rounds or along a path.
  For trees, `TreeCore`: every node with a finite cost but the goal is led by an open edge that makes
  up the difference in cost to a node of a lower rank, so a walk along the links meets no node
  twice (`WalkIs`), and its costs add up; and `Relaxes`: no edge is left that would make a node cheaper,
  so nothing is below the tree's cost. While a tree is built (`TreeJob`), edges are held against
  the settled nodes only, and what is settled costs no more than what the heap holds: the order of the
  heap is what makes settling final. Ranks are the order in which nodes were settled. They are needed
  since edges may cost nothing, where costs alone would not rule out a circle.
  For searches, `ReachedInv`: each node that was reached came from one that is done with, of a lower
  rank, at that one's cost and the edge's; a node that is done with keeps its cost and parent, so the parents
  lead back to the start (`FoundIs`). Stamps of earlier searches differ from `searchId` (`ScratchOK`: they
  are no larger, and are cleared when it wraps). `RelaxedInv`: all neighbours of what is done with were
  reached, so an empty heap means that everything was, where a way leads (`AllReached`). `BoundInv`: what is
  done with costs at most weight times the cheapest. Its step is `SmallestBound`: along a cheapest way
  there is always a node on the heap (`Covered`), whose entry is no smaller than the one taken; this
  is where edges have to be as long as the straight line, and the triangle inequality is used. The
  search never opens a closed node again, which the bound has to allow for: it is about all nodes
  that are done with, not the goal alone.

Only model-checked: progress (`ShutdownReturns`, `InfoCatchesUp`, `PoolServes`, `NothingLingers`, `NeverStuck`,
`CommandsExecuted`, `GhostsTold`, `EveryJobEnds`), since liveness is beyond the prover. Every
other property of a passing run is proved.

## Disagreements

Where the code does not do what a comment or a document says, a configuration shows it.
One is a run of the project:

- `ZeroGuidWithoutAnswer`: `added_dvars.md` says that a client the authorize server did not answer for in
  time gets "a zero GUID". `custom_SV_GetChallenge` issues the oldest entry again without clearing its
  guid, so a client of a new address may connect with the guid confirmed for the one before.

The others are kept beside it, to be run by hand (`tlc -config <cfg> <module>`); TLC finds each violated:

| Configuration | Property | What it shows |
|---|---|---|
| `MCProxyForwardReset` (`MCProxyForward`) | `NoThreadOutlivesReset` | `proxy.c` sleeps a second "for client threads to return ... before data is nuked"; the thread of an evicted client is in no slot, so no `shutdown()` reaches it |
| `MCProxyQueryCacheStatus` (`ProxyQueryCache`) | `StatusCatchesUp` | updating the status only after the info does not cover late answers: one stays in the buffer, and from then on the status request always reads the late info |
| `MCMysqlPoolConnect` (`MysqlPool`) | `EveryQueryRuns` | after an initializer that failed on its second connection there is a queue and no handler, but `mysql_async_create_query` goes on taking queries |
| `MCWebSocketClientError` (`WebSocketClient`) | `NoErrorAfterClose` | "no further onError" after `ws_close`, but one may already be in the queue |
| `MCWebSocketClientClose` (`WebSocketClient`) | `CloseIsHeard` | `onClose(false, true)` follows a close, unless the connection was lost in the same frame before: the queued `onClose` says a reconnect is coming, and none does |
| `MCClientSessionRefusal` (`ClientSession`) | `RefusalTold` | `added_dvars.md:480` says of `sv_downloadMessage` that players who attempt a download "are disconnected from the server, with the specified message displayed". The refusal is written into one message and the name is cleared with it (`libcod.cpp:4491`); if the message is lost, the client asks for nothing more and stays, waiting for a file that nobody sends, until the next map |
| `MCClientSessionDownload` (`ClientSession`) | `DownloadsBeforeWorld` | the comment "all relevant downloads should have been processed already": a fast restart puts a client in the world whose request comes later, and which then waits for blocks that are never sent |
| `MCClientSessionStale` (`ClientSession`) | `MapLoadReaches` | "Fix for clients getting stuck in the file download process if the server executes a map load while downloading is still in progress" (`libcod.cpp:10932`): a late request for an earlier level's file that is executed at the next level leaves a download open that nobody answers, so every message counts as current and the gamestate of the level after is never offered |
| `MCGraphPathsOptimal` (`MCGraphPaths`) | `OptimalAtWeightOne` | `added_dvars.md:283` says weight 1.0 "is optimal"; where edges cost less than the straight line, the heuristic overestimates and the path is not the cheapest |
| `MCGraphPathsCap` (`MCGraphPaths`) | `NodesCapped` | `added_dvars.md:295` says `sv_graphMaxNodes` "Caps ... graphAutodiscover"; on a full graph it adds its first node before any cap is looked at (`gsc_graph.cpp:2324-2335`) |
| `MCSnapshotsPlayers` (`Snapshots`) | `PlayersIntact` | a base's players may be overwritten: only entities are compared with their ring, so the players rely on their ring's size |

Two configurations hold by hand: `MCSnapshots` (`Snapshots`), with `BaseIntact` and `Readable`, in some two
minutes, both of which are proved; and `MCRateLimiterKinds` (`MCRateLimiterKinds`), with `MixedBound`, in half
a minute, which is not.

Stated with a restriction for the same reason: `PoolServes` excludes, for the lock, a handler thread that
died because `pthread_create` failed, since it returns with the lock held (`gsc_mysql.cpp:90`);
`NeverStuck` and `CommandsExecuted` exclude a refused download (told once, in a message that may be lost),
a download left open by a late request for an earlier level's file (`Stale`, in the table above),
a ring that was full, and a chat line that reads "nextdl" as the client's last command, after which its
messages of an old level are executed and answered with no new gamestate (`libcod.cpp:10939`);
`NoCommandSkipped` excludes a ring that was full, after which a late acknowledgement counts for
all commands (`libcod.cpp:11130`); `PathsCheapest` promises the weight's factor only where no edge costs
less than its length.

Noted while modelling: the first loop of `custom_SV_DirectConnect` also stops at a free slot whose old
address matches (so the model); a JSON load counts no bytes if the file was missing when it was asked
for (so the model); cached trees answer whatever `sv_graphAstarMaxIterations` says (so the model);
`firstPing` of a challenge is reset with an index that names a client by then (`libcod.cpp:1541`, which
affects the ping limits only and is not in the model).

## Limits

- Payloads, rewriting of version strings, parsing, logging and wording are left out.
- Timeouts of the operating system and deadlines may pass whenever the code looks at them; the one second
  sleep before the reset is taken to suffice for the threads that `shutdown()` woke.
- The flags of `gsc_mysql.cpp` that are written without a lock take effect in program order, as on x86.
- libwebsockets, libmysqlclient, the kernel's sockets, the game client and the rest of the engine's server
  loop are external: they are modelled from how the code uses them.
- `RateBound` is promised for requests of one burst and period. The limit on `ipAuthorize` has twice the
  burst of the others on the same table, and expiry goes by the burst of the request that looks
  (`ratelimiter.cpp:73`), so a bucket may be reclaimed that still counts; `MixedBound` says what is left
  (`MCRateLimiterKinds`, model-checked by hand).
- That only busy addresses are refused is promised for runs of less than 2^32 ms (49.7 days): an address
  that comes back after a whole number of these turns finds its bucket as if no time had passed, unless it
  was reclaimed meanwhile.
- `Challenges` and `ClientSlots` are separate: the first has no slots, the second a challenge that is
  accepted. Refusals by bans, passwords, pings and PunkBuster change no slot and are one refusal.
- Snapshots of other clients are entries in the shared rings, nothing more.

## Not modelled

- `gsc_mysql_voron.cpp` (chosen instead of the default at build time): its list is walked without a lock
  while it is appended to and freed; what that does depends on the compiler and the memory model.
- `gsc_exec.cpp`: a thread per command around `popen`; its flags have the same shape.
- The script notify queue: what it bounds are references of the script engine, which is not here.
- Archived snapshots: a ring written and read by one thread, whose contents are entity fields.
- Jump and movement rules, `dvar.cpp`, bans, and the script functions on players, entities, weapons, bots
  and levels (the largest part of the source by far): calculations, tables and getters of one thread,
  one call each, on structures of the engine.
- The documents of `gsc_json.cpp`, and `graphAutodiscoverEx`, closest nodes and edges, accessible nodes and
  statistics of `gsc_graph.cpp`: calculations on data.
- Hooking, BSP loading, the tables of engine addresses (`functions.hpp`, `declarations.hpp`) and the
  bundled libraries under `src/code/lib`, which hold almost a third of the implementation's lines: they
  are not this program's logic. This is also why the modelled share of all lines stays small.

## Plan

What would add most next:

1. Slots and challenges composed, with an authorize server that answers late for a slot in use.
2. The polled tasks of `gsc_exec.cpp`, with an abstract task that runs once and calls back at most once.

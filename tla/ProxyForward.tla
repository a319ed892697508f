---------------------------- MODULE ProxyForward ----------------------------
(* One proxy of src/code/proxy/proxy.c: the main thread (SV_StartProxy) that   *)
(* receives the clients' packets, one thread per forwarded client               *)
(* (SV_ProxyClientThread) that receives the main server's replies, and the      *)
(* game thread that ends them all (SV_ShutdownProxies, from Sys_Quit).          *)
(*                                                                            *)
(* A forwarded client owns a socket and a detached thread that closes it, so a *)
(* connection is named by its file descriptor; the kernel reuses descriptors.  *)
(* The slots of clientThreadInfo are found by hashing the client's address: a  *)
(* client whose slot holds another client evicts it, and the evicted thread    *)
(* lives on, outside the table, until its socket times out.                    *)
(*                                                                            *)
(* Abstractions: a client is its 64 bit identifier (CreateClientIdentifier);    *)
(* payloads are dropped, a packet is its sender and its kind; SO_RCVTIMEO may   *)
(* expire whenever the thread is in recvfrom; a rate limiter may drop any packet.*)
EXTENDS Naturals, Integers, FiniteSets

CONSTANTS
    Clients,     \* client identifiers
    Fds,         \* file descriptors the kernel can hand out for forwarding
    NoClient,    \* identifier == 0
    NoFd,        \* socket == -1
    SlotCount,   \* MAX_PROXY_CLIENT_THREADS
    Slot(_),     \* GetHash: the index of a client's slot
    MaxGen       \* bound of the model: openings of one slot

ASSUME SlotCountAssumption == SlotCount \in Nat \ {0}
ASSUME SlotAssumption == \A c \in Clients : Slot(c) \in 0..(SlotCount - 1)
ASSUME MaxGenAssumption == MaxGen \in Nat
ASSUME FdsAssumption == IsFiniteSet(Fds) /\ NoFd \notin Fds
ASSUME ClientsAssumption == NoClient \notin Clients

Slots == 0..(SlotCount - 1)

\* What the main thread does with a packet before it takes proxy->lock.
Kinds == {"connect", "getchallenge", "getchallenge0", "query", "rcon", "game"}
Active(k) == k \in {"connect", "getchallenge0"}

VARIABLES
    mpc,        \* main thread: "recv", "want", "locked", "send", "spawn", "done"
    pkt,        \* the packet the main thread handles: [from, active]
    isNew,      \* !slotMatches, as computed in the critical section
    lock,       \* holder of proxy->lock: "free", "main"
    slot,       \* clientThreadInfo: [socket, identifier, generation]
    conn,       \* per descriptor: state of its thread and the thread's args
    numClients, \* proxy->numClients
    stopped,    \* proxy->stopped
    spc,        \* game thread in SV_ShutdownProxies
    scan,       \* j, the slot the shutdown loop is at
    scanFd,     \* the socket it read from that slot
    shut,       \* descriptors shutdown() was called on
    cancel,     \* pthread_cancel(mainThread) was called
    sentFor     \* history: per descriptor, the clients whose packets it carried

mainVars == <<mpc, pkt, isNew, cancel>>
tableVars == <<slot, conn, numClients, sentFor>>
stopVars == <<stopped, spc, scan, scanFd, shut>>
vars == <<mainVars, lock, tableVars, stopVars>>

NoSlot(g) == [socket |-> NoFd, identifier |-> NoClient, generation |-> g]
NoConn == [state |-> "closed", client |-> NoClient, index |-> 0,
           generation |-> 0, active |-> FALSE]
NoPkt == [from |-> NoClient, active |-> FALSE]

Open == {s \in Fds : conn[s].state # "closed"}
Running == {s \in Fds : conn[s].state \in {"recv", "exiting"}}

-----------------------------------------------------------------------------
Init ==
    /\ mpc = "recv" /\ pkt = NoPkt /\ isNew = FALSE /\ cancel = FALSE
    /\ lock = "free"
    /\ slot = [i \in Slots |-> NoSlot(0)]
    /\ conn = [s \in Fds |-> NoConn]
    /\ numClients = 0
    /\ sentFor = [s \in Fds |-> {}]
    /\ stopped = FALSE /\ spc = "run" /\ scan = 0 /\ scanFd = NoFd /\ shut = {}

(***************************************************************************)
(* The main thread.                                                        *)
(***************************************************************************)
\* recvfrom() and the classification of the packet. Queries are answered from
\* the cache, rcon is dropped, and the limiter or the spoofing check may drop
\* the rest: the thread is back in recvfrom() with nothing changed.
Receive(c, k) ==
    /\ mpc = "recv"
    /\ k \notin {"query", "rcon"}
    /\ mpc' = "want" /\ pkt' = [from |-> c, active |-> Active(k)]
    /\ UNCHANGED <<isNew, cancel, lock, tableVars, stopVars>>

MutantLock ==  \* the flag is not tested
    /\ mpc = "want" /\ lock = "free"
    /\ mpc' = "locked" /\ lock' = "main"
    /\ UNCHANGED <<pkt, isNew, cancel, tableVars, stopVars>>

\* pthread_mutex_lock(&proxy->lock), then the test of proxy->stopped.
Lock ==
    /\ mpc = "want" /\ lock = "free"
    /\ IF stopped THEN mpc' = "done" /\ lock' = "free"
                  ELSE mpc' = "locked" /\ lock' = "main"
    /\ UNCHANGED <<pkt, isNew, cancel, tableVars, stopVars>>

MutantSlotMatches(c) == slot[Slot(c)].socket # NoFd  \* any client will do

\* pthread_mutex_unlock(&proxy->lock) and back to recvfrom().
Unlock == /\ mpc' = "recv" /\ lock' = "free"
          /\ pkt' = NoPkt /\ isNew' = FALSE

SlotMatches(c) == /\ slot[Slot(c)].socket # NoFd
                  /\ slot[Slot(c)].identifier = c

\* The slot is empty or another client's: open a socket and take the slot over.
OpenSocket(s) ==
    LET c == pkt.from
        i == Slot(c)
        g == slot[i].generation + 1
    IN  /\ mpc = "locked" /\ ~SlotMatches(c)
        /\ s \notin Open /\ g <= MaxGen
        /\ slot' = [slot EXCEPT ![i] =
                      [socket |-> s, identifier |-> c, generation |-> g]]
        /\ conn' = [conn EXCEPT ![s] =
                      [state |-> "open", client |-> c, index |-> i,
                       generation |-> g, active |-> pkt.active]]
        /\ numClients' = IF pkt.active THEN numClients + 1 ELSE numClients
        /\ isNew' = TRUE /\ mpc' = "send"
        /\ UNCHANGED <<pkt, cancel, lock, sentFor, stopVars>>

\* socket() failed: leave everything as it is.
NoSocket ==
    /\ mpc = "locked" /\ ~SlotMatches(pkt.from)
    /\ Unlock
    /\ UNCHANGED <<cancel, tableVars, stopVars>>

\* The packet belongs to a client that has its slot.
KnownClient ==
    /\ mpc = "locked" /\ SlotMatches(pkt.from)
    /\ isNew' = FALSE /\ mpc' = "send"
    /\ UNCHANGED <<pkt, cancel, lock, tableVars, stopVars>>

\* sendto() on the slot's socket; a known client's packet is then done with.
Forward ==
    LET s == slot[Slot(pkt.from)].socket
    IN  /\ mpc = "send"
        /\ sentFor' = [f \in Fds |-> IF f = s THEN sentFor[f] \cup {pkt.from}
                                              ELSE sentFor[f]]
        /\ IF isNew THEN mpc' = "spawn" /\ UNCHANGED <<lock, pkt, isNew>>
                    ELSE Unlock
        /\ UNCHANGED <<cancel, slot, conn, numClients, stopVars>>

\* pthread_create() of the client thread succeeded.
Spawn ==
    /\ mpc = "spawn"
    /\ conn' = [conn EXCEPT ![slot[Slot(pkt.from)].socket].state = "recv"]
    /\ Unlock
    /\ UNCHANGED <<cancel, slot, numClients, sentFor, stopVars>>

MutantReleased(active) == numClients - 1  \* queries were never counted

\* numClients after the end of a connection.
Released(active) == IF active THEN numClients - 1 ELSE numClients

MutantSpawnFails ==  \* the slot keeps the closed socket
    LET s == slot[Slot(pkt.from)].socket
    IN  /\ mpc = "spawn"
        /\ conn' = [conn EXCEPT ![s] = NoConn]
        /\ sentFor' = [sentFor EXCEPT ![s] = {}]
        /\ numClients' = Released(pkt.active)
        /\ Unlock
        /\ UNCHANGED <<cancel, slot, stopVars>>

\* pthread_create() failed: the opening is undone.
SpawnFails ==
    LET i == Slot(pkt.from)
        s == slot[i].socket
    IN  /\ mpc = "spawn"
        /\ conn' = [conn EXCEPT ![s] = NoConn]
        /\ sentFor' = [sentFor EXCEPT ![s] = {}]
        /\ slot' = [slot EXCEPT ![i].socket = NoFd]
        /\ numClients' = Released(pkt.active)
        /\ Unlock
        /\ UNCHANGED <<cancel, stopVars>>

\* Deferred cancellation acts at recvfrom() and at sendto(), and releases nothing.
Cancelled ==
    /\ cancel /\ mpc \in {"recv", "send"}
    /\ mpc' = "done"
    /\ UNCHANGED <<pkt, isNew, cancel, lock, tableVars, stopVars>>

(***************************************************************************)
(* The client threads.                                                     *)
(***************************************************************************)
\* The thread of s ends: recvfrom() timed out or failed, or the forwarding of a
\* reply failed with EBADF.
Timeout(s) ==
    /\ conn[s].state = "recv"
    /\ conn' = [conn EXCEPT ![s].state = "exiting"]
    /\ UNCHANGED <<mainVars, lock, slot, numClients, sentFor, stopVars>>

\* recvfrom() returns 0, because of shutdown() or of an empty datagram: the
\* thread ends if the proxy is stopped, and receives again otherwise.
ReceivedNothing(s) ==
    /\ conn[s].state = "recv" /\ lock = "free"
    /\ stopped
    /\ conn' = [conn EXCEPT ![s].state = "exiting"]
    /\ UNCHANGED <<mainVars, lock, slot, numClients, sentFor, stopVars>>

MutantOwnsSlot(s) == slot[conn[s].index].socket # NoFd  \* whoever owns it

\* The thread leaves: it closes its socket and gives its slot back, unless the
\* slot has a new owner by now. One critical section.
OwnsSlot(s) ==
    LET i == conn[s].index
    IN  slot[i].generation = conn[s].generation /\ slot[i].socket = s
Exit(s) ==
    /\ conn[s].state = "exiting" /\ lock = "free"
    /\ slot' = IF OwnsSlot(s)
               THEN [slot EXCEPT ![conn[s].index] = NoSlot(conn[s].generation)]
               ELSE slot
    /\ numClients' = Released(conn[s].active)
    /\ conn' = [conn EXCEPT ![s] = NoConn]
    /\ sentFor' = [sentFor EXCEPT ![s] = {}]
    /\ shut' = shut \ {s}
    /\ UNCHANGED <<mainVars, lock, stopped, spc, scan, scanFd>>

(***************************************************************************)
(* The game thread: SV_ShutdownProxies.                                    *)
(***************************************************************************)
\* Sys_Quit: the proxy has to stop.
ShutdownProxies ==
    /\ spc = "run" /\ spc' = "stop"
    /\ UNCHANGED <<mainVars, lock, tableVars, stopped, scan, scanFd, shut>>

MutantStop ==  \* the flag is not raised
    /\ spc = "stop" /\ lock = "free"
    /\ spc' = "read"
    /\ UNCHANGED <<mainVars, lock, tableVars, stopped, scan, scanFd, shut>>

\* stopped = qtrue under the lock.
Stop ==
    /\ spc = "stop" /\ lock = "free"
    /\ stopped' = TRUE /\ spc' = "read"
    /\ UNCHANGED <<mainVars, lock, tableVars, scan, scanFd, shut>>

\* The loop over the slots takes no lock: the socket is read in one step ...
ReadSlot ==
    /\ spc = "read" /\ scan \in Slots
    /\ IF slot[scan].socket = NoFd
       THEN scan' = scan + 1 /\ UNCHANGED <<spc, scanFd>>
       ELSE spc' = "shut" /\ scanFd' = slot[scan].socket /\ UNCHANGED scan
    /\ UNCHANGED <<mainVars, lock, tableVars, stopped, shut>>

\* ... and shut down in another, after its thread may have closed it.
ShutSocket ==
    /\ spc = "shut"
    /\ shut' = IF scanFd \in Open THEN shut \cup {scanFd} ELSE shut
    /\ spc' = "read" /\ scan' = scan + 1 /\ scanFd' = NoFd
    /\ UNCHANGED <<mainVars, lock, tableVars, stopped>>

MutantCancelMain ==  \* join without cancelling
    /\ spc = "read" /\ scan \notin Slots
    /\ spc' = "join"
    /\ UNCHANGED <<mainVars, lock, tableVars, stopped, scan, scanFd, shut>>

CancelMain ==
    /\ spc = "read" /\ scan \notin Slots
    /\ cancel' = TRUE /\ spc' = "join"
    /\ UNCHANGED <<mpc, pkt, isNew, lock, tableVars, stopped, scan, scanFd, shut>>

\* pthread_join(mainThread), then close(proxy->socket).
Join ==
    /\ spc = "join" /\ mpc = "done"
    /\ spc' = "grace"
    /\ UNCHANGED <<mainVars, lock, tableVars, stopped, scan, scanFd, shut>>

\* sleep(1), taken to be long enough for every thread that shutdown() woke, then
\* SV_ResetProxiesInformation, which also resets the lock.
Reset ==
    /\ spc = "grace" /\ shut = {}
    /\ slot' = [i \in Slots |-> NoSlot(0)]
    /\ numClients' = 0 /\ stopped' = FALSE /\ lock' = "free"
    /\ spc' = "reset"
    /\ UNCHANGED <<mainVars, conn, sentFor, scan, scanFd, shut>>

-----------------------------------------------------------------------------
MainStep ==
    \/ Lock \/ NoSocket \/ KnownClient \/ Forward \/ Spawn \/ SpawnFails
    \/ Cancelled
    \/ \E s \in Fds : OpenSocket(s)
ThreadStep(s) == ReceivedNothing(s) \/ Exit(s)
ShutdownStep == Stop \/ ReadSlot \/ ShutSocket \/ CancelMain \/ Join \/ Reset

Next ==
    \/ \E c \in Clients, k \in Kinds : Receive(c, k)
    \/ MainStep
    \/ \E s \in Fds : Timeout(s) \/ ThreadStep(s)
    \/ ShutdownProxies
    \/ ShutdownStep

Spec == Init /\ [][Next]_vars

\* The scheduler runs every thread that can run, and a thread that waits for the
\* lock gets it in the end. Packets, timeouts and the order to quit are not fair.
Fairness ==
    /\ WF_vars(MainStep)
    /\ \A s \in Fds : SF_vars(Exit(s)) /\ SF_vars(s \in shut /\ ReceivedNothing(s))
    /\ SF_vars(ShutdownStep)
FairSpec == Spec /\ Fairness

-----------------------------------------------------------------------------
MainTypeOK ==
    /\ mpc \in {"recv", "want", "locked", "send", "spawn", "done"}
    /\ pkt \in [from : Clients \cup {NoClient}, active : BOOLEAN]
    /\ isNew \in BOOLEAN /\ cancel \in BOOLEAN
    /\ lock \in {"free", "main"}
TableTypeOK ==
    /\ slot \in [Slots -> [socket : Fds \cup {NoFd},
                          identifier : Clients \cup {NoClient},
                          generation : Nat]]
    /\ conn \in [Fds -> [state : {"closed", "open", "recv", "exiting"},
                        client : Clients \cup {NoClient}, index : Slots,
                        generation : Nat, active : BOOLEAN]]
    /\ numClients \in Int
    /\ sentFor \in [Fds -> SUBSET Clients]
StopTypeOK ==
    /\ stopped \in BOOLEAN
    /\ spc \in {"run", "stop", "read", "shut", "join", "grace", "reset"}
    /\ scan \in 0..SlotCount /\ scanFd \in Fds \cup {NoFd}
    /\ shut \in SUBSET Fds
TypeOK == MainTypeOK /\ TableTypeOK /\ StopTypeOK

\* Whatever a socket carries to the main server comes from the one client its
\* thread sends the replies to, so no client gets another's replies: not after a
\* collision of hashes, nor after the kernel reused a descriptor.
OnlyOwnPackets == \A s \in Open : sentFor[s] \subseteq {conn[s].client}

\* A slot never names a closed descriptor or one that serves another client,
\* another slot or an earlier opening, so no packet is sent on one.
SlotOwner ==
    \A i \in Slots : slot[i].socket # NoFd =>
        LET s == slot[i].socket
        IN  /\ conn[s].state # "closed"
            /\ conn[s].client = slot[i].identifier /\ conn[s].index = i
            /\ conn[s].generation = slot[i].generation

\* A connection keeps its slot until another opening takes it over: the exit of an
\* evicted thread does not empty the slot of its successor, which would then be
\* opened a second time and never be woken by the shutdown.
SlotKept ==
    spc # "reset" =>
        \A s \in Open :
            /\ conn[s].generation <= slot[conn[s].index].generation
            /\ conn[s].generation = slot[conn[s].index].generation
                 => slot[conn[s].index].socket = s

\* proxyStats' number of clients: the open connections that a connecting client
\* opened, the evicted ones included, until the data is reset.
CountsActive ==
    spc # "reset" => numClients = Cardinality({s \in Open : conn[s].active})

\* That count, with the types of the variables it and the table rest on: a failed
\* pthread_create, an eviction and an exit each take back what the opening added.
ClientsSound == TypeOK /\ CountsActive

\* The cancellation of the main thread never strikes while it holds proxy->lock,
\* which every client thread needs to leave.
NoOrphanedLock == mpc = "done" => lock = "free"

\* The unlocked loop of SV_ShutdownProxies misses no thread that has a slot.
EverySlotWoken ==
    spc \in {"join", "grace"} =>
        \A i \in Slots : slot[i].socket # NoFd => slot[i].socket \in shut

\* SV_ShutdownProxies returns: the join ends and the woken threads leave.
ShutdownReturns == spc = "stop" ~> spc = "reset"

\* The comment at SV_ShutdownProxies' sleep(1): the client threads have returned
\* before SV_ResetProxiesInformation nukes the data they use.
NoThreadOutlivesReset == spc = "reset" => Running = {}
=============================================================================

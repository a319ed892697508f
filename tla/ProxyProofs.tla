---------------------------- MODULE ProxyProofs ----------------------------
(* Safety of one proxy, and of the rate limiter that the proxies share with the *)
(* game thread, for every value of the constants.                               *)
(*                                                                            *)
(* ProxyForward: any number of clients, descriptors and slots, any hash and any *)
(* bound on the generations.                                                  *)
(* ProxyQueryCache: any number of maps, late answers and faults. What the proxy *)
(* tells its clients never goes back to an older map, and its socket falls      *)
(* behind no further than the faults explain.                                  *)
(* RateLimiter and RateLimiterLog: any number of threads, addresses and buckets,*)
(* any hash and any limits. The chains stay whole, the limits hold and only busy*)
(* addresses are refused.                                                      *)
EXTENDS ProxyForward, ProxyQueryCache, RateLimiterLog, Integers,
        FiniteSetTheorems, SequenceTheorems, WellFoundedInduction, TLAPS

(***************************************************************************)
(* ProxyForward.                                                           *)
(***************************************************************************)
InSection == {"locked", "send", "spawn"}

\* The packet the main thread works on has a sender, whose slot exists.
PktInv == mpc \in {"want", "locked", "send", "spawn"} => pkt.from \in Clients

\* The main thread holds proxy->lock exactly in its critical section.
LockInv == lock = "main" <=> mpc \in InSection

\* How far the shutdown has come says what the main thread can still do: once the
\* flag is up it enters the critical section no more.
StopInv ==
    /\ spc \in {"run", "stop"} => ~stopped /\ ~cancel
    /\ spc \in {"read", "shut", "join", "grace"} => stopped
    /\ spc \notin {"run", "stop"} => mpc \notin InSection
    /\ spc \in {"grace", "reset"} => mpc = "done"

\* Until it leaves its critical section the slot it sends on is its packet's.
SendInv ==
    mpc \in {"send", "spawn"} =>
        /\ slot[Slot(pkt.from)].socket # NoFd
        /\ slot[Slot(pkt.from)].identifier = pkt.from

\* OnlyOwnPackets, and a closed descriptor has carried nothing.
SentInv ==
    \A s \in Fds : /\ sentFor[s] \subseteq {conn[s].client}
                   /\ conn[s].state = "closed" => sentFor[s] = {}

\* The shutdown loop: the slots it has passed are empty or shut down.
ScanInv ==
    /\ spc \in {"run", "stop"} => scan = 0
    /\ spc = "shut" => scan \in Slots /\ slot[scan].socket \in {NoFd, scanFd}
    /\ spc \in {"join", "grace"} => scan = SlotCount
    /\ spc \in {"read", "shut", "join", "grace"} =>
         \A i \in Slots : i < scan /\ slot[i].socket # NoFd => slot[i].socket \in shut

IInv == TypeOK /\ PktInv /\ LockInv /\ StopInv /\ SendInv /\ SlotOwner /\ SentInv
        /\ ScanInv

ConnType == [state : {"closed", "open", "recv", "exiting"},
             client : Clients \cup {NoClient}, index : Slots,
             generation : Nat, active : BOOLEAN]

\* A client's hash names a slot of the table.
LEMMA SlotRange == \A c \in Clients : Slot(c) \in Slots
  BY SlotAssumption DEF Slots

\* A closed descriptor is a well-formed entry.
LEMMA ClosedConn == NoConn \in ConnType
  <1>1. 0 \in Slots
    BY SlotCountAssumption DEF Slots
  <1> QED BY <1>1 DEF NoConn, ConnType

\* A thread that starts or is about to leave changes its state alone.
LEMMA ConnState ==
  ASSUME NEW s \in Fds, NEW st \in {"recv", "exiting"}, TableTypeOK,
         conn' = [conn EXCEPT ![s].state = st],
         UNCHANGED <<slot, numClients, sentFor>>
  PROVE  TableTypeOK'
  <1>1. conn \in [Fds -> ConnType]
    BY DEF TableTypeOK, ConnType
  <1>2. [conn[s] EXCEPT !.state = st] \in ConnType
    BY <1>1 DEF ConnType
  <1>3. conn' \in [Fds -> ConnType]
    BY <1>1, <1>2
  <1> QED BY <1>3 DEF TableTypeOK, ConnType

\* IInv holds when the proxy starts.
LEMMA InitInv == Init => IInv
  <1> SUFFICES ASSUME Init PROVE IInv
    OBVIOUS
  <1>1. MainTypeOK
    BY DEF Init, MainTypeOK, NoPkt
  <1>2. TableTypeOK
    <2>1. conn \in [Fds -> ConnType]
      BY ClosedConn DEF Init
    <2>2. slot \in [Slots -> [socket : Fds \cup {NoFd},
                              identifier : Clients \cup {NoClient},
                              generation : Nat]]
      BY DEF Init, NoSlot
    <2>3. sentFor \in [Fds -> SUBSET Clients]
      BY DEF Init
    <2>4. numClients \in Int
      BY DEF Init
    <2> QED BY <2>1, <2>2, <2>3, <2>4 DEF TableTypeOK, ConnType
  <1>3. StopTypeOK
    <2>1. stopped \in BOOLEAN
      BY DEF Init
    <2>2. scan \in 0..SlotCount
      BY SlotCountAssumption DEF Init
    <2>3. spc = "run" /\ scanFd \in Fds \cup {NoFd} /\ shut \in SUBSET Fds
      BY DEF Init
    <2> QED BY <2>1, <2>2, <2>3 DEF StopTypeOK
  <1>4. PktInv /\ LockInv /\ StopInv /\ SendInv
    BY DEF Init, PktInv, LockInv, InSection, StopInv, SendInv
  <1>5. SlotOwner /\ SentInv /\ ScanInv
    BY DEF Init, SlotOwner, SentInv, ScanInv, NoSlot, NoConn
  <1> QED BY <1>1, <1>2, <1>3, <1>4, <1>5 DEF IInv, TypeOK

\* A packet is taken from the socket: only the main thread moves.
LEMMA ReceiveKeeps ==
  ASSUME NEW c \in Clients, NEW k \in Kinds, IInv, Receive(c, k)
  PROVE  IInv'
  <1>1. MainTypeOK'
    BY DEF MainTypeOK, Receive, Active, IInv, TypeOK
  <1>2. PktInv'
    BY DEF PktInv, Receive
  <1>3. LockInv'
    BY DEF LockInv, Receive, InSection, IInv
  <1>4. StopInv'
    BY DEF StopInv, Receive, InSection, IInv, stopVars
  <1>5. SendInv'
    BY DEF SendInv, Receive
  <1>6. (TableTypeOK /\ StopTypeOK /\ SlotOwner /\ SentInv /\ ScanInv)'
    BY DEF TableTypeOK, StopTypeOK, SlotOwner, SentInv, ScanInv, Receive,
       IInv, TypeOK, tableVars, stopVars
  <1> QED BY <1>1, <1>2, <1>3, <1>4, <1>5, <1>6 DEF IInv, TypeOK

\* The critical section is entered only before the flag is up.
LEMMA LockKeeps ==
  ASSUME IInv, Lock
  PROVE  IInv'
  <1>1. MainTypeOK'
    BY DEF MainTypeOK, Lock, IInv, TypeOK
  <1>2. PktInv'
    BY DEF PktInv, Lock, IInv
  <1>3. LockInv'
    BY DEF LockInv, Lock, InSection
  <1>4. StopInv'
    BY DEF StopInv, Lock, InSection, IInv, TypeOK, StopTypeOK, stopVars
  <1>5. SendInv'
    BY DEF SendInv, Lock
  <1>6. (TableTypeOK /\ StopTypeOK /\ SlotOwner /\ SentInv /\ ScanInv)'
    BY DEF TableTypeOK, StopTypeOK, SlotOwner, SentInv, ScanInv, Lock, IInv,
       TypeOK, tableVars, stopVars
  <1> QED BY <1>1, <1>2, <1>3, <1>4, <1>5, <1>6 DEF IInv, TypeOK

\* The slot passes to the packet's client; the descriptor was closed, so no other
\* slot names it.
LEMMA OpenSocketKeeps ==
  ASSUME NEW s \in Fds, IInv, OpenSocket(s)
  PROVE  IInv'
  <1>1. MainTypeOK'
    BY DEF MainTypeOK, OpenSocket, IInv, TypeOK
  <1>2. TableTypeOK'
    BY SlotRange DEF TableTypeOK, OpenSocket, IInv, TypeOK, MainTypeOK, PktInv
  <1>3. PktInv'
    BY DEF PktInv, OpenSocket, IInv
  <1>4. LockInv'
    BY DEF LockInv, OpenSocket, InSection, IInv
  <1>5. StopInv'
    BY DEF StopInv, OpenSocket, InSection, IInv, stopVars
  <1>6. SendInv'
    BY SlotRange, FdsAssumption DEF SendInv, OpenSocket, IInv, TypeOK,
       TableTypeOK, PktInv
  <1>7. SlotOwner'
    BY DEF SlotOwner, OpenSocket, Open, IInv, TypeOK, TableTypeOK
  <1>8. SentInv'
    BY DEF SentInv, OpenSocket, Open, IInv
  <1>9. ScanInv'
    BY DEF ScanInv, OpenSocket, InSection, IInv, StopInv, stopVars
  <1>10. StopTypeOK'
    BY DEF StopTypeOK, OpenSocket, IInv, TypeOK, stopVars
  <1> QED BY <1>1, <1>2, <1>3, <1>4, <1>5, <1>6, <1>7, <1>8, <1>9, <1>10 DEF IInv, TypeOK

\* The critical section is left with the table as it was.
LEMMA NoSocketKeeps ==
  ASSUME IInv, NoSocket
  PROVE  IInv'
  <1>1. MainTypeOK'
    BY DEF MainTypeOK, NoSocket, Unlock, NoPkt, IInv, TypeOK
  <1>2. PktInv'
    BY DEF PktInv, NoSocket, Unlock
  <1>3. LockInv'
    BY DEF LockInv, NoSocket, Unlock, InSection
  <1>4. StopInv'
    BY DEF StopInv, NoSocket, InSection, IInv, stopVars
  <1>5. SendInv'
    BY DEF SendInv, NoSocket, Unlock
  <1>6. (TableTypeOK /\ StopTypeOK /\ SlotOwner /\ SentInv /\ ScanInv)'
    BY DEF TableTypeOK, StopTypeOK, SlotOwner, SentInv, ScanInv, NoSocket,
       IInv, TypeOK, tableVars, stopVars
  <1> QED BY <1>1, <1>2, <1>3, <1>4, <1>5, <1>6 DEF IInv, TypeOK

\* The slot is the sender's own.
LEMMA KnownClientKeeps ==
  ASSUME IInv, KnownClient
  PROVE  IInv'
  <1>1. MainTypeOK'
    BY DEF MainTypeOK, KnownClient, IInv, TypeOK
  <1>2. PktInv'
    BY DEF PktInv, KnownClient, IInv
  <1>3. LockInv'
    BY DEF LockInv, KnownClient, InSection, IInv
  <1>4. StopInv'
    BY DEF StopInv, KnownClient, InSection, IInv, stopVars
  <1>5. SendInv'
    BY DEF SendInv, KnownClient, SlotMatches, tableVars
  <1>6. (TableTypeOK /\ StopTypeOK /\ SlotOwner /\ SentInv /\ ScanInv)'
    BY DEF TableTypeOK, StopTypeOK, SlotOwner, SentInv, ScanInv, KnownClient,
       IInv, TypeOK, tableVars, stopVars
  <1> QED BY <1>1, <1>2, <1>3, <1>4, <1>5, <1>6 DEF IInv, TypeOK

\* The packet goes to the descriptor of its sender's slot.
LEMMA ForwardKeeps ==
  ASSUME IInv, Forward
  PROVE  IInv'
  <1>1. MainTypeOK'
    <2>1. CASE isNew
      BY <2>1 DEF Forward, IInv, TypeOK, MainTypeOK
    <2>2. CASE ~isNew
      <3>1. Unlock /\ UNCHANGED cancel
        BY <2>2 DEF Forward
      <3> QED BY <3>1 DEF Unlock, NoPkt, IInv, TypeOK, MainTypeOK
    <2> QED BY <2>1, <2>2
  <1>2. TableTypeOK'
    BY DEF TableTypeOK, Forward, IInv, TypeOK, PktInv
  <1>3. PktInv'
    BY DEF PktInv, Forward, Unlock, IInv
  <1>4. LockInv'
    BY DEF LockInv, Forward, Unlock, InSection, IInv
  <1>5. StopInv'
    BY DEF StopInv, Forward, InSection, IInv, stopVars
  <1>6. SendInv'
    BY DEF SendInv, Forward, Unlock, IInv
  <1>7. SentInv'
    BY SlotRange DEF SentInv, Forward, IInv, PktInv, SendInv, SlotOwner
  <1>8. (StopTypeOK /\ SlotOwner /\ ScanInv)'
    BY DEF StopTypeOK, SlotOwner, ScanInv, Forward, IInv, TypeOK, stopVars
  <1> QED BY <1>1, <1>2, <1>3, <1>4, <1>5, <1>6, <1>7, <1>8 DEF IInv, TypeOK

\* The thread of the new connection starts.
LEMMA SpawnKeeps ==
  ASSUME IInv, Spawn
  PROVE  IInv'
  <1>1. MainTypeOK'
    BY DEF MainTypeOK, Spawn, Unlock, NoPkt, IInv, TypeOK
  <1>2. TableTypeOK'
    <2>1. slot[Slot(pkt.from)].socket \in Fds
      BY SlotRange DEF Spawn, IInv, PktInv, SendInv, TypeOK, TableTypeOK
    <2> QED BY <2>1, ConnState DEF Spawn, IInv, TypeOK
  <1>3. PktInv'
    BY DEF PktInv, Spawn, Unlock
  <1>4. LockInv'
    BY DEF LockInv, Spawn, Unlock, InSection
  <1>5. StopInv'
    BY DEF StopInv, Spawn, InSection, IInv, stopVars
  <1>6. SendInv'
    BY DEF SendInv, Spawn, Unlock
  <1>7. SlotOwner'
    BY DEF SlotOwner, Spawn, IInv
  <1>8. SentInv'
    BY DEF SentInv, Spawn, IInv
  <1>9. (StopTypeOK /\ ScanInv)'
    BY DEF StopTypeOK, ScanInv, Spawn, IInv, TypeOK, stopVars
  <1> QED BY <1>1, <1>2, <1>3, <1>4, <1>5, <1>6, <1>7, <1>8, <1>9 DEF IInv, TypeOK

\* The slot is emptied with the descriptor closed.
LEMMA SpawnFailsKeeps ==
  ASSUME IInv, SpawnFails
  PROVE  IInv'
  <1>1. MainTypeOK'
    BY DEF MainTypeOK, SpawnFails, Unlock, NoPkt, IInv, TypeOK
  <1>2. TableTypeOK'
    <2>1. conn' \in [Fds -> ConnType]
      BY ClosedConn DEF SpawnFails, IInv, TypeOK, TableTypeOK, ConnType
    <2>2. sentFor' \in [Fds -> SUBSET Clients]
      BY DEF SpawnFails, IInv, TypeOK, TableTypeOK
    <2>3. slot' \in [Slots -> [socket : Fds \cup {NoFd},
                              identifier : Clients \cup {NoClient},
                              generation : Nat]]
      BY ZenonT(40) DEF SpawnFails, IInv, TypeOK, TableTypeOK
    <2>4. numClients' \in Int
      BY DEF SpawnFails, Released, IInv, TypeOK, TableTypeOK
    <2> QED BY <2>1, <2>2, <2>3, <2>4 DEF TableTypeOK, ConnType
  <1>3. PktInv'
    BY DEF PktInv, SpawnFails, Unlock
  <1>4. LockInv'
    BY DEF LockInv, SpawnFails, Unlock, InSection
  <1>5. StopInv'
    BY DEF StopInv, SpawnFails, InSection, IInv, stopVars
  <1>6. SendInv'
    BY DEF SendInv, SpawnFails, Unlock
  <1>7. SlotOwner'
    BY SlotRange DEF SlotOwner, SpawnFails, IInv, TypeOK, TableTypeOK, PktInv
  <1>8. SentInv'
    BY DEF SentInv, SpawnFails, IInv, TypeOK, TableTypeOK
  <1>9. ScanInv'
    BY DEF ScanInv, SpawnFails, IInv, stopVars
  <1>10. StopTypeOK'
    BY DEF StopTypeOK, SpawnFails, IInv, TypeOK, stopVars
  <1> QED BY <1>1, <1>2, <1>3, <1>4, <1>5, <1>6, <1>7, <1>8, <1>9, <1>10 DEF IInv, TypeOK

\* The cancelled main thread was outside of its critical section.
LEMMA CancelledKeeps ==
  ASSUME IInv, Cancelled
  PROVE  IInv'
  <1>1. MainTypeOK'
    BY DEF MainTypeOK, Cancelled, IInv, TypeOK
  <1>2. PktInv'
    BY DEF PktInv, Cancelled
  <1>3. LockInv'
    BY DEF LockInv, Cancelled, InSection, IInv, StopInv
  <1>4. StopInv'
    BY DEF StopInv, Cancelled, InSection, IInv, stopVars
  <1>5. SendInv'
    BY DEF SendInv, Cancelled
  <1>6. (TableTypeOK /\ StopTypeOK /\ SlotOwner /\ SentInv /\ ScanInv)'
    BY DEF TableTypeOK, StopTypeOK, SlotOwner, SentInv, ScanInv, Cancelled,
       IInv, TypeOK, tableVars, stopVars
  <1> QED BY <1>1, <1>2, <1>3, <1>4, <1>5, <1>6 DEF IInv, TypeOK

\* A client thread is about to leave.
LEMMA TimeoutKeeps ==
  ASSUME NEW s \in Fds, IInv, Timeout(s)
  PROVE  IInv'
  <1>1. TableTypeOK'
    BY ConnState DEF Timeout, IInv, TypeOK
  <1>2. SlotOwner'
    BY DEF SlotOwner, Timeout, IInv
  <1>3. SentInv'
    BY DEF SentInv, Timeout, IInv
  <1>4. (MainTypeOK /\ StopTypeOK /\ PktInv /\ LockInv /\ StopInv /\ SendInv /\ ScanInv)'
    BY DEF MainTypeOK, StopTypeOK, PktInv, LockInv, StopInv, SendInv, ScanInv,
       Timeout, IInv, TypeOK, mainVars, stopVars
  <1> QED BY <1>1, <1>2, <1>3, <1>4 DEF IInv, TypeOK

\* A client thread is about to leave.
LEMMA ReceivedNothingKeeps ==
  ASSUME NEW s \in Fds, IInv, ReceivedNothing(s)
  PROVE  IInv'
  <1>1. TableTypeOK'
    BY ConnState DEF ReceivedNothing, IInv, TypeOK
  <1>2. SlotOwner'
    BY DEF SlotOwner, ReceivedNothing, IInv
  <1>3. SentInv'
    BY DEF SentInv, ReceivedNothing, IInv
  <1>4. (MainTypeOK /\ StopTypeOK /\ PktInv /\ LockInv /\ StopInv /\ SendInv /\ ScanInv)'
    BY DEF MainTypeOK, StopTypeOK, PktInv, LockInv, StopInv, SendInv, ScanInv,
       ReceivedNothing, IInv, TypeOK, mainVars, stopVars
  <1> QED BY <1>1, <1>2, <1>3, <1>4 DEF IInv, TypeOK

\* The thread empties the slot only if the slot is still its own.
LEMMA ExitKeeps ==
  ASSUME NEW s \in Fds, IInv, Exit(s)
  PROVE  IInv'
  <1>1. TableTypeOK'
    BY SlotCountAssumption DEF TableTypeOK, Exit, Released, NoConn, NoSlot,
       IInv, TypeOK, Slots
  <1>2. StopTypeOK'
    BY DEF StopTypeOK, Exit, IInv, TypeOK
  <1>3. SendInv'
    BY DEF SendInv, Exit, InSection, IInv, LockInv, mainVars
  <1>4. SlotOwner'
    <2> SUFFICES ASSUME NEW i \in Slots, slot'[i].socket # NoFd
                 PROVE  LET o == slot'[i].socket
                        IN  /\ conn'[o].state # "closed"
                            /\ conn'[o].client = slot'[i].identifier /\ conn'[o].index = i
                            /\ conn'[o].generation = slot'[i].generation
      BY DEF SlotOwner
    <2> DEFINE k == conn[s].index
               o == slot[i].socket
    <2>1. slot'[i] = slot[i]
      <3>1. CASE OwnsSlot(s)
        <4>1. slot' = [slot EXCEPT ![k] = NoSlot(conn[s].generation)] /\ i \in DOMAIN slot
          BY <3>1 DEF Exit, IInv, TypeOK, TableTypeOK
        <4>2. i # k
          BY <4>1 DEF NoSlot
        <4> QED BY <4>1, <4>2
      <3>2. CASE ~OwnsSlot(s)
        BY <3>2 DEF Exit
      <3> QED BY <3>1, <3>2
    <2>2. /\ o # NoFd /\ o \in Fds /\ conn[o].state # "closed"
          /\ conn[o].client = slot[i].identifier /\ conn[o].index = i
          /\ conn[o].generation = slot[i].generation
      BY <2>1 DEF SlotOwner, IInv, TypeOK, TableTypeOK
    <2>3. o # s
      <3>1. SUFFICES ASSUME o = s PROVE FALSE
        OBVIOUS
      <3>2. k = i /\ OwnsSlot(s)
        BY <2>2, <3>1 DEF OwnsSlot
      <3>3. slot'[i] = NoSlot(conn[s].generation)
        BY <3>2 DEF Exit, IInv, TypeOK, TableTypeOK
      <3> QED BY <3>3 DEF NoSlot
    <2>4. conn'[o] = conn[o]
      BY <2>2, <2>3 DEF Exit, IInv, TypeOK, TableTypeOK
    <2> QED BY <2>1, <2>2, <2>4
  <1>5. SentInv'
    BY DEF SentInv, Exit, NoConn, IInv, TypeOK, TableTypeOK
  <1>6. ScanInv'
    BY DEF ScanInv, Exit, OwnsSlot, NoSlot, SlotOwner, IInv, TypeOK,
       TableTypeOK
  <1>7. (MainTypeOK /\ PktInv /\ LockInv /\ StopInv)'
    BY DEF MainTypeOK, PktInv, LockInv, StopInv, Exit, mainVars, IInv, TypeOK
  <1> QED BY <1>1, <1>2, <1>3, <1>4, <1>5, <1>6, <1>7 DEF IInv, TypeOK

\* The shutdown begins.
LEMMA ShutdownProxiesKeeps ==
  ASSUME IInv, ShutdownProxies
  PROVE  IInv'
  <1>1. StopTypeOK'
    BY DEF StopTypeOK, ShutdownProxies, IInv, TypeOK
  <1>2. StopInv'
    BY DEF StopInv, ShutdownProxies, InSection, IInv, mainVars
  <1>3. ScanInv'
    BY DEF ScanInv, ShutdownProxies, IInv, tableVars
  <1>4. (MainTypeOK /\ TableTypeOK /\ PktInv /\ LockInv /\ SendInv /\ SlotOwner /\ SentInv)'
    BY DEF MainTypeOK, TableTypeOK, PktInv, LockInv, SendInv, SlotOwner,
       SentInv, ShutdownProxies, mainVars, tableVars, IInv, TypeOK
  <1> QED BY <1>1, <1>2, <1>3, <1>4 DEF IInv, TypeOK

\* The flag goes up while nobody is in the critical section.
LEMMA StopKeeps ==
  ASSUME IInv, Stop
  PROVE  IInv'
  <1>1. StopTypeOK'
    BY DEF StopTypeOK, Stop, IInv, TypeOK
  <1>2. StopInv'
    BY DEF StopInv, Stop, InSection, IInv, mainVars, LockInv
  <1>3. ScanInv'
    BY SlotCountAssumption DEF ScanInv, Stop, IInv, Slots, tableVars
  <1>4. (MainTypeOK /\ TableTypeOK /\ PktInv /\ LockInv /\ SendInv /\ SlotOwner /\ SentInv)'
    BY DEF MainTypeOK, TableTypeOK, PktInv, LockInv, SendInv, SlotOwner,
       SentInv, Stop, mainVars, tableVars, IInv, TypeOK
  <1> QED BY <1>1, <1>2, <1>3, <1>4 DEF IInv, TypeOK

\* The socket read stays the slot's, unless the slot is emptied.
LEMMA ReadSlotKeeps ==
  ASSUME IInv, ReadSlot
  PROVE  IInv'
  <1>1. StopTypeOK'
    BY SlotCountAssumption DEF StopTypeOK, ReadSlot, IInv, TypeOK,
       TableTypeOK, Slots, ScanInv
  <1>2. StopInv'
    BY DEF StopInv, ReadSlot, InSection, IInv, mainVars
  <1>3. ScanInv'
    BY SlotCountAssumption, SMTT(20) DEF ScanInv, ReadSlot, IInv, tableVars, TypeOK,
       StopTypeOK, TableTypeOK, Slots
  <1>4. (MainTypeOK /\ TableTypeOK /\ PktInv /\ LockInv /\ SendInv /\ SlotOwner /\ SentInv)'
    BY DEF MainTypeOK, TableTypeOK, PktInv, LockInv, SendInv, SlotOwner,
       SentInv, ReadSlot, mainVars, tableVars, IInv, TypeOK
  <1> QED BY <1>1, <1>2, <1>3, <1>4 DEF IInv, TypeOK

\* The slot passed is empty or its descriptor is shut down.
LEMMA ShutSocketKeeps ==
  ASSUME IInv, ShutSocket
  PROVE  IInv'
  <1>1. StopTypeOK'
    <2>1. scan' \in 0..SlotCount
      BY SlotCountAssumption DEF ShutSocket, IInv, ScanInv, Slots
    <2>2. shut' \in SUBSET Fds
      BY DEF ShutSocket, IInv, TypeOK, StopTypeOK, Open
    <2>3. stopped' \in BOOLEAN
      BY DEF ShutSocket, IInv, TypeOK, StopTypeOK
    <2>4. spc' = "read" /\ scanFd' = NoFd
      BY DEF ShutSocket
    <2> QED BY <2>1, <2>2, <2>3, <2>4 DEF StopTypeOK
  <1>2. StopInv'
    BY DEF StopInv, ShutSocket, InSection, IInv, mainVars
  <1>3. ScanInv'
    BY SlotCountAssumption DEF ScanInv, ShutSocket, IInv, tableVars, TypeOK,
       StopTypeOK, TableTypeOK, Slots, SlotOwner, Open
  <1>4. (MainTypeOK /\ TableTypeOK /\ PktInv /\ LockInv /\ SendInv /\ SlotOwner /\ SentInv)'
    BY DEF MainTypeOK, TableTypeOK, PktInv, LockInv, SendInv, SlotOwner,
       SentInv, ShutSocket, mainVars, tableVars, IInv, TypeOK
  <1> QED BY <1>1, <1>2, <1>3, <1>4 DEF IInv, TypeOK

\* Every slot was passed.
LEMMA CancelMainKeeps ==
  ASSUME IInv, CancelMain
  PROVE  IInv'
  <1>1. MainTypeOK'
    BY DEF MainTypeOK, CancelMain, IInv, TypeOK
  <1>2. StopTypeOK'
    BY DEF StopTypeOK, CancelMain, IInv, TypeOK
  <1>3. StopInv'
    BY DEF StopInv, CancelMain, InSection, IInv
  <1>4. ScanInv'
    BY SlotCountAssumption DEF ScanInv, CancelMain, IInv, tableVars, TypeOK,
       StopTypeOK, TableTypeOK, Slots
  <1>5. (TableTypeOK /\ PktInv /\ LockInv /\ SendInv /\ SlotOwner /\ SentInv)'
    BY DEF TableTypeOK, PktInv, LockInv, SendInv, SlotOwner, SentInv,
       CancelMain, mainVars, tableVars, IInv, TypeOK
  <1> QED BY <1>1, <1>2, <1>3, <1>4, <1>5 DEF IInv, TypeOK

\* The main thread is gone.
LEMMA JoinKeeps ==
  ASSUME IInv, Join
  PROVE  IInv'
  <1>1. StopTypeOK'
    BY DEF StopTypeOK, Join, IInv, TypeOK
  <1>2. StopInv'
    BY DEF StopInv, Join, InSection, IInv, mainVars
  <1>3. ScanInv'
    BY DEF ScanInv, Join, IInv, tableVars
  <1>4. (MainTypeOK /\ TableTypeOK /\ PktInv /\ LockInv /\ SendInv /\ SlotOwner /\ SentInv)'
    BY DEF MainTypeOK, TableTypeOK, PktInv, LockInv, SendInv, SlotOwner,
       SentInv, Join, mainVars, tableVars, IInv, TypeOK
  <1> QED BY <1>1, <1>2, <1>3, <1>4 DEF IInv, TypeOK

\* The table is emptied.
LEMMA ResetKeeps ==
  ASSUME IInv, Reset
  PROVE  IInv'
  <1>1. MainTypeOK'
    BY DEF MainTypeOK, Reset, IInv, TypeOK, mainVars
  <1>2. TableTypeOK'
    BY DEF TableTypeOK, Reset, NoSlot, IInv, TypeOK
  <1>3. StopTypeOK'
    BY DEF StopTypeOK, Reset, IInv, TypeOK
  <1>4. LockInv'
    BY DEF LockInv, Reset, InSection, StopInv, IInv, mainVars
  <1>5. StopInv'
    BY DEF StopInv, Reset, InSection, IInv, mainVars
  <1>6. SendInv'
    BY DEF SendInv, StopInv, Reset, IInv, mainVars
  <1>7. SlotOwner'
    BY DEF SlotOwner, Reset, NoSlot
  <1>8. ScanInv'
    BY DEF ScanInv, Reset
  <1>9. (PktInv /\ SentInv)'
    BY DEF PktInv, SentInv, Reset, mainVars, IInv
  <1> QED BY <1>1, <1>2, <1>3, <1>4, <1>5, <1>6, <1>7, <1>8, <1>9 DEF IInv, TypeOK

\* Every step keeps IInv.
LEMMA NextInv == IInv /\ [Next]_vars => IInv'
  <1> SUFFICES ASSUME IInv, [Next]_vars PROVE IInv'
    OBVIOUS
  <1>1. ASSUME NEW c \in Clients, NEW k \in Kinds, Receive(c, k) PROVE IInv'
    BY <1>1, ReceiveKeeps
  <1>2. CASE MainStep
    <2>1. CASE Lock
      BY <2>1, LockKeeps
    <2>2. CASE NoSocket
      BY <2>2, NoSocketKeeps
    <2>3. CASE KnownClient
      BY <2>3, KnownClientKeeps
    <2>4. CASE Forward
      BY <2>4, ForwardKeeps
    <2>5. CASE Spawn
      BY <2>5, SpawnKeeps
    <2>6. CASE SpawnFails
      BY <2>6, SpawnFailsKeeps
    <2>7. CASE Cancelled
      BY <2>7, CancelledKeeps
    <2>8. ASSUME NEW s \in Fds, OpenSocket(s) PROVE IInv'
      BY <2>8, OpenSocketKeeps
    <2> QED BY <1>2, <2>1, <2>2, <2>3, <2>4, <2>5, <2>6, <2>7, <2>8 DEF MainStep
  <1>3. ASSUME NEW s \in Fds, Timeout(s) \/ ThreadStep(s) PROVE IInv'
    <2>1. CASE Timeout(s)
      BY <2>1, TimeoutKeeps
    <2>2. CASE ReceivedNothing(s)
      BY <2>2, ReceivedNothingKeeps
    <2>3. CASE Exit(s)
      BY <2>3, ExitKeeps
    <2> QED BY <1>3, <2>1, <2>2, <2>3 DEF ThreadStep
  <1>4. CASE ShutdownProxies
    BY <1>4, ShutdownProxiesKeeps
  <1>5. CASE ShutdownStep
    <2>1. CASE Stop
      BY <2>1, StopKeeps
    <2>2. CASE ReadSlot
      BY <2>2, ReadSlotKeeps
    <2>3. CASE ShutSocket
      BY <2>3, ShutSocketKeeps
    <2>4. CASE CancelMain
      BY <2>4, CancelMainKeeps
    <2>5. CASE Join
      BY <2>5, JoinKeeps
    <2>6. CASE Reset
      BY <2>6, ResetKeeps
    <2> QED BY <1>5, <2>1, <2>2, <2>3, <2>4, <2>5, <2>6 DEF ShutdownStep
  <1>6. CASE UNCHANGED vars
    <2>1. TypeOK'
      BY <1>6 DEF IInv, TypeOK, MainTypeOK, TableTypeOK, StopTypeOK, vars,
         mainVars, tableVars, stopVars
    <2>2. (PktInv /\ LockInv /\ StopInv /\ SendInv)'
      BY <1>6 DEF IInv, PktInv, LockInv, InSection, StopInv, SendInv, vars,
         mainVars, tableVars, stopVars
    <2>3. (SlotOwner /\ SentInv /\ ScanInv)'
      BY <1>6 DEF IInv, SlotOwner, SentInv, ScanInv, vars, mainVars, tableVars,
         stopVars
    <2> QED BY <2>1, <2>2, <2>3 DEF IInv
  <1> QED BY <1>1, <1>2, <1>3, <1>4, <1>5, <1>6 DEF Next

(***************************************************************************)
(* The count of the clients, relative to IInv.                             *)
(***************************************************************************)
\* The connection being opened is still the main thread's, with its packet's flag.
OpeningInv ==
    mpc = "spawn" \/ (mpc = "send" /\ isNew) =>
        LET s == slot[Slot(pkt.from)].socket
        IN  conn[s].state = "open" /\ conn[s].active = pkt.active

CountInv == OpeningInv /\ CountsActive

ActiveConns == {s \in Open : conn[s].active}

\* The active connections are finitely many.
LEMMA ActiveFinite == IsFiniteSet(ActiveConns)
  <1>1. ActiveConns \subseteq Fds
    BY DEF ActiveConns, Open
  <1> QED BY <1>1, FdsAssumption, FS_Subset

\* The count of the clients starts at none.
LEMMA InitCount == Init => CountInv
  <1> SUFFICES ASSUME Init PROVE CountInv
    OBVIOUS
  <1>1. OpeningInv
    BY DEF Init, OpeningInv
  <1>2. {s \in Open : conn[s].active} = {}
    BY DEF Init, Open, NoConn
  <1>3. CountsActive
    BY <1>2, FS_EmptySet DEF Init, CountsActive
  <1> QED BY <1>1, <1>3 DEF CountInv

\* A step that leaves the set of active connections and the number alone.
LEMMA CountFrame ==
  ASSUME CountsActive, ActiveConns' = ActiveConns, numClients' = numClients,
         spc' # "reset" => spc # "reset"
  PROVE  CountsActive'
  BY DEF CountsActive, ActiveConns

\* A connection that ends is counted no more.
LEMMA CountRemove ==
  ASSUME NEW s \in Fds, IInv, CountsActive, conn[s].state # "closed",
         conn' = [conn EXCEPT ![s] = NoConn],
         numClients' = Released(conn[s].active), UNCHANGED spc
  PROVE  CountsActive'
  <1>1. CASE ~conn[s].active
    <2>1. ActiveConns' = ActiveConns
      BY <1>1 DEF ActiveConns, Open, NoConn, IInv, TypeOK, TableTypeOK
    <2>2. numClients' = numClients
      BY <1>1 DEF Released
    <2> QED BY <2>1, <2>2, CountFrame
  <1>2. CASE conn[s].active
    <2>1. ActiveConns' = ActiveConns \ {s}
      BY <1>2 DEF ActiveConns, Open, NoConn, IInv, TypeOK, TableTypeOK
    <2>2. s \in ActiveConns
      BY <1>2 DEF ActiveConns, Open
    <2>3. Cardinality(ActiveConns') = Cardinality(ActiveConns) - 1
      BY <2>1, <2>2, ActiveFinite, FS_RemoveElement
    <2>4. numClients' = numClients - 1
      BY <1>2 DEF Released
    <2> QED BY <2>3, <2>4 DEF CountsActive, ActiveConns
  <1> QED BY <1>1, <1>2

\* A thread's state changes, the connection stays open.
LEMMA CountState ==
  ASSUME NEW s \in Fds, NEW st \in {"recv", "exiting"}, IInv, CountsActive,
         conn[s].state # "closed", conn' = [conn EXCEPT ![s].state = st],
         UNCHANGED <<numClients, spc>>
  PROVE  CountsActive'
  <1>1. ActiveConns' = ActiveConns
    <2>1. \A f \in Fds : conn'[f].active = conn[f].active
      BY DEF IInv, TypeOK, TableTypeOK
    <2>2. Open' = Open
      BY DEF Open, IInv, TypeOK, TableTypeOK
    <2> QED BY <2>1, <2>2 DEF ActiveConns, Open
  <1> QED BY <1>1, CountFrame

\* The opening of a connection counts it if a connecting client asked for it.
LEMMA CountOpen ==
  ASSUME NEW s \in Fds, IInv, CountInv, OpenSocket(s)
  PROVE  CountInv'
  <1>1. /\ conn'[s].state = "open" /\ conn'[s].active = pkt.active
        /\ \A f \in Fds \ {s} : conn'[f] = conn[f]
    BY DEF OpenSocket, IInv, TypeOK, TableTypeOK
  <1>2. OpeningInv'
    <2>1. slot'[Slot(pkt.from)].socket = s
      BY SlotRange DEF OpenSocket, IInv, PktInv, TypeOK, TableTypeOK
    <2> QED BY <1>1, <2>1 DEF OpeningInv, OpenSocket
  <1>3. s \notin ActiveConns
    BY DEF OpenSocket, ActiveConns
  <1>4. CASE pkt.active
    <2>1. ActiveConns' = ActiveConns \cup {s}
      BY <1>1, <1>4 DEF ActiveConns, Open
    <2>2. Cardinality(ActiveConns') = Cardinality(ActiveConns) + 1
      BY <2>1, <1>3, ActiveFinite, FS_AddElement
    <2>3. numClients' = numClients + 1 /\ spc' = spc
      BY <1>4 DEF OpenSocket, stopVars
    <2> QED BY <1>2, <2>2, <2>3 DEF CountInv, CountsActive, ActiveConns
  <1>5. CASE ~pkt.active
    <2>1. ActiveConns' = ActiveConns
      BY <1>1, <1>3, <1>5 DEF ActiveConns, Open
    <2>2. numClients' = numClients /\ spc' = spc
      BY <1>5 DEF OpenSocket, stopVars
    <2> QED BY <1>2, <2>1, <2>2, CountFrame DEF CountInv
  <1> QED BY <1>4, <1>5

\* A step that leaves the connections alone keeps the count.
LEMMA CountQuiet ==
  ASSUME CountsActive, UNCHANGED <<conn, numClients>>,
         spc' # "reset" => spc # "reset"
  PROVE  CountsActive'
  BY CountFrame DEF ActiveConns, Open

\* The steps of the main thread keep the count.
LEMMA CountMain ==
  ASSUME IInv, CountInv, MainStep
  PROVE  CountInv'
  <1>1. CASE Lock \/ NoSocket \/ KnownClient \/ Cancelled
    <2>1. CountsActive'
      BY <1>1, CountQuiet DEF CountInv, Lock, NoSocket, KnownClient, Cancelled,
         tableVars, stopVars
    <2>2. OpeningInv'
      BY <1>1 DEF OpeningInv, Lock, NoSocket, Unlock, KnownClient, Cancelled
    <2> QED BY <2>1, <2>2 DEF CountInv
  <1>2. CASE Forward
    <2>1. CountsActive'
      BY <1>2, CountQuiet DEF CountInv, Forward, stopVars
    <2>2. OpeningInv'
      BY <1>2 DEF CountInv, OpeningInv, Forward, Unlock
    <2> QED BY <2>1, <2>2 DEF CountInv
  <1>3. CASE Spawn \/ SpawnFails
    <2> DEFINE s == slot[Slot(pkt.from)].socket
    <2>1. s \in Fds
      BY <1>3, SlotRange
         DEF Spawn, SpawnFails, IInv, PktInv, SendInv, TypeOK, TableTypeOK
    <2>2. conn[s].state = "open" /\ conn[s].active = pkt.active
      BY <1>3 DEF CountInv, OpeningInv, Spawn, SpawnFails
    <2>3. ASSUME Spawn PROVE CountsActive'
      BY <2>1, <2>2, <2>3, CountState DEF CountInv, Spawn, stopVars
    <2>4. ASSUME SpawnFails PROVE CountsActive'
      BY <2>1, <2>2, <2>4, CountRemove DEF CountInv, SpawnFails, stopVars
    <2>5. OpeningInv'
      BY <1>3 DEF OpeningInv, Spawn, SpawnFails, Unlock
    <2> QED BY <1>3, <2>3, <2>4, <2>5 DEF CountInv
  <1>4. ASSUME NEW s \in Fds, OpenSocket(s) PROVE CountInv'
    BY <1>4, CountOpen
  <1> QED BY <1>1, <1>2, <1>3, <1>4 DEF MainStep

\* The steps of the client threads keep the count.
LEMMA CountThread ==
  ASSUME NEW s \in Fds, IInv, CountInv, Timeout(s) \/ ThreadStep(s)
  PROVE  CountInv'
  <1>1. CountsActive'
    <2>1. CASE Timeout(s) \/ ReceivedNothing(s)
      BY <2>1, CountState DEF CountInv, Timeout, ReceivedNothing, stopVars
    <2>2. CASE Exit(s)
      BY <2>2, CountRemove DEF CountInv, Exit
    <2> QED BY <2>1, <2>2 DEF ThreadStep
  <1>2. OpeningInv'
    <2>1. CASE Timeout(s) \/ ReceivedNothing(s)
      <3>1. UNCHANGED <<mpc, isNew, pkt, slot>>
        BY <2>1 DEF Timeout, ReceivedNothing, mainVars
      <3>2. \A f \in Fds : conn[f].state = "open" => conn'[f] = conn[f]
        <4>1. /\ conn[s].state = "recv"
              /\ conn' = [conn EXCEPT ![s].state = "exiting"]
          BY <2>1 DEF Timeout, ReceivedNothing
        <4> QED BY <4>1 DEF IInv, TypeOK, TableTypeOK
      <3>3. mpc \in {"spawn", "send"} => slot[Slot(pkt.from)].socket \in Fds
        BY SlotRange DEF IInv, PktInv, SendInv, TypeOK, TableTypeOK
      <3> QED BY <3>1, <3>2, <3>3 DEF CountInv, OpeningInv
    <2>2. CASE Exit(s)
      BY <2>2 DEF OpeningInv, Exit, mainVars, IInv, LockInv, InSection
    <2> QED BY <2>1, <2>2 DEF ThreadStep
  <1> QED BY <1>1, <1>2 DEF CountInv

\* The steps of the shutdown keep the count until the data is reset.
LEMMA CountShutdown ==
  ASSUME IInv, CountInv, ShutdownProxies \/ ShutdownStep
  PROVE  CountInv'
  <1>1. CountsActive'
    <2>1. CASE Reset
      BY <2>1 DEF Reset, CountsActive
    <2>2. CASE ~Reset
      <3>1. UNCHANGED <<conn, numClients>> /\ spc # "reset"
        BY <2>2 DEF ShutdownProxies, ShutdownStep, Stop, ReadSlot, ShutSocket,
           CancelMain, Join, tableVars
      <3> QED BY <3>1, CountQuiet DEF CountInv
    <2> QED BY <2>1, <2>2
  <1>2. OpeningInv'
    <2>1. CASE Reset
      BY <2>1 DEF Reset, OpeningInv, mainVars, IInv, StopInv
    <2>2. CASE ~Reset
      BY <2>2 DEF CountInv, OpeningInv, ShutdownProxies, ShutdownStep, Stop,
         ReadSlot, ShutSocket, CancelMain, Join, tableVars, mainVars
    <2> QED BY <2>1, <2>2
  <1> QED BY <1>1, <1>2 DEF CountInv

\* Every step keeps the count.
LEMMA CountNext == IInv /\ CountInv /\ [Next]_vars => CountInv'
  <1> SUFFICES ASSUME IInv, CountInv, [Next]_vars PROVE CountInv'
    OBVIOUS
  <1>1. ASSUME NEW c \in Clients, NEW k \in Kinds, Receive(c, k) PROVE CountInv'
    <2>1. CountsActive'
      BY <1>1, CountQuiet DEF CountInv, Receive, tableVars, stopVars
    <2>2. OpeningInv'
      BY <1>1 DEF OpeningInv, Receive
    <2> QED BY <2>1, <2>2 DEF CountInv
  <1>2. CASE UNCHANGED vars
    <2>1. CountsActive'
      BY <1>2, CountQuiet DEF CountInv, vars, tableVars, stopVars
    <2>2. OpeningInv'
      BY <1>2 DEF CountInv, OpeningInv, vars, mainVars, tableVars
    <2> QED BY <2>1, <2>2 DEF CountInv
  <1> QED BY <1>1, <1>2, CountMain, CountThread, CountShutdown DEF Next

(***************************************************************************)
(* The slots of connections that were not evicted, relative to IInv.       *)
(***************************************************************************)
\* At the start there is no connection.
LEMMA InitKept == Init => SlotKept
  BY DEF Init, SlotKept, Open, NoConn

\* A step that leaves the slots alone, and of every connection that is still open
\* what SlotKept speaks of.
LEMMA KeptFrame ==
  ASSUME SlotKept, slot' = slot, spc' # "reset" => spc # "reset",
         \A s \in Fds : conn'[s].state # "closed" =>
             /\ conn[s].state # "closed"
             /\ conn'[s].generation = conn[s].generation
             /\ conn'[s].index = conn[s].index
  PROVE  SlotKept'
  BY DEF SlotKept, Open

\* A new opening has a generation of its own, above all the earlier ones.
LEMMA KeptOpen ==
  ASSUME NEW s \in Fds, IInv, SlotKept, OpenSocket(s)
  PROVE  SlotKept'
  <1> DEFINE i == Slot(pkt.from)
             g == slot[i].generation + 1
  <1>1. i \in Slots /\ slot[i].generation \in Nat
    BY SlotRange DEF OpenSocket, IInv, PktInv, TypeOK, TableTypeOK
  <1>2. /\ slot'[i].generation = g /\ slot'[i].socket = s
        /\ \A j \in Slots \ {i} : slot'[j] = slot[j]
    BY <1>1 DEF OpenSocket, IInv, TypeOK, TableTypeOK
  <1>3. /\ conn'[s].index = i /\ conn'[s].generation = g
        /\ \A f \in Fds \ {s} : conn'[f] = conn[f]
    BY DEF OpenSocket, IInv, TypeOK, TableTypeOK
  <1>4. spc' = spc
    BY DEF OpenSocket, stopVars
  <1> SUFFICES ASSUME spc # "reset", NEW f \in Fds, conn'[f].state # "closed"
               PROVE  /\ conn'[f].generation <= slot'[conn'[f].index].generation
                      /\ conn'[f].generation = slot'[conn'[f].index].generation
                           => slot'[conn'[f].index].socket = f
    BY <1>4 DEF SlotKept, Open
  <1>5. CASE f = s
    BY <1>1, <1>2, <1>3, <1>5
  <1>6. CASE f # s
    <2>1. conn'[f] = conn[f] /\ f \in Open
      BY <1>3, <1>6 DEF Open
    <2>2. conn[f].index \in Slots /\ conn[f].generation \in Nat
      BY DEF IInv, TypeOK, TableTypeOK
    <2>3. /\ conn[f].generation <= slot[conn[f].index].generation
          /\ conn[f].generation = slot[conn[f].index].generation
               => slot[conn[f].index].socket = f
      BY <2>1 DEF SlotKept
    <2> QED BY <1>1, <1>2, <2>1, <2>2, <2>3
  <1> QED BY <1>5, <1>6

\* The end of a connection empties no other connection's slot.
LEMMA KeptEnd ==
  ASSUME NEW s \in Fds, NEW i \in Slots, IInv, SlotKept,
         conn' = [conn EXCEPT ![s] = NoConn], UNCHANGED spc,
         \A j \in Slots \ {i} : slot'[j] = slot[j],
         slot'[i].generation = slot[i].generation,
         slot'[i].socket = slot[i].socket \/ slot[i].socket = s
  PROVE  SlotKept'
  <1> SUFFICES ASSUME spc # "reset", NEW f \in Fds, conn'[f].state # "closed"
               PROVE  /\ conn'[f].generation <= slot'[conn'[f].index].generation
                      /\ conn'[f].generation = slot'[conn'[f].index].generation
                           => slot'[conn'[f].index].socket = f
    BY DEF SlotKept, Open
  <1>1. f # s /\ conn'[f] = conn[f]
    BY DEF IInv, TypeOK, TableTypeOK, NoConn
  <1>2. conn[f].index \in Slots
    BY DEF IInv, TypeOK, TableTypeOK
  <1>3. /\ conn[f].generation <= slot[conn[f].index].generation
        /\ conn[f].generation = slot[conn[f].index].generation
             => slot[conn[f].index].socket = f
    BY <1>1 DEF SlotKept, Open
  <1> QED BY <1>1, <1>2, <1>3

\* A failed pthread_create ends the connection of the sender's slot.
LEMMA KeptSpawnFails ==
  ASSUME IInv, SlotKept, SpawnFails
  PROVE  SlotKept'
  <1> DEFINE i == Slot(pkt.from)
  <1>1. i \in Slots /\ slot[i].socket \in Fds
    BY SlotRange DEF SpawnFails, IInv, PktInv, SendInv, TypeOK, TableTypeOK
  <1>2. /\ \A j \in Slots \ {i} : slot'[j] = slot[j]
        /\ slot'[i].generation = slot[i].generation
    BY <1>1 DEF SpawnFails, IInv, TypeOK, TableTypeOK
  <1>3. conn' = [conn EXCEPT ![slot[i].socket] = NoConn] /\ UNCHANGED spc
    BY DEF SpawnFails, stopVars
  <1> QED BY <1>1, <1>2, <1>3, KeptEnd

\* A thread that leaves empties the slot it has, or none.
LEMMA KeptExit ==
  ASSUME NEW s \in Fds, IInv, SlotKept, Exit(s)
  PROVE  SlotKept'
  <1> DEFINE i == conn[s].index
  <1>1. i \in Slots
    BY DEF IInv, TypeOK, TableTypeOK
  <1>2. /\ \A j \in Slots \ {i} : slot'[j] = slot[j]
        /\ slot'[i].generation = slot[i].generation
        /\ slot'[i].socket = slot[i].socket \/ slot[i].socket = s
    BY <1>1 DEF Exit, OwnsSlot, NoSlot, IInv, TypeOK, TableTypeOK
  <1>3. conn' = [conn EXCEPT ![s] = NoConn] /\ UNCHANGED spc
    BY DEF Exit
  <1> QED BY <1>1, <1>2, <1>3, KeptEnd

\* Every step keeps the slots of connections that were not evicted.
LEMMA KeptNext == IInv /\ SlotKept /\ [Next]_vars => SlotKept'
  <1> SUFFICES ASSUME IInv, SlotKept, [Next]_vars PROVE SlotKept'
    OBVIOUS
  <1>1. CASE UNCHANGED vars \/ \E c \in Clients, k \in Kinds : Receive(c, k)
    <2>1. UNCHANGED <<slot, conn, spc>>
      BY <1>1 DEF Receive, vars, tableVars, stopVars
    <2> QED BY <2>1, KeptFrame
  <1>2. CASE MainStep
    <2>1. ASSUME NEW s \in Fds, OpenSocket(s) PROVE SlotKept'
      BY <2>1, KeptOpen
    <2>2. CASE SpawnFails
      BY <2>2, KeptSpawnFails
    <2>3. CASE Spawn
      <3>1. slot' = slot /\ spc' = spc
        BY <2>3 DEF Spawn, stopVars
      <3>2. slot[Slot(pkt.from)].socket \in Fds
        BY <2>3, SlotRange DEF Spawn, IInv, PktInv, SendInv, TypeOK, TableTypeOK
      <3>3. conn[slot[Slot(pkt.from)].socket].state # "closed"
        BY <2>3, SlotRange DEF Spawn, IInv, PktInv, SendInv, SlotOwner
      <3> QED BY <2>3, <3>1, <3>2, <3>3, KeptFrame
              DEF Spawn, IInv, TypeOK, TableTypeOK
    <2>4. CASE Lock \/ NoSocket \/ KnownClient \/ Forward \/ Cancelled
      <3>1. UNCHANGED <<slot, conn, spc>>
        BY <2>4 DEF Lock, NoSocket, KnownClient, Forward, Cancelled, tableVars,
           stopVars
      <3> QED BY <3>1, KeptFrame
    <2> QED BY <1>2, <2>1, <2>2, <2>3, <2>4 DEF MainStep
  <1>3. ASSUME NEW s \in Fds, Timeout(s) \/ ThreadStep(s) PROVE SlotKept'
    <2>1. CASE Timeout(s) \/ ReceivedNothing(s)
      <3>1. UNCHANGED <<slot, spc>> /\ conn[s].state = "recv"
            /\ conn' = [conn EXCEPT ![s].state = "exiting"]
        BY <2>1 DEF Timeout, ReceivedNothing, stopVars
      <3> QED BY <3>1, KeptFrame DEF IInv, TypeOK, TableTypeOK
    <2>2. CASE Exit(s)
      BY <2>2, KeptExit
    <2> QED BY <1>3, <2>1, <2>2 DEF ThreadStep
  <1>4. CASE ShutdownProxies \/ ShutdownStep
    <2>1. CASE Reset
      BY <2>1 DEF Reset, SlotKept
    <2>2. CASE ~Reset
      <3>1. UNCHANGED <<slot, conn>> /\ spc # "reset"
        BY <1>4, <2>2 DEF ShutdownProxies, ShutdownStep, Stop, ReadSlot,
           ShutSocket, CancelMain, Join, tableVars
      <3> QED BY <3>1, KeptFrame
    <2> QED BY <2>1, <2>2
  <1> QED BY <1>1, <1>2, <1>3, <1>4 DEF Next

\* The inductive invariant holds in every state of the proxy.
THEOREM Invariance == Spec => []IInv
  BY InitInv, NextInv, PTL DEF Spec

\* Every variable keeps to its set of values, whatever threads do to the table.
THEOREM TypeCorrect == Spec => []TypeOK
  <1>1. IInv => TypeOK
    BY DEF IInv
  <1> QED BY <1>1, Invariance, PTL

\* What a client thread sends back comes from packets of its own client only, for
\* any number of clients and descriptors, any hash and any order of evictions.
THEOREM PacketsOfOwner == Spec => []OnlyOwnPackets
  <1>1. IInv => OnlyOwnPackets
    BY DEF IInv, SentInv, OnlyOwnPackets, Open
  <1> QED BY <1>1, Invariance, PTL

\* A slot that names a descriptor names the open connection of its own client,
\* slot and generation, although evicted threads end at any time.
THEOREM SlotsOwned == Spec => []SlotOwner
  <1>1. IInv => SlotOwner
    BY DEF IInv
  <1> QED BY <1>1, Invariance, PTL

\* pthread_cancel never strikes the main thread while it holds proxy->lock.
THEOREM LockNeverOrphaned == Spec => []NoOrphanedLock
  <1>1. IInv => NoOrphanedLock
    BY DEF IInv, TypeOK, MainTypeOK, LockInv, InSection, NoOrphanedLock
  <1> QED BY <1>1, Invariance, PTL

\* When the shutdown waits for the main thread, every descriptor named by a slot
\* was shut down, although the loop over the slots takes no lock.
THEOREM NoSlotMissed == Spec => []EverySlotWoken
  <1>1. IInv => EverySlotWoken
    BY SlotCountAssumption DEF IInv, ScanInv, EverySlotWoken, Slots
  <1> QED BY <1>1, Invariance, PTL

\* proxyStats' number of clients counts the open connections of connecting
\* clients, evicted ones included: no end of a thread counts twice or not at all.
THEOREM ClientsCounted == Spec => []ClientsSound
  <1>1. Spec => []CountInv
    BY InitCount, CountNext, Invariance, PTL DEF Spec
  <1>2. TypeOK /\ CountInv => ClientsSound
    BY DEF CountInv, ClientsSound
  <1> QED BY <1>1, <1>2, TypeCorrect, PTL

\* A connection keeps its slot until a later opening takes it over: the exit of an
\* evicted thread never empties its successor's slot.
THEOREM SlotsKept == Spec => []SlotKept
  BY InitKept, KeptNext, Invariance, PTL DEF Spec

(***************************************************************************)
(* ProxyQueryCache.                                                        *)
(***************************************************************************)
FromServer(n) == rbuf[n].from = "server"

\* The answers in the buffer are in the order of their maps, and no older than what
\* is cached; a client was told of nothing newer.
OrderInv ==
    /\ server # "down" => map >= 1
    /\ info <= map /\ status <= map
    /\ \A n \in 1..Len(rbuf) :
         FromServer(n) => /\ rbuf[n].map >= 1 /\ rbuf[n].map <= map
                          /\ info <= rbuf[n].map /\ status <= rbuf[n].map
    /\ \A m, n \in 1..Len(rbuf) :
         m < n /\ FromServer(m) /\ FromServer(n) => rbuf[m].map <= rbuf[n].map
    /\ served["info"] <= info /\ served["status"] <= status

\* What the master server thread has checked since it was at the top of its loop.
HeartInv == /\ hpc \in {"status", "send"} => info # 0
            /\ hpc = "send" => status # 0

CacheInv == CacheTypeOK /\ LagBounded /\ AnnouncedWhenServable /\ HeartInv /\ OrderInv

\* What a step does to the caches and to what clients are told.
Forwards == /\ info' >= info /\ status' >= status
            /\ \A k \in QueryKinds : served'[k] >= served[k]

-----------------------------------------------------------------------------
LEMMA Types ==
  ASSUME CacheTypeOK
  PROVE  /\ MaxMap \in Nat /\ MaxMap >= 1 /\ MaxLate \in Nat /\ MaxFaults \in Nat
         /\ map \in Nat /\ info \in Nat /\ status \in Nat /\ late \in Nat /\ faults \in Nat
         /\ Len(requests) \in Nat /\ Len(rbuf) \in Nat
         /\ \A n \in 1..Len(rbuf) : rbuf[n] \in Packets /\ rbuf[n].map \in Nat
         /\ \A k \in QueryKinds : served[k] \in Nat
         /\ "info" \in QueryKinds /\ "status" \in QueryKinds
  <1>1. requests \in Seq(QueryKinds) /\ rbuf \in Seq(Packets)
    BY DEF CacheTypeOK
  <1>2. Len(requests) \in Nat /\ Len(rbuf) \in Nat
    BY <1>1, LenProperties
  <1>3. \A n \in 1..Len(rbuf) : rbuf[n] \in Packets
    BY <1>1, ElementOfSeq
  <1>4. MaxMap \in Nat /\ MaxMap >= 1 /\ MaxLate \in Nat /\ MaxFaults \in Nat
    BY BoundsAssumption
  <1> QED BY <1>2, <1>3, <1>4 DEF CacheTypeOK, Packets, QueryKinds

\* The numbers alone, and how far the socket is behind.
LEMMA Counts ==
  ASSUME CacheInv
  PROVE  /\ Len(requests) \in Nat /\ Len(rbuf) \in Nat /\ late \in Nat /\ faults \in Nat
         /\ Len(requests) + Len(rbuf) <= late + faults + (IF qpc = "top" THEN 0 ELSE 1)
         /\ Len(requests) <= MaxLate + MaxFaults + 1
         /\ MaxLate \in Nat /\ MaxFaults \in Nat /\ late <= MaxLate /\ faults <= MaxFaults
  <1>1. CacheTypeOK /\ LagBounded
    BY DEF CacheInv
  <1>2. late \in 0..MaxLate /\ faults \in 0..MaxFaults
    BY <1>1 DEF CacheTypeOK
  <1>3. Len(requests) <= MaxLate + MaxFaults + 1
    BY <1>1 DEF CacheTypeOK
  <1>4. /\ MaxLate \in Nat /\ MaxFaults \in Nat
        /\ Len(requests) \in Nat /\ Len(rbuf) \in Nat
    BY <1>1, Types
  <1> QED BY <1>1, <1>2, <1>3, <1>4 DEF LagBounded

\* The bound that LagBounded gives the requests is the one of their type.
LEMMA LagGivesLength ==
  ASSUME LagBounded', Len(requests') \in Nat, Len(rbuf') \in Nat,
         late' \in 0..MaxLate, faults' \in 0..MaxFaults
  PROVE  Len(requests') <= MaxLate + MaxFaults + 1
  <1>1. (IF qpc' = "top" THEN 0 ELSE 1) \in {0, 1}
    OBVIOUS
  <1> QED BY <1>1, BoundsAssumption DEF LagBounded

\* A datagram leaves the buffer.
LEMMA TakenFacts ==
  ASSUME CacheTypeOK, rbuf # <<>>, rbuf' = Tail(rbuf)
  PROVE  /\ 1 \in 1..Len(rbuf) /\ Head(rbuf) = rbuf[1]
         /\ rbuf' \in Seq(Packets) /\ Len(rbuf') = Len(rbuf) - 1
         /\ \A n \in 1..Len(rbuf') : n + 1 \in 1..Len(rbuf) /\ rbuf'[n] = rbuf[n + 1]
  <1>1. rbuf \in Seq(Packets)
    BY DEF CacheTypeOK
  <1>2. /\ Len(rbuf) \in Nat /\ Len(rbuf) # 0
    BY <1>1, LenProperties, EmptySeq
  <1>3. /\ Tail(rbuf) \in Seq(Packets) /\ Len(Tail(rbuf)) = Len(rbuf) - 1
        /\ \A n \in 1..Len(Tail(rbuf)) : Tail(rbuf)[n] = rbuf[n + 1]
    BY <1>1, HeadTailProperties
  <1>4. Head(rbuf) = rbuf[1]
    BY <1>1
  <1>5. \A n \in 1..Len(Tail(rbuf)) : n + 1 \in 1..Len(rbuf)
    BY <1>2, <1>3
  <1> QED BY <1>2, <1>3, <1>4, <1>5

\* Whatever is read of it into a cache, a buffer in order stays in order.
LEMMA TakenKeepsOrder ==
  ASSUME CacheInv, rbuf # <<>>, rbuf' = Tail(rbuf), UNCHANGED <<server, map, served>>,
         info' = info \/ (FromServer(1) /\ info' = rbuf[1].map),
         status' = status \/ (FromServer(1) /\ status' = rbuf[1].map)
  PROVE  /\ OrderInv' /\ Forwards
         /\ info' \in 0..MaxMap /\ status' \in 0..MaxMap
         /\ info # 0 => info' # 0
         /\ status # 0 => status' # 0
  <1>1. CacheTypeOK /\ OrderInv
    BY DEF CacheInv
  <1>2. /\ 1 \in 1..Len(rbuf)
        /\ Len(rbuf') = Len(rbuf) - 1
        /\ \A n \in 1..Len(rbuf') : n + 1 \in 1..Len(rbuf) /\ rbuf'[n] = rbuf[n + 1]
    BY <1>1, TakenFacts
  <1>3. /\ Len(rbuf) \in Nat /\ map \in Nat /\ info \in Nat /\ status \in Nat
        /\ MaxMap \in Nat
        /\ \A n \in 1..Len(rbuf) : rbuf[n].map \in Nat
        /\ \A k \in QueryKinds : served[k] \in Nat
        /\ "info" \in QueryKinds /\ "status" \in QueryKinds
    BY <1>1, Types
  <1>4. FromServer(1) => /\ rbuf[1].map >= 1 /\ rbuf[1].map <= map
                         /\ info <= rbuf[1].map /\ status <= rbuf[1].map
    BY <1>1, <1>2 DEF OrderInv
  <1>5. /\ info' \in Nat /\ status' \in Nat /\ info' >= info /\ status' >= status
        /\ info' <= map /\ status' <= map
    BY <1>1, <1>2, <1>3, <1>4 DEF OrderInv
  <1>6. ASSUME NEW n \in 1..Len(rbuf'), rbuf'[n].from = "server"
        PROVE  /\ rbuf'[n].map >= 1 /\ rbuf'[n].map <= map
               /\ info' <= rbuf'[n].map /\ status' <= rbuf'[n].map
    <2>1. n + 1 \in 1..Len(rbuf) /\ rbuf'[n] = rbuf[n + 1] /\ 1 < n + 1
      BY <1>2, <1>3
    <2>2. FromServer(n + 1)
      BY <1>6, <2>1 DEF FromServer
    <2>3. /\ rbuf[n + 1].map >= 1 /\ rbuf[n + 1].map <= map
          /\ info <= rbuf[n + 1].map /\ status <= rbuf[n + 1].map
      BY <1>1, <2>1, <2>2 DEF OrderInv
    <2>4. FromServer(1) => rbuf[1].map <= rbuf[n + 1].map
      BY <1>1, <1>2, <2>1, <2>2 DEF OrderInv
    <2> QED BY <2>1, <2>3, <2>4
  <1>7. ASSUME NEW m \in 1..Len(rbuf'), NEW n \in 1..Len(rbuf'), m < n,
               rbuf'[m].from = "server", rbuf'[n].from = "server"
        PROVE  rbuf'[m].map <= rbuf'[n].map
    <2>1. /\ m + 1 \in 1..Len(rbuf) /\ rbuf'[m] = rbuf[m + 1]
          /\ n + 1 \in 1..Len(rbuf) /\ rbuf'[n] = rbuf[n + 1]
          /\ m + 1 < n + 1
      BY <1>2, <1>3, <1>7
    <2> QED BY <1>1, <1>7, <2>1 DEF OrderInv, FromServer
  <1>8. served'["info"] <= info' /\ served'["status"] <= status'
    BY <1>1, <1>3, <1>5 DEF OrderInv
  <1>9. OrderInv'
    BY <1>1, <1>5, <1>6, <1>7, <1>8 DEF OrderInv, FromServer
  <1>10. Forwards
    BY <1>3, <1>5 DEF Forwards
  <1>11. info' \in 0..MaxMap /\ status' \in 0..MaxMap
    BY <1>1, <1>3, <1>5 DEF CacheTypeOK
  <1> QED BY <1>3, <1>5, <1>9, <1>10, <1>11

\* A datagram joins the buffer: a stray one, or an answer about the running map.
LEMMA JoinedKeepsOrder ==
  ASSUME CacheInv, NEW m \in Packets, rbuf' = Append(rbuf, m),
         m.from = "server" => m.map = map /\ map >= 1,
         UNCHANGED <<server, map, served, info, status>>
  PROVE  OrderInv' /\ rbuf' \in Seq(Packets) /\ Len(rbuf') = Len(rbuf) + 1
  <1>1. CacheTypeOK /\ OrderInv
    BY DEF CacheInv
  <1>2. /\ Len(rbuf) \in Nat /\ map \in Nat /\ info \in Nat /\ status \in Nat
        /\ \A n \in 1..Len(rbuf) : rbuf[n].map \in Nat
    BY <1>1, Types
  <1>3. /\ rbuf' \in Seq(Packets) /\ Len(rbuf') = Len(rbuf) + 1
        /\ \A n \in 1..Len(rbuf) : rbuf'[n] = rbuf[n]
        /\ rbuf'[Len(rbuf) + 1] = m
    <2>1. rbuf \in Seq(Packets)
      BY <1>1 DEF CacheTypeOK
    <2> QED BY <2>1, AppendProperties
  <1>4. \A n \in 1..Len(rbuf') : n \in 1..Len(rbuf) \/ n = Len(rbuf) + 1
    BY <1>2, <1>3
  <1>5. ASSUME NEW n \in 1..Len(rbuf'), rbuf'[n].from = "server"
        PROVE  /\ rbuf'[n].map >= 1 /\ rbuf'[n].map <= map
               /\ info <= rbuf'[n].map /\ status <= rbuf'[n].map
    <2>1. CASE n \in 1..Len(rbuf)
      BY <1>1, <1>3, <1>5, <2>1 DEF OrderInv, FromServer
    <2>2. CASE n = Len(rbuf) + 1
      BY <1>1, <1>2, <1>3, <1>5, <2>2 DEF OrderInv
    <2> QED BY <1>4, <2>1, <2>2
  <1>6. ASSUME NEW j \in 1..Len(rbuf'), NEW n \in 1..Len(rbuf'), j < n,
               rbuf'[j].from = "server", rbuf'[n].from = "server"
        PROVE  rbuf'[j].map <= rbuf'[n].map
    <2>1. j \in 1..Len(rbuf)
      BY <1>2, <1>3, <1>6
    <2>2. CASE n \in 1..Len(rbuf)
      BY <1>1, <1>3, <1>6, <2>1, <2>2 DEF OrderInv, FromServer
    <2>3. CASE n = Len(rbuf) + 1
      BY <1>1, <1>3, <1>6, <2>1, <2>3 DEF OrderInv, FromServer
    <2> QED BY <1>4, <2>2, <2>3
  <1>7. OrderInv'
    BY <1>1, <1>5, <1>6 DEF OrderInv, FromServer
  <1> QED BY <1>3, <1>7

LEMMA RequestFacts ==
  ASSUME CacheTypeOK, NEW k \in QueryKinds, requests' = Append(requests, k)
  PROVE  requests' \in Seq(QueryKinds) /\ Len(requests') = Len(requests) + 1
  <1>1. requests \in Seq(QueryKinds)
    BY DEF CacheTypeOK
  <1> QED BY <1>1, AppendProperties

LEMMA AnsweredFacts ==
  ASSUME CacheTypeOK, requests # <<>>, requests' = Tail(requests)
  PROVE  /\ requests' \in Seq(QueryKinds) /\ Len(requests') = Len(requests) - 1
         /\ Head(requests) \in QueryKinds
  <1>1. requests \in Seq(QueryKinds)
    BY DEF CacheTypeOK
  <1> QED BY <1>1, HeadTailProperties

-----------------------------------------------------------------------------
(* The steps *)

\* A step that leaves the network and the caches alone.
LEMMA QuietKeeps ==
  ASSUME CacheInv,
         UNCHANGED <<requests, rbuf, qpc, info, status, served, hpc, announced, late, faults>>,
         server' \in {"down", "loading", "up"}, map' \in 0..MaxMap, map' >= map,
         server' # "down" => map' >= 1
  PROVE  CacheInv' /\ Forwards
  <1>1. CacheTypeOK /\ OrderInv
    BY DEF CacheInv
  <1>2. /\ map \in Nat /\ map' \in Nat /\ info \in Nat /\ status \in Nat
        /\ \A n \in 1..Len(rbuf) : rbuf[n].map \in Nat
        /\ \A k \in QueryKinds : served[k] \in Nat
        /\ MaxMap \in Nat
    BY <1>1, Types
  <1>3. CacheTypeOK' /\ LagBounded' /\ AnnouncedWhenServable' /\ HeartInv'
    BY <1>1 DEF CacheInv, CacheTypeOK, LagBounded, AnnouncedWhenServable, HeartInv
  <1>4. OrderInv'
    BY <1>1, <1>2 DEF OrderInv, FromServer
  <1>5. Forwards
    BY <1>2 DEF Forwards
  <1> QED BY <1>3, <1>4, <1>5 DEF CacheInv

LEMMA MapKeeps ==
  ASSUME CacheInv, Load \/ Loaded \/ LoadFails
  PROVE  CacheInv' /\ Forwards
  <1>1. /\ map \in Nat /\ MaxMap \in Nat /\ map <= MaxMap
        /\ server # "down" => map >= 1
    BY Types DEF CacheInv, OrderInv, CacheTypeOK
  <1>2. UNCHANGED <<requests, rbuf, qpc, info, status, served, hpc, announced, late, faults>>
    BY DEF Load, Loaded, LoadFails, netVars, cacheVars, clientVars, heartVars, envVars
  <1>3. /\ server' \in {"down", "loading", "up"} /\ map' \in 0..MaxMap /\ map' >= map
        /\ server' # "down" => map' >= 1
    BY <1>1 DEF Load, Loaded, LoadFails
  <1> QED BY <1>2, <1>3, QuietKeeps

LEMMA ServerAnswersKeeps ==
  ASSUME CacheInv, ServerAnswers
  PROVE  CacheInv' /\ Forwards
  <1>1. CacheTypeOK /\ OrderInv
    BY DEF CacheInv
  <1> DEFINE m == Answer(Head(requests))
  <1>2. /\ server = "up" /\ requests # <<>> /\ requests' = Tail(requests)
        /\ rbuf' = Append(rbuf, m)
        /\ UNCHANGED <<server, map, qpc, info, status, served, hpc, announced, late, faults>>
    BY DEF ServerAnswers, serverVars, cacheVars, clientVars, heartVars, envVars
  <1>3. /\ requests' \in Seq(QueryKinds) /\ Len(requests') = Len(requests) - 1
        /\ Head(requests) \in QueryKinds
    BY <1>1, <1>2, AnsweredFacts
  <1>4. m \in Packets /\ m.map = map /\ map >= 1
    BY <1>1, <1>2, <1>3 DEF Answer, Packets, CacheTypeOK, OrderInv
  <1> HIDE DEF m
  <1>5. OrderInv' /\ rbuf' \in Seq(Packets) /\ Len(rbuf') = Len(rbuf) + 1
    BY <1>2, <1>4, JoinedKeepsOrder
  <1>6. LagBounded'
    BY <1>2, <1>3, <1>5, Counts DEF LagBounded
  <1>7. Len(requests') <= MaxLate + MaxFaults + 1
    <2>1. /\ Len(requests) \in Nat /\ MaxLate + MaxFaults + 1 \in Nat
          /\ Len(requests) <= MaxLate + MaxFaults + 1
      BY Counts
    <2> QED BY <1>3, <2>1
  <1>8. UNCHANGED <<server, map, qpc, info, status, served, hpc, announced, late, faults>>
    BY <1>2
  <1>9. CacheTypeOK' /\ AnnouncedWhenServable' /\ HeartInv'
    BY <1>1, <1>3, <1>5, <1>7, <1>8 DEF CacheInv, CacheTypeOK, AnnouncedWhenServable, HeartInv
  <1>10. Forwards
    BY <1>1, <1>8, Types DEF Forwards
  <1> QED BY <1>5, <1>6, <1>9, <1>10 DEF CacheInv

LEMMA LoseRequestKeeps ==
  ASSUME CacheInv, LoseRequest
  PROVE  CacheInv' /\ Forwards
  <1>1. CacheTypeOK /\ OrderInv
    BY DEF CacheInv
  <1>2. /\ faults < MaxFaults /\ faults' = faults + 1
        /\ requests # <<>> /\ requests' = Tail(requests)
        /\ UNCHANGED <<server, map, rbuf, qpc, info, status, served, hpc, announced, late>>
    BY DEF LoseRequest, Fault, serverVars, cacheVars, clientVars, heartVars
  <1>3. requests' \in Seq(QueryKinds) /\ Len(requests') = Len(requests) - 1
    BY <1>1, <1>2, AnsweredFacts
  <1>4. LagBounded'
    BY <1>2, <1>3, Counts, SMTT(20) DEF LagBounded
  <1>5. Len(requests') <= MaxLate + MaxFaults + 1 /\ faults' \in 0..MaxFaults
    BY <1>2, <1>3, Counts
  <1>6. CacheTypeOK' /\ AnnouncedWhenServable' /\ HeartInv'
    BY <1>1, <1>2, <1>3, <1>5 DEF CacheInv, CacheTypeOK, AnnouncedWhenServable, HeartInv
  <1>7. OrderInv'
    BY <1>1, <1>2 DEF OrderInv, FromServer
  <1>8. Forwards
    BY <1>1, <1>2, Types DEF Forwards
  <1> QED BY <1>4, <1>6, <1>7, <1>8 DEF CacheInv

LEMMA StrayArrivesKeeps ==
  ASSUME CacheInv, StrayArrives
  PROVE  CacheInv' /\ Forwards
  <1>1. CacheTypeOK /\ OrderInv
    BY DEF CacheInv
  <1>2. /\ faults < MaxFaults /\ faults' = faults + 1
        /\ rbuf' = Append(rbuf, Stray)
        /\ UNCHANGED <<server, map, requests, qpc, info, status, served, hpc, announced, late>>
    BY DEF StrayArrives, Fault, serverVars, cacheVars, clientVars, heartVars
  <1>3. Stray \in Packets /\ Stray.from # "server"
    BY <1>1, Types DEF Stray, Packets
  <1>4. OrderInv' /\ rbuf' \in Seq(Packets) /\ Len(rbuf') = Len(rbuf) + 1
    BY <1>2, <1>3, JoinedKeepsOrder
  <1>5. LagBounded'
    BY <1>2, <1>4, Counts, SMTT(20) DEF LagBounded
  <1>6. faults' \in 0..MaxFaults
    BY <1>2, Counts
  <1>7. CacheTypeOK' /\ AnnouncedWhenServable' /\ HeartInv' /\ Forwards
    BY <1>1, <1>2, <1>4, <1>6, Types, SMTT(20)
       DEF CacheInv, CacheTypeOK, AnnouncedWhenServable, HeartInv, Forwards
  <1> QED BY <1>4, <1>5, <1>7 DEF CacheInv

LEMMA QueryInfoKeeps ==
  ASSUME CacheInv, QueryInfo
  PROVE  CacheInv' /\ Forwards
  <1>1. CacheTypeOK /\ OrderInv
    BY DEF CacheInv
  <1>2. /\ qpc = "top" /\ requests' = Append(requests, "info") /\ qpc' = "info"
        /\ UNCHANGED <<server, map, rbuf, info, status, served, hpc, announced, late, faults>>
    BY DEF QueryInfo, Request, serverVars, cacheVars, clientVars, heartVars, envVars
  <1>3. requests' \in Seq(QueryKinds) /\ Len(requests') = Len(requests) + 1
    BY <1>1, <1>2, RequestFacts DEF QueryKinds
  <1>4. LagBounded'
    BY <1>2, <1>3, Counts DEF LagBounded
  <1>5. Len(requests') <= MaxLate + MaxFaults + 1
    <2>1. Len(requests') \in Nat /\ Len(rbuf') \in Nat
      BY <1>1, <1>2, <1>3, Types
    <2>2. late' \in 0..MaxLate /\ faults' \in 0..MaxFaults
      BY <1>1, <1>2 DEF CacheTypeOK
    <2> QED BY <1>4, <2>1, <2>2, LagGivesLength
  <1>6. CacheTypeOK' /\ AnnouncedWhenServable' /\ HeartInv' /\ OrderInv' /\ Forwards
    BY <1>1, <1>2, <1>3, <1>5, Types
       DEF CacheInv, CacheTypeOK, AnnouncedWhenServable, HeartInv, OrderInv, FromServer, Forwards,
           QueryKinds
  <1> QED BY <1>4, <1>6 DEF CacheInv

\* The read of SV_RefreshInfoCache, with what follows it: the next request, or the
\* end of the round because the answer was not acceptable or the request not sent.
LEMMA InfoReadKeeps ==
  ASSUME CacheInv, ReadInfo \/ SendFails
  PROVE  CacheInv' /\ Forwards
  <1>1. CacheTypeOK /\ OrderInv
    BY DEF CacheInv
  <1>2. /\ rbuf # <<>> /\ rbuf' = Tail(rbuf) /\ qpc = "info"
        /\ UNCHANGED <<server, map, status, served, hpc, announced, late>>
    BY DEF ReadInfo, SendFails, Fault, serverVars, clientVars, heartVars, envVars
  <1>3. /\ 1 \in 1..Len(rbuf) /\ Head(rbuf) = rbuf[1]
        /\ rbuf' \in Seq(Packets) /\ Len(rbuf') = Len(rbuf) - 1
    BY <1>1, <1>2, TakenFacts
  <1>4. \/ /\ FromServer(1) /\ info' = rbuf[1].map
           /\ requests' = Append(requests, "status") /\ qpc' = "status" /\ faults' = faults
        \/ info' = info /\ requests' = requests /\ qpc' = "top" /\ faults' = faults
        \/ /\ FromServer(1) /\ info' = rbuf[1].map
           /\ requests' = requests /\ qpc' = "top"
           /\ faults < MaxFaults /\ faults' = faults + 1
    BY <1>3 DEF ReadInfo, SendFails, Fault, Acceptable, Refreshed, Cached, Request, FromServer,
                envVars
  <1>5. /\ OrderInv' /\ Forwards /\ info' \in 0..MaxMap
        /\ info # 0 => info' # 0
    BY <1>2, <1>4, TakenKeepsOrder
  <1>6. requests' \in Seq(QueryKinds) /\ Len(requests') \in Nat
    <2>1. CASE requests' = Append(requests, "status")
      <3>1. requests' \in Seq(QueryKinds) /\ Len(requests') = Len(requests) + 1
        BY <1>1, <2>1, RequestFacts DEF QueryKinds
      <3> QED BY <3>1, Counts
    <2>2. CASE requests' = requests
      BY <1>1, <2>2, Counts DEF CacheTypeOK
    <2> QED BY <1>4, <2>1, <2>2
  <1>7. faults' \in 0..MaxFaults /\ qpc' \in QueryKinds \cup {"top"}
    BY <1>2, <1>4, Counts DEF QueryKinds
  <1>8. LagBounded'
    <2>1. /\ Len(requests) + Len(rbuf) <= late + faults + 1
          /\ Len(requests) \in Nat /\ Len(rbuf) \in Nat /\ late \in Nat /\ faults \in Nat
      BY <1>2, Counts DEF LagBounded
    <2>2. CASE requests' = Append(requests, "status") /\ qpc' = "status" /\ faults' = faults
      <3>1. Len(requests') = Len(requests) + 1
        BY <1>1, <2>2, RequestFacts DEF QueryKinds
      <3> QED BY <1>2, <1>3, <2>1, <2>2, <3>1 DEF LagBounded
    <2>3. CASE requests' = requests /\ qpc' = "top" /\ faults' \in {faults, faults + 1}
      BY <1>2, <1>3, <2>1, <2>3 DEF LagBounded
    <2> QED BY <1>4, <2>2, <2>3
  <1>9. Len(requests') <= MaxLate + MaxFaults + 1
    <2>1. Len(rbuf') \in Nat /\ late' \in 0..MaxLate
      BY <1>1, <1>2, <1>3, Types DEF CacheTypeOK
    <2> QED BY <1>6, <1>7, <1>8, <2>1, LagGivesLength
  <1>10. CacheTypeOK'
    BY <1>1, <1>2, <1>3, <1>5, <1>6, <1>7, <1>9 DEF CacheTypeOK
  <1>11. AnnouncedWhenServable' /\ HeartInv'
    BY <1>2, <1>5 DEF CacheInv, AnnouncedWhenServable, HeartInv
  <1> QED BY <1>5, <1>8, <1>10, <1>11 DEF CacheInv

LEMMA ReadStatusKeeps ==
  ASSUME CacheInv, ReadStatus
  PROVE  CacheInv' /\ Forwards
  <1>1. CacheTypeOK /\ OrderInv
    BY DEF CacheInv
  <1>2. /\ rbuf # <<>> /\ rbuf' = Tail(rbuf) /\ qpc = "status" /\ qpc' = "top"
        /\ UNCHANGED <<server, map, requests, info, served, hpc, announced, late, faults>>
    BY DEF ReadStatus, serverVars, clientVars, heartVars, envVars
  <1>3. /\ 1 \in 1..Len(rbuf) /\ Head(rbuf) = rbuf[1]
        /\ rbuf' \in Seq(Packets) /\ Len(rbuf') = Len(rbuf) - 1
    BY <1>1, <1>2, TakenFacts
  <1>4. status' = status \/ (FromServer(1) /\ status' = rbuf[1].map)
    BY <1>3 DEF ReadStatus, Acceptable, Refreshed, Cached, FromServer
  <1>5. /\ OrderInv' /\ Forwards /\ status' \in 0..MaxMap
        /\ status # 0 => status' # 0
    BY <1>2, <1>4, TakenKeepsOrder
  <1>6. LagBounded'
    BY <1>2, <1>3, Counts DEF LagBounded
  <1>7. CacheTypeOK' /\ AnnouncedWhenServable' /\ HeartInv'
    BY <1>1, <1>2, <1>3, <1>5 DEF CacheInv, CacheTypeOK, AnnouncedWhenServable, HeartInv
  <1> QED BY <1>5, <1>6, <1>7 DEF CacheInv

LEMMA ReadTimeoutKeeps ==
  ASSUME CacheInv, ReadTimeout
  PROVE  CacheInv' /\ Forwards
  <1>1. CacheTypeOK /\ OrderInv
    BY DEF CacheInv
  <1>2. /\ qpc # "top" /\ qpc' = "top" /\ rbuf = <<>>
        /\ UNCHANGED <<server, map, requests, rbuf, info, status, served, hpc, announced, faults>>
        /\ \/ late < MaxLate /\ late' = late + 1
           \/ requests = <<>> /\ late' = late
    BY DEF ReadTimeout, serverVars, netVars, cacheVars, clientVars, heartVars, envVars
  <1>3. late' \in 0..MaxLate
    BY <1>2, Counts
  <1>4. LagBounded'
    <2>1. Len(<<>>) = 0
      BY EmptySeq
    <2> QED BY <1>2, <2>1, Counts DEF LagBounded
  <1>5. CacheTypeOK' /\ AnnouncedWhenServable' /\ HeartInv' /\ OrderInv' /\ Forwards
    BY <1>1, <1>2, <1>3, Types, SMTT(20)
       DEF CacheInv, CacheTypeOK, AnnouncedWhenServable, HeartInv, OrderInv, FromServer, Forwards
  <1> QED BY <1>4, <1>5 DEF CacheInv

LEMMA ServeKeeps ==
  ASSUME CacheInv, NEW k \in QueryKinds, Serve(k)
  PROVE  CacheInv' /\ Forwards
  <1>1. CacheTypeOK /\ OrderInv
    BY DEF CacheInv
  <1>2. /\ served' = [served EXCEPT ![k] = Cached(k)]
        /\ UNCHANGED <<server, map, requests, rbuf, qpc, info, status, hpc, announced, late, faults>>
    BY DEF Serve, serverVars, netVars, cacheVars, heartVars, envVars
  <1>3. /\ Cached("info") = info /\ Cached("status") = status
        /\ k = "info" \/ k = "status"
    BY DEF Cached, QueryKinds
  <1>4. /\ served' \in [QueryKinds -> 0..MaxMap]
        /\ \A j \in QueryKinds : served'[j] = IF j = k THEN Cached(k) ELSE served[j]
    BY <1>1, <1>2, <1>3 DEF CacheTypeOK
  <1>5. /\ served'["info"] <= info /\ served'["status"] <= status
        /\ served'["info"] >= served["info"] /\ served'["status"] >= served["status"]
    BY <1>1, <1>3, <1>4, Types, SMTT(20) DEF OrderInv
  <1>6. OrderInv'
    BY <1>1, <1>2, <1>5 DEF OrderInv, FromServer
  <1>7. Forwards
    BY <1>1, <1>2, <1>5, Types DEF Forwards, QueryKinds
  <1>8. CacheTypeOK' /\ LagBounded' /\ AnnouncedWhenServable' /\ HeartInv'
    BY <1>1, <1>2, <1>4 DEF CacheInv, CacheTypeOK, LagBounded, AnnouncedWhenServable, HeartInv
  <1> QED BY <1>6, <1>7, <1>8 DEF CacheInv

LEMMA HeartbeatKeeps ==
  ASSUME CacheInv, CheckRunning \/ (\E k \in QueryKinds : CheckFlag(k)) \/ Heartbeat
  PROVE  CacheInv' /\ Forwards
  <1>1. CacheTypeOK /\ OrderInv
    BY DEF CacheInv
  <1>2. UNCHANGED <<server, map, requests, rbuf, qpc, info, status, served, late, faults>>
    BY DEF CheckRunning, CheckFlag, Heartbeat, serverVars, netVars, cacheVars, envVars
  <1>3. \/ hpc' \in {"running", "info"} /\ announced' = announced
        \/ hpc' = "status" /\ info # 0 /\ announced' = announced
        \/ hpc = "status" /\ hpc' = "send" /\ status # 0 /\ announced' = announced
        \/ hpc = "send" /\ hpc' = "running" /\ announced' = TRUE
    BY DEF CheckRunning, CheckFlag, Heartbeat, Cached, QueryKinds
  <1>4. AnnouncedWhenServable' /\ HeartInv'
    BY <1>2, <1>3 DEF CacheInv, AnnouncedWhenServable, HeartInv
  <1>5. hpc' \in QueryKinds \cup {"running", "send"} /\ announced' \in BOOLEAN
    BY <1>1, <1>3 DEF CacheTypeOK, QueryKinds
  <1>6. CacheTypeOK' /\ LagBounded'
    BY <1>1, <1>2, <1>5 DEF CacheInv, CacheTypeOK, LagBounded
  <1>7. OrderInv'
    BY <1>1, <1>2 DEF OrderInv, FromServer
  <1>8. Forwards
    BY <1>1, <1>2, Types DEF Forwards
  <1> QED BY <1>4, <1>6, <1>7, <1>8 DEF CacheInv

-----------------------------------------------------------------------------
(* The theorems *)

LEMMA InitHolds == CacheInit => CacheInv
  <1> SUFFICES ASSUME CacheInit
               PROVE  CacheInv
    OBVIOUS
  <1>1. MaxMap \in Nat /\ MaxLate \in Nat /\ MaxFaults \in Nat
    BY BoundsAssumption
  <1>2. /\ Len(requests) = 0 /\ Len(rbuf) = 0
        /\ requests \in Seq(QueryKinds) /\ rbuf \in Seq(Packets)
    BY EmptySeq DEF CacheInit
  <1>3. CacheTypeOK
    <2>1. 0 \in 0..MaxMap /\ 0 \in 0..MaxLate /\ 0 \in 0..MaxFaults
          /\ 0 <= MaxLate + MaxFaults + 1
      BY <1>1
    <2> QED BY <1>2, <2>1 DEF CacheInit, CacheTypeOK
  <1>4. OrderInv
    BY <1>2 DEF CacheInit, OrderInv, QueryKinds
  <1>5. LagBounded /\ AnnouncedWhenServable /\ HeartInv
    BY <1>2 DEF CacheInit, LagBounded, AnnouncedWhenServable, HeartInv
  <1> QED BY <1>3, <1>4, <1>5 DEF CacheInv

LEMMA NextKeeps == CacheInv /\ [CacheNext]_queryVars => CacheInv' /\ Forwards
  <1> SUFFICES ASSUME CacheInv, [CacheNext]_queryVars
               PROVE  CacheInv' /\ Forwards
    OBVIOUS
  <1>1. CASE Load \/ Loaded \/ LoadFails
    BY <1>1, MapKeeps
  <1>2. CASE ServerAnswers \/ LoseRequest \/ StrayArrives
    BY <1>2, ServerAnswersKeeps, LoseRequestKeeps, StrayArrivesKeeps
  <1>3. CASE QueryThread \/ SendFails
    BY <1>3, QueryInfoKeeps, InfoReadKeeps, ReadStatusKeeps, ReadTimeoutKeeps DEF QueryThread
  <1>4. CASE \E k \in QueryKinds : Serve(k)
    BY <1>4, ServeKeeps
  <1>5. CASE CheckRunning \/ (\E k \in QueryKinds : CheckFlag(k)) \/ Heartbeat
    BY <1>5, HeartbeatKeeps
  <1>6. CASE UNCHANGED queryVars
    <2>1. UNCHANGED <<server, map, requests, rbuf, qpc, info, status, served, hpc, announced,
                      late, faults>>
      BY <1>6 DEF queryVars, serverVars, netVars, cacheVars, clientVars, heartVars, envVars
    <2>2. /\ server' \in {"down", "loading", "up"} /\ map' \in 0..MaxMap /\ map' >= map
          /\ server' # "down" => map' >= 1
      BY <2>1, Types DEF CacheInv, CacheTypeOK, OrderInv
    <2> QED BY <2>1, <2>2, QuietKeeps
  <1>7. \/ Load \/ Loaded \/ LoadFails
        \/ ServerAnswers \/ LoseRequest \/ StrayArrives
        \/ QueryThread \/ SendFails
        \/ \E k \in QueryKinds : Serve(k)
        \/ CheckRunning \/ (\E k \in QueryKinds : CheckFlag(k)) \/ Heartbeat
        \/ UNCHANGED queryVars
    BY Zenon DEF CacheNext
  <1> QED BY <1>1, <1>2, <1>3, <1>4, <1>5, <1>6, <1>7

\* The inductive invariant holds in every state.
THEOREM Invariant == CacheSpec => []CacheInv
  <1>1. CacheInit => CacheInv
    BY InitHolds
  <1>2. CacheInv /\ [CacheNext]_queryVars => CacheInv'
    BY NextKeeps
  <1> QED BY <1>1, <1>2, PTL DEF CacheSpec

\* For any number of maps, late answers and faults: the query thread's socket is
\* behind by no more than they explain (SV_ProxyQueryCacheLoop).
THEOREM CachesAreSound == CacheSpec => []CachesSound
  <1>1. CacheInv => CachesSound
    BY DEF CacheInv, CachesSound
  <1> QED BY <1>1, Invariant, PTL

\* SV_ProxyMasterServerLoop reads the two flags one after the other and without the
\* lock; the master server still hears of no proxy that cannot answer both queries.
THEOREM AnnouncedOnlyServable == CacheSpec => []AnnouncedWhenServable
  <1>1. CacheInv => AnnouncedWhenServable
    BY DEF CacheInv
  <1> QED BY <1>1, Invariant, PTL

\* An answer, however late it is read, never replaces a cached one about a newer map,
\* and no client is told of an older map than it was told of before.
THEOREM MapsOnlyAdvance == CacheSpec => NeverBackwards
  <1>1. CacheInv /\ [CacheNext]_queryVars =>
          [/\ info' >= info /\ status' >= status
           /\ \A k \in QueryKinds : served'[k] >= served[k]]_queryVars
    BY NextKeeps DEF Forwards
  <1> QED BY <1>1, Invariant, PTL DEF CacheSpec, NeverBackwards

(***************************************************************************)
(* RateLimiter and RateLimiterLog.                                         *)
(***************************************************************************)
\* The chain of a hash, as a path of different buckets: the links and the head are
\* the path's, and it has every bucket whose address has this hash.
IsChain(bs, hs, h, n, p) ==
    /\ n \in Nat /\ p \in [1..n -> Ids]
    /\ \A j, k \in 1..n : p[j] = p[k] => j = k
    /\ hs[h] = IF n = 0 THEN 0 ELSE p[1]
    /\ \A k \in 1..n : /\ bs[p[k]].next = IF k = n THEN 0 ELSE p[k + 1]
                       /\ bs[p[k]].prev = IF k = 1 THEN 0 ELSE p[k - 1]
                       /\ bs[p[k]].adr # NoAddress /\ Hash(bs[p[k]].adr) = h
    /\ \A i \in Ids : bs[i].adr # NoAddress /\ Hash(bs[i].adr) = h => \E k \in 1..n : p[k] = i

\* A sound table: each hash has its chain, free buckets have no links, and no
\* address has two buckets.
Sound(bs, hs) ==
    /\ bs \in [Ids -> BucketType] /\ hs \in [Hashes -> 0..MaxBuckets]
    /\ \A h \in Hashes : \E n, p : IsChain(bs, hs, h, n, p)
    /\ \A i \in Ids : bs[i].adr = NoAddress => bs[i].prev = 0 /\ bs[i].next = 0
    /\ \A i, j \in Ids : bs[i].adr # NoAddress /\ bs[i].adr = bs[j].adr => i = j

\* The lock is held by the thread that is between lookup and charge, whose bucket is
\* still its address's.
HolderInv ==
    /\ \A t \in Threads : pc[t] = "charge" => critsect = t
    /\ \A t \in Threads : pc[t] = "charge" => adr[t] \in Addresses
    /\ ChargesOwnBucket

\* The inductive invariant of the table.
TableInv == LimiterTypeOK /\ Sound(buckets, heads) /\ HolderInv

-----------------------------------------------------------------------------
\* Induction along the numbers.
LEMMA SetInduction ==
  ASSUME NEW S, 0 \in S, \A n \in Nat : n \in S => n + 1 \in S
  PROVE  \A n \in Nat : n \in S
  <1> SUFFICES ASSUME NEW x \in Nat, x \notin S
               PROVE  FALSE
    OBVIOUS
  <1> DEFINE R == OpToRel(<, Nat)
             T == {n \in Nat : n \notin S}
  <1>1. IsWellFoundedOn(R, Nat)
    BY NatLessThanWellFounded
  <1>2. \A a, b \in Nat : a < b => <<a, b>> \in R
    BY DEF OpToRel
  <1>3. T \subseteq Nat /\ x \in T
    OBVIOUS
  <1> HIDE DEF R
  <1>4. PICK m \in T : \A y \in T : ~(<<y, m>> \in R)
    BY <1>1, <1>3, WFMin
  <1>5. m # 0 /\ m - 1 \in Nat /\ m - 1 < m /\ m - 1 + 1 = m
    BY <1>4
  <1>6. m - 1 \notin T
    BY <1>2, <1>4, <1>5
  <1> QED BY <1>4, <1>5, <1>6

\* A set of numbers that is not empty has a least one.
LEMMA MinOf ==
  ASSUME NEW S, S \subseteq Nat, S # {}
  PROVE  Min(S) \in S /\ \A y \in S : Min(S) <= y
  <1> DEFINE R == OpToRel(<, Nat)
  <1>1. IsWellFoundedOn(R, Nat)
    BY NatLessThanWellFounded
  <1>2. \A a, b \in Nat : a < b => <<a, b>> \in R
    BY DEF OpToRel
  <1> HIDE DEF R
  <1>3. PICK m \in S : \A y \in S : ~(<<y, m>> \in R)
    BY <1>1, WFMin
  <1>4. ASSUME NEW y \in S PROVE m <= y
    <2>1. m \in Nat /\ y \in Nat /\ ~(y < m)
      BY <1>2, <1>3
    <2> QED BY <2>1
  <1> QED BY <1>3, <1>4 DEF Min

\* What the assumptions on the constants say.
LEMMA Constants ==
  /\ Burst \in Nat \ {0} /\ Period \in Nat \ {0} /\ OutBurst \in Nat \ {0}
  /\ OutPeriod \in Nat \ {0} /\ MaxBuckets \in Nat \ {0} /\ MaxTime \in Nat
  /\ IntHalf \in Nat \ {0} /\ NoThread \notin Threads /\ NoAddress \notin Addresses
  /\ Ids = 1..MaxBuckets /\ \A a \in Addresses : Hash(a) \in Hashes
  BY LimitsAssumption, SizesAssumption, NamesAssumption DEF Ids

\* A path of different buckets is no longer than the array.
LEMMA PathFits ==
  ASSUME NEW n \in Nat, NEW p \in [1..n -> Ids], \A j, k \in 1..n : p[j] = p[k] => j = k
  PROVE  n <= MaxBuckets
  <1>1. IsFiniteSet(Ids) /\ Cardinality(Ids) = MaxBuckets
    BY Constants, FS_Interval
  <1>2. IsFiniteSet(1..n) /\ Cardinality(1..n) = n
    BY FS_Interval
  <1>3. p \in Injection(1..n, Ids)
    BY DEF Injection, IsInjective
  <1>4. Cardinality(1..n) <= Cardinality(Ids)
    BY <1>1, <1>3, FS_Injection
  <1> QED BY <1>1, <1>2, <1>4

\* The walk along a chain goes along its path and then stays at 0.
LEMMA WalkIs ==
  ASSUME NEW h \in Hashes, NEW n, NEW p, IsChain(buckets, heads, h, n, p)
  PROVE  \A m \in 0..MaxBuckets : Walk(h)[m] = IF m < n THEN p[m + 1] ELSE 0
  <1> DEFINE F(w) == [m \in 0..MaxBuckets |->
                        IF m = 0 THEN heads[h]
                        ELSE IF w[m - 1] = 0 THEN 0 ELSE buckets[w[m - 1]].next]
             g == [m \in 0..MaxBuckets |-> IF m < n THEN p[m + 1] ELSE 0]
             w == CHOOSE f : f = F(f)
  <1>0. /\ n \in Nat /\ p \in [1..n -> Ids] /\ MaxBuckets \in Nat /\ 0 \notin Ids
        /\ heads[h] = IF n = 0 THEN 0 ELSE p[1]
        /\ \A k \in 1..n : buckets[p[k]].next = IF k = n THEN 0 ELSE p[k + 1]
    BY Constants DEF IsChain
  <1>1. ASSUME NEW m \in 0..MaxBuckets
        PROVE  g[m] = IF m = 0 THEN heads[h]
                      ELSE IF g[m - 1] = 0 THEN 0 ELSE buckets[g[m - 1]].next
    <2>1. CASE m = 0
      BY <1>0, <2>1
    <2>2. CASE m # 0
      <3>1. m - 1 \in 0..MaxBuckets /\ g[m - 1] = IF m - 1 < n THEN p[m] ELSE 0
        BY <2>2, <1>0
      <3>2. CASE m - 1 < n
        <4>1. m \in 1..n /\ p[m] \in Ids /\ g[m - 1] = p[m] /\ p[m] # 0
          BY <1>0, <2>2, <3>1, <3>2
        <4>2. buckets[p[m]].next = IF m = n THEN 0 ELSE p[m + 1]
          BY <1>0, <4>1
        <4>3. g[m] = IF m < n THEN p[m + 1] ELSE 0
          OBVIOUS
        <4>4. m < n <=> m # n
          BY <1>0, <4>1
        <4> QED BY <2>2, <4>1, <4>2, <4>3, <4>4
      <3>3. CASE ~(m - 1 < n)
        <4>1. g[m - 1] = 0 /\ ~(m < n)
          BY <1>0, <3>1, <3>3
        <4> QED BY <2>2, <4>1
      <3> QED BY <3>2, <3>3
    <2> QED BY <2>1, <2>2
  <1>2. g = F(g)
    BY <1>1
  <1>3. w = F(w)
    <2> HIDE DEF F, g
    <2> QED BY <1>2
  <1>4. Walk(h) = w
    BY DEF Walk
  <1> HIDE DEF w
  <1>5. \A m \in 0..MaxBuckets : w[m] = IF m = 0 THEN heads[h]
                      ELSE IF w[m - 1] = 0 THEN 0 ELSE buckets[w[m - 1]].next
    BY <1>3
  <1> HIDE DEF F
  <1> DEFINE S == {m \in Nat : m <= MaxBuckets => w[m] = g[m]}
  <1>6. 0 \in S
    <2>1. 0 \in 0..MaxBuckets
      BY <1>0
    <2> HIDE DEF g
    <2> QED BY <1>1, <1>5, <2>1
  <1>7. ASSUME NEW m \in Nat, m \in S
        PROVE  m + 1 \in S
    <2>1. CASE m + 1 <= MaxBuckets
      <3>1. m + 1 \in 0..MaxBuckets /\ m + 1 # 0 /\ m + 1 - 1 = m /\ m <= MaxBuckets
        BY <1>0, <2>1
      <3> HIDE DEF g
      <3>2. w[m] = g[m]
        BY <1>7, <3>1
      <3>3. w[m + 1] = IF w[m] = 0 THEN 0 ELSE buckets[w[m]].next
        BY <1>5, <3>1
      <3>4. g[m + 1] = IF g[m] = 0 THEN 0 ELSE buckets[g[m]].next
        BY <1>1, <3>1
      <3> QED BY <3>2, <3>3, <3>4
    <2>2. CASE ~(m + 1 <= MaxBuckets)
      BY <2>2
    <2> QED BY <2>1, <2>2
  <1>8. \A m \in Nat : m \in S
    <2> HIDE DEF S
    <2> QED BY <1>6, <1>7, SetInduction
  <1>9. \A m \in 0..MaxBuckets : w[m] = g[m]
    <2> HIDE DEF g
    <2>1. \A m \in 0..MaxBuckets : m \in Nat /\ m <= MaxBuckets
      BY <1>0
    <2> QED BY <1>8, <2>1
  <1>10. \A m \in 0..MaxBuckets : g[m] = IF m < n THEN p[m + 1] ELSE 0
    OBVIOUS
  <1> HIDE DEF g, S
  <1> QED BY <1>4, <1>9, <1>10

\* The chain of a hash is the set of the buckets with this hash.
LEMMA ChainIs ==
  ASSUME Sound(buckets, heads), NEW h \in Hashes
  PROVE  Chain(h) = {i \in Ids : buckets[i].adr # NoAddress /\ Hash(buckets[i].adr) = h}
  <1>1. PICK n, p : IsChain(buckets, heads, h, n, p)
    BY DEF Sound
  <1>2. \A m \in 0..MaxBuckets : Walk(h)[m] = IF m < n THEN p[m + 1] ELSE 0
    BY <1>1, WalkIs
  <1>3. n \in Nat /\ p \in [1..n -> Ids] /\ 0 \notin Ids /\ MaxBuckets \in Nat
    BY <1>1, Constants DEF IsChain
  <1>4. n <= MaxBuckets
    BY <1>1, <1>3, PathFits DEF IsChain
  <1>5. ASSUME NEW i \in Chain(h)
        PROVE  i \in Ids /\ buckets[i].adr # NoAddress /\ Hash(buckets[i].adr) = h
    <2>1. PICK m \in 0..MaxBuckets : i = Walk(h)[m] /\ i # 0
      BY DEF Chain
    <2>2. m < n /\ i = p[m + 1]
      BY <1>2, <2>1
    <2>3. m + 1 \in 1..n
      BY <1>3, <2>2
    <2> QED BY <1>1, <1>3, <2>2, <2>3 DEF IsChain
  <1>6. ASSUME NEW i \in Ids, buckets[i].adr # NoAddress, Hash(buckets[i].adr) = h
        PROVE  i \in Chain(h)
    <2>1. PICK k \in 1..n : p[k] = i
      BY <1>1, <1>6 DEF IsChain
    <2>2. k - 1 \in 0..MaxBuckets /\ k - 1 < n /\ k - 1 + 1 = k
      BY <1>3, <1>4, <2>1
    <2>3. Walk(h)[k - 1] = i /\ i # 0
      BY <1>2, <1>3, <2>1, <2>2
    <2> QED BY <2>2, <2>3 DEF Chain
  <1> QED BY <1>5, <1>6

\* The lookup finds the bucket of an address.
LEMMA KnownIs ==
  ASSUME Sound(buckets, heads), NEW a \in Addresses
  PROVE  Known(a) = {i \in Ids : buckets[i].adr = a}
  <1>1. Hash(a) \in Hashes /\ a # NoAddress
    BY Constants
  <1>2. Chain(Hash(a)) = {i \in Ids : buckets[i].adr # NoAddress /\ Hash(buckets[i].adr) = Hash(a)}
    BY <1>1, ChainIs
  <1> QED BY <1>1, <1>2 DEF Known

\* The chains of a sound table are well formed.
LEMMA SoundIsWellFormed ==
  ASSUME Sound(buckets, heads)
  PROVE  ChainsWellFormed
  <1>1. ASSUME NEW h \in Hashes
        PROVE  /\ Walk(h)[MaxBuckets] = 0
               /\ heads[h] # 0 => buckets[heads[h]].prev = 0
               /\ \A i \in Chain(h) :
                    /\ buckets[i].adr # NoAddress /\ Hash(buckets[i].adr) = h
                    /\ LET n == buckets[i].next IN n # 0 => buckets[n].prev = i
    <2>1. PICK n, p : IsChain(buckets, heads, h, n, p)
      BY DEF Sound
    <2>2. n \in Nat /\ p \in [1..n -> Ids] /\ 0 \notin Ids /\ MaxBuckets \in Nat
      BY <2>1, Constants DEF IsChain
    <2>3. n <= MaxBuckets
      BY <2>1, <2>2, PathFits DEF IsChain
    <2>4. Walk(h)[MaxBuckets] = 0
      <3>1. MaxBuckets \in 0..MaxBuckets /\ ~(MaxBuckets < n)
        BY <2>2, <2>3
      <3> QED BY <2>1, <3>1, WalkIs
    <2>5. heads[h] # 0 => buckets[heads[h]].prev = 0
      <3>1. CASE n = 0
        BY <2>1, <3>1 DEF IsChain
      <3>2. CASE n # 0
        <4>1. 1 \in 1..n
          BY <2>2, <3>2
        <4> QED BY <2>1, <3>2, <4>1 DEF IsChain
      <3> QED BY <3>1, <3>2
    <2>6. ASSUME NEW i \in Chain(h)
          PROVE  /\ buckets[i].adr # NoAddress /\ Hash(buckets[i].adr) = h
                 /\ buckets[i].next # 0 => buckets[buckets[i].next].prev = i
      <3>1. i \in Ids /\ buckets[i].adr # NoAddress /\ Hash(buckets[i].adr) = h
        BY ChainIs
      <3>2. PICK k \in 1..n : p[k] = i
        BY <2>1, <3>1 DEF IsChain
      <3>3. ASSUME buckets[i].next # 0
            PROVE  buckets[buckets[i].next].prev = i
        <4>1. k # n /\ buckets[i].next = p[k + 1]
          BY <2>1, <3>2, <3>3 DEF IsChain
        <4>2. k + 1 \in 1..n /\ k + 1 # 1 /\ k + 1 - 1 = k
          BY <2>2, <4>1
        <4>3. buckets[p[k + 1]].prev = p[k]
          BY <2>1, <4>2 DEF IsChain
        <4> QED BY <3>2, <4>1, <4>3
      <3> QED BY <3>1, <3>3
    <2> QED BY <2>4, <2>5, <2>6
  <1>2. ASSUME NEW i \in Ids, buckets[i].adr # NoAddress
        PROVE  /\ i \in Chain(Hash(buckets[i].adr))
               /\ \A j \in Ids : buckets[j].adr = buckets[i].adr => j = i
    <2>1. buckets[i].adr \in Addresses
      BY <1>2 DEF Sound, BucketType
    <2>2. Hash(buckets[i].adr) \in Hashes
      BY <2>1, Constants
    <2>3. i \in Chain(Hash(buckets[i].adr))
      BY <1>2, <2>2, ChainIs
    <2> QED BY <1>2, <2>3 DEF Sound
  <1> QED BY <1>1, <1>2 DEF ChainsWellFormed

-----------------------------------------------------------------------------
(* Buckets that are unlinked and linked *)

\* What is known of each bucket and each head.
LEMMA OfTable ==
  ASSUME NEW bs, NEW hs, Sound(bs, hs)
  PROVE  /\ \A i \in Ids : /\ bs[i] \in BucketType /\ bs[i].adr \in Addresses \cup {NoAddress}
                           /\ bs[i].lastTime \in Int /\ bs[i].burst \in Nat
                           /\ bs[i].prev \in 0..MaxBuckets /\ bs[i].next \in 0..MaxBuckets
         /\ \A h \in Hashes : hs[h] \in 0..MaxBuckets
         /\ 0..MaxBuckets = Ids \cup {0} /\ 0 \notin Ids
         /\ \A i \in Ids : bs[i].adr # NoAddress => Hash(bs[i].adr) \in Hashes
  <1>1. \A i \in Ids : /\ bs[i] \in BucketType /\ bs[i].adr \in Addresses \cup {NoAddress}
                       /\ bs[i].lastTime \in Int /\ bs[i].burst \in Nat
                       /\ bs[i].prev \in 0..MaxBuckets /\ bs[i].next \in 0..MaxBuckets
    BY DEF Sound, BucketType
  <1>2. \A h \in Hashes : hs[h] \in 0..MaxBuckets
    BY DEF Sound
  <1>3. 0..MaxBuckets = Ids \cup {0} /\ 0 \notin Ids
    BY Constants
  <1> QED BY <1>1, <1>2, <1>3, Constants

\* What Unlink does to each bucket, link by link.
LEMMA UnlinkIs ==
  ASSUME Sound(buckets, heads), NEW i \in Ids
  PROVE  LET bs == Unlink(i).buckets IN
         /\ bs \in [Ids -> BucketType] /\ bs[i] = Free
         /\ \A j \in Ids \ {i} :
              /\ bs[j].adr = buckets[j].adr /\ bs[j].lastTime = buckets[j].lastTime
              /\ bs[j].burst = buckets[j].burst
              /\ bs[j].next = IF j = buckets[i].prev THEN buckets[i].next ELSE buckets[j].next
              /\ j # buckets[i].prev =>
                   bs[j].prev = IF j = buckets[i].next THEN buckets[i].prev ELSE buckets[j].prev
              /\ j = buckets[i].prev => bs[j].prev = buckets[j].prev
  <1> DEFINE b == buckets[i]
             bs == Unlink(i).buckets
             new(j) == IF j = i THEN Free
                       ELSE IF j = b.prev THEN [buckets[j] EXCEPT !.next = b.next]
                       ELSE IF j = b.next THEN [buckets[j] EXCEPT !.prev = b.prev]
                       ELSE buckets[j]
  <1>1. bs = [j \in Ids |-> new(j)]
    BY DEF Unlink
  <1>2. Free \in BucketType
    BY Constants DEF Free, BucketType
  <1>3. b \in BucketType /\ b.next \in 0..MaxBuckets /\ b.prev \in 0..MaxBuckets
    BY OfTable
  <1>4. ASSUME NEW j \in Ids
        PROVE  /\ new(j) \in BucketType
               /\ j # i =>
                  /\ new(j).adr = buckets[j].adr /\ new(j).lastTime = buckets[j].lastTime
                  /\ new(j).burst = buckets[j].burst
                  /\ new(j).next = IF j = b.prev THEN b.next ELSE buckets[j].next
                  /\ j # b.prev => new(j).prev = IF j = b.next THEN b.prev ELSE buckets[j].prev
                  /\ j = b.prev => new(j).prev = buckets[j].prev
    <2>1. buckets[j] \in BucketType
      BY OfTable
    <2> HIDE DEF b
    <2>2. \A v \in 0..MaxBuckets : /\ [buckets[j] EXCEPT !.next = v] \in BucketType
                                   /\ [buckets[j] EXCEPT !.prev = v] \in BucketType
      BY <2>1 DEF BucketType
    <2> QED BY <1>2, <1>3, <2>1, <2>2 DEF BucketType
  <1> HIDE DEF new
  <1>5. bs \in [Ids -> BucketType] /\ \A j \in Ids : bs[j] = new(j)
    BY <1>1, <1>4
  <1>6. new(i) = Free
    BY DEF new
  <1> HIDE DEF bs
  <1>7. \A j \in Ids \ {i} :
              /\ bs[j].adr = buckets[j].adr /\ bs[j].lastTime = buckets[j].lastTime
              /\ bs[j].burst = buckets[j].burst
              /\ bs[j].next = IF j = buckets[i].prev THEN buckets[i].next ELSE buckets[j].next
              /\ j # buckets[i].prev =>
                   bs[j].prev = IF j = buckets[i].next THEN buckets[i].prev ELSE buckets[j].prev
              /\ j = buckets[i].prev => bs[j].prev = buckets[j].prev
    BY <1>4, <1>5
  <1> QED BY <1>5, <1>6, <1>7 DEF bs

\* A path without its c-th bucket, and with a bucket before its first.
Without(p, n, c) == [k \in 1..n - 1 |-> IF k < c THEN p[k] ELSE p[k + 1]]
Before(i, p, n) == [k \in 1..n + 1 |-> IF k = 1 THEN i ELSE p[k - 1]]

\* What is left of a path without its c-th bucket.
Shortens(q, p, n, c) ==
    /\ n - 1 \in Nat /\ q \in [1..n - 1 -> Ids]
    /\ \A j, k \in 1..n - 1 : q[j] = q[k] => j = k
    /\ \A k \in 1..n - 1 : q[k] # p[c] /\ \E j \in 1..n : q[k] = p[j]
    /\ \A k \in 1..n : k # c => \E j \in 1..n - 1 : q[j] = p[k]

\* A bucket taken out of the middle, the head or the end of a path.
LEMMA PathWithout ==
  ASSUME NEW n \in Nat, NEW p \in [1..n -> Ids], \A j, k \in 1..n : p[j] = p[k] => j = k,
         NEW c \in 1..n
  PROVE  Shortens(Without(p, n, c), p, n, c)
  <1> DEFINE q == [k \in 1..n - 1 |-> IF k < c THEN p[k] ELSE p[k + 1]]
             old(k) == IF k < c THEN k ELSE k + 1
  <1>1. n - 1 \in Nat
    OBVIOUS
  <1>2. ASSUME NEW k \in 1..n - 1
        PROVE  old(k) \in 1..n /\ old(k) # c /\ q[k] = p[old(k)]
    OBVIOUS
  <1>3. \A j, k \in 1..n - 1 : old(j) = old(k) => j = k
    OBVIOUS
  <1>4. ASSUME NEW k \in 1..n, k # c
        PROVE  \E j \in 1..n - 1 : old(j) = k
    <2>1. CASE k < c
      <3>1. k \in 1..n - 1 /\ old(k) = k
        BY <2>1
      <3> QED BY <3>1
    <2>2. CASE c < k
      <3>1. k - 1 \in 1..n - 1 /\ old(k - 1) = k
        BY <2>2
      <3> QED BY <3>1
    <2> QED BY <1>4, <2>1, <2>2
  <1>5. q \in [1..n - 1 -> Ids]
    <2>1. \A k \in 1..n - 1 : p[old(k)] \in Ids /\ p[old(k)] = IF k < c THEN p[k] ELSE p[k + 1]
      BY <1>2
    <2> QED BY <2>1
  <1> HIDE DEF q, old
  <1>6. \A j, k \in 1..n - 1 : q[j] = q[k] => j = k
    BY <1>2, <1>3
  <1>7. \A k \in 1..n - 1 : q[k] # p[c] /\ \E j \in 1..n : q[k] = p[j]
    BY <1>2
  <1>8. \A k \in 1..n : k # c => \E j \in 1..n - 1 : q[j] = p[k]
    BY <1>2, <1>4
  <1> QED BY <1>1, <1>5, <1>6, <1>7, <1>8 DEF q, Without, Shortens

\* The chain a bucket is taken out of.
LEMMA UnlinkShortens ==
  ASSUME Sound(buckets, heads), NEW i \in Ids, buckets[i].adr # NoAddress
  PROVE  \E n, p : IsChain(Unlink(i).buckets, Unlink(i).heads, Hash(buckets[i].adr), n, p)
  <1> DEFINE h == Hash(buckets[i].adr)
             b == buckets[i]
             bs == Unlink(i).buckets
             hs == Unlink(i).heads
  <1>0. h \in Hashes /\ 0 \notin Ids /\ Ids \subseteq Nat
    BY OfTable, Constants
  <1>1. PICK n, p : IsChain(buckets, heads, h, n, p)
    BY <1>0 DEF Sound
  <1>2. PICK c \in 1..n : p[c] = i
    BY <1>1 DEF IsChain
  <1>3. /\ n \in Nat /\ p \in [1..n -> Ids] /\ \A j, k \in 1..n : p[j] = p[k] => j = k
        /\ heads[h] = IF n = 0 THEN 0 ELSE p[1]
        /\ \A k \in 1..n : /\ buckets[p[k]].next = IF k = n THEN 0 ELSE p[k + 1]
                           /\ buckets[p[k]].prev = IF k = 1 THEN 0 ELSE p[k - 1]
                           /\ buckets[p[k]].adr # NoAddress /\ Hash(buckets[p[k]].adr) = h
    BY <1>1 DEF IsChain
  <1>4. b.next = (IF c = n THEN 0 ELSE p[c + 1]) /\ b.prev = (IF c = 1 THEN 0 ELSE p[c - 1])
    BY <1>2, <1>3
  <1> DEFINE q == Without(p, n, c)
  <1>5. /\ n - 1 \in Nat /\ q \in [1..n - 1 -> Ids]
        /\ \A j, k \in 1..n - 1 : q[j] = q[k] => j = k
        /\ \A k \in 1..n - 1 : q[k] # i /\ \E j \in 1..n : q[k] = p[j]
        /\ \A k \in 1..n : k # c => \E j \in 1..n - 1 : q[j] = p[k]
    <2>1. p[c] = i /\ c \in 1..n
      BY <1>2
    <2>2. n \in Nat /\ p \in [1..n -> Ids] /\ \A j, k \in 1..n : p[j] = p[k] => j = k
      BY <1>3
    <2>3. Shortens(q, p, n, c)
      <3>1. \A j, k \in 1..n : p[j] = p[k] => j = k
        BY <2>2
      <3>2. n \in Nat /\ p \in [1..n -> Ids]
        BY <2>2
      <3> QED BY <2>1, <3>1, <3>2, PathWithout
    <2> HIDE DEF q
    <2> QED BY <2>1, <2>3 DEF Shortens
  <1> USE DEF Without
  <1>6. hs[h] = IF n - 1 = 0 THEN 0 ELSE q[1]
    <2>1. hs = IF b.prev = 0 THEN [heads EXCEPT ![h] = b.next] ELSE heads
      BY DEF Unlink
    <2>2. heads \in [Hashes -> 0..MaxBuckets]
      BY DEF Sound
    <2>3. CASE c = 1
      <3>1. hs[h] = b.next
        BY <1>0, <1>4, <2>1, <2>2, <2>3
      <3>2. n - 1 # 0 => q[1] = p[2] /\ c # n
        BY <1>3, <2>3
      <3>3. n - 1 = 0 => c = n
        BY <2>3, <1>3
      <3> QED BY <1>4, <2>3, <3>1, <3>2, <3>3
    <2>4. CASE c # 1
      <3>1. c - 1 \in 1..n /\ n - 1 # 0 /\ 1 \in 1..n - 1 /\ 1 < c
        BY <1>3, <2>4
      <3>2. b.prev # 0
        BY <1>0, <1>3, <1>4, <2>4, <3>1
      <3>3. q[1] = p[1] /\ n # 0
        BY <1>3, <3>1
      <3>4. hs[h] = heads[h]
        BY <2>1, <3>2
      <3> QED BY <1>3, <3>1, <3>3, <3>4
    <2> QED BY <2>3, <2>4
  <1> HIDE DEF hs
  <1>7. /\ bs \in [Ids -> BucketType] /\ bs[i] = Free
        /\ \A j \in Ids \ {i} :
              /\ bs[j].adr = buckets[j].adr
              /\ bs[j].next = IF j = b.prev THEN b.next ELSE buckets[j].next
              /\ j # b.prev => bs[j].prev = IF j = b.next THEN b.prev ELSE buckets[j].prev
              /\ j = b.prev => bs[j].prev = buckets[j].prev
    BY UnlinkIs
  <1> HIDE DEF bs, b
  <1>8. ASSUME NEW k \in 1..n - 1
        PROVE  /\ bs[q[k]].next = IF k = n - 1 THEN 0 ELSE q[k + 1]
               /\ bs[q[k]].prev = IF k = 1 THEN 0 ELSE q[k - 1]
               /\ bs[q[k]].adr # NoAddress /\ Hash(bs[q[k]].adr) = h
    <2>1. q[k] \in Ids \ {i}
      <3> HIDE DEF q
      <3> QED BY <1>5
    <2>2. bs[q[k]].adr # NoAddress /\ Hash(bs[q[k]].adr) = h
      <3> HIDE DEF q, h
      <3>1. PICK j \in 1..n : q[k] = p[j]
        BY <1>5
      <3>2. buckets[p[j]].adr # NoAddress /\ Hash(buckets[p[j]].adr) = h
        BY <1>3
      <3> QED BY <1>7, <2>1, <3>1, <3>2
    <2>3. q[k] = IF k < c THEN p[k] ELSE p[k + 1]
      OBVIOUS
    <2>4. k + 1 \in 1..n - 1 => q[k + 1] = IF k + 1 < c THEN p[k + 1] ELSE p[k + 2]
      BY <1>3 DEF q
    <2>5. k # 1 => k - 1 \in 1..n - 1 /\ q[k - 1] = IF k - 1 < c THEN p[k - 1] ELSE p[k]
      <3>1. k # 1 => k - 1 \in 1..n - 1 /\ k - 1 + 1 = k
        BY <1>3
      <3> QED BY <3>1 DEF q
    <2> HIDE DEF q
    <2>6. CASE k + 1 < c
      <3>1. k \in 1..n /\ k + 1 \in 1..n - 1 /\ k # n /\ k # n - 1 /\ c - 1 \in 1..n /\ c # 1
        BY <1>3, <2>6
      <3>2. q[k] = p[k] /\ q[k + 1] = p[k + 1] /\ (k # 1 => q[k - 1] = p[k - 1])
        BY <2>3, <2>4, <2>5, <2>6, <3>1
      <3>3. p[k] # b.prev
        BY <1>3, <1>4, <2>6, <3>1
      <3>4. p[k] # b.next
        <4>1. CASE c = n
          BY <1>0, <1>3, <1>4, <3>1, <4>1
        <4>2. CASE c # n
          <5>1. c + 1 \in 1..n /\ c + 1 # k
            BY <1>3, <2>6, <4>2
          <5> QED BY <1>3, <1>4, <3>1, <4>2, <5>1
        <4> QED BY <4>1, <4>2
      <3>5. bs[p[k]].next = buckets[p[k]].next /\ bs[p[k]].prev = buckets[p[k]].prev
        BY <1>7, <2>1, <3>2, <3>3, <3>4
      <3>6. buckets[p[k]].next = p[k + 1] /\ buckets[p[k]].prev = IF k = 1 THEN 0 ELSE p[k - 1]
        BY <1>3, <3>1
      <3> QED BY <2>2, <3>1, <3>2, <3>5, <3>6
    <2>7. CASE k + 1 = c
      <3>1. k \in 1..n /\ c # 1 /\ c - 1 = k /\ k < c
        BY <1>3, <2>7
      <3>2. q[k] = p[k] /\ (k # 1 => q[k - 1] = p[k - 1])
        BY <2>3, <2>5, <2>7, <3>1
      <3>3. p[k] = b.prev
        BY <1>4, <3>1
      <3>4. bs[p[k]].next = b.next /\ bs[p[k]].prev = buckets[p[k]].prev
        BY <1>7, <2>1, <3>2, <3>3
      <3>5. buckets[p[k]].prev = IF k = 1 THEN 0 ELSE p[k - 1]
        BY <1>3, <3>1
      <3>6. b.next = IF k = n - 1 THEN 0 ELSE q[k + 1]
        <4>1. CASE c = n
          BY <1>3, <1>4, <3>1, <4>1
        <4>2. CASE c # n
          <5>1. k + 1 \in 1..n - 1 /\ ~(k + 1 < c) /\ k # n - 1 /\ k + 2 = c + 1
            BY <1>3, <2>7, <4>2
          <5> QED BY <1>4, <2>4, <4>2, <5>1
        <4> QED BY <4>1, <4>2
      <3> QED BY <2>2, <3>2, <3>4, <3>5, <3>6
    <2>8. CASE c <= k
      <3>1. /\ k + 1 \in 1..n /\ ~(k < c) /\ ~(k + 1 < c) /\ k + 1 # 1 /\ k + 1 - 1 = k
            /\ c # n /\ c + 1 \in 1..n /\ k \in 1..n /\ k + 1 + 1 = k + 2
            /\ (k + 1 = n <=> k = n - 1)
            /\ (k # n - 1 => k + 1 \in 1..n - 1)
        BY <1>3, <2>8
      <3>2. q[k] = p[k + 1]
        BY <2>3, <3>1
      <3>3. k # n - 1 => q[k + 1] = p[k + 2]
        BY <2>4, <3>1
      <3>4. p[k + 1] # b.prev
        <4>1. CASE c = 1
          BY <1>0, <1>3, <1>4, <3>1, <4>1
        <4>2. CASE c # 1
          <5>1. c - 1 \in 1..n /\ c - 1 # k + 1
            BY <1>3, <2>8, <4>2
          <5> QED BY <1>3, <1>4, <3>1, <4>2, <5>1
        <4> QED BY <4>1, <4>2
      <3>5. bs[p[k + 1]].next = buckets[p[k + 1]].next
        BY <1>7, <2>1, <3>2, <3>4
      <3>6. buckets[p[k + 1]].next = IF k = n - 1 THEN 0 ELSE p[k + 2]
        BY <1>3, <3>1
      <3>7. bs[p[k + 1]].prev = IF k = 1 THEN 0 ELSE q[k - 1]
        <4>1. CASE k = c
          <5>1. p[k + 1] = b.next
            BY <1>4, <3>1, <4>1
          <5>2. bs[p[k + 1]].prev = b.prev
            BY <1>7, <2>1, <3>2, <3>4, <5>1
          <5>3. k # 1 => k - 1 < c
            BY <1>3, <4>1
          <5> QED BY <1>4, <2>5, <4>1, <5>2, <5>3
        <4>2. CASE k # c
          <5>1. k # 1 /\ ~(k - 1 < c) /\ k + 1 # c + 1
            BY <1>3, <2>8, <4>2
          <5>2. p[k + 1] # b.next
            BY <1>3, <1>4, <3>1, <5>1
          <5>3. bs[p[k + 1]].prev = buckets[p[k + 1]].prev
            BY <1>7, <2>1, <3>2, <3>4, <5>2
          <5>4. buckets[p[k + 1]].prev = p[k]
            BY <1>3, <3>1
          <5> QED BY <2>5, <5>1, <5>3, <5>4
        <4> QED BY <4>1, <4>2
      <3> QED BY <2>2, <3>2, <3>3, <3>5, <3>6, <3>7
    <2> QED BY <1>3, <2>6, <2>7, <2>8
  <1>9. ASSUME NEW j \in Ids, bs[j].adr # NoAddress, Hash(bs[j].adr) = h
        PROVE  \E k \in 1..n - 1 : q[k] = j
    <2>1. j # i
      BY <1>7, <1>9 DEF Free
    <2>2. buckets[j].adr # NoAddress /\ Hash(buckets[j].adr) = h
      BY <1>7, <1>9, <2>1
    <2>3. PICK k \in 1..n : p[k] = j
      BY <1>1, <2>2 DEF IsChain
    <2> QED BY <1>2, <1>5, <2>1, <2>3
  <1> HIDE DEF q, h
  <1>10. IsChain(bs, hs, h, n - 1, q)
    BY <1>5, <1>6, <1>8, <1>9 DEF IsChain
  <1> QED BY <1>10 DEF bs, hs, h

\* The other chains lose nothing.
LEMMA UnlinkElsewhere ==
  ASSUME Sound(buckets, heads), NEW i \in Ids, buckets[i].adr # NoAddress,
         NEW h \in Hashes, h # Hash(buckets[i].adr)
  PROVE  \E n, p : IsChain(Unlink(i).buckets, Unlink(i).heads, h, n, p)
  <1> DEFINE b == buckets[i]
             bs == Unlink(i).buckets
             hs == Unlink(i).heads
  <1>0. 0 \notin Ids /\ Hash(b.adr) \in Hashes /\ b.adr # NoAddress
    BY OfTable, Constants
  <1>1. PICK n, p : IsChain(buckets, heads, h, n, p)
    BY DEF Sound
  <1>2. /\ n \in Nat /\ p \in [1..n -> Ids] /\ \A j, k \in 1..n : p[j] = p[k] => j = k
        /\ heads[h] = IF n = 0 THEN 0 ELSE p[1]
        /\ \A k \in 1..n : /\ buckets[p[k]].next = IF k = n THEN 0 ELSE p[k + 1]
                           /\ buckets[p[k]].prev = IF k = 1 THEN 0 ELSE p[k - 1]
                           /\ buckets[p[k]].adr # NoAddress /\ Hash(buckets[p[k]].adr) = h
    BY <1>1 DEF IsChain
  <1>3. hs[h] = heads[h]
    <2>1. hs = IF b.adr # NoAddress /\ b.prev = 0
               THEN [heads EXCEPT ![Hash(b.adr)] = b.next] ELSE heads
      BY DEF Unlink
    <2> QED BY <2>1 DEF Sound
  <1> HIDE DEF hs
  <1>4. \A j \in {b.prev, b.next} \cap Ids : Hash(buckets[j].adr) = Hash(b.adr)
    <2>1. PICK m, r : IsChain(buckets, heads, Hash(b.adr), m, r)
      BY <1>0 DEF Sound
    <2>2. PICK c \in 1..m : r[c] = i
      BY <1>0, <2>1 DEF IsChain
    <2>3. m \in Nat
      BY <2>1 DEF IsChain
    <2>4. b.prev # 0 => c - 1 \in 1..m /\ b.prev = r[c - 1]
      BY <2>1, <2>2, <2>3 DEF IsChain
    <2>5. b.next # 0 => c + 1 \in 1..m /\ b.next = r[c + 1]
      BY <2>1, <2>2, <2>3 DEF IsChain
    <2> QED BY <1>0, <2>1, <2>4, <2>5, SMTT(20) DEF IsChain
  <1>5. /\ bs \in [Ids -> BucketType] /\ bs[i] = Free
        /\ \A j \in Ids \ {i} :
              /\ bs[j].adr = buckets[j].adr
              /\ bs[j].next = IF j = b.prev THEN b.next ELSE buckets[j].next
              /\ j # b.prev => bs[j].prev = IF j = b.next THEN b.prev ELSE buckets[j].prev
    BY UnlinkIs
  <1> HIDE DEF bs, b
  <1>6. ASSUME NEW k \in 1..n
        PROVE  /\ bs[p[k]].next = buckets[p[k]].next /\ bs[p[k]].prev = buckets[p[k]].prev
               /\ bs[p[k]].adr = buckets[p[k]].adr
    <2>1. p[k] \in Ids /\ Hash(buckets[p[k]].adr) = h
      BY <1>2
    <2>2. p[k] # i
      BY <2>1
    <2>3. p[k] # b.prev /\ p[k] # b.next
      BY <1>4, <2>1 DEF b
    <2> QED BY <1>5, <2>1, <2>2, <2>3
  <1>7. ASSUME NEW j \in Ids, bs[j].adr # NoAddress, Hash(bs[j].adr) = h
        PROVE  \E k \in 1..n : p[k] = j
    <2>1. j # i
      BY <1>5, <1>7 DEF Free
    <2>2. buckets[j].adr # NoAddress /\ Hash(buckets[j].adr) = h
      BY <1>5, <1>7, <2>1
    <2> QED BY <1>1, <2>2 DEF IsChain
  <1>8. IsChain(bs, hs, h, n, p)
    <2>1. \A k \in 1..n : /\ bs[p[k]].next = IF k = n THEN 0 ELSE p[k + 1]
                          /\ bs[p[k]].prev = IF k = 1 THEN 0 ELSE p[k - 1]
                          /\ bs[p[k]].adr # NoAddress /\ Hash(bs[p[k]].adr) = h
      BY <1>2, <1>6
    <2>2. hs[h] = IF n = 0 THEN 0 ELSE p[1]
      BY <1>2, <1>3
    <2>3. \A j \in Ids : bs[j].adr # NoAddress /\ Hash(bs[j].adr) = h => \E k \in 1..n : p[k] = j
      BY <1>7
    <2> QED BY <1>2, <2>1, <2>2, <2>3 DEF IsChain
  <1> QED BY <1>8 DEF bs, hs

\* A bucket that is free is in no chain, and clearing it again changes nothing.
LEMMA UnlinkFree ==
  ASSUME Sound(buckets, heads), NEW i \in Ids, buckets[i].adr = NoAddress,
         NEW h \in Hashes
  PROVE  \E n, p : IsChain(Unlink(i).buckets, Unlink(i).heads, h, n, p)
  <1> DEFINE b == buckets[i]
             bs == Unlink(i).buckets
             hs == Unlink(i).heads
  <1>0. b.prev = 0 /\ b.next = 0 /\ 0 \notin Ids
    BY Constants DEF Sound
  <1>1. PICK n, p : IsChain(buckets, heads, h, n, p)
    BY DEF Sound
  <1>2. hs = heads
    BY DEF Unlink
  <1> HIDE DEF hs
  <1>3. /\ bs[i] = Free
        /\ \A j \in Ids \ {i} : /\ bs[j].adr = buckets[j].adr /\ bs[j].next = buckets[j].next
                                /\ bs[j].prev = buckets[j].prev
    BY <1>0, UnlinkIs
  <1> HIDE DEF bs
  <1>4. bs[i].adr = NoAddress
    BY <1>3 DEF Free
  <1>5. n \in Nat /\ p \in [1..n -> Ids] /\ \A k \in 1..n : p[k] # i
    BY <1>1 DEF IsChain
  <1>6. IsChain(bs, hs, h, n, p)
    <2>1. \A k \in 1..n : /\ bs[p[k]].next = IF k = n THEN 0 ELSE p[k + 1]
                          /\ bs[p[k]].prev = IF k = 1 THEN 0 ELSE p[k - 1]
                          /\ bs[p[k]].adr # NoAddress /\ Hash(bs[p[k]].adr) = h
      <3>1. \A k \in 1..n : p[k] \in Ids \ {i}
        BY <1>5
      <3>2. \A k \in 1..n : /\ bs[p[k]].next = buckets[p[k]].next
                            /\ bs[p[k]].prev = buckets[p[k]].prev
                            /\ bs[p[k]].adr = buckets[p[k]].adr
        BY <1>3, <3>1
      <3>3. \A k \in 1..n : /\ buckets[p[k]].next = IF k = n THEN 0 ELSE p[k + 1]
                            /\ buckets[p[k]].prev = IF k = 1 THEN 0 ELSE p[k - 1]
                            /\ buckets[p[k]].adr # NoAddress /\ Hash(buckets[p[k]].adr) = h
        BY <1>1 DEF IsChain
      <3> QED BY <3>2, <3>3
    <2>2. hs[h] = IF n = 0 THEN 0 ELSE p[1]
      BY <1>1, <1>2 DEF IsChain
    <2>3. \A j \in Ids : bs[j].adr # NoAddress /\ Hash(bs[j].adr) = h => \E k \in 1..n : p[k] = j
      BY <1>1, <1>3, <1>4 DEF IsChain
    <2> QED BY <1>1, <1>5, <2>1, <2>2, <2>3 DEF IsChain
  <1> QED BY <1>6 DEF bs, hs

\* Unlinking keeps the table sound.
LEMMA UnlinkKeeps ==
  ASSUME Sound(buckets, heads), NEW i \in Ids
  PROVE  Sound(Unlink(i).buckets, Unlink(i).heads)
  <1> DEFINE b == buckets[i]
             bs == Unlink(i).buckets
             hs == Unlink(i).heads
  <1>1. \A h \in Hashes : \E n, p : IsChain(bs, hs, h, n, p)
    BY UnlinkShortens, UnlinkElsewhere, UnlinkFree
  <1>2. hs \in [Hashes -> 0..MaxBuckets]
    <2>1. hs = IF b.adr # NoAddress /\ b.prev = 0
               THEN [heads EXCEPT ![Hash(b.adr)] = b.next] ELSE heads
      BY DEF Unlink
    <2>2. b.next \in 0..MaxBuckets /\ heads \in [Hashes -> 0..MaxBuckets]
      BY OfTable DEF Sound
    <2> QED BY <2>1, <2>2
  <1>3. /\ bs \in [Ids -> BucketType] /\ bs[i] = Free
        /\ \A j \in Ids \ {i} :
              /\ bs[j].adr = buckets[j].adr
              /\ bs[j].next = IF j = b.prev THEN b.next ELSE buckets[j].next
              /\ j # b.prev => bs[j].prev = IF j = b.next THEN b.prev ELSE buckets[j].prev
    BY UnlinkIs
  <1> HIDE DEF bs, hs
  <1>4. ASSUME NEW j \in Ids, bs[j].adr = NoAddress
        PROVE  bs[j].prev = 0 /\ bs[j].next = 0
    <2>1. CASE j = i
      BY <1>3, <2>1 DEF Free
    <2>2. CASE j # i
      <3>1. buckets[j].adr = NoAddress /\ buckets[j].prev = 0 /\ buckets[j].next = 0
        BY <1>3, <1>4, <2>2 DEF Sound
      <3>2. j # b.prev /\ j # b.next
        <4>1. CASE b.adr = NoAddress
          BY <4>1, Constants DEF Sound
        <4>2. CASE b.adr # NoAddress
          <5>1. PICK m, r : IsChain(buckets, heads, Hash(b.adr), m, r)
            BY <4>2, OfTable DEF Sound
          <5>2. PICK c \in 1..m : r[c] = i
            BY <4>2, <5>1 DEF IsChain
          <5>3. m \in Nat
            BY <5>1 DEF IsChain
          <5>4. b.prev # 0 => c - 1 \in 1..m /\ b.prev = r[c - 1]
            BY <5>1, <5>2, <5>3 DEF IsChain
          <5>5. b.next # 0 => c + 1 \in 1..m /\ b.next = r[c + 1]
            BY <5>1, <5>2, <5>3 DEF IsChain
          <5>6. j # 0
            BY Constants
          <5>7. \A k \in 1..m : buckets[r[k]].adr # NoAddress
            BY <5>1 DEF IsChain
          <5> QED BY <3>1, <5>4, <5>5, <5>6, <5>7
        <4> QED BY <4>1, <4>2
      <3> QED BY <1>3, <2>2, <3>1, <3>2
    <2> QED BY <2>1, <2>2
  <1>5. ASSUME NEW j \in Ids, NEW k \in Ids, bs[j].adr # NoAddress, bs[j].adr = bs[k].adr
        PROVE  j = k
    <2>1. j # i /\ k # i
      BY <1>3, <1>5 DEF Free
    <2> QED BY <1>3, <1>5, <2>1 DEF Sound
  <1>6. Sound(bs, hs)
    BY <1>1, <1>2, <1>3, <1>4, <1>5 DEF Sound, bs, hs
  <1> QED BY <1>6 DEF bs, hs

\* A bucket put before the head of a path.
LEMMA PathWith ==
  ASSUME NEW n \in Nat, NEW p \in [1..n -> Ids], \A j, k \in 1..n : p[j] = p[k] => j = k,
         NEW i \in Ids, \A k \in 1..n : p[k] # i
  PROVE  LET q == Before(i, p, n) IN
         /\ q \in [1..n + 1 -> Ids] /\ q[1] = i
         /\ \A k \in 1..n : k + 1 \in 1..n + 1 /\ q[k + 1] = p[k]
         /\ \A j, k \in 1..n + 1 : q[j] = q[k] => j = k
  <1> DEFINE q == [k \in 1..n + 1 |-> IF k = 1 THEN i ELSE p[k - 1]]
  <1>1. \A k \in 1..n + 1 : k # 1 => k - 1 \in 1..n
    OBVIOUS
  <1>2. q \in [1..n + 1 -> Ids] /\ q[1] = i
    BY <1>1
  <1>3. \A k \in 1..n : k + 1 \in 1..n + 1 /\ q[k + 1] = p[k]
    OBVIOUS
  <1>4. ASSUME NEW j \in 1..n + 1, NEW k \in 1..n + 1, q[j] = q[k]
        PROVE  j = k
    <2>1. q[j] = (IF j = 1 THEN i ELSE p[j - 1]) /\ q[k] = (IF k = 1 THEN i ELSE p[k - 1])
      OBVIOUS
    <2> HIDE DEF q
    <2>2. CASE j # 1 /\ k # 1
      <3>1. j - 1 \in 1..n /\ k - 1 \in 1..n /\ p[j - 1] = p[k - 1]
        BY <1>1, <1>4, <2>1, <2>2
      <3>2. j - 1 = k - 1
        BY <3>1
      <3> QED BY <3>2
    <2>3. CASE j = 1 \/ k = 1
      BY <1>1, <1>4, <2>1, <2>3
    <2> QED BY <2>2, <2>3
  <1> QED BY <1>2, <1>3, <1>4 DEF Before

\* A free bucket linked at the head of its address's chain keeps the table sound.
LEMMA LinkKeeps ==
  ASSUME NEW tbl, Sound(tbl.buckets, tbl.heads), NEW i \in Ids, tbl.buckets[i] = Free,
         NEW a \in Addresses, \A j \in Ids : tbl.buckets[j].adr # a,
         now \in Int, Link(tbl, i, a)
  PROVE  /\ Sound(buckets', heads')
         /\ buckets'[i].adr = a /\ buckets'[i].lastTime = now /\ buckets'[i].burst = 0
         /\ \A j \in Ids \ {i} : /\ buckets'[j].adr = tbl.buckets[j].adr
                                 /\ buckets'[j].lastTime = tbl.buckets[j].lastTime
                                 /\ buckets'[j].burst = tbl.buckets[j].burst
  <1> DEFINE bs == tbl.buckets
             hs == tbl.heads
             g == Hash(a)
             old == hs[g]
             made == [adr |-> a, lastTime |-> now, burst |-> 0, prev |-> 0, next |-> old]
             new(j) == IF j = i THEN made
                       ELSE IF j = old THEN [bs[j] EXCEPT !.prev = i]
                       ELSE bs[j]
  <1>0. /\ g \in Hashes /\ a # NoAddress /\ 0 \notin Ids /\ i \in 0..MaxBuckets
        /\ bs[i].adr = NoAddress
    BY Constants DEF Free
  <1>1. buckets' = [j \in Ids |-> new(j)] /\ heads' = [hs EXCEPT ![g] = i]
    BY DEF Link
  <1>2. /\ hs \in [Hashes -> 0..MaxBuckets] /\ old \in 0..MaxBuckets
        /\ bs \in [Ids -> BucketType]
    BY <1>0, OfTable DEF Sound
  <1>3. PICK n, p : IsChain(bs, hs, g, n, p)
    BY <1>0 DEF Sound
  <1>4. /\ n \in Nat /\ p \in [1..n -> Ids] /\ \A j, k \in 1..n : p[j] = p[k] => j = k
        /\ old = IF n = 0 THEN 0 ELSE p[1]
        /\ \A k \in 1..n : /\ bs[p[k]].next = IF k = n THEN 0 ELSE p[k + 1]
                           /\ bs[p[k]].prev = IF k = 1 THEN 0 ELSE p[k - 1]
                           /\ bs[p[k]].adr # NoAddress /\ Hash(bs[p[k]].adr) = g
        /\ \A k \in 1..n : p[k] # i
    BY <1>0, <1>3 DEF IsChain
  <1>5. ASSUME NEW j \in Ids
        PROVE  /\ new(j) \in BucketType
               /\ j = i => /\ new(j).adr = a /\ new(j).lastTime = now /\ new(j).burst = 0
                           /\ new(j).prev = 0 /\ new(j).next = old
               /\ j # i => /\ new(j).adr = bs[j].adr /\ new(j).lastTime = bs[j].lastTime
                           /\ new(j).burst = bs[j].burst /\ new(j).next = bs[j].next
                           /\ new(j).prev = IF j = old THEN i ELSE bs[j].prev
    <2> HIDE DEF bs, old
    <2>1. bs[j] \in BucketType
      BY <1>2
    <2>2. made \in BucketType
      BY <1>0, <1>2, Constants DEF BucketType
    <2>3. [bs[j] EXCEPT !.prev = i] \in BucketType
      BY <1>0, <2>1 DEF BucketType
    <2> QED BY <2>1, <2>2, <2>3 DEF BucketType
  <1> HIDE DEF new
  <1>6. buckets' \in [Ids -> BucketType] /\ \A j \in Ids : buckets'[j] = new(j)
    BY <1>1, <1>5
  <1>7. /\ buckets'[i].adr = a /\ buckets'[i].lastTime = now /\ buckets'[i].burst = 0
        /\ buckets'[i].prev = 0 /\ buckets'[i].next = old
        /\ \A j \in Ids \ {i} : /\ buckets'[j].adr = bs[j].adr /\ buckets'[j].next = bs[j].next
                                /\ buckets'[j].lastTime = bs[j].lastTime
                                /\ buckets'[j].burst = bs[j].burst
                                /\ buckets'[j].prev = IF j = old THEN i ELSE bs[j].prev
    BY <1>5, <1>6
  <1>8. heads' \in [Hashes -> 0..MaxBuckets] /\ heads'[g] = i
        /\ \A h \in Hashes \ {g} : heads'[h] = hs[h]
    BY <1>0, <1>1, <1>2
  <1> HIDE DEF old, hs, bs
  <1>9. \E m, q : IsChain(buckets', heads', g, m, q)
    <2> DEFINE q == Before(i, p, n)
    <2>1. /\ q \in [1..n + 1 -> Ids] /\ q[1] = i
          /\ \A k \in 1..n : k + 1 \in 1..n + 1 /\ q[k + 1] = p[k]
          /\ \A j, k \in 1..n + 1 : q[j] = q[k] => j = k
      BY <1>4, PathWith
    <2> HIDE DEF q
    <2>2. ASSUME NEW k \in 1..n + 1
          PROVE  /\ buckets'[q[k]].next = IF k = n + 1 THEN 0 ELSE q[k + 1]
                 /\ buckets'[q[k]].prev = IF k = 1 THEN 0 ELSE q[k - 1]
                 /\ buckets'[q[k]].adr # NoAddress /\ Hash(buckets'[q[k]].adr) = g
      <3>1. CASE k = 1
        <4>1. n # 0 => 1 \in 1..n /\ q[2] = p[1]
          <5>1. n # 0 => 1 \in 1..n
            BY <1>4
          <5> QED BY <2>1, <5>1
        <4>2. 1 = n + 1 <=> n = 0
          BY <1>4
        <4> QED BY <1>0, <1>4, <1>7, <2>1, <3>1, <4>1, <4>2
      <3>2. CASE k # 1
        <4>1. k - 1 \in 1..n /\ k - 1 + 1 = k /\ (k = n + 1 <=> k - 1 = n)
          BY <1>4, <3>2
        <4>2. q[k] = p[k - 1] /\ p[k - 1] \in Ids \ {i}
          BY <1>4, <2>1, <4>1
        <4>3. buckets'[q[k]].next = IF k = n + 1 THEN 0 ELSE q[k + 1]
          <5>1. bs[p[k - 1]].next = IF k = n + 1 THEN 0 ELSE p[k]
            BY <1>4, <4>1
          <5>2. k # n + 1 => k \in 1..n /\ q[k + 1] = p[k]
            BY <1>4, <2>1, <3>2
          <5> QED BY <1>7, <4>2, <5>1, <5>2
        <4>4. buckets'[q[k]].prev = q[k - 1]
          <5>1. CASE k = 2
            <6>1. k - 1 = 1 /\ n # 0
              BY <1>4, <5>1
            <6>2. q[k] = old /\ q[k - 1] = i
              BY <1>4, <2>1, <4>2, <6>1
            <6> QED BY <1>7, <4>2, <6>2
          <5>2. CASE k # 2
            <6>1. k - 1 # 1 /\ k - 2 \in 1..n /\ k - 2 + 1 = k - 1 /\ 1 \in 1..n /\ n # 0
                  /\ k - 1 - 1 = k - 2
              BY <1>4, <3>2, <5>2
            <6>2. p[k - 1] # old
              BY <1>4, <4>1, <6>1
            <6>3. buckets'[q[k]].prev = p[k - 2]
              <7>1. buckets'[q[k]].prev = bs[p[k - 1]].prev
                BY <1>7, <4>2, <6>2
              <7>2. bs[p[k - 1]].prev = p[k - 2]
                BY <1>4, <4>1, <6>1
              <7> QED BY <7>1, <7>2
            <6>4. q[k - 1] = p[k - 2]
              BY <2>1, <6>1
            <6> QED BY <6>3, <6>4
          <5> QED BY <5>1, <5>2
        <4>5. buckets'[q[k]].adr # NoAddress /\ Hash(buckets'[q[k]].adr) = g
          <5>1. bs[p[k - 1]].adr # NoAddress /\ Hash(bs[p[k - 1]].adr) = g
            BY <1>4, <4>1
          <5>2. buckets'[q[k]].adr = bs[p[k - 1]].adr
            BY <1>7, <4>2
          <5> QED BY <5>1, <5>2
        <4> QED BY <3>2, <4>3, <4>4, <4>5
      <3> QED BY <3>1, <3>2
    <2>3. ASSUME NEW j \in Ids, buckets'[j].adr # NoAddress, Hash(buckets'[j].adr) = g
          PROVE  \E k \in 1..n + 1 : q[k] = j
      <3>1. CASE j = i
        <4>1. 1 \in 1..n + 1
          BY <1>4
        <4> QED BY <2>1, <3>1, <4>1
      <3>2. CASE j # i
        <4>1. bs[j].adr # NoAddress /\ Hash(bs[j].adr) = g
          BY <1>7, <2>3, <3>2
        <4>2. PICK k \in 1..n : p[k] = j
          BY <1>3, <4>1 DEF IsChain
        <4> QED BY <2>1, <4>2
      <3> QED BY <3>1, <3>2
    <2>4. n + 1 \in Nat /\ n + 1 # 0
      BY <1>4
    <2>5. IsChain(buckets', heads', g, n + 1, q)
      BY <1>8, <2>1, <2>2, <2>3, <2>4 DEF IsChain
    <2> QED BY <2>5
  <1>10. ASSUME NEW h \in Hashes \ {g}
         PROVE  \E m, q : IsChain(buckets', heads', h, m, q)
    <2>1. PICK m, q : IsChain(bs, hs, h, m, q)
      BY DEF Sound, bs, hs
    <2>2. ASSUME NEW k \in 1..m
          PROVE  q[k] # i /\ q[k] # old /\ q[k] \in Ids
      <3>1. bs[q[k]].adr # NoAddress /\ Hash(bs[q[k]].adr) = h /\ q[k] \in Ids
        BY <2>1 DEF IsChain
      <3>2. old # 0 => Hash(bs[old].adr) = g
        <4>1. n # 0 => 1 \in 1..n
          BY <1>4
        <4> QED BY <1>4, <4>1
      <3> QED BY <1>0, <3>1, <3>2 DEF bs
    <2>3. ASSUME NEW j \in Ids, buckets'[j].adr # NoAddress, Hash(buckets'[j].adr) = h
          PROVE  \E k \in 1..m : q[k] = j
      <3>1. j # i
        BY <1>7, <2>3
      <3>2. bs[j].adr # NoAddress /\ Hash(bs[j].adr) = h
        BY <1>7, <2>3, <3>1
      <3> QED BY <2>1, <3>2 DEF IsChain
    <2>4. \A k \in 1..m : /\ buckets'[q[k]].adr = bs[q[k]].adr
                          /\ buckets'[q[k]].next = bs[q[k]].next
                          /\ buckets'[q[k]].prev = bs[q[k]].prev
      BY <1>7, <2>2
    <2>5. \A k \in 1..m : /\ buckets'[q[k]].next = IF k = m THEN 0 ELSE q[k + 1]
                          /\ buckets'[q[k]].prev = IF k = 1 THEN 0 ELSE q[k - 1]
                          /\ buckets'[q[k]].adr # NoAddress /\ Hash(buckets'[q[k]].adr) = h
      BY <2>1, <2>4, ZenonT(90) DEF IsChain
    <2>6. heads'[h] = IF m = 0 THEN 0 ELSE q[1]
      BY <1>8, <2>1 DEF IsChain
    <2>7. \A j \in Ids : buckets'[j].adr # NoAddress /\ Hash(buckets'[j].adr) = h
                           => \E k \in 1..m : q[k] = j
      BY <2>3
    <2>8. IsChain(buckets', heads', h, m, q)
      BY <2>1, <2>5, <2>6, <2>7 DEF IsChain
    <2> QED BY <2>8
  <1>11. ASSUME NEW j \in Ids, buckets'[j].adr = NoAddress
         PROVE  buckets'[j].prev = 0 /\ buckets'[j].next = 0
    <2>1. j # i
      BY <1>0, <1>7, <1>11
    <2>2. bs[j].adr = NoAddress /\ bs[j].prev = 0 /\ bs[j].next = 0
      BY <1>7, <1>11, <2>1 DEF Sound, bs
    <2>3. j # old
      <3>1. n # 0 => 1 \in 1..n
        BY <1>4
      <3> QED BY <1>0, <1>4, <2>2, <3>1
    <2> QED BY <1>7, <2>1, <2>2, <2>3
  <1>12. ASSUME NEW j \in Ids, NEW k \in Ids, buckets'[j].adr # NoAddress,
                buckets'[j].adr = buckets'[k].adr
         PROVE  j = k
    <2>1. CASE j # i /\ k # i
      BY <1>7, <1>12, <2>1 DEF Sound, bs
    <2>2. CASE j = i \/ k = i
      <3>1. \A u \in Ids \ {i} : buckets'[u].adr # a
        BY <1>7 DEF bs
      <3> QED BY <1>7, <1>12, <2>2, <3>1
    <2> QED BY <2>1, <2>2
  <1>13. Sound(buckets', heads')
    <2>1. \A h \in Hashes : \E m, q : IsChain(buckets', heads', h, m, q)
      BY <1>9, <1>10
    <2> QED BY <1>6, <1>8, <1>11, <1>12, <2>1 DEF Sound
  <1> QED BY <1>7, <1>13 DEF bs

-----------------------------------------------------------------------------
(* Charges *)

\* Quotient and remainder.
LEMMA Division ==
  ASSUME NEW x \in Nat, NEW d \in Nat \ {0}
  PROVE  /\ x \div d \in Nat /\ x % d \in 0..d - 1
         /\ x = (x \div d) * d + (x % d)
  <1>1. x \div d \in Nat /\ x % d \in 0..d - 1
    OBVIOUS
  <1>2. ASSUME NEW q \in Int, NEW r \in Int, q = x \div d, r = x % d
        PROVE  x = q * d + r
    BY <1>2, Z3
  <1> QED BY <1>1, <1>2

\* Facts about products, which the provers find only for plain variables.
LEMMA Distributes == \A x, y, z \in Int : (x + y) * z = x * z + y * z
  OBVIOUS

LEMMA ProductIsNat == \A x, y \in Nat : x * y \in Nat
  OBVIOUS

\* What the interval says of the time that has passed.
LEMMA IntervalIs ==
  ASSUME now \in Int, NEW last \in Int
  PROVE  /\ Interval(last) \in Int
         /\ last <= now /\ Interval(last) >= 0 => Interval(last) <= now - last
         /\ last <= now /\ Interval(last) < 0 => IntHalf <= now - last
         /\ last <= now /\ now - last < 2 * IntHalf /\ Interval(last) >= 0 =>
              Interval(last) = now - last
  <1> DEFINE M == 2 * IntHalf
             D == now - last
  <1>1. M \in Nat \ {0} /\ IntHalf \in Nat \ {0} /\ M = IntHalf + IntHalf /\ D \in Int
    BY Constants
  <1>2. Interval(last) = IF D % M < IntHalf THEN D % M ELSE (D % M) - M
    BY DEF Interval
  <1> HIDE DEF M
  <1>3. D % M \in 0..M - 1
    BY <1>1
  <1>4. D >= 0 /\ D < M => D % M = D
    BY <1>1
  <1>5. D >= 0 => D % M <= D
    BY <1>1, <1>3, <1>4
  <1>6. D % M = D \/ D >= M \/ D < 0
    BY <1>1, <1>4
  <1> HIDE DEF D
  <1>7. /\ Interval(last) \in Int
        /\ 0 <= D /\ Interval(last) >= 0 => Interval(last) <= D
        /\ 0 <= D /\ Interval(last) < 0 => IntHalf <= D
        /\ 0 <= D /\ D < M /\ Interval(last) >= 0 => Interval(last) = D
    BY <1>1, <1>2, <1>3, <1>4, <1>5, <1>6
  <1>8. last <= now <=> 0 <= D
    BY DEF D
  <1> QED BY <1>7, <1>8 DEF D, M

\* A bucket leaks the periods that passed, or is emptied.
LEMMA LeakedIs ==
  ASSUME now \in Int, NEW b \in BucketType, NEW burst, NEW period \in Nat \ {0}
  PROVE  LET c == Leaked(b, burst, period) IN
         /\ c \in BucketType /\ c.adr = b.adr /\ c.prev = b.prev /\ c.next = b.next
         /\ \/ /\ c.burst = 0 /\ c.lastTime = now
               /\ Interval(b.lastTime) < 0 \/ Interval(b.lastTime) >= (b.burst + 1) * period
            \/ \E e \in 0..b.burst, r \in 0..period - 1 :
                 /\ c.burst = b.burst - e /\ c.lastTime = now - r
                 /\ Interval(b.lastTime) = e * period + r
  <1> DEFINE i == Interval(b.lastTime)
             e == i \div period
             c == Leaked(b, burst, period)
  <1>1. /\ b.burst \in Nat /\ b.lastTime \in Int /\ i \in Int
    BY IntervalIs DEF BucketType
  <1>2. c = IF i < 0 \/ e > b.burst
            THEN [b EXCEPT !.burst = 0, !.lastTime = now]
            ELSE [b EXCEPT !.burst = b.burst - e, !.lastTime = now - (i % period)]
    BY DEF Leaked
  <1> HIDE DEF i, c, e
  <1>3. CASE i < 0 \/ e > b.burst
    <2>1. c = [b EXCEPT !.burst = 0, !.lastTime = now]
      BY <1>2, <1>3
    <2>2. /\ c \in BucketType /\ c.adr = b.adr /\ c.prev = b.prev /\ c.next = b.next
          /\ c.burst = 0 /\ c.lastTime = now
      BY <2>1 DEF BucketType
    <2>3. i < 0 \/ i >= (b.burst + 1) * period
      <3>1. SUFFICES ASSUME i >= 0, e > b.burst PROVE i >= (b.burst + 1) * period
        BY <1>1, <1>3
      <3>2. e \in Nat /\ i = e * period + (i % period) /\ i % period >= 0 /\ i % period \in Int
        BY <1>1, <3>1, Division DEF e
      <3>3. PICK m \in Nat : e = b.burst + 1 + m
        <4>1. e - b.burst - 1 \in Nat /\ e = b.burst + 1 + (e - b.burst - 1)
          BY <1>1, <3>1, <3>2
        <4> QED BY <4>1
      <3>4. e * period = (b.burst + 1) * period + m * period
        BY <1>1, <3>3, Distributes
      <3>5. (b.burst + 1) * period \in Nat /\ m * period \in Nat
        BY <1>1, ProductIsNat
      <3> DEFINE x == (b.burst + 1) * period
                 y == m * period
                 z == e * period
                 r == i % period
      <3>6. i = z + r /\ z = x + y /\ x \in Nat /\ y \in Nat /\ r \in Int /\ r >= 0
        BY <3>2, <3>4, <3>5
      <3> HIDE DEF x, y, z, r
      <3>7. i >= x
        BY <3>6
      <3> QED BY <3>7 DEF x
    <2> QED BY <2>2, <2>3 DEF i, c
  <1>4. CASE ~(i < 0 \/ e > b.burst)
    <2>1. /\ e \in 0..b.burst /\ i % period \in 0..period - 1 /\ i = e * period + (i % period)
      <3>1. i \in Nat
        BY <1>1, <1>4
      <3>2. e \in Nat /\ i % period \in 0..period - 1 /\ i = e * period + (i % period)
        BY <3>1, Division DEF e
      <3>3. e \in 0..b.burst
        BY <1>1, <1>4, <3>2
      <3> QED BY <3>2, <3>3
    <2>2. c = [b EXCEPT !.burst = b.burst - e, !.lastTime = now - (i % period)]
      BY <1>2, <1>4
    <2>3. b.burst - e \in Nat /\ now - (i % period) \in Int
      BY <1>1, <2>1
    <2>4. /\ c \in BucketType /\ c.adr = b.adr /\ c.prev = b.prev /\ c.next = b.next
          /\ c.burst = b.burst - e /\ c.lastTime = now - (i % period)
      BY <2>2, <2>3 DEF BucketType
    <2> DEFINE r == i % period
    <2>5. /\ e \in 0..b.burst /\ r \in 0..period - 1 /\ i = e * period + r
          /\ c.burst = b.burst - e /\ c.lastTime = now - r
      BY <2>1, <2>4
    <2> HIDE DEF r
    <2>6. \E x \in 0..b.burst, y \in 0..period - 1 :
            /\ c.burst = b.burst - x /\ c.lastTime = now - y
            /\ i = x * period + y
      BY <2>5
    <2> QED BY <2>4, <2>6 DEF i, c
  <1> QED BY <1>3, <1>4

\* A charge counts at most one more.
LEMMA ChargedIs ==
  ASSUME NEW b \in BucketType, NEW burst
  PROVE  LET c == Charged(b, burst) IN
         /\ c \in BucketType /\ c.adr = b.adr /\ c.prev = b.prev /\ c.next = b.next
         /\ c.lastTime = b.lastTime
         /\ c.burst = IF HasRoom(b, burst) THEN b.burst + 1 ELSE b.burst
  <1>1. b.burst + 1 \in Nat
    BY DEF BucketType
  <1> QED BY <1>1 DEF Charged, BucketType

-----------------------------------------------------------------------------
(* The table *)

\* The fields that a charge changes are not those of the chains.
LEMMA SameChains ==
  ASSUME Sound(buckets, heads), NEW bs \in [Ids -> BucketType],
         \A i \in Ids : /\ bs[i].adr = buckets[i].adr /\ bs[i].prev = buckets[i].prev
                        /\ bs[i].next = buckets[i].next
  PROVE  Sound(bs, heads)
  <1>1. ASSUME NEW h, NEW n, NEW p, IsChain(buckets, heads, h, n, p)
        PROVE  IsChain(bs, heads, h, n, p)
    <2>1. n \in Nat /\ p \in [1..n -> Ids] /\ \A k \in 1..n : p[k] \in Ids
      BY <1>1 DEF IsChain
    <2>2. \A k \in 1..n : /\ bs[p[k]].adr = buckets[p[k]].adr
                          /\ bs[p[k]].next = buckets[p[k]].next
                          /\ bs[p[k]].prev = buckets[p[k]].prev
      BY <2>1
    <2>3. \A k \in 1..n : /\ buckets[p[k]].next = IF k = n THEN 0 ELSE p[k + 1]
                          /\ buckets[p[k]].prev = IF k = 1 THEN 0 ELSE p[k - 1]
                          /\ buckets[p[k]].adr # NoAddress /\ Hash(buckets[p[k]].adr) = h
      BY <1>1 DEF IsChain
    <2>4. \A k \in 1..n : /\ bs[p[k]].next = IF k = n THEN 0 ELSE p[k + 1]
                          /\ bs[p[k]].prev = IF k = 1 THEN 0 ELSE p[k - 1]
                          /\ bs[p[k]].adr # NoAddress /\ Hash(bs[p[k]].adr) = h
      BY <2>2, <2>3
    <2>5. \A i \in Ids : bs[i].adr # NoAddress /\ Hash(bs[i].adr) = h => \E k \in 1..n : p[k] = i
      BY <1>1 DEF IsChain
    <2> QED BY <1>1, <2>1, <2>4, <2>5 DEF IsChain
  <1>2. \A h \in Hashes : \E n, p : IsChain(bs, heads, h, n, p)
    BY <1>1 DEF Sound
  <1> QED BY <1>2 DEF Sound

\* What a lookup does to the table: nothing, or the address gets a bucket that was
\* free or expired.
Lookup(a, i) ==
    \/ /\ i \in Ids /\ buckets[i].adr = a /\ UNCHANGED table
    \/ /\ i \in Usable /\ \A j \in Ids : buckets[j].adr # a
       /\ buckets'[i].adr = a /\ buckets'[i].lastTime = now /\ buckets'[i].burst = 0
       /\ \A j \in Ids \ {i} : /\ buckets'[j].adr = buckets[j].adr
                               /\ buckets'[j].lastTime = buckets[j].lastTime
                               /\ buckets'[j].burst = buckets[j].burst
    \/ /\ i = 0 /\ UNCHANGED table

\* SVC_BucketForAddress does one of these.
LEMMA LookupIs ==
  ASSUME TableInv, NEW t \in Threads, NEW a \in Addresses, BucketForAddress(t, a)
  PROVE  /\ Sound(buckets', heads')
         /\ \E i \in 0..MaxBuckets : cur' = [cur EXCEPT ![t] = i] /\ Lookup(a, i)
  <1>0. /\ Sound(buckets, heads) /\ 0 \in 0..MaxBuckets /\ Ids \subseteq 0..MaxBuckets
        /\ Ids \subseteq Nat /\ a # NoAddress /\ now \in Int
    BY Constants DEF TableInv, LimiterTypeOK
  <1>1. Known(a) = {i \in Ids : buckets[i].adr = a}
    BY <1>0, KnownIs
  <1>2. CASE \E i \in Known(a) : cur' = [cur EXCEPT ![t] = i] /\ UNCHANGED table
    BY <1>0, <1>1, <1>2 DEF Lookup, table
  <1>3. CASE /\ Known(a) = {} /\ Usable # {}
             /\ Link(Unlink(Min(Usable)), Min(Usable), a)
             /\ cur' = [cur EXCEPT ![t] = Min(Usable)]
    <2> DEFINE i == Min(Usable)
               tbl == Unlink(i)
    <2>1. i \in Usable /\ i \in Ids
      BY <1>0, <1>3, MinOf DEF Usable
    <2>2. \A j \in Ids : buckets[j].adr # a
      BY <1>1, <1>3
    <2> HIDE DEF i
    <2>3. Sound(tbl.buckets, tbl.heads)
      BY <1>0, <2>1, UnlinkKeeps
    <2>4. /\ tbl.buckets[i] = Free
          /\ \A j \in Ids \ {i} : /\ tbl.buckets[j].adr = buckets[j].adr
                                  /\ tbl.buckets[j].lastTime = buckets[j].lastTime
                                  /\ tbl.buckets[j].burst = buckets[j].burst
      BY <1>0, <2>1, UnlinkIs
    <2>5. Link(tbl, i, a)
      BY <1>3 DEF i
    <2> HIDE DEF tbl
    <2>6. \A j \in Ids : tbl.buckets[j].adr # a
      BY <1>0, <2>2, <2>4 DEF Free
    <2>7. /\ Sound(buckets', heads')
          /\ buckets'[i].adr = a /\ buckets'[i].lastTime = now /\ buckets'[i].burst = 0
          /\ \A j \in Ids \ {i} : /\ buckets'[j].adr = tbl.buckets[j].adr
                                  /\ buckets'[j].lastTime = tbl.buckets[j].lastTime
                                  /\ buckets'[j].burst = tbl.buckets[j].burst
      BY <1>0, <2>1, <2>3, <2>4, <2>5, <2>6, LinkKeeps
    <2>8. Lookup(a, i)
      BY <2>1, <2>2, <2>4, <2>7 DEF Lookup
    <2>9. cur' = [cur EXCEPT ![t] = i] /\ i \in 0..MaxBuckets
      BY <1>0, <1>3, <2>1 DEF i
    <2> QED BY <2>7, <2>8, <2>9
  <1>4. CASE /\ Known(a) = {} /\ Usable = {}
             /\ cur' = [cur EXCEPT ![t] = 0] /\ UNCHANGED table
    BY <1>0, <1>4 DEF Lookup, table
  <1> QED BY <1>2, <1>3, <1>4 DEF BucketForAddress

\* Each step keeps the table's invariant.
LEMMA BucketForAddressKeeps ==
  ASSUME TableInv, NEW t \in Threads, NEW a \in Addresses, BucketForAddress(t, a)
  PROVE  TableInv'
  <1>1. PICK i \in 0..MaxBuckets : cur' = [cur EXCEPT ![t] = i] /\ Lookup(a, i)
    BY LookupIs
  <1>2. Sound(buckets', heads')
    BY LookupIs
  <1>3. /\ pc[t] = "idle" /\ critsect = NoThread /\ critsect' = t
        /\ pc' = [pc EXCEPT ![t] = "charge"] /\ adr' = [adr EXCEPT ![t] = a]
        /\ UNCHANGED <<now, out>>
    BY DEF BucketForAddress, HeldBy
  <1>4. LimiterTypeOK'
    <2>1. buckets' \in [Ids -> BucketType] /\ heads' \in [Hashes -> 0..MaxBuckets]
      BY <1>2 DEF Sound
    <2> QED BY <1>1, <1>3, <2>1 DEF TableInv, LimiterTypeOK, BucketType
  <1>5. \A u \in Threads : pc'[u] = "charge" => u = t
    BY <1>3, Constants DEF TableInv, HolderInv, LimiterTypeOK
  <1>6. adr'[t] = a /\ cur'[t] = i
    BY <1>1, <1>3 DEF TableInv, LimiterTypeOK
  <1>7. i # 0 => buckets'[i].adr = a
    BY <1>1, Constants DEF Lookup, table
  <1>8. HolderInv'
    BY <1>3, <1>5, <1>6, <1>7 DEF HolderInv, ChargesOwnBucket
  <1>9. Sound(buckets, heads)'
    BY <1>2 DEF Sound, IsChain, BucketType
  <1> QED BY <1>4, <1>8, <1>9 DEF TableInv

\* What a charge does to the buckets.
LEMMA ChargeIs ==
  ASSUME TableInv, NEW t \in Threads, RateLimitAddress(t)
  PROVE  LET i == cur[t]
             b == Leaked(buckets[i], Burst, Period) IN
         /\ pc[t] = "charge" /\ i \in 0..MaxBuckets /\ adr[t] \in Addresses
         /\ Sound(buckets', heads) /\ heads' = heads
         /\ i = 0 => buckets' = buckets
         /\ i # 0 => /\ i \in Ids /\ buckets[i].adr = adr[t]
                     /\ buckets'[i] = Charged(b, Burst) /\ buckets'[i].adr = adr[t]
                     /\ \A j \in Ids \ {i} : buckets'[j] = buckets[j]
  <1> DEFINE i == cur[t]
             b == Leaked(buckets[i], Burst, Period)
  <1>1. /\ pc[t] = "charge" /\ i \in 0..MaxBuckets /\ adr[t] \in Addresses
        /\ Sound(buckets, heads) /\ heads' = heads /\ now \in Int
        /\ i # 0 => i \in Ids /\ buckets[i].adr = adr[t]
        /\ buckets' = IF i = 0 THEN buckets ELSE [buckets EXCEPT ![i] = Charged(b, Burst)]
        /\ buckets \in [Ids -> BucketType]
    BY Constants DEF TableInv, LimiterTypeOK, HolderInv, ChargesOwnBucket, RateLimitAddress
  <1>2. CASE i = 0
    BY <1>1, <1>2
  <1>3. CASE i # 0
    <2>1. i \in Ids /\ buckets[i] \in BucketType /\ Period \in Nat \ {0}
      BY <1>1, <1>3, Constants
    <2>2. b \in BucketType /\ b.adr = buckets[i].adr /\ b.prev = buckets[i].prev
          /\ b.next = buckets[i].next
      BY <1>1, <2>1, LeakedIs
    <2> DEFINE c == Charged(b, Burst)
    <2> HIDE DEF b
    <2>3. c \in BucketType /\ c.adr = buckets[i].adr /\ c.prev = buckets[i].prev
          /\ c.next = buckets[i].next
      BY <2>2, ChargedIs
    <2> HIDE DEF i, c
    <2>4. buckets' = [buckets EXCEPT ![i] = c]
      BY <1>1, <1>3 DEF c
    <2>5. /\ buckets' \in [Ids -> BucketType] /\ buckets'[i] = c
          /\ \A j \in Ids \ {i} : buckets'[j] = buckets[j]
      BY <1>1, <2>1, <2>3, <2>4
    <2>6. Sound(buckets', heads)
      <3>1. \A j \in Ids : /\ buckets'[j].adr = buckets[j].adr /\ buckets'[j].prev = buckets[j].prev
                           /\ buckets'[j].next = buckets[j].next
        BY <2>3, <2>5
      <3> QED BY <1>1, <2>5, <3>1, SameChains
    <2> QED BY <1>1, <1>3, <2>1, <2>3, <2>5, <2>6 DEF i, c, b
  <1> QED BY <1>2, <1>3

LEMMA RateLimitAddressKeeps ==
  ASSUME TableInv, NEW t \in Threads, RateLimitAddress(t)
  PROVE  TableInv'
  <1>1. Sound(buckets', heads')
    BY ChargeIs
  <1>2. /\ pc' \in {[pc EXCEPT ![t] = "idle"], [pc EXCEPT ![t] = "outbound"]}
        /\ adr' = [adr EXCEPT ![t] = NoAddress] /\ cur' = [cur EXCEPT ![t] = 0]
        /\ critsect' = NoThread /\ UNCHANGED <<now, heads, out>> /\ critsect = t
    BY DEF RateLimitAddress, HeldBy
  <1>3. LimiterTypeOK'
    <2>1. buckets' \in [Ids -> BucketType] /\ heads' \in [Hashes -> 0..MaxBuckets]
      BY <1>1 DEF Sound
    <2>2. pc' \in [Threads -> {"idle", "charge", "outbound"}]
      BY <1>2 DEF TableInv, LimiterTypeOK
    <2>3. adr' \in [Threads -> Addresses \cup {NoAddress}] /\ cur' \in [Threads -> 0..MaxBuckets]
      BY <1>2, Constants DEF TableInv, LimiterTypeOK
    <2> QED BY <1>2, <2>1, <2>2, <2>3 DEF TableInv, LimiterTypeOK, BucketType
  <1>4. \A u \in Threads : pc'[u] # "charge"
    BY <1>2 DEF TableInv, HolderInv, LimiterTypeOK
  <1>5. HolderInv'
    BY <1>4 DEF HolderInv, ChargesOwnBucket
  <1>6. Sound(buckets, heads)'
    BY <1>1 DEF Sound, IsChain, BucketType
  <1> QED BY <1>3, <1>5, <1>6 DEF TableInv

LEMMA RateLimitOutboundKeeps ==
  ASSUME TableInv, NEW t \in Threads, RateLimitOutbound(t)
  PROVE  TableInv'
  <1>1. now \in Int /\ out \in BucketType /\ OutPeriod \in Nat \ {0}
    BY Constants DEF TableInv, LimiterTypeOK
  <1> DEFINE b == Leaked(out, OutBurst, OutPeriod)
  <1>2. b \in BucketType
    BY <1>1, LeakedIs
  <1> HIDE DEF b
  <1>3. Charged(b, OutBurst) \in BucketType
    BY <1>2, ChargedIs
  <1>4. /\ pc' = [pc EXCEPT ![t] = "idle"] /\ UNCHANGED <<now, critsect, buckets, heads, adr, cur>>
        /\ out' = Charged(b, OutBurst)
    BY DEF RateLimitOutbound, table, b
  <1>5. LimiterTypeOK'
    BY <1>3, <1>4 DEF TableInv, LimiterTypeOK, BucketType
  <1>6. \A u \in Threads : pc'[u] = "charge" => pc[u] = "charge"
    BY <1>4 DEF TableInv, LimiterTypeOK
  <1>7. HolderInv'
    <2>1. /\ critsect' = critsect /\ buckets' = buckets /\ adr' = adr /\ cur' = cur
      BY <1>4
    <2>2. /\ \A u \in Threads : pc[u] = "charge" =>
               /\ critsect = u /\ adr[u] \in Addresses
               /\ cur[u] # 0 => buckets[cur[u]].adr = adr[u]
      BY DEF TableInv, HolderInv, ChargesOwnBucket
    <2>3. /\ \A u \in Threads : pc'[u] = "charge" =>
               /\ critsect' = u /\ adr'[u] \in Addresses
               /\ cur'[u] # 0 => buckets'[cur'[u]].adr = adr'[u]
      BY <1>6, <2>1, <2>2
    <2> QED BY <2>3 DEF HolderInv, ChargesOwnBucket
  <1>8. buckets' = buckets /\ heads' = heads
    BY <1>4
  <1>9. Sound(buckets', heads')
    BY <1>8 DEF TableInv
  <1>10. Sound(buckets, heads)'
    BY <1>9 DEF Sound, IsChain, BucketType
  <1> QED BY <1>5, <1>7, <1>10 DEF TableInv

LEMMA ClockKeeps ==
  ASSUME TableInv, Tick \/ SetBack \/ UNCHANGED limiterVars
  PROVE  TableInv'
  <1>1. now' \in 0..MaxTime
    BY Constants DEF TableInv, LimiterTypeOK, Tick, SetBack, limiterVars
  <1>2. UNCHANGED <<critsect, buckets, heads, out, pc, adr, cur>>
    BY DEF Tick, SetBack, limiterVars, table
  <1>3. LimiterTypeOK' /\ HolderInv'
    BY <1>1, <1>2 DEF TableInv, LimiterTypeOK, BucketType, HolderInv, ChargesOwnBucket
  <1>4. Sound(buckets, heads)'
    BY <1>2 DEF TableInv, Sound, IsChain, BucketType
  <1> QED BY <1>3, <1>4 DEF TableInv

\* The empty table.
LEMMA InitSound ==
  ASSUME LimiterInit
  PROVE  TableInv
  <1>1. Free \in BucketType /\ Free.adr = NoAddress /\ Free.prev = 0 /\ Free.next = 0
    BY Constants DEF Free, BucketType
  <1>2. LimiterTypeOK
    BY <1>1, Constants DEF LimiterInit, LimiterTypeOK
  <1>3. HolderInv
    BY DEF LimiterInit, HolderInv, ChargesOwnBucket
  <1>4. ASSUME NEW h \in Hashes
        PROVE  \E n, p : IsChain(buckets, heads, h, n, p)
    <2> DEFINE p == [k \in 1..0 |-> 1]
    <2>1. p \in [1..0 -> Ids] /\ \A k \in 1..0 : FALSE
      OBVIOUS
    <2>2. heads[h] = 0 /\ \A i \in Ids : buckets[i].adr = NoAddress
      BY <1>1 DEF LimiterInit
    <2> HIDE DEF p
    <2>3. IsChain(buckets, heads, h, 0, p)
      BY <2>1, <2>2 DEF IsChain
    <2> QED BY <2>3
  <1>5. Sound(buckets, heads)
    BY <1>1, <1>2, <1>4 DEF Sound, LimiterInit, LimiterTypeOK
  <1> QED BY <1>2, <1>3, <1>5 DEF TableInv

\* The table's invariant is inductive and says what TableSound says.
LEMMA TableNext == TableInv /\ [LimiterNext]_limiterVars => TableInv'
  BY BucketForAddressKeeps, RateLimitAddressKeeps, RateLimitOutboundKeeps, ClockKeeps DEF LimiterNext

LEMMA TableIsSound == TableInv => TableSound
  BY SoundIsWellFormed DEF TableInv, TableSound, HolderInv

\* For any number of threads, addresses and buckets and any hash: the chains stay
\* whole, and whoever is charged has its own bucket.
THEOREM TableStaysSound == LimiterSpec => []TableSound
  <1>1. LimiterInit => TableInv
    BY InitSound
  <1> QED BY <1>1, TableNext, TableIsSound, PTL DEF LimiterSpec

-----------------------------------------------------------------------------
(* What a bucket knows of the requests it let through. f[x] are those let *)
(* through since time x.                                                   *)

Tallies == [0..MaxTime -> Nat]
Falls(f) == \A x, y \in 0..MaxTime : x <= y => f[y] <= f[x]
Tallied(f, t) == f \in Tallies /\ Falls(f) /\ \A x \in 0..MaxTime : x > t => f[x] = 0

\* Nothing since a period after the bucket's time.
Quiet(last, period, f) == \A x \in 0..MaxTime : x >= last + period => f[x] = 0
\* No more than the bucket's level and one for each period from x to its time.
AtMost(last, level, period, f) ==
    \A x \in 0..MaxTime : \A k \in Nat : k * period >= last - x => f[x] <= level + k
\* Since the bucket was last empty, at z, q periods have leaked; before any x, no
\* more was let through than the burst and one for each period from z to x.
AtLeast(last, level, burst, period, f, t) ==
    \E z \in 0..t, q \in Nat :
      /\ last = z + q * period /\ f[z] = level + q
      /\ \A x \in 0..MaxTime : \A k \in Nat :
           x > z /\ x <= z + (k + 1) * period => f[z] <= f[x] + burst + k

InReach(period) == period <= IntHalf /\ MaxTime < 2 * IntHalf

\* A bucket with its address's requests, and an address that has no bucket.
Counted(b, burst, period, f, t) ==
    /\ b.lastTime <= t /\ b.burst <= burst
    /\ Quiet(b.lastTime, period, f)
    /\ burst * period <= IntHalf => AtMost(b.lastTime, b.burst, period, f)
    /\ InReach(period) => AtLeast(b.lastTime, b.burst, burst, period, f, t)
Anew(burst, period, f, t) ==
    /\ period <= IntHalf => \A x \in 0..MaxTime : x >= t => f[x] = 0
    /\ burst * period <= IntHalf => AtMost(t, 0, period, f)

LEMMA Products ==
  /\ \A x, y \in Int : x * y \in Int
  /\ \A x, y \in Int, z \in Nat : x <= y => x * z <= y * z
  <1>1. \A x, y \in Int : x * y \in Int
    OBVIOUS
  <1>2. ASSUME NEW x \in Int, NEW y \in Int, NEW z \in Nat, x <= y
        PROVE  x * z <= y * z
    <2>1. PICK m \in Nat : y = x + m
      <3>1. y - x \in Nat /\ y = x + (y - x)
        BY <1>2
      <3> QED BY <3>1
    <2>2. y * z = x * z + m * z /\ m * z \in Nat /\ x * z \in Int
      BY <2>1, Distributes, ProductIsNat
    <2> DEFINE yz == y * z
               xz == x * z
               mz == m * z
    <2>3. yz = xz + mz /\ mz \in Nat /\ xz \in Int
      BY <2>2
    <2> HIDE DEF yz, xz, mz
    <2>4. xz <= yz
      BY <2>3
    <2> QED BY <2>4 DEF xz, yz
  <1> QED BY <1>1, <1>2

\* A later time of the bucket counts more periods.
LEMMA LaterAtMost ==
  ASSUME NEW f, NEW last \in Int, NEW later \in Int, last <= later, NEW level \in Nat,
         NEW period \in Nat \ {0}, AtMost(last, level, period, f)
  PROVE  AtMost(later, level, period, f)
  <1>1. ASSUME NEW x \in 0..MaxTime, NEW k \in Nat, k * period >= later - x
        PROVE  f[x] <= level + k
    <2> DEFINE kp == k * period
    <2>1. kp \in Int /\ x \in Int /\ kp >= later - x
      BY <1>1, Products, Constants
    <2> HIDE DEF kp
    <2>2. kp >= last - x
      BY <2>1
    <2> QED BY <2>2 DEF AtMost, kp
  <1> QED BY <1>1 DEF AtMost

\* Periods that leak lower the level and raise the time together.
LEMMA LeakAtMost ==
  ASSUME NEW f \in Tallies, NEW last \in Int, NEW level \in Nat, NEW period \in Nat \ {0},
         Quiet(last, period, f), AtMost(last, level, period, f), NEW e \in 0..level
  PROVE  AtMost(last + e * period, level - e, period, f)
  <1> DEFINE ep == e * period
  <1>0. ep \in Int
    BY Products
  <1>1. ASSUME NEW x \in 0..MaxTime, NEW k \in Nat, k * period >= (last + ep) - x
        PROVE  f[x] <= (level - e) + k
    <2> DEFINE kp == k * period
    <2>0. kp \in Int /\ x \in Int /\ kp >= last + ep - x
      BY <1>1, Products, Constants
    <2>1. CASE k >= e
      <3>1. k - e \in Nat /\ k = (k - e) + e
        BY <2>1
      <3> DEFINE dp == (k - e) * period
      <3>2. kp = dp + ep /\ dp \in Int
        <4>1. k - e \in Int /\ e \in Int /\ period \in Int /\ k = (k - e) + e
          BY <3>1
        <4>2. ((k - e) + e) * period = (k - e) * period + e * period
          BY <4>1, Distributes
        <4> QED BY <4>1, <4>2, Products
      <3> HIDE DEF kp, ep, dp
      <3>3. dp >= last - x
        BY <1>0, <2>0, <3>2
      <3>4. f[x] <= level + (k - e)
        BY <3>1, <3>3 DEF AtMost, dp
      <3>5. f[x] \in Nat
        BY DEF Tallies
      <3> QED BY <3>4, <3>5
    <2>2. CASE ~(k >= e)
      <3>1. k + 1 \in Int /\ k + 1 <= e /\ k \in Int /\ e \in Int /\ period \in Nat
        BY <2>2
      <3> DEFINE np == (k + 1) * period
      <3>2. np = kp + period
        <4>1. (k + 1) * period = k * period + 1 * period
          BY <3>1, Distributes
        <4> QED BY <4>1
      <3>3. np <= ep
        BY <3>1, Products
      <3> HIDE DEF kp, ep, np
      <3>4. x >= last + period
        BY <1>0, <2>0, <3>2, <3>3
      <3>5. f[x] = 0
        BY <3>4 DEF Quiet
      <3>6. level - e \in Nat
        OBVIOUS
      <3> DEFINE d == level - e
      <3>7. d \in Nat
        BY <3>6
      <3> HIDE DEF d
      <3>8. 0 <= d + k
        BY <3>7
      <3> QED BY <3>5, <3>8 DEF d
    <2> QED BY <2>1, <2>2
  <1> HIDE DEF ep
  <1>2. AtMost(last + ep, level - e, period, f)
    BY <1>0, <1>1, Constants DEF AtMost
  <1> QED BY <1>2 DEF ep

\* So they do for what is counted since the bucket was last empty.
LEMMA LeakAtLeast ==
  ASSUME NEW f, NEW last \in Int, NEW level \in Nat, NEW burst, NEW period \in Nat \ {0},
         NEW t, AtLeast(last, level, burst, period, f, t), NEW e \in 0..level
  PROVE  AtLeast(last + e * period, level - e, burst, period, f, t)
  <1>1. PICK z \in 0..t, q \in Nat :
          /\ last = z + q * period /\ f[z] = level + q
          /\ \A x \in 0..MaxTime : \A k \in Nat :
               x > z /\ x <= z + (k + 1) * period => f[z] <= f[x] + burst + k
    BY DEF AtLeast
  <1>2. q + e \in Nat /\ (level - e) + (q + e) = level + q
    OBVIOUS
  <1>3. (q + e) * period = q * period + e * period
    BY Distributes
  <1> DEFINE qp == q * period
             ep == e * period
  <1>4. qp \in Int /\ ep \in Int /\ z \in Int /\ last = z + qp
    BY <1>1, Products
  <1> HIDE DEF qp, ep
  <1>5. last + ep = z + (qp + ep)
    BY <1>4
  <1>6. last + e * period = z + (q + e) * period
    BY <1>3, <1>5 DEF qp, ep
  <1>7. f[z] = (level - e) + (q + e)
    BY <1>1, <1>2
  <1> QED BY <1>1, <1>2, <1>6, <1>7 DEF AtLeast

\* A bucket made for an address that has none.
LEMMA AnewCounts ==
  ASSUME NEW t \in 0..MaxTime, NEW burst \in Nat \ {0}, NEW period \in Nat \ {0}, NEW f, Tallied(f, t),
         NEW b \in BucketType, b.lastTime = t, b.burst = 0, Anew(burst, period, f, t)
  PROVE  Counted(b, burst, period, f, t)
  <1>1. t \in Nat /\ MaxTime \in Nat /\ f \in Tallies
    BY Constants DEF Tallied
  <1>2. Quiet(t, period, f)
    <2>1. ASSUME NEW x \in 0..MaxTime, x >= t + period PROVE x > t
      BY <1>1, <2>1
    <2> QED BY <2>1 DEF Quiet, Tallied
  <1>3. ASSUME InReach(period)
        PROVE  AtLeast(t, 0, burst, period, f, t)
    <2>1. f[t] = 0
      <3>1. t >= t
        BY <1>1
      <3> QED BY <1>3, <3>1 DEF InReach, Anew
    <2>2. t \in 0..t /\ 0 \in Nat /\ t = t + 0 * period /\ f[t] = 0 + 0
      BY <1>1, <2>1
    <2>3. ASSUME NEW x \in 0..MaxTime, NEW k \in Nat
          PROVE  f[t] <= f[x] + burst + k
      <3>1. f[x] \in Nat
        BY <1>1 DEF Tallies
      <3> QED BY <2>1, <3>1
    <2> QED BY <2>2, <2>3 DEF AtLeast
  <1>4. burst * period <= IntHalf => AtMost(t, 0, period, f)
    BY DEF Anew
  <1>5. t <= t /\ 0 <= burst
    BY <1>1
  <1> QED BY <1>2, <1>3, <1>4, <1>5 DEF Counted

\* An address whose bucket has been quiet long enough is like one that has none.
LEMMA EmptiedIsAnew ==
  ASSUME now \in 0..MaxTime, NEW burst \in Nat \ {0}, NEW period \in Nat \ {0}, NEW f, Tallied(f, now),
         NEW b \in BucketType, Counted(b, burst, period, f, now),
         \/ Interval(b.lastTime) < 0
         \/ Interval(b.lastTime) >= b.burst * period /\ Interval(b.lastTime) >= period
  PROVE  Anew(burst, period, f, now)
  <1> DEFINE last == b.lastTime
             level == b.burst
             lp == level * period
             bp == burst * period
             i == Interval(last)
  <1>1. /\ now \in Int /\ MaxTime \in Nat /\ IntHalf \in Nat /\ last \in Int /\ level \in Nat
        /\ f \in Tallies /\ last <= now /\ level <= burst
    BY Constants DEF BucketType, Tallied, Counted
  <1>2. /\ i \in Int /\ (i >= 0 => i <= now - last) /\ (i < 0 => IntHalf <= now - last)
    BY <1>1, IntervalIs
  <1>3. lp \in Int /\ bp \in Int /\ lp <= bp
    BY <1>1, Products
  <1>4. i < 0 \/ (i >= lp /\ i >= period)
    OBVIOUS
  <1> HIDE DEF i, lp, bp
  <1>5. ASSUME period <= IntHalf, NEW x \in 0..MaxTime, x >= now
        PROVE  f[x] = 0
    <2>1. now - last >= period
      BY <1>1, <1>2, <1>4, <1>5
    <2>2. x >= last + period
      BY <1>1, <1>5, <2>1
    <2>3. Quiet(last, period, f)
      BY DEF Counted
    <2> QED BY <2>2, <2>3 DEF Quiet
  <1>6. ASSUME bp <= IntHalf
        PROVE  AtMost(now, 0, period, f)
    <2>1. Quiet(last, period, f) /\ AtMost(last, level, period, f)
      BY <1>6 DEF Counted, bp
    <2>2. level \in 0..level
      BY <1>1
    <2> HIDE DEF level, last
    <2>3. AtMost(last + lp, level - level, period, f)
      BY <1>1, <2>1, <2>2, LeakAtMost DEF lp
    <2>4. level - level = 0 /\ last + lp \in Int /\ last + lp <= now
      BY <1>1, <1>2, <1>3, <1>4, <1>6
    <2>5. AtMost(last + lp, 0, period, f)
      BY <2>3, <2>4
    <2> QED BY <1>1, <2>4, <2>5, LaterAtMost
  <1> QED BY <1>5, <1>6 DEF Anew, bp

\* What leaks is right.
LEMMA LeakedCounts ==
  ASSUME now \in 0..MaxTime, NEW burst \in Nat \ {0}, NEW period \in Nat \ {0}, NEW f, Tallied(f, now),
         NEW b \in BucketType, Counted(b, burst, period, f, now)
  PROVE  LET c == Leaked(b, burst, period) IN
         Counted(c, burst, period, f, now) /\ c.lastTime > now - period
  <1> DEFINE last == b.lastTime
             level == b.burst
             i == Interval(last)
             c == Leaked(b, burst, period)
  <1>1. /\ now \in Int /\ MaxTime \in Nat /\ IntHalf \in Nat /\ last \in Int /\ level \in Nat
        /\ f \in Tallies /\ last <= now /\ level <= burst
    BY Constants DEF BucketType, Tallied, Counted
  <1>2. i \in Int /\ (i >= 0 => i <= now - last)
    BY <1>1, IntervalIs
  <1>3. c \in BucketType
    BY <1>1, LeakedIs
  <1>4. \/ c.burst = 0 /\ c.lastTime = now /\ (i < 0 \/ i >= (level + 1) * period)
        \/ \E e \in 0..level, r \in 0..period - 1 :
             c.burst = level - e /\ c.lastTime = now - r /\ i = e * period + r
    BY <1>1, LeakedIs
  <1> HIDE DEF i, c
  <1>5. CASE c.burst = 0 /\ c.lastTime = now /\ (i < 0 \/ i >= (level + 1) * period)
    <2> DEFINE np == (level + 1) * period
               lp == level * period
               op == 1 * period
    <2>1. np \in Int /\ lp \in Int /\ op = period /\ lp <= np /\ op <= np
      <3>1. level + 1 \in Int /\ 1 <= level + 1 /\ level <= level + 1 /\ level \in Int /\ period \in Nat
        BY <1>1
      <3> QED BY <3>1, Products
    <2>2. i < 0 \/ i >= np
      BY <1>5
    <2> HIDE DEF np, lp, op
    <2>3. i < 0 \/ (i >= lp /\ i >= period)
      BY <1>2, <2>1, <2>2
    <2>4. Anew(burst, period, f, now)
      BY <2>3, EmptiedIsAnew DEF i, lp
    <2>5. Counted(c, burst, period, f, now)
      BY <1>3, <1>5, <2>4, AnewCounts
    <2>6. c.lastTime > now - period
      BY <1>1, <1>5
    <2> QED BY <2>5, <2>6 DEF c
  <1>6. ASSUME NEW e \in 0..level, NEW r \in 0..period - 1,
               c.burst = level - e, c.lastTime = now - r, i = e * period + r
        PROVE  Counted(c, burst, period, f, now) /\ c.lastTime > now - period
    <2> DEFINE ep == e * period
               from == now - i
    <2>1. /\ ep \in Nat /\ i = ep + r /\ r \in Nat /\ r < period
      BY <1>6, ProductIsNat
    <2> HIDE DEF ep
    <2>2. from \in Int /\ last <= from /\ from + ep = now - r /\ now - r \in Int
      BY <1>1, <1>2, <2>1
    <2>3. now - r > now - period /\ now - r <= now
      BY <1>1, <2>1
    <2>4. Quiet(now - r, period, f)
      <3>1. ASSUME NEW x \in 0..MaxTime, x >= now - r + period PROVE x > now
        BY <1>1, <2>1, <3>1
      <3> QED BY <3>1 DEF Quiet, Tallied
    <2>5. level - e <= burst
      BY <1>1
    <2>6. ASSUME burst * period <= IntHalf
          PROVE  AtMost(now - r, level - e, period, f)
      <3>1. Quiet(last, period, f) /\ AtMost(last, level, period, f)
        BY <2>6 DEF Counted
      <3> HIDE DEF from, level, last
      <3>2. AtMost(from, level, period, f)
        BY <1>1, <2>2, <3>1, LaterAtMost
      <3>3. Quiet(from, period, f)
        <4>1. ASSUME NEW x \in 0..MaxTime, x >= from + period PROVE x >= last + period
          BY <1>1, <2>2, <4>1
        <4> QED BY <3>1, <4>1 DEF Quiet
      <3>4. AtMost(from + ep, level - e, period, f)
        BY <1>1, <2>2, <3>2, <3>3, LeakAtMost DEF ep
      <3> QED BY <2>2, <3>4
    <2>7. ASSUME InReach(period)
          PROVE  AtLeast(now - r, level - e, burst, period, f, now)
      <3>1. AtLeast(last, level, burst, period, f, now)
        BY <2>7 DEF Counted
      <3>2. last >= 0
        <4>1. PICK z \in 0..now, q \in Nat : last = z + q * period
          BY <3>1 DEF AtLeast
        <4>2. q * period \in Nat /\ z \in Nat
          BY <1>1, ProductIsNat
        <4> QED BY <4>1, <4>2
      <3>3. now - last < 2 * IntHalf /\ i >= 0
        BY <1>1, <2>1, <2>7, <3>2 DEF InReach
      <3>4. i = now - last
        BY <1>1, <3>3, IntervalIs DEF i
      <3>5. last + ep = now - r
        BY <1>1, <2>1, <3>4
      <3> HIDE DEF level, last
      <3>6. AtLeast(last + ep, level - e, burst, period, f, now)
        BY <1>1, <3>1, LeakAtLeast DEF ep
      <3> QED BY <3>5, <3>6
    <2> HIDE DEF level
    <2> QED BY <1>6, <2>3, <2>4, <2>5, <2>6, <2>7 DEF Counted
  <1> QED BY <1>4, <1>5, <1>6 DEF c

\* One more request let through now.
LEMMA OneMoreTallied ==
  ASSUME now \in 0..MaxTime, NEW f, Tallied(f, now)
  PROVE  /\ Tallied(OneMore(f), now)
         /\ \A x \in 0..MaxTime : OneMore(f)[x] = IF x <= now THEN f[x] + 1 ELSE f[x]
         /\ \A x \in 0..MaxTime : f[x] \in Nat /\ f[x] <= OneMore(f)[x]
  <1> DEFINE g == OneMore(f)
  <1>1. now \in Nat /\ MaxTime \in Nat /\ \A x \in 0..MaxTime : f[x] \in Nat
    BY Constants DEF Tallied, Tallies
  <1>2. \A x \in 0..MaxTime : g[x] = IF x <= now THEN f[x] + 1 ELSE f[x]
    BY DEF OneMore
  <1>3. g \in Tallies
    BY <1>1 DEF OneMore, Tallies
  <1> HIDE DEF g
  <1>4. \A x \in 0..MaxTime : x > now => g[x] = 0
    BY <1>1, <1>2 DEF Tallied
  <1>5. ASSUME NEW x \in 0..MaxTime, NEW y \in 0..MaxTime, x <= y
        PROVE  g[y] <= g[x]
    <2>1. f[y] <= f[x] /\ f[x] \in Nat /\ f[y] \in Nat
      BY <1>1, <1>5 DEF Tallied, Falls
    <2>2. g[x] = (IF x <= now THEN f[x] + 1 ELSE f[x]) /\ g[y] = IF y <= now THEN f[y] + 1 ELSE f[y]
      BY <1>2
    <2>3. y <= now => x <= now
      BY <1>1, <1>5
    <2> QED BY <2>1, <2>2, <2>3
  <1>6. Tallied(g, now)
    BY <1>3, <1>4, <1>5 DEF Tallied, Falls
  <1>7. \A x \in 0..MaxTime : f[x] \in Nat /\ f[x] <= g[x]
    BY <1>1, <1>2
  <1> QED BY <1>2, <1>6, <1>7 DEF g

\* The bucket counts the request it lets through.
LEMMA AdmittedCounts ==
  ASSUME now \in 0..MaxTime, NEW burst \in Nat \ {0}, NEW period \in Nat \ {0}, NEW f, Tallied(f, now),
         NEW b \in BucketType, Counted(b, burst, period, f, now), b.lastTime > now - period,
         b.burst < burst,
         NEW c, c.lastTime = b.lastTime, c.burst = b.burst + 1
  PROVE  Counted(c, burst, period, OneMore(f), now)
  <1> DEFINE last == b.lastTime
             level == b.burst
             g == OneMore(f)
  <1>1. /\ now \in Nat /\ MaxTime \in Nat /\ last \in Int /\ level \in Nat
        /\ last <= now /\ level < burst /\ last > now - period
    BY Constants DEF BucketType, Counted
  <1>2. \A x \in 0..MaxTime : /\ g[x] = IF x <= now THEN f[x] + 1 ELSE f[x]
                              /\ f[x] \in Nat /\ g[x] \in Nat
    <2>1. Tallied(g, now)
      BY OneMoreTallied
    <2>2. g \in Tallies
      BY <2>1 DEF Tallied
    <2> QED BY <2>2, OneMoreTallied DEF Tallies
  <1> HIDE DEF last, level, g
  <1>3. Quiet(last, period, g)
    <2>1. Quiet(last, period, f)
      BY DEF Counted, last
    <2>2. ASSUME NEW x \in 0..MaxTime, x >= last + period
          PROVE  g[x] = 0
      <3>1. x > now
        BY <1>1, <2>2
      <3>2. ~(x <= now) /\ f[x] = 0
        BY <1>1, <2>1, <2>2, <3>1 DEF Quiet
      <3> QED BY <1>2, <3>2
    <2> QED BY <2>2 DEF Quiet
  <1>4. ASSUME burst * period <= IntHalf
        PROVE  AtMost(last, level + 1, period, g)
    <2>1. AtMost(last, level, period, f)
      BY <1>4 DEF Counted, last, level
    <2>2. ASSUME NEW x \in 0..MaxTime, NEW k \in Nat, k * period >= last - x
          PROVE  g[x] <= (level + 1) + k
      <3>1. f[x] <= level + k
        BY <2>1, <2>2 DEF AtMost
      <3> QED BY <1>1, <1>2, <3>1
    <2> QED BY <2>2 DEF AtMost
  <1>5. ASSUME InReach(period)
        PROVE  AtLeast(last, level + 1, burst, period, g, now)
    <2>1. AtLeast(last, level, burst, period, f, now)
      BY <1>5 DEF Counted, last, level
    <2>2. PICK z \in 0..now, q \in Nat :
            /\ last = z + q * period /\ f[z] = level + q
            /\ \A x \in 0..MaxTime : \A k \in Nat :
                 x > z /\ x <= z + (k + 1) * period => f[z] <= f[x] + burst + k
      BY <2>1 DEF AtLeast
    <2>3. z \in 0..MaxTime /\ z <= now /\ z \in Nat
      BY <1>1
    <2>4. g[z] = f[z] + 1 /\ f[z] \in Nat /\ g[z] = (level + 1) + q
      BY <1>1, <1>2, <2>2, <2>3
    <2>5. ASSUME NEW x \in 0..MaxTime, NEW k \in Nat, x > z, x <= z + (k + 1) * period
          PROVE  g[z] <= g[x] + burst + k
      <3>1. f[z] <= f[x] + burst + k /\ f[x] \in Nat
        BY <1>2, <2>2, <2>5
      <3>2. CASE x <= now
        BY <1>2, <2>4, <3>1, <3>2
      <3>3. CASE ~(x <= now)
        <4> DEFINE qp == q * period
                   np == (k + 1) * period
        <4>1. qp \in Int /\ np \in Int /\ last = z + qp /\ x <= z + np
          BY <2>2, <2>5, Products
        <4>2. k + 1 \in Int /\ q \in Int /\ (k + 1 <= q => np <= qp)
          BY Products
        <4> HIDE DEF qp, np
        <4>3. np > qp
          BY <1>1, <2>3, <3>3, <4>1
        <4>4. ~(k + 1 <= q)
          BY <4>1, <4>2, <4>3
        <4>5. q <= k
          BY <4>4
        <4>6. g[z] <= burst + k /\ g[x] \in Nat
          BY <1>1, <1>2, <2>4, <4>5
        <4> QED BY <2>4, <4>6
      <3> QED BY <3>2, <3>3
    <2> QED BY <2>2, <2>4, <2>5 DEF AtLeast
  <1>6. level + 1 <= burst
    BY <1>1
  <1> QED BY <1>1, <1>3, <1>4, <1>5, <1>6 DEF Counted, last, level, g

\* The bucket that has no room left has let its burst through within the burst's
\* periods.
LEMMA FullIsBusy ==
  ASSUME now \in 0..MaxTime, NEW burst \in Nat \ {0}, NEW period \in Nat \ {0}, NEW f, Tallied(f, now),
         NEW b \in BucketType, Counted(b, burst, period, f, now), b.lastTime > now - period,
         ~(b.burst < burst), InReach(period)
  PROVE  LET from == now - burst * period
         IN  f[IF from < 0 THEN 0 ELSE from] >= burst
  <1> DEFINE last == b.lastTime
             bp == burst * period
             x == IF now - bp < 0 THEN 0 ELSE now - bp
  <1>1. /\ now \in Nat /\ MaxTime \in Nat /\ last \in Int /\ now <= MaxTime
        /\ last > now - period /\ b.burst = burst
    BY Constants DEF BucketType, Counted
  <1>2. \A y \in 0..MaxTime : f[y] \in Nat
    BY DEF Tallied, Tallies
  <1>3. PICK z \in 0..now, q \in Nat :
          /\ last = z + q * period /\ f[z] = burst + q
          /\ \A y \in 0..MaxTime : \A k \in Nat :
               y > z /\ y <= z + (k + 1) * period => f[z] <= f[y] + burst + k
    BY <1>1 DEF Counted, AtLeast
  <1>4. bp \in Nat
    BY ProductIsNat
  <1> HIDE DEF bp
  <1>5. x \in 0..MaxTime /\ z \in 0..MaxTime /\ z \in Nat /\ x \in Nat
    BY <1>1, <1>4
  <1> HIDE DEF last
  <1>6. CASE x <= z
    <2>1. f[z] <= f[x]
      BY <1>5, <1>6 DEF Tallied, Falls
    <2> HIDE DEF x
    <2>2. f[x] >= burst
      BY <1>2, <1>3, <1>5, <2>1
    <2> QED BY <2>2 DEF x, bp
  <1>7. CASE ~(x <= z)
    <2>1. x = now - bp /\ x > z
      BY <1>1, <1>4, <1>5, <1>7
    <2> HIDE DEF x
    <2> DEFINE qp == q * period
               n == q + 1
               np == n * period
    <2>2. qp \in Int /\ np = qp + period /\ last = z + qp
      <3>1. (q + 1) * period = q * period + 1 * period
        BY Distributes
      <3> QED BY <1>3, <3>1, Products
    <2> HIDE DEF np, qp, n
    <2>3. np > bp /\ np \in Int
      BY <1>1, <1>4, <1>5, <2>1, <2>2
    <2>4. n \in Int /\ burst \in Int /\ (n <= burst => np <= bp)
      BY Products DEF n, np, bp
    <2>5. ~(n <= burst)
      BY <1>4, <2>3, <2>4
    <2>6. q - burst \in Nat
      BY <2>5 DEF n
    <2> DEFINE k == q - burst
               kp == (k + 1) * period
    <2>7. k \in Nat /\ k + 1 \in Int /\ n = (k + 1) + burst /\ kp \in Int
      BY <2>6, Products DEF n
    <2>8. np = kp + bp
      BY <2>7, Distributes DEF np, bp
    <2> HIDE DEF kp
    <2>9. x <= z + kp
      BY <1>1, <1>4, <1>5, <2>1, <2>2, <2>7, <2>8
    <2>10. f[z] <= f[x] + burst + k
      BY <1>3, <1>5, <2>1, <2>7, <2>9 DEF kp
    <2>11. f[x] \in Nat /\ f[z] = burst + q
      BY <1>2, <1>3, <1>5
    <2> DEFINE fx == f[x]
               fz == f[z]
    <2>12. fx \in Nat /\ fz = burst + q /\ fz <= fx + burst + k /\ k = q - burst
      BY <2>10, <2>11
    <2> HIDE DEF fx, fz, k
    <2>13. fx >= burst
      BY <2>12
    <2> QED BY <2>13 DEF fx, x, bp
  <1> QED BY <1>6, <1>7

-----------------------------------------------------------------------------
(* The log *)

\* The table's buckets and the addresses without one; the outbound bucket; the last
\* verdict.
Books(bs, ad, t) ==
    /\ \A a \in Addresses : Tallied(ad[a], t)
    /\ \A i \in Ids : bs[i].adr # NoAddress =>
         Counted(bs[i], Burst, Period, ad[bs[i].adr], t)
    /\ \A a \in Addresses : (\A i \in Ids : bs[i].adr # a) => Anew(Burst, Period, ad[a], t)
OutBook(b, f, t) == Tallied(f, t) /\ Counted(b, OutBurst, OutPeriod, f, t)
Judged(v, ad) ==
    v.limited /\ v.bucket # 0 =>
      /\ v.adr \in Addresses /\ v.time \in 0..MaxTime
      /\ InReach(Period) =>
           LET from == v.time - Burst * Period
           IN  ad[v.adr][IF from < 0 THEN 0 ELSE from] >= Burst

\* The inductive invariant of the limits. Once the clock has been set back, the log
\* says nothing any more.
LogInv ==
    /\ TableInv /\ steady \in BOOLEAN /\ admitted \in [Addresses -> Tallies]
    /\ steady => /\ Books(buckets, admitted, now) /\ OutBook(out, admittedOut, now)
                 /\ Judged(verdict, admitted)
    /\ ~steady => /\ admitted = [a \in Addresses |-> Never] /\ admittedOut = Never
                  /\ verdict = NoVerdict

\* Time passes.
LEMMA LaterCounts ==
  ASSUME NEW t \in 0..MaxTime, NEW u \in 0..MaxTime, t <= u, NEW f, Tallied(f, t),
         NEW burst \in Nat \ {0}, NEW period \in Nat \ {0}
  PROVE  /\ Tallied(f, u)
         /\ Anew(burst, period, f, t) => Anew(burst, period, f, u)
         /\ \A b \in BucketType : Counted(b, burst, period, f, t) => Counted(b, burst, period, f, u)
  <1>1. t \in Nat /\ u \in Nat /\ MaxTime \in Nat
    BY Constants
  <1>2. Tallied(f, u)
    <2>1. ASSUME NEW x \in 0..MaxTime, x > u PROVE x > t
      BY <1>1, <2>1
    <2> QED BY <2>1 DEF Tallied
  <1>3. ASSUME Anew(burst, period, f, t) PROVE Anew(burst, period, f, u)
    <2>1. ASSUME NEW x \in 0..MaxTime, x >= u PROVE x >= t
      BY <1>1, <2>1
    <2>2. burst * period <= IntHalf => AtMost(t, 0, period, f)
      BY <1>3 DEF Anew
    <2>3. AtMost(t, 0, period, f) => AtMost(u, 0, period, f)
      BY <1>1, LaterAtMost
    <2> QED BY <1>3, <2>1, <2>2, <2>3 DEF Anew
  <1>4. ASSUME NEW b \in BucketType, Counted(b, burst, period, f, t)
        PROVE  Counted(b, burst, period, f, u)
    <2>1. b.lastTime \in Int /\ b.lastTime <= t
      BY <1>4 DEF BucketType, Counted
    <2>2. b.lastTime <= u
      BY <1>1, <2>1
    <2>3. AtLeast(b.lastTime, b.burst, burst, period, f, t) =>
            AtLeast(b.lastTime, b.burst, burst, period, f, u)
      <3>1. 0..t \subseteq 0..u
        BY <1>1
      <3> QED BY <3>1 DEF AtLeast
    <2> QED BY <1>4, <2>2, <2>3 DEF Counted
  <1> QED BY <1>2, <1>3, <1>4

\* Time passes for all buckets.
LEMMA LaterBooks ==
  ASSUME NEW t \in 0..MaxTime, NEW u \in 0..MaxTime, t <= u,
         NEW bs \in [Ids -> BucketType], NEW ad, Books(bs, ad, t),
         NEW b \in BucketType, NEW f, OutBook(b, f, t)
  PROVE  Books(bs, ad, u) /\ OutBook(b, f, u)
  <1>1. \A a \in Addresses : Tallied(ad[a], t)
    BY DEF Books
  <1>2. \A a \in Addresses : Tallied(ad[a], u)
    BY <1>1, LaterCounts, Constants
  <1>3. ASSUME NEW i \in Ids, bs[i].adr # NoAddress
        PROVE  Counted(bs[i], Burst, Period, ad[bs[i].adr], u)
    <2>1. bs[i] \in BucketType /\ bs[i].adr \in Addresses
      BY <1>3 DEF BucketType
    <2>2. Counted(bs[i], Burst, Period, ad[bs[i].adr], t)
      BY <1>3 DEF Books
    <2>3. Tallied(ad[bs[i].adr], t)
      BY <1>1, <2>1
    <2> QED BY <2>1, <2>2, <2>3, LaterCounts, Constants
  <1>4. ASSUME NEW a \in Addresses, \A i \in Ids : bs[i].adr # a
        PROVE  Anew(Burst, Period, ad[a], u)
    <2>1. Anew(Burst, Period, ad[a], t) /\ Tallied(ad[a], t)
      BY <1>4 DEF Books
    <2> QED BY <2>1, LaterCounts, Constants
  <1>5. OutBook(b, f, u)
    BY LaterCounts, Constants DEF OutBook
  <1> QED BY <1>2, <1>3, <1>4, <1>5 DEF Books

\* An expired bucket's address is like one that has none.
LEMMA ExpiredIsAnew ==
  ASSUME now \in 0..MaxTime, NEW f, Tallied(f, now), NEW b \in BucketType, Expired(b),
         Counted(b, Burst, Period, f, now)
  PROVE  Anew(Burst, Period, f, now)
  <1> DEFINE i == Interval(b.lastTime)
             bp == Burst * Period
             lp == b.burst * Period
             op == 1 * Period
  <1>1. /\ now \in Int /\ b.lastTime \in Int /\ b.burst \in Int /\ b.burst <= Burst /\ 1 <= Burst
        /\ Burst \in Int /\ Period \in Nat
    BY Constants DEF BucketType, Counted
  <1>2. i \in Int /\ (i > bp \/ i < 0)
    BY <1>1, IntervalIs DEF Expired
  <1>3. lp <= bp /\ op <= bp /\ op = Period /\ lp \in Int /\ bp \in Int
    BY <1>1, Products
  <1> HIDE DEF i, bp, lp, op
  <1>4. i < 0 \/ (i >= lp /\ i >= Period)
    BY <1>1, <1>2, <1>3
  <1> QED BY <1>4, EmptiedIsAnew, Constants DEF i, lp

\* A lookup keeps the books, a bucket that changes its address included.
LEMMA LookupBooks ==
  ASSUME TableInv, Books(buckets, admitted, now), NEW t \in Threads, NEW a \in Addresses,
         BucketForAddress(t, a)
  PROVE  Books(buckets', admitted, now)
  <1>0. now \in 0..MaxTime
    BY DEF TableInv, LimiterTypeOK
  <1>1. Sound(buckets', heads')
    BY LookupIs
  <1>2. PICK i \in 0..MaxBuckets : Lookup(a, i)
    BY LookupIs
  <1>3. CASE buckets' = buckets
    BY <1>3
  <1>4. CASE /\ i \in Usable /\ \A j \in Ids : buckets[j].adr # a
             /\ buckets'[i].adr = a /\ buckets'[i].lastTime = now /\ buckets'[i].burst = 0
             /\ \A j \in Ids \ {i} : /\ buckets'[j].adr = buckets[j].adr
                                     /\ buckets'[j].lastTime = buckets[j].lastTime
                                     /\ buckets'[j].burst = buckets[j].burst
    <2>1. i \in Ids /\ buckets[i] \in BucketType /\ buckets'[i] \in BucketType
          /\ (buckets[i].adr = NoAddress \/ Expired(buckets[i]))
      BY <1>1, <1>4 DEF Usable, Sound, TableInv, LimiterTypeOK
    <2>2. \A o \in Addresses : Tallied(admitted[o], now)
      BY DEF Books
    <2>3. Anew(Burst, Period, admitted[a], now)
      BY <1>4 DEF Books
    <2>4. ASSUME NEW j \in Ids, buckets'[j].adr # NoAddress
          PROVE  Counted(buckets'[j], Burst, Period, admitted[buckets'[j].adr], now)
      <3>1. CASE j = i
        <4>1. Counted(buckets'[i], Burst, Period, admitted[a], now)
          BY <1>0, <1>4, <2>1, <2>2, <2>3, AnewCounts, Constants
        <4> QED BY <1>4, <3>1, <4>1
      <3>2. CASE j # i
        <4>1. /\ buckets'[j].adr = buckets[j].adr /\ buckets'[j].lastTime = buckets[j].lastTime
              /\ buckets'[j].burst = buckets[j].burst
          BY <1>4, <3>2
        <4>2. Counted(buckets[j], Burst, Period, admitted[buckets[j].adr], now)
          BY <2>4, <4>1 DEF Books
        <4> QED BY <4>1, <4>2 DEF Counted
      <3> QED BY <3>1, <3>2
    <2>5. ASSUME NEW o \in Addresses, \A j \in Ids : buckets'[j].adr # o
          PROVE  Anew(Burst, Period, admitted[o], now)
      <3>1. CASE buckets[i].adr = o
        <4>1. buckets[i].adr # NoAddress
          BY <3>1, Constants
        <4>2. Counted(buckets[i], Burst, Period, admitted[o], now)
          BY <2>1, <3>1, <4>1 DEF Books
        <4>3. Expired(buckets[i])
          BY <2>1, <4>1
        <4> QED BY <1>0, <2>1, <2>2, <4>2, <4>3, ExpiredIsAnew
      <3>2. CASE buckets[i].adr # o
        <4>1. \A j \in Ids : buckets[j].adr # o
          BY <1>4, <2>5, <3>2
        <4> QED BY <4>1 DEF Books
      <3> QED BY <3>1, <3>2
    <2> QED BY <2>2, <2>4, <2>5 DEF Books
  <1> QED BY <1>2, <1>3, <1>4 DEF Lookup, table

\* One charge of a counted bucket.
LEMMA ChargedCounts ==
  ASSUME now \in 0..MaxTime, NEW burst \in Nat \ {0}, NEW period \in Nat \ {0}, NEW f, Tallied(f, now),
         NEW b \in BucketType, Counted(b, burst, period, f, now)
  PROVE  LET c == Leaked(b, burst, period) IN
         /\ HasRoom(c, burst) => Counted(Charged(c, burst), burst, period, OneMore(f), now)
         /\ ~HasRoom(c, burst) =>
              /\ Counted(Charged(c, burst), burst, period, f, now)
              /\ InReach(period) =>
                   LET from == now - burst * period
                   IN  f[IF from < 0 THEN 0 ELSE from] >= burst
  <1> DEFINE c == Leaked(b, burst, period)
             d == Charged(c, burst)
  <1>1. c \in BucketType
    BY LeakedIs
  <1>2. Counted(c, burst, period, f, now) /\ c.lastTime > now - period
    BY LeakedCounts
  <1> HIDE DEF c
  <1>3. /\ d.lastTime = c.lastTime
        /\ d.burst = IF HasRoom(c, burst) THEN c.burst + 1 ELSE c.burst
    BY <1>1, ChargedIs
  <1> HIDE DEF d
  <1>4. ASSUME HasRoom(c, burst)
        PROVE  Counted(d, burst, period, OneMore(f), now)
    <2>1. c.burst < burst /\ d.burst = c.burst + 1
      BY <1>3, <1>4 DEF HasRoom
    <2> QED BY <1>1, <1>2, <1>3, <2>1, AdmittedCounts
  <1>5. ASSUME ~HasRoom(c, burst)
        PROVE  /\ Counted(d, burst, period, f, now)
               /\ InReach(period) =>
                    LET from == now - burst * period
                    IN  f[IF from < 0 THEN 0 ELSE from] >= burst
    <2>1. ~(c.burst < burst) /\ d.burst = c.burst
      BY <1>3, <1>5 DEF HasRoom
    <2>2. Counted(d, burst, period, f, now)
      BY <1>2, <1>3, <2>1 DEF Counted
    <2> QED BY <1>1, <1>2, <2>1, <2>2, FullIsBusy
  <1> QED BY <1>4, <1>5 DEF c, d

\* A charge of an address, and what its verdict says of the address.
LEMMA ChargeBooks ==
  ASSUME TableInv, admitted \in [Addresses -> Tallies], Books(buckets, admitted, now),
         Judged(verdict, admitted), NEW t \in Threads, RateLimitAddress(t), LogAddress(t)
  PROVE  /\ Books(buckets', admitted', now) /\ Judged(verdict', admitted')
         /\ admitted' \in [Addresses -> Tallies]
  <1> DEFINE i == cur[t]
             a == adr[t]
             b == Leaked(buckets[i], Burst, Period)
             f == admitted[a]
  <1>1. /\ a \in Addresses /\ a # NoAddress
        /\ i = 0 => buckets' = buckets
        /\ i # 0 => /\ i \in Ids /\ buckets[i].adr = a
                    /\ buckets'[i] = Charged(b, Burst) /\ buckets'[i].adr = a
                    /\ \A j \in Ids \ {i} : buckets'[j] = buckets[j]
    BY ChargeIs, Constants
  <1>2. now \in 0..MaxTime /\ Sound(buckets, heads) /\ pc \in [Threads -> {"idle", "charge", "outbound"}]
    BY DEF TableInv, LimiterTypeOK
  <1>3. /\ pc'[t] = IF i = 0 \/ ~HasRoom(b, Burst) THEN "idle" ELSE "outbound"
    BY <1>2 DEF RateLimitAddress
  <1>4. /\ verdict' = [adr |-> a, limited |-> pc'[t] = "idle", bucket |-> i, time |-> now]
        /\ admitted' = IF pc'[t] = "idle" THEN admitted
                       ELSE [admitted EXCEPT ![a] = OneMore(admitted[a])]
    BY DEF LogAddress
  <1>5. \A o \in Addresses : Tallied(admitted[o], now)
    BY DEF Books
  <1> HIDE DEF b, i, a
  <1>6. CASE i = 0
    <2>1. pc'[t] = "idle" /\ admitted' = admitted /\ buckets' = buckets
      BY <1>1, <1>3, <1>4, <1>6
    <2>2. verdict'.bucket = 0
      BY <1>4, <1>6
    <2> QED BY <2>1, <2>2 DEF Judged
  <1>7. CASE i # 0
    <2>1. i \in Ids /\ buckets[i].adr = a /\ buckets[i] \in BucketType
      BY <1>1, <1>2, <1>7 DEF Sound
    <2>2. Counted(buckets[i], Burst, Period, f, now) /\ Tallied(f, now)
      BY <1>1, <1>5, <2>1 DEF Books
    <2> HIDE DEF f
    <2>3. /\ HasRoom(b, Burst) => Counted(buckets'[i], Burst, Period, OneMore(f), now)
          /\ ~HasRoom(b, Burst) =>
               /\ Counted(buckets'[i], Burst, Period, f, now)
               /\ InReach(Period) =>
                    LET from == now - Burst * Period
                    IN  f[IF from < 0 THEN 0 ELSE from] >= Burst
      BY <1>1, <1>2, <1>7, <2>1, <2>2, ChargedCounts, Constants DEF b
    <2>4. /\ admitted' \in [Addresses -> Tallies]
          /\ \A o \in Addresses : o # a => admitted'[o] = admitted[o]
          /\ admitted'[a] = IF HasRoom(b, Burst) THEN OneMore(f) ELSE f
      <3>1. Tallied(OneMore(f), now)
        BY <1>2, <2>2, OneMoreTallied
      <3>2. OneMore(f) \in Tallies
        BY <3>1 DEF Tallied
      <3>3. admitted' = IF HasRoom(b, Burst) THEN [admitted EXCEPT ![a] = OneMore(f)]
                        ELSE admitted
        BY <1>3, <1>4, <1>7 DEF f
      <3> QED BY <1>1, <3>2, <3>3 DEF f
    <2>5. Tallied(admitted'[a], now) /\ Counted(buckets'[i], Burst, Period, admitted'[a], now)
      <3>1. Tallied(OneMore(f), now)
        BY <1>2, <2>2, OneMoreTallied
      <3> QED BY <2>2, <2>3, <2>4, <3>1
    <2>6. \A o \in Addresses : Tallied(admitted'[o], now)
      BY <1>5, <2>4, <2>5
    <2>7. ASSUME NEW j \in Ids, buckets'[j].adr # NoAddress
          PROVE  Counted(buckets'[j], Burst, Period, admitted'[buckets'[j].adr], now)
      <3>1. CASE j = i
        BY <1>1, <1>7, <2>5, <3>1
      <3>2. CASE j # i
        <4>1. buckets'[j] = buckets[j] /\ buckets[j].adr # NoAddress
          BY <1>1, <1>7, <2>7, <3>2
        <4>2. buckets[j].adr \in Addresses
          BY <1>2, <4>1 DEF Sound, BucketType
        <4>3. buckets[j].adr # a
          BY <1>2, <2>1, <3>2, <4>1 DEF Sound
        <4>4. Counted(buckets[j], Burst, Period, admitted[buckets[j].adr], now)
          BY <4>1 DEF Books
        <4> QED BY <2>4, <4>1, <4>2, <4>3, <4>4
      <3> QED BY <3>1, <3>2
    <2>8. ASSUME NEW o \in Addresses, \A j \in Ids : buckets'[j].adr # o
          PROVE  Anew(Burst, Period, admitted'[o], now)
      <3>1. o # a
        BY <1>1, <1>7, <2>1, <2>8
      <3>2. \A j \in Ids : buckets[j].adr # o
        BY <1>1, <1>7, <2>1, <2>8, <3>1
      <3>3. Anew(Burst, Period, admitted[o], now)
        BY <3>2 DEF Books
      <3> QED BY <2>4, <3>1, <3>3
    <2>9. Books(buckets', admitted', now)
      BY <2>6, <2>7, <2>8 DEF Books
    <2>10. Judged(verdict', admitted')
      <3>1. CASE HasRoom(b, Burst)
        <4>1. pc'[t] # "idle"
          BY <1>3, <1>7, <3>1
        <4>2. ~verdict'.limited
          BY <1>4, <4>1
        <4> QED BY <4>2 DEF Judged
      <3>2. CASE ~HasRoom(b, Burst)
        <4>1. verdict'.adr = a /\ verdict'.time = now
          BY <1>4
        <4>2. admitted'[a] = f
          BY <2>4, <3>2
        <4> QED BY <1>1, <1>2, <2>3, <3>2, <4>1, <4>2 DEF Judged
      <3> QED BY <3>1, <3>2
    <2> QED BY <2>4, <2>9, <2>10
  <1> QED BY <1>6, <1>7

\* A charge of the outbound bucket.
LEMMA OutboundBooks ==
  ASSUME TableInv, OutBook(out, admittedOut, now), NEW t \in Threads, RateLimitOutbound(t), LogOutbound
  PROVE  OutBook(out', admittedOut', now)
  <1> DEFINE c == Leaked(out, OutBurst, OutPeriod)
  <1>1. now \in 0..MaxTime /\ out \in BucketType /\ now \in Int
    BY Constants DEF TableInv, LimiterTypeOK
  <1>2. c \in BucketType
    BY <1>1, LeakedIs, Constants
  <1>3. /\ out' = Charged(c, OutBurst)
        /\ admittedOut' = IF out'.burst > c.burst THEN OneMore(admittedOut) ELSE admittedOut
    BY DEF RateLimitOutbound, LogOutbound
  <1>4. /\ HasRoom(c, OutBurst) =>
             Counted(Charged(c, OutBurst), OutBurst, OutPeriod, OneMore(admittedOut), now)
        /\ ~HasRoom(c, OutBurst) =>
             Counted(Charged(c, OutBurst), OutBurst, OutPeriod, admittedOut, now)
    BY <1>1, ChargedCounts, Constants DEF OutBook
  <1> HIDE DEF c
  <1>5. out'.burst > c.burst <=> HasRoom(c, OutBurst)
    <2>1. c.burst \in Nat /\ out'.burst = IF HasRoom(c, OutBurst) THEN c.burst + 1 ELSE c.burst
      BY <1>2, <1>3, ChargedIs DEF BucketType
    <2> QED BY <2>1
  <1>6. Tallied(admittedOut, now) /\ Tallied(OneMore(admittedOut), now)
    BY <1>1, OneMoreTallied DEF OutBook
  <1> QED BY <1>3, <1>4, <1>5, <1>6 DEF OutBook

\* The invariant of the next state.
LEMMA NextLog ==
  ASSUME TableInv', steady' \in BOOLEAN, admitted' \in [Addresses -> Tallies],
         steady' => /\ Books(buckets', admitted', now') /\ OutBook(out', admittedOut', now')
                    /\ Judged(verdict', admitted'),
         ~steady' => /\ admitted' = [a \in Addresses |-> Never] /\ admittedOut' = Never
                     /\ verdict' = NoVerdict
  PROVE  LogInv'
  <1>1. Books(buckets', admitted', now') => Books(buckets, admitted, now)'
    BY DEF Books, Tallied, Falls, Tallies, Counted, Anew, Quiet, AtMost, AtLeast, InReach
  <1>2. OutBook(out', admittedOut', now') => OutBook(out, admittedOut, now)'
    BY DEF OutBook, Tallied, Falls, Tallies, Counted, Quiet, AtMost, AtLeast, InReach
  <1>3. Judged(verdict', admitted') => Judged(verdict, admitted)'
    BY DEF Judged, InReach
  <1>4. (admitted \in [Addresses -> Tallies])'
    BY DEF Tallies
  <1> QED BY <1>1, <1>2, <1>3, <1>4 DEF LogInv, Never, NoVerdict

\* Each step keeps the invariant of the limits.
LEMMA TickLog ==
  ASSUME LogInv, Tick, UNCHANGED logVars
  PROVE  LogInv'
  <1>1. TableInv'
    BY TableNext DEF LogInv, LimiterNext
  <1>2. UNCHANGED <<buckets, out, steady, verdict, admitted, admittedOut>>
    BY DEF Tick, table, logVars
  <1>3. now \in 0..MaxTime /\ now' \in 0..MaxTime /\ now <= now'
    BY Constants DEF LogInv, TableInv, LimiterTypeOK, Tick
  <1>4. ASSUME steady
        PROVE  /\ Books(buckets', admitted', now') /\ OutBook(out', admittedOut', now')
               /\ Judged(verdict', admitted')
    <2>1. buckets \in [Ids -> BucketType] /\ out \in BucketType
      BY DEF LogInv, TableInv, LimiterTypeOK
    <2>2. Books(buckets, admitted, now) /\ OutBook(out, admittedOut, now) /\ Judged(verdict, admitted)
      BY <1>4 DEF LogInv
    <2> DEFINE u == now'
    <2>3. u \in 0..MaxTime /\ now <= u
      BY <1>3
    <2> HIDE DEF u
    <2>4. Books(buckets, admitted, u) /\ OutBook(out, admittedOut, u)
      BY <1>3, <2>1, <2>2, <2>3, LaterBooks
    <2> QED BY <1>2, <2>2, <2>4 DEF u
  <1> QED BY <1>1, <1>2, <1>4, NextLog DEF LogInv

\* The clock is set back: the log is closed.
LEMMA SetBackLog ==
  ASSUME LogInv, SetBack, LogSetBack
  PROVE  LogInv'
  <1>1. TableInv'
    BY TableNext DEF LogInv, LimiterNext
  <1>2. Never \in Tallies
    BY DEF Never, Tallies
  <1>3. admitted' \in [Addresses -> Tallies]
    BY <1>2 DEF LogSetBack
  <1> QED BY <1>1, <1>3, NextLog DEF LogSetBack

LEMMA LookupLog ==
  ASSUME LogInv, NEW t \in Threads, NEW a \in Addresses, BucketForAddress(t, a), UNCHANGED logVars
  PROVE  LogInv'
  <1>1. TableInv'
    BY TableNext DEF LogInv, LimiterNext
  <1>2. UNCHANGED <<now, out, steady, verdict, admitted, admittedOut>>
    BY DEF BucketForAddress, logVars
  <1>3. steady => Books(buckets', admitted, now)
    BY LookupBooks DEF LogInv
  <1>4. steady => Books(buckets', admitted', now')
    BY <1>2, <1>3
  <1>5. steady => OutBook(out', admittedOut', now') /\ Judged(verdict', admitted')
    BY <1>2 DEF LogInv
  <1> QED BY <1>1, <1>2, <1>4, <1>5, NextLog DEF LogInv

LEMMA ChargeLog ==
  ASSUME LogInv, NEW t \in Threads, RateLimitAddress(t), IfSteady(LogAddress(t))
  PROVE  LogInv'
  <1>1. TableInv'
    BY TableNext DEF LogInv, LimiterNext
  <1>2. UNCHANGED <<now, out>>
    BY DEF RateLimitAddress
  <1>3. CASE steady /\ LogAddress(t)
    <2>1. /\ Books(buckets', admitted', now) /\ Judged(verdict', admitted')
          /\ admitted' \in [Addresses -> Tallies]
      BY <1>3, ChargeBooks DEF LogInv
    <2>2. UNCHANGED <<steady, admittedOut>>
      BY <1>3 DEF LogAddress
    <2>3. OutBook(out', admittedOut', now')
      BY <1>2, <1>3, <2>2 DEF LogInv
    <2>4. Books(buckets', admitted', now')
      BY <1>2, <2>1
    <2> QED BY <1>1, <1>3, <2>1, <2>2, <2>3, <2>4, NextLog DEF LogInv
  <1>4. CASE ~steady /\ UNCHANGED logVars
    <2>1. UNCHANGED <<steady, verdict, admitted, admittedOut>>
      BY <1>4 DEF logVars
    <2> QED BY <1>1, <1>4, <2>1, NextLog DEF LogInv
  <1> QED BY <1>3, <1>4 DEF IfSteady

LEMMA OutboundLog ==
  ASSUME LogInv, NEW t \in Threads, RateLimitOutbound(t), IfSteady(LogOutbound)
  PROVE  LogInv'
  <1>1. TableInv'
    BY TableNext DEF LogInv, LimiterNext
  <1>2. UNCHANGED <<now, buckets>>
    BY DEF RateLimitOutbound, table
  <1>3. CASE steady /\ LogOutbound
    <2>1. OutBook(out', admittedOut', now)
      BY <1>3, OutboundBooks DEF LogInv
    <2>2. UNCHANGED <<steady, verdict, admitted>>
      BY <1>3 DEF LogOutbound
    <2>3. Books(buckets', admitted', now') /\ Judged(verdict', admitted')
      BY <1>2, <1>3, <2>2 DEF LogInv
    <2>4. OutBook(out', admittedOut', now')
      BY <1>2, <2>1
    <2> QED BY <1>1, <1>3, <2>2, <2>3, <2>4, NextLog DEF LogInv
  <1>4. CASE ~steady /\ UNCHANGED logVars
    <2>1. UNCHANGED <<steady, verdict, admitted, admittedOut>>
      BY <1>4 DEF logVars
    <2> QED BY <1>1, <1>4, <2>1, NextLog DEF LogInv
  <1> QED BY <1>3, <1>4 DEF IfSteady

LEMMA StutterLog ==
  ASSUME LogInv, UNCHANGED <<limiterVars, logVars>>
  PROVE  LogInv'
  <1>1. TableInv'
    BY TableNext DEF LogInv
  <1>2. UNCHANGED <<now, buckets, out, steady, verdict, admitted, admittedOut>>
    BY DEF limiterVars, logVars
  <1>3. steady => /\ Books(buckets', admitted', now') /\ OutBook(out', admittedOut', now')
                  /\ Judged(verdict', admitted')
    BY <1>2 DEF LogInv
  <1> QED BY <1>1, <1>2, <1>3, NextLog DEF LogInv

\* The invariant of the limits is inductive.
LEMMA LogStep == LogInv /\ [LogNext]_<<limiterVars, logVars>> => LogInv'
  BY TickLog, SetBackLog, LookupLog, ChargeLog, OutboundLog, StutterLog DEF LogNext

\* Nothing has been let through at first.
LEMMA InitLog ==
  ASSUME LogInit
  PROVE  LogInv
  <1>1. TableInv
    BY InitSound DEF LogInit
  <1>2. now = 0 /\ 0 \in 0..MaxTime
    BY Constants DEF LogInit, LimiterInit
  <1>3. Tallied(Never, 0)
    BY DEF Tallied, Tallies, Falls, Never
  <1>4. ASSUME NEW burst, NEW period \in Nat \ {0}
        PROVE  Anew(burst, period, Never, 0)
    <2>1. \A x \in 0..MaxTime : Never[x] = 0
      BY DEF Never
    <2> QED BY <2>1 DEF Anew, AtMost
  <1>5. Free \in BucketType /\ Free.lastTime = 0 /\ Free.burst = 0 /\ Free.adr = NoAddress
    BY Constants DEF Free, BucketType
  <1>6. OutBook(out, admittedOut, now)
    <2>1. Counted(Free, OutBurst, OutPeriod, Never, 0)
      BY <1>2, <1>3, <1>4, <1>5, AnewCounts, Constants
    <2> QED BY <1>2, <1>3, <2>1 DEF LogInit, LimiterInit, OutBook
  <1>7. Books(buckets, admitted, now)
    <2>1. \A a \in Addresses : admitted[a] = Never
      BY DEF LogInit
    <2>2. \A i \in Ids : buckets[i].adr = NoAddress
      BY <1>5 DEF LogInit, LimiterInit
    <2> QED BY <1>2, <1>3, <1>4, <2>1, <2>2, Constants DEF Books
  <1>8. Judged(verdict, admitted)
    BY DEF Judged, LogInit, NoVerdict
  <1>9. admitted \in [Addresses -> Tallies] /\ steady = TRUE
    BY <1>3 DEF LogInit, Tallied
  <1> QED BY <1>1, <1>6, <1>7, <1>8, <1>9 DEF LogInv

\* The bucket's level and the periods of a window bound what it let through.
LEMMA CountedIsBounded ==
  ASSUME now \in 0..MaxTime, NEW burst \in Nat \ {0}, NEW period \in Nat \ {0}, NEW f,
         Tallied(f, now), NEW last \in Int, NEW level \in Nat, last <= now, level <= burst,
         AtMost(last, level, period, f)
  PROVE  Bounded(f, burst, period)
  <1>1. ASSUME NEW from \in 0..now
        PROVE  f[from] <= burst + ((now - from + period - 1) \div period)
    <2> DEFINE m == now - from + period - 1
               k == m \div period
               kp == k * period
               r == m % period
    <2>1. now \in Nat /\ from \in Nat /\ from <= now /\ from \in 0..MaxTime /\ MaxTime \in Nat
      BY Constants
    <2>2. m \in Nat
      BY <2>1
    <2> HIDE DEF m
    <2>3. k \in Nat /\ r \in 0..period - 1 /\ m = kp + r /\ kp \in Nat
      BY <2>2, Division, ProductIsNat
    <2> HIDE DEF k, kp, r
    <2>4. kp >= now - from
      <3>1. now - from = (m - period) + 1
        BY <2>1 DEF m
      <3> QED BY <2>1, <2>2, <2>3, <3>1
    <2>5. kp >= last - from
      BY <2>1, <2>3, <2>4
    <2>6. f[from] <= level + k
      BY <2>1, <2>3, <2>5 DEF AtMost, kp
    <2>7. f[from] \in Nat
      BY <2>1 DEF Tallied, Tallies
    <2>8. f[from] <= burst + k
      BY <2>3, <2>6, <2>7
    <2> QED BY <2>8 DEF k, m
  <1> QED BY <1>1 DEF Bounded

\* What the invariant says of the limits.
LEMMA LimitsFollow ==
  ASSUME Burst * Period <= IntHalf, OutBurst * OutPeriod <= IntHalf, LogInv
  PROVE  LimitsHold
  <1>1. now \in 0..MaxTime /\ now \in Nat /\ out \in BucketType /\ buckets \in [Ids -> BucketType]
    BY Constants DEF LogInv, TableInv, LimiterTypeOK
  <1>2. CASE steady
    <2>1. ASSUME NEW a \in Addresses
          PROVE  Bounded(admitted[a], Burst, Period)
      <3>1. Tallied(admitted[a], now)
        BY <1>2 DEF LogInv, Books
      <3>2. CASE \A i \in Ids : buckets[i].adr # a
        <4>1. AtMost(now, 0, Period, admitted[a])
          BY <1>2, <3>2 DEF LogInv, Books, Anew
        <4>2. now <= now /\ 0 <= Burst /\ now \in Int
          BY <1>1, Constants
        <4> QED BY <1>1, <3>1, <4>1, <4>2, CountedIsBounded, Constants
      <3>3. ASSUME NEW i \in Ids, buckets[i].adr = a
            PROVE  Bounded(admitted[a], Burst, Period)
        <4>1. Counted(buckets[i], Burst, Period, admitted[a], now)
          BY <1>2, <3>3, Constants DEF LogInv, Books
        <4>2. buckets[i].lastTime \in Int /\ buckets[i].burst \in Nat
          BY <1>1 DEF BucketType
        <4> QED BY <1>1, <3>1, <4>1, <4>2, CountedIsBounded, Constants DEF Counted
      <3> QED BY <3>2, <3>3
    <2>2. Bounded(admittedOut, OutBurst, OutPeriod)
      <3>1. Tallied(admittedOut, now) /\ Counted(out, OutBurst, OutPeriod, admittedOut, now)
        BY <1>2 DEF LogInv, OutBook
      <3>2. out.lastTime \in Int /\ out.burst \in Nat
        BY <1>1 DEF BucketType
      <3> QED BY <1>1, <3>1, <3>2, CountedIsBounded, Constants DEF Counted
    <2> QED BY <2>1, <2>2 DEF LimitsHold, RateBound, OutRateBound
  <1>3. CASE ~steady
    <2>1. /\ admittedOut = Never /\ \A a \in Addresses : admitted[a] = Never
          /\ \A x \in 0..MaxTime : Never[x] = 0
      BY <1>3 DEF LogInv, Never
    <2>2. ASSUME NEW burst \in Nat \ {0}, NEW period \in Nat \ {0}
          PROVE  Bounded(Never, burst, period)
      <3>1. now <= now /\ 0 <= burst /\ now \in Int
        BY <1>1
      <3>2. Tallied(Never, now)
        BY DEF Tallied, Tallies, Falls, Never
      <3>3. AtMost(now, 0, period, Never)
        BY <2>1 DEF AtMost
      <3> QED BY <1>1, <3>1, <3>2, <3>3, CountedIsBounded
    <2> QED BY <2>1, <2>2, Constants DEF LimitsHold, RateBound, OutRateBound
  <1> QED BY <1>2, <1>3 DEF LogInv

\* What the invariant says of the last verdict.
LEMMA RefusalsFollow ==
  ASSUME Period <= IntHalf, MaxTime < 2 * IntHalf, LogInv
  PROVE  RefusedOnlyWhenBusy
  <1>1. CASE steady
    BY <1>1 DEF LogInv, Judged, InReach, RefusedOnlyWhenBusy
  <1>2. CASE ~steady
    BY <1>2 DEF LogInv, NoVerdict, RefusedOnlyWhenBusy
  <1> QED BY <1>1, <1>2 DEF LogInv

\* For any limits whose burst and period multiply within an int: in no window does an
\* address, or the whole server, get more through than the burst and one request per
\* period.
THEOREM LimitsAreKept ==
  ASSUME Burst * Period <= IntHalf, OutBurst * OutPeriod <= IntHalf
  PROVE  LogSpec => []LimitsHold
  <1>1. LogInit => LogInv
    BY InitLog
  <1>2. LogInv => LimitsHold
    BY LimitsFollow
  <1> QED BY <1>1, <1>2, LogStep, PTL DEF LogSpec

\* Within one turn of the int that holds an interval: only an address that has used
\* its burst within the burst's periods is refused.
THEOREM OnlyBusyAreRefused ==
  ASSUME Period <= IntHalf, MaxTime < 2 * IntHalf
  PROVE  LogSpec => []RefusedOnlyWhenBusy
  <1>1. LogInit => LogInv
    BY InitLog
  <1>2. LogInv => RefusedOnlyWhenBusy
    BY RefusalsFollow
  <1> QED BY <1>1, <1>2, LogStep, PTL DEF LogSpec
=============================================================================

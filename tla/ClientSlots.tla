------------------------------ MODULE ClientSlots ------------------------------
(***************************************************************************)
(* How a peer gets a client slot and loses it: the connect, the packets    *)
(* that find their slot, drops, timeouts and zombies (src/code/libcod.cpp: *)
(* custom_SV_DirectConnect, custom_ClientConnect, custom_SV_PacketEvent,   *)
(* custom_SV_DropClient, custom_SV_CheckTimeouts).  The challenge a        *)
(* connect names is the matter of Challenges: here it is one that module   *)
(* accepts, and another one changes no slot.                               *)
(*                                                                         *)
(* All peers share one local address, the case in which only ports and     *)
(* qports tell them apart: the players that come through the server's own  *)
(* proxies, as behind any NAT.  Times are kept as ages, in frames, up to   *)
(* the age at which nothing changes any more.                              *)
(***************************************************************************)
EXTENDS Integers, FiniteSetsExt

CONSTANTS Peers,            \* client programs, each numbered
          Vips,             \* those that know sv_privatePassword
          MaxClients,       \* sv_maxclients
          Private,          \* sv_privateClients
          Timeout,          \* sv_timeout
          ZombieTime,       \* sv_zombietime
          ReconnectLimit,   \* sv_reconnectlimit
          Grace,            \* the 5 frames a client may be overdue
          Hitch,            \* bound: how long one frame takes, at most sv_timeout
          Ports,            \* bound: ports a NAT gives to one peer
          MaxRestarts       \* bound: restarts of one peer's program

ASSUME SlotsAssumption ==
    /\ Peers \subseteq Nat \ {0} /\ Vips \subseteq Peers
    /\ {MaxClients, Hitch, Ports, ReconnectLimit} \subseteq Nat \ {0}
    /\ {Private, Timeout, ZombieTime, Grace, MaxRestarts} \subseteq Nat
    /\ Private < MaxClients /\ Hitch <= Timeout

VARIABLES
    slot,       \* svs.clients, with customPlayerState[].realAddress
    \* the peers
    port, qport,
    talking,    \* a peer takes itself for connected
    copy        \* a copy, still under way, of the peer's connect accepted last

vars == <<slot, port, qport, talking, copy>>

Slots == 0 .. MaxClients - 1
Nobody == 0
NoPort == <<Nobody, 0>>
Aging(age, d, most) == IF age + d > most THEN most ELSE age + d
OldPacket == Max({Timeout, ZombieTime}) + 1

\* A slot's owner, latest and silent are history: the peer whose connect it holds,
\* whether it is the last one accepted of this peer, and the frames since its last
\* packet.
NoClient == [state |-> "FREE", port |-> NoPort, qport |-> NoPort,
             lastPacket |-> 0, lastConnect |-> ReconnectLimit, timeoutCount |-> 0,
             real |-> Nobody, owner |-> Nobody, latest |-> FALSE, silent |-> 0]
NoCopy == [port |-> NoPort, qport |-> NoPort, age |-> 0]

Init == /\ slot = [s \in Slots |-> NoClient]
        /\ port = [p \in Peers |-> <<p, 1>>]
        /\ qport = [p \in Peers |-> <<p, 0>>]
        /\ talking = [p \in Peers |-> FALSE]
        /\ copy = [p \in Peers |-> NoCopy]

-----------------------------------------------------------------------------
(* The connect *)

Matches(s, c) == slot[s].qport = c.qport \/ slot[s].port = c.port
\* The first slot that matches, a free one included, was connected too recently.
MutantTooSoon(c) == FALSE  \* the limit is not applied
TooSoon(c) == LET found == {s \in Slots : slot[s].port # NoPort /\ Matches(s, c)}
              IN  found # {} /\ slot[Min(found)].lastConnect < ReconnectLimit

StartIndex(p) == IF p \in Vips THEN 0 ELSE Private
MutantNewSlot(p, c) ==  \* a translated port makes it a stranger
    LET same == {s \in Slots : slot[s].state # "FREE" /\ slot[s].port = c.port}
        free == {s \in StartIndex(p) .. MaxClients - 1 : slot[s].state = "FREE"}
    IN  IF same # {} THEN {Min(same)} ELSE IF free # {} THEN {Min(free)} ELSE {}
NewSlot(p, c) ==
    LET same == {s \in Slots : slot[s].state # "FREE" /\ Matches(s, c)}
        free == {s \in StartIndex(p) .. MaxClients - 1 : slot[s].state = "FREE"}
    IN  IF same # {} THEN {Min(same)} ELSE IF free # {} THEN {Min(free)} ELSE {}

\* custom_ClientConnect: a peer's real address comes with its connect,
\* and is not taken while the slot has one.
RealAddress(s, p) == IF slot[s].real # Nobody THEN slot[s].real ELSE p
Denied(s, p, c) == [NoClient EXCEPT !.port = c.port, !.qport = c.qport]
Connected(s, p, c) ==
    [NoClient EXCEPT !.state = "CONNECTED", !.port = c.port, !.qport = c.qport,
                     !.lastConnect = 0, !.real = RealAddress(s, p), !.owner = p, !.latest = TRUE]

\* A connect that is not refused (for its challenge or ping, by PunkBuster, for
\* want of a slot) may still be denied, as banned or without password.
DirectConnect(p, c) ==
    /\ ~TooSoon(c)
    /\ \E s \in NewSlot(p, c) :
         \/ /\ slot' = [slot EXCEPT ![s] = Denied(s, p, c)]
            /\ UNCHANGED <<talking, copy>>
         \/ /\ slot' = [t \in Slots |->
                         IF t = s THEN Connected(s, p, c)
                         ELSE [slot[t] EXCEPT !.latest = @ /\ slot[t].owner # p]]
            /\ copy' = [copy EXCEPT ![p] = c]
            /\ talking' \in {talking, [talking EXCEPT ![p] = @ \/ c.qport = qport[p]]}
    /\ UNCHANGED <<port, qport>>
Connect(p) == ~talking[p] /\ DirectConnect(p, [port |-> port[p], qport |-> qport[p], age |-> 0])
\* The copy arrives, and is refused when it comes too soon.
LateConnect(p) ==
    /\ copy[p] # NoCopy
    /\ IF TooSoon(copy[p])
       THEN copy' = [copy EXCEPT ![p] = NoCopy] /\ UNCHANGED <<slot, port, qport, talking>>
       ELSE DirectConnect(p, copy[p])

-----------------------------------------------------------------------------
(* Packets, drops and timeouts *)

Routed(p) == LET found == {s \in Slots : slot[s].state # "FREE" /\ slot[s].qport = qport[p]}
             IN  IF found = {} THEN {} ELSE {Min(found)}

MutantDropped(c) == [c EXCEPT !.state = "ZOMBIE"]  \* the real address is kept
Dropped(c) == [c EXCEPT !.state = "ZOMBIE", !.real = Nobody]
\* What a packet does to its slot: a zombie only follows a translated port.
MutantHeard(c, from) ==  \* a zombie's packets count as signs of life
    [c EXCEPT !.port = from, !.lastPacket = 0, !.silent = 0]
Heard(c, from) == IF c.state = "ZOMBIE" THEN [c EXCEPT !.port = from]
                  ELSE [c EXCEPT !.port = from, !.lastPacket = 0, !.silent = 0]

PacketEvent(p) ==
    /\ talking[p]
    /\ \E s \in Routed(p) : slot' = [slot EXCEPT ![s] = Heard(@, port[p])]
    /\ UNCHANGED <<port, qport, talking, copy>>
\* No slot: the peer is told "disconnect".
Told(p) == /\ talking[p] /\ Routed(p) = {}
           /\ talking' = [talking EXCEPT ![p] = FALSE]
           /\ UNCHANGED <<slot, port, qport, copy>>
\* The packet brings the peer's "disconnect"; it may be lost, and is for a zombie.
Leave(p) == /\ talking[p]
            /\ talking' = [talking EXCEPT ![p] = FALSE]
            /\ \/ UNCHANGED slot
               \/ \E s \in Routed(p) :
                    /\ slot[s].state = "CONNECTED"
                    /\ slot' = [slot EXCEPT ![s] = Dropped(Heard(@, port[p]))]
            /\ UNCHANGED <<port, qport, copy>>
Kick(s) == /\ slot[s].state = "CONNECTED"
           /\ slot' = [slot EXCEPT ![s] = Dropped(@)]
           /\ UNCHANGED <<port, qport, talking, copy>>

Overdue(c, d) == c.state = "CONNECTED" /\ c.lastPacket + d > Timeout
MutantNextCount(c, d) == IF Overdue(c, d) THEN c.timeoutCount + 1 ELSE c.timeoutCount  \* never reset
NextCount(c, d) == IF Overdue(c, d) THEN c.timeoutCount + 1 ELSE 0
TimesOut(c, d) == Overdue(c, d) /\ NextCount(c, d) > Grace
Expires(c, d) == c.state = "ZOMBIE" /\ c.lastPacket + d > ZombieTime

Aged(c, d) ==
    IF TimesOut(c, d) \/ Expires(c, d)
    THEN [NoClient EXCEPT !.port = c.port, !.qport = c.qport,
                          !.lastConnect = Aging(c.lastConnect, d, ReconnectLimit),
                          !.real = IF TimesOut(c, d) THEN Dropped(c).real ELSE c.real]
    ELSE [c EXCEPT !.lastPacket = IF c.state = "FREE" THEN 0 ELSE Aging(@, d, OldPacket),
                   !.lastConnect = Aging(@, d, ReconnectLimit),
                   !.timeoutCount = NextCount(c, d),
                   !.silent = IF c.state = "CONNECTED" THEN Aging(@, 1, Grace + 1) ELSE 0]

\* A frame advances the time, by more than usual after a hitch, and checks
\* timeouts.  No packet is delayed for longer than sv_reconnectlimit.
Frame == \E d \in {1, Hitch} :
    /\ slot' = [s \in Slots |-> Aged(slot[s], d)]
    /\ copy' = [p \in Peers |-> IF copy[p] = NoCopy \/ copy[p].age + d >= ReconnectLimit
                                THEN NoCopy ELSE [copy[p] EXCEPT !.age = @ + d]]
    /\ UNCHANGED <<port, qport, talking>>

-----------------------------------------------------------------------------
(* The peers *)

\* A NAT gives the peer a port that it has not given yet.
Rebind(p) == /\ port[p][2] < Ports
             /\ port' = [port EXCEPT ![p][2] = @ + 1]
             /\ UNCHANGED <<slot, qport, talking, copy>>
Restart(p) == /\ qport[p][2] < MaxRestarts
              /\ qport' = [qport EXCEPT ![p][2] = @ + 1]
              /\ talking' = [talking EXCEPT ![p] = FALSE]
              /\ UNCHANGED <<slot, port, copy>>

Next == \/ \E p \in Peers : \/ Connect(p) \/ LateConnect(p)
                            \/ PacketEvent(p) \/ Told(p) \/ Leave(p)
                            \/ Rebind(p) \/ Restart(p)
        \/ \E s \in Slots : Kick(s)
        \/ Frame

Spec == Init /\ [][Next]_vars
\* The server runs frames, and a peer that goes on sending is heard at last.
FairSpec == Spec /\ WF_vars(Frame) /\ \A p \in Peers : SF_vars(Told(p))

-----------------------------------------------------------------------------
(* Properties *)

Connects(s) == slot[s].state = "CONNECTED"

\* Every variable has its type.
TypeOK ==
    /\ \A s \in Slots :
         /\ slot[s].state \in {"FREE", "ZOMBIE", "CONNECTED"}
         /\ {slot[s].owner, slot[s].real} \subseteq Peers \cup {Nobody}
         /\ slot[s].lastPacket \in 0 .. OldPacket
         /\ slot[s].lastConnect \in 0 .. ReconnectLimit
         /\ slot[s].timeoutCount \in 0 .. Grace /\ slot[s].silent \in 0 .. Grace + 1
    /\ talking \in [Peers -> BOOLEAN]

\* A peer's packets reach the slot of its own last session: whatever slots the
\* order of reconnects, translated ports, drops and restarts has left behind, none
\* that its packets match comes before it (the two loops of
\* custom_SV_DirectConnect against the one of custom_SV_PacketEvent).
RoutedToSession ==
    \A s \in Slots : LET p == slot[s].owner IN
        (slot[s].latest /\ slot[s].qport = qport[p]) => Routed(p) = {s}

\* A session has the real address of the peer that connected, which is the one
\* bans are applied to, whoever had the slot before and however he lost it.
OwnAddress == \A s \in Slots :
                /\ slot[s].state = "CONNECTED" => slot[s].real = slot[s].owner
                /\ slot[s].state = "FREE" => slot[s].real = Nobody
\* The types, and that OwnAddress.
SlotSound == TypeOK /\ OwnAddress

\* A late copy of a connect that was accepted changes no slot, as long as the one
\* that connect was given holds it, though dropped already or behind another port.
NoReplay == [][\A p \in Peers :
                 (LateConnect(p) /\ \E s \in Slots : slot[s].latest /\ slot[s].owner = p)
                 => UNCHANGED slot]_vars

\* No client is timed out unless nothing came from it in Grace + 2 frames
\* in a row, however long each of them takes: a server hitch drops nobody.
NoHastyTimeout == [][\A s \in Slots : (Connects(s) /\ slot'[s].state = "FREE" /\ Frame)
                                      => slot[s].silent > Grace]_vars

\* A peer that still talks when its session is gone is told so or gets a new
\* one: the zombie its packets find does not live from them.
Gone(p) == talking[p] /\ ~\E s \in Slots : Connects(s) /\ slot[s].owner = p
GhostsTold == \A p \in Peers : Gone(p) ~> ~Gone(p)
================================================================================

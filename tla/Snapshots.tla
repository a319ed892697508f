------------------------------ MODULE Snapshots ------------------------------
(***************************************************************************)
(* The snapshots of one client as differences to older ones                *)
(* (src/code/libcod.cpp: custom_SV_BuildClientSnapshot,                    *)
(* custom_SV_WriteSnapshotToClient, custom_SV_ClientEnterWorld).  The      *)
(* server reads the older snapshot from frames, a ring of the client's     *)
(* messages, and from two rings of entities and players that all clients   *)
(* fill; a map load allocates those two anew.                              *)
(*                                                                         *)
(* Messages travel as MessageChannel says: the n-th element of down has    *)
(* the sequence number n, one that arrives overtakes the older ones.       *)
(* An entry of a ring is known by the message it was stored for, Others    *)
(* when that was another client's.  The client downloads nothing, which    *)
(* ClientSession is about.                                                 *)
(***************************************************************************)
EXTENDS Integers, Sequences

CONSTANTS Backup,       \* PACKET_BACKUP
          Margin,       \* a delta is this much younger at least
          RingSize,     \* svs.numSnapshotEntities
          ClientRing,   \* svs.numSnapshotClients
          MaxEntities,  \* sv_maxSnapshotEntities
          Players,      \* clients in the game
          MaxLevel,     \* bound: levels that are loaded
          MaxSequence,  \* bound: messages of the server
          MaxMoves,     \* bound: messages of the client under way
          MaxEntries    \* bound: entries stored in a level

VARIABLES
    level,                \* sv_serverId_value
    state,                \* client->state
    down,                 \* the messages to the client, by sequence number
    deltaMessage,
    gamestateMessageNum,
    frames,               \* client->frames, by sequence number & PACKET_MASK
    nextSnapshotEntities, snapshotEntities,
    nextSnapshotClients, snapshotClients,
    up,                   \* the messages of the client under way
    \* the client
    known,                \* the level it has a gamestate of
    heard,                \* the last message it received
    held                  \* the snapshots of the level it has

rings == <<nextSnapshotEntities, snapshotEntities, nextSnapshotClients, snapshotClients>>
client == <<known, heard, held>>
vars == <<level, state, down, deltaMessage, gamestateMessageNum, frames, rings,
          up, client>>

Others == 0
None == 0
Empty(size) == [i \in 0 .. size - 1 |-> Others]
NoFrame == [ps |-> 0, first_entity |-> 0, num_entities |-> 0,
            first_client |-> 0, num_clients |-> 0]

outgoingSequence == Len(down) + 1
Slot(n) == n % Backup

\* custom_SV_DirectConnect left the client connected, all of client_t zero.
Init == /\ level = 1
        /\ state = "CONNECTED"
        /\ down = <<>>
        /\ deltaMessage = 0
        /\ gamestateMessageNum = -1
        /\ frames = [s \in 0 .. Backup - 1 |-> NoFrame]
        /\ nextSnapshotEntities = 0 /\ snapshotEntities = Empty(RingSize)
        /\ nextSnapshotClients = 0 /\ snapshotClients = Empty(ClientRing)
        /\ up = <<>>
        /\ known = 0 /\ heard = 0 /\ held = {}

-----------------------------------------------------------------------------
(* Building a snapshot *)

Stored(ring, size, next, num, mark) ==
    [i \in 0 .. size - 1 |->
        IF \E k \in next .. next + num - 1 : k % size = i THEN mark ELSE ring[i]]

\* The entities and players of one snapshot are put into the rings.
Stores(num, mark) ==
    /\ snapshotEntities' =
           Stored(snapshotEntities, RingSize, nextSnapshotEntities, num, mark)
    /\ nextSnapshotEntities' = nextSnapshotEntities + num
    /\ snapshotClients' =
           Stored(snapshotClients, ClientRing, nextSnapshotClients, Players, mark)
    /\ nextSnapshotClients' = nextSnapshotClients + Players

\* A zombie's frame is emptied, and keeps the rest of what was in the slot.  The game
\* runs (sv.state is SS_GAME), and no archived frame is shown.
BuildClientSnapshot(num) ==
    LET slot == Slot(outgoingSequence)
    IN  IF state = "ZOMBIE"
        THEN /\ num = 0
             /\ frames' = [frames EXCEPT ![slot].num_entities = 0, ![slot].num_clients = 0]
             /\ UNCHANGED rings
        ELSE /\ nextSnapshotEntities + num <= MaxEntries
             /\ frames' = [frames EXCEPT ![slot] =
                   [ps |-> outgoingSequence,
                    first_entity |-> nextSnapshotEntities, num_entities |-> num,
                    first_client |-> nextSnapshotClients, num_clients |-> Players]]
             /\ Stores(num, outgoingSequence)

-----------------------------------------------------------------------------
(* Writing it, after it was built *)

TooOld == outgoingSequence - deltaMessage >= Backup - Margin
\* Some of the entities were overwritten; of the players nothing is checked.
OutOfDate == frames'[Slot(deltaMessage)].first_entity < nextSnapshotEntities' - RingSize

\* The message the difference is taken to, None for a whole snapshot.
Base == IF deltaMessage < 1 \/ state # "ACTIVE" \/ TooOld \/ OutOfDate
        THEN None ELSE deltaMessage

Entities(frame) == [i \in 1 .. frame.num_entities |->
                      snapshotEntities'[(frame.first_entity + i - 1) % RingSize]]
Clients(frame) == [i \in 1 .. frame.num_clients |->
                     snapshotClients'[(frame.first_client + i - 1) % ClientRing]]

Nothing == [ps |-> 0, entities |-> <<>>, clients |-> <<>>]
\* What EmitPacketEntities and EmitPacketClients take the difference to.
From(base) == IF base = None THEN Nothing
              ELSE LET frame == frames'[Slot(base)]
                   IN  [ps |-> frame.ps, entities |-> Entities(frame),
                        clients |-> Clients(frame)]

Message(kind, base, num) ==
    [kind |-> kind, level |-> level, base |-> base, from |-> From(base), num |-> num]
Other == [kind |-> "other", level |-> level, base |-> None, from |-> Nothing, num |-> 0]

\* custom_SV_SendClientSnapshot: when the message overflows only the reliable
\* commands are sent; a client that is not in the world gets no snapshot.
SendClientSnapshot ==
    /\ outgoingSequence <= MaxSequence
    /\ IF state \in {"ACTIVE", "ZOMBIE"}
       THEN \E num \in 0 .. MaxEntities :
              /\ BuildClientSnapshot(num)
              /\ \/ down' = Append(down, Message("snapshot", Base, num))
                 \/ down' = Append(down, Other)
       ELSE down' = Append(down, Other) /\ UNCHANGED <<frames, rings>>
    /\ UNCHANGED <<level, state, deltaMessage, gamestateMessageNum, up, client>>

\* The snapshots of other clients.
OthersSnapshot ==
    /\ \E num \in 0 .. MaxEntities :
         nextSnapshotEntities + num <= MaxEntries /\ Stores(num, Others)
    /\ UNCHANGED <<level, state, down, deltaMessage, gamestateMessageNum, frames,
                   up, client>>

-----------------------------------------------------------------------------
(* What the client's messages and the levels change *)

SendClientGameState ==
    /\ outgoingSequence <= MaxSequence
    /\ state' = "PRIMED"
    /\ gamestateMessageNum' = outgoingSequence
    /\ down' = Append(down, [Other EXCEPT !.kind = "gamestate"])
    /\ UNCHANGED deltaMessage

ClientEnterWorld == state' = "ACTIVE" /\ deltaMessage' = -1

\* The first move puts the client into the world, a later one acknowledges.
UserMove(m) ==
    /\ IF state = "PRIMED" THEN ClientEnterWorld
       ELSE /\ deltaMessage' = (IF state = "ACTIVE" /\ m.delta THEN m.ack ELSE -1)
            /\ UNCHANGED state
    /\ UNCHANGED <<down, gamestateMessageNum>>

Ignored == UNCHANGED <<state, down, deltaMessage, gamestateMessageNum>>

ExecuteClientMessage(m) ==
    IF m.level = level THEN UserMove(m)
    ELSE IF gamestateMessageNum < m.ack THEN SendClientGameState
    ELSE Ignored

PacketEvent(i) ==
    /\ up' = SubSeq(up, i + 1, Len(up))
    /\ IF state = "ZOMBIE" THEN Ignored ELSE ExecuteClientMessage(up[i])
    /\ UNCHANGED <<level, frames, rings, client>>

\* The rings are allocated anew; the client's frames and deltaMessage stay.
SpawnServer ==
    /\ level < MaxLevel
    /\ level' = level + 1
    /\ nextSnapshotEntities' = 0 /\ snapshotEntities' = Empty(RingSize)
    /\ nextSnapshotClients' = 0 /\ snapshotClients' = Empty(ClientRing)
    /\ state' = IF state = "ZOMBIE" THEN state ELSE "CONNECTED"
    /\ UNCHANGED <<down, deltaMessage, gamestateMessageNum, frames, up, client>>

DropClient ==
    /\ state' = "ZOMBIE"
    /\ UNCHANGED <<level, down, deltaMessage, gamestateMessageNum, frames, rings,
                   up, client>>

-----------------------------------------------------------------------------
(* The client *)

\* It can read a snapshot when it has the one that is the base.
Reads(m) == m.kind = "snapshot" /\ (m.base = None \/ m.base \in held)

ClientReceives(n) ==
    /\ heard' = n
    /\ IF down[n].kind = "gamestate"
       THEN known' = down[n].level /\ held' = {}
       ELSE /\ held' = IF Reads(down[n]) THEN held \cup {n} ELSE held
            /\ UNCHANGED known
    /\ UNCHANGED <<level, state, down, deltaMessage, gamestateMessageNum, frames,
                   rings, up>>

\* A move asks for differences when the last message was a snapshot it read.
ClientSends ==
    /\ Len(up) < MaxMoves
    /\ up' = Append(up, [level |-> known, ack |-> heard, delta |-> heard \in held])
    /\ UNCHANGED <<level, state, down, deltaMessage, gamestateMessageNum, frames,
                   rings, client>>

Next == \/ SendClientSnapshot
        \/ OthersSnapshot
        \/ \E i \in DOMAIN up : PacketEvent(i)
        \/ SpawnServer
        \/ DropClient
        \/ \E n \in heard + 1 .. Len(down) : ClientReceives(n)
        \/ ClientSends

Spec == Init /\ [][Next]_vars

-----------------------------------------------------------------------------
(* Properties *)

\* The difference is taken to what the base was when it was sent: neither its
\* slot in frames nor one of its entities was written since, not even by other
\* clients' snapshots or by a map load, after which indices start again at 0.
BaseIntact ==
    \A n \in DOMAIN down : down[n].base # None =>
        LET b == down[n].base
        IN  /\ b \in 1 .. n - 1
            /\ down[b].kind = "snapshot"
            /\ down[n].from.ps = b
            /\ down[n].from.entities = [i \in 1 .. down[b].num |-> b]

\* Whatever is lost or late, a snapshot that reaches the client is one it can
\* read: it has the base, which no gamestate made it forget and which no newer
\* message replaced in its own ring of PACKET_BACKUP snapshots.
Readable ==
    \A n \in heard + 1 .. Len(down) : down[n].base # None =>
        /\ down[n].base \in held
        /\ n - down[n].base < Backup

\* The same for the players, of which custom_SV_WriteSnapshotToClient checks
\* nothing: it depends on the size of their ring.
PlayersIntact ==
    \A n \in DOMAIN down : down[n].base # None =>
        \A i \in DOMAIN down[n].from.clients : down[n].from.clients[i] = down[n].base
==============================================================================

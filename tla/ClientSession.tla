----------------------------- MODULE ClientSession -----------------------------
(***************************************************************************)
(* One client's connection after its connect was accepted, over map loads  *)
(* and fast restarts: the gamestate and the server id, the reliable        *)
(* commands of both sides, and the download of a level's file in blocks    *)
(* (src/code/libcod.cpp: custom_SV_PacketEvent,                            *)
(* custom_SV_ExecuteClientMessage, custom_SV_SendClientSnapshot,           *)
(* custom_SV_WriteDownloadToClient and what they call).                    *)
(*                                                                         *)
(* Messages travel as MessageChannel says, which Netchan implements: up    *)
(* and down hold what is under way, a message that arrives overtakes the   *)
(* older ones, any may be lost.  The client runs stock code; it is modelled*)
(* by what the server's handlers take from it and expect of it.            *)
(***************************************************************************)
EXTENDS Integers, Sequences

CONSTANTS Blocks,       \* data blocks of a file
          Window,       \* MAX_DOWNLOAD_WINDOW
          MaxReliable,  \* MAX_RELIABLE_COMMANDS
          MaxLevel,     \* bound: levels that are loaded
          MaxRestarts,  \* bound: fast restarts of one level
          Restartable,  \* bound: the levels that are restarted
          MaxChats,     \* bound: chat lines of the client
          WithFile,     \* the levels the client has to download a file for
          Capacity      \* bound: messages under way, in each direction

ASSUME SessionAssumption ==
    /\ {Blocks, Window, MaxReliable, MaxLevel, Capacity} \subseteq Nat \ {0}
    /\ {MaxRestarts, MaxChats} \subseteq Nat
    /\ {WithFile, Restartable} \subseteq SUBSET (1 .. MaxLevel)

VARIABLES
    level,      \* sv_serverId_value, its high and its low half
    restart,
    state,      \* cl->state
    submitted,  \* the server commands so far; reliableSequence is its length
    reliableAcknowledge,
    lastClientCommand,
    lastText,   \* lastClientCommandString
    download,   \* cl->download*
    down, up,   \* the messages under way
    full,       \* the ring of server commands was full at some time
    \* the client
    known,      \* the [level, restart] it has a gamestate of
    phase,      \* what it is at
    serverCommandSequence,
    heard,      \* the age of the message it received last
    issued,     \* the commands it issued so far
    acked,      \* how many of them the server acknowledged
    file        \* the blocks of the current download it accepted

server == <<level, restart, state, submitted, reliableAcknowledge,
            lastClientCommand, lastText, download, full>>
client == <<known, phase, serverCommandSequence, heard, issued, acked, file>>
vars == <<level, restart, state, submitted, reliableAcknowledge, lastClientCommand,
          lastText, download, full, down, up,
          known, phase, serverCommandSequence, heard, issued, acked, file>>

\* gamestateMessageNum < messageAcknowledge is all that message numbers are
\* compared for, so a message is known by its age: sent before the latest
\* gamestate, the gamestate itself, or sent after it.
Before == 0
Gamestate == 1
After == 2

NoBlock == [number |-> -1, data |-> <<>>]
Error == [number |-> 0, data |-> <<"error">>]
Eof == <<"eof">>
Data(name, n) == IF n < Blocks THEN <<name, n>> ELSE Eof

NoDownload == [name |-> 0, open |-> 0, current |-> 0, client |-> 0, xmit |-> 0,
               slot |-> [i \in 0 .. Window - 1 |-> <<>>]]

Lesser(a, b) == IF a < b THEN a ELSE b
Greater(a, b) == IF a > b THEN a ELSE b
\* Nothing ever waits for room: the oldest message is lost, and the newest one
\* as well when another is sent before it arrives.
Put(channel, m) == LET longer == Append(channel, m)
                   IN  IF Len(longer) > Capacity THEN Tail(longer) ELSE longer
Later(channel, i) == SubSeq(channel, i + 1, Len(channel))
Aged(channel) == [i \in DOMAIN channel |-> [channel[i] EXCEPT !.age = Before]]

reliableSequence == Len(submitted)
InWorld == state \in {"PRIMED", "ACTIVE"}

\* custom_SV_DirectConnect left the client connected, with no gamestate sent.
Init == /\ level = 1 /\ restart = 0
        /\ state = "CONNECTED"
        /\ submitted = <<>> /\ reliableAcknowledge = 0
        /\ lastClientCommand = 0 /\ lastText = "none"
        /\ download = NoDownload
        /\ down = <<>> /\ up = <<>>
        /\ full = FALSE
        /\ known = [level |-> 0, restart |-> 0]
        /\ phase = "connecting"
        /\ serverCommandSequence = 0 /\ heard = After
        /\ issued = <<>> /\ acked = 0
        /\ file = <<>>

-----------------------------------------------------------------------------
(* What the server sends *)

\* SV_UpdateServerCommandsToClientAsFits: the unacknowledged commands from the
\* first on, as many as fit.
Fitting == reliableAcknowledge .. reliableSequence

\* custom_SV_WriteDownloadToClient, the reading: the window ahead of the block
\* the client is at is filled, the empty block that ends the file included.
Opened(d) == IF d.open # 0 THEN d
             ELSE [d EXCEPT !.open = d.name, !.current = 0, !.client = 0, !.xmit = 0]
MutantFilled(d) ==  \* the window is taken for one block longer
    LET end == Greater(d.current, Lesser(d.client + Window + 1, Blocks + 1))
        read(i) == {n \in d.current .. end - 1 : n % Window = i}
    IN  [d EXCEPT !.current = end,
                  !.slot = [i \in 0 .. Window - 1 |->
                              IF read(i) = {} THEN d.slot[i]
                              ELSE Data(d.open, CHOOSE n \in read(i) : \A k \in read(i) : k <= n)]]
Filled(d) ==
    LET end == Greater(d.current, Lesser(d.client + Window, Blocks + 1))
        read(i) == {n \in d.current .. end - 1 : n % Window = i}
    IN  [d EXCEPT !.current = end,
                  !.slot = [i \in 0 .. Window - 1 |->
                              IF read(i) = {} THEN d.slot[i]
                              ELSE Data(d.open, CHOOSE n \in read(i) : TRUE)]]
Writing(d) == state # "ACTIVE" /\ d.name # 0

\* The outcomes [download, block, state] of the call: sv_downloadMessage instead of
\* the file; a file that cannot be sent; a block; the first of the window again after
\* a timeout; or nothing.  sv_downloadMessage is set or cleared while no file is
\* being sent, and a file that is open is read without errors.
SendsFrom(d, x) ==
    [download |-> [d EXCEPT !.xmit = x + 1],
     block |-> [number |-> x, data |-> d.slot[x % Window]], state |-> "CONNECTED"]
Silent(d, st) == [download |-> d, block |-> NoBlock, state |-> st]
Refused(d, st) == [download |-> [d EXCEPT !.name = 0], block |-> Error, state |-> st]
WriteDownload(d) ==
    LET f == Filled(Opened(d))
    IN  IF ~Writing(d) THEN {Silent(d, state)}
        ELSE (IF d.open = 0 THEN {Refused(d, state), Refused(d, "CONNECTED")} ELSE {})
             \cup (IF f.client = f.current THEN {Silent(f, "CONNECTED")}
                   ELSE IF f.xmit # f.current THEN {SendsFrom(f, f.xmit)}
                   ELSE {Silent(f, "CONNECTED"), SendsFrom(f, f.client)})

\* custom_SV_SendClientSnapshot, from a frame of custom_SV_SendClientMessages.  A
\* message that overflows is written again with commands only, as many as fit; one
\* that does not fit even so, which ends the client, is left out.
SendSnapshot ==
    /\ state # "ZOMBIE"
    /\ \E w \in WriteDownload(download),
          last \in IF state = "ACTIVE" THEN Fitting ELSE {reliableAcknowledge} :
         /\ download' = w.download
         /\ state' = w.state
         /\ down' = Put(down, [age |-> After, ack |-> lastClientCommand,
                               first |-> reliableAcknowledge, last |-> last,
                               gamestate |-> [level |-> 0, restart |-> 0],
                               block |-> w.block])
    /\ UNCHANGED <<level, restart, submitted, reliableAcknowledge, lastClientCommand,
                   lastText, full, up>>
    /\ UNCHANGED client

\* custom_SV_SendClientGameState: the message is the latest gamestate from now
\* on, and everything sent earlier is older than it.
GamestateMessage(ack, acknowledged) ==
    [age |-> Gamestate, ack |-> ack, first |-> acknowledged, last |-> reliableSequence,
     gamestate |-> [level |-> level, restart |-> restart], block |-> NoBlock]
SendsGamestate(ack, acknowledged, i) ==
    /\ down' = Put(Aged(down), GamestateMessage(ack, acknowledged))
    /\ up' = Aged(Later(up, i))
    /\ heard' = Before
SendsNothing(i) == up' = Later(up, i) /\ UNCHANGED <<down, heard>>

-----------------------------------------------------------------------------
(* What the server receives *)

\* SV_CloseDownload, and the commands "download", "nextdl" and "donedl".
Closed(d) == [d EXCEPT !.name = 0, !.open = 0]
MutantNextDownload(s, block) ==  \* the block sent last is expected
    IF block # s.download.xmit - 1 THEN [s EXCEPT !.state = "ZOMBIE"]
    ELSE IF s.download.slot[block % Window] = Eof
    THEN [s EXCEPT !.download = Closed(@)]
    ELSE [s EXCEPT !.download.client = @ + 1]
NextDownload(s, block) ==
    IF block # s.download.client THEN [s EXCEPT !.state = "ZOMBIE"]
    ELSE IF s.download.slot[block % Window] = Eof
    THEN [s EXCEPT !.download = Closed(@)]
    ELSE [s EXCEPT !.download.client = @ + 1]
BeginDownload(s, name) == [s EXCEPT !.download = [Closed(@) EXCEPT !.name = name]]
DoneDownload(s) == [s EXCEPT !.state = "PRIMED", !.offers = TRUE,
                             !.offeredAt = s.lastClientCommand]

Execute(s, c) == CASE c.text = "nextdl" -> NextDownload(s, c.argument)
                   [] c.text = "download" -> BeginDownload(s, c.argument)
                   [] c.text = "donedl" -> DoneDownload(s)
                   [] OTHER -> s

\* custom_SV_ClientCommand for the command with number n.
MutantClientCommand(s, n) ==  \* what flood protection ignores is not counted
    IF n # s.lastClientCommand + 1 \/ s.state \in {"ACTIVE", "ZOMBIE"} THEN s
    ELSE [Execute(s, issued[n]) EXCEPT !.lastClientCommand = n,
                                       !.lastText = issued[n].text]
ClientCommand(s, n) ==
    IF n <= s.lastClientCommand \/ s.state = "ZOMBIE" THEN s
    ELSE IF n = s.lastClientCommand + 1
    THEN [Execute(s, issued[n]) EXCEPT !.lastClientCommand = n,
                                       !.lastText = issued[n].text]
    ELSE [s EXCEPT !.state = "ZOMBIE"]

\* The commands of a message, one after the other.
Received == [state |-> state, download |-> download, lastText |-> lastText,
             lastClientCommand |-> lastClientCommand, offers |-> FALSE, offeredAt |-> 0]
ClientCommands(m) ==
    LET after[n \in m.first .. m.last] ==
            IF n = m.first THEN Received ELSE ClientCommand(after[n - 1], n)
    IN  after[m.last]

MutantOutOfRange(m) ==  \* off by one
    reliableSequence - m.reliable >= MaxReliable - 1
OutOfRange(m) == reliableSequence - m.reliable > MaxReliable - 1

\* custom_SV_PacketEvent: an acknowledgement out of range is taken for "all of
\* them", and the rest of the message is not read.
Ignored(i) == /\ OutOfRange(up[i])
              /\ reliableAcknowledge' = reliableSequence
              /\ SendsNothing(i)
              /\ UNCHANGED <<state, download, lastText, lastClientCommand>>

SameLevel(m) == m.known.level = level
SameServerId(m) == SameLevel(m) /\ m.known.restart = restart

\* custom_SV_ExecuteClientMessage: the first branch also takes the messages of
\* a client that downloads, or that told of its last block just now.
MutantCurrent(m) == SameServerId(m)  \* without the fix for downloads
Current(m) == \/ SameServerId(m)
              \/ download.name # 0
              \/ lastText \in {"nextdl", "say_nextdl"}

\* A move makes a primed client enter the world (SV_UserMove).
Entered(s, m) == IF m.move /\ s.state = "PRIMED" THEN "ACTIVE" ELSE s.state

Executed(i) == /\ Current(up[i])
               /\ LET s == ClientCommands(up[i])
                  IN  /\ state' = Entered(s, up[i])
                      /\ download' = s.download
                      /\ lastText' = s.lastText
                      /\ lastClientCommand' = s.lastClientCommand
                      /\ IF s.offers THEN SendsGamestate(s.offeredAt, up[i].reliable, i)
                         ELSE SendsNothing(i)

\* Of a client that missed a fast restart only this much is read.
EnterWorld(i) == /\ ~Current(up[i])
                 /\ SameLevel(up[i])
                 /\ state' = IF state = "PRIMED" THEN "ACTIVE" ELSE state
                 /\ SendsNothing(i)
                 /\ UNCHANGED <<download, lastText, lastClientCommand>>

\* A client of another level gets the gamestate, again if it has heard of a
\* later message and so must have lost it.
Offered(i) == /\ ~Current(up[i])
              /\ ~SameLevel(up[i])
              /\ IF up[i].age = After
                 THEN /\ SendsGamestate(lastClientCommand, up[i].reliable, i)
                      /\ state' = "PRIMED"
                 ELSE SendsNothing(i) /\ UNCHANGED state
              /\ UNCHANGED <<download, lastText, lastClientCommand>>

ExecuteClientMessage(i) == /\ ~OutOfRange(up[i])
                           /\ reliableAcknowledge' = up[i].reliable
                           /\ \/ Executed(i)
                              \/ EnterWorld(i)
                              \/ Offered(i)

PacketEvent(i) ==
    /\ state # "ZOMBIE"
    /\ Ignored(i) \/ ExecuteClientMessage(i)
    /\ UNCHANGED <<level, restart, submitted, full>>
    /\ UNCHANGED <<known, phase, serverCommandSequence, issued, acked, file>>

-----------------------------------------------------------------------------
(* The game *)

\* custom_SV_SendServerCommand to everyone: only who has a gamestate gets it.
\* SV_AddServerCommand drops a client that is behind by more than the ring;
\* the model stops at the ring.
SendServerCommand(c) ==
    IF InWorld
    THEN /\ reliableSequence - reliableAcknowledge < MaxReliable
         /\ submitted' = Append(submitted, c)
         /\ full' = (full \/ Len(submitted') - reliableAcknowledge >= MaxReliable)
    ELSE UNCHANGED <<submitted, full>>

\* custom_SV_SpawnServer, for a client that is let in again.
MutantSpawnServer ==  \* the clients stay in the world
    /\ level < MaxLevel
    /\ state # "ZOMBIE"
    /\ level' = level + 1
    /\ restart' = 0
    /\ UNCHANGED <<state, submitted, reliableAcknowledge, lastClientCommand, lastText,
                   download, full, down, up>>
    /\ UNCHANGED client
SpawnServer ==
    /\ level < MaxLevel
    /\ state # "ZOMBIE"
    /\ level' = level + 1
    /\ restart' = 0
    /\ state' = "CONNECTED"
    /\ UNCHANGED <<submitted, reliableAcknowledge, lastClientCommand, lastText,
                   download, full, down, up>>
    /\ UNCHANGED client

\* A fast restart changes the low half of the server id, and tells everyone by
\* a server command.
MapRestart ==
    /\ restart < MaxRestarts /\ level \in Restartable
    /\ restart' = restart + 1
    /\ SendServerCommand([level |-> level, restart |-> restart + 1])
    /\ UNCHANGED <<level, state, reliableAcknowledge, lastClientCommand, lastText,
                   download, down, up>>
    /\ UNCHANGED client

-----------------------------------------------------------------------------
(* The client (stock code) *)

Command(text, argument) == [text |-> text, argument |-> argument]

ClientSends ==
    /\ phase # "gone"
    /\ up' = Put(up, [age |-> heard, known |-> known, reliable |-> serverCommandSequence,
                      first |-> acked, last |-> Len(issued),
                      move |-> phase = "playing"])
    /\ UNCHANGED server
    /\ UNCHANGED <<down, known, phase, serverCommandSequence, heard, issued, acked, file>>

\* A chat line with "nextdl" in it: "say_nextdl".
Chats == Len(SelectSeq(issued, LAMBDA c : c.text = "say_nextdl"))
Chat == /\ phase = "playing"
        /\ Chats < MaxChats
        /\ issued' = Append(issued, Command("say_nextdl", 0))
        /\ UNCHANGED server
        /\ UNCHANGED <<down, up, known, phase, serverCommandSequence, heard, acked, file>>

\* The last command of the message tells it which restart it is in.
Tells(m) == m.last > serverCommandSequence

\* It has the file of the level it is at, unless it is still getting it.
Has(l) == known.level = l /\ phase \in {"waiting", "playing"}

TakesGamestate(m) ==
    /\ m.gamestate.level # 0
    /\ known' = m.gamestate
    /\ file' = <<>>
    /\ IF m.gamestate.level \in WithFile /\ ~Has(m.gamestate.level)
       THEN /\ phase' = "downloading"
            /\ issued' = Append(issued, Command("download", m.gamestate.level))
       ELSE /\ phase' = "playing"
            /\ UNCHANGED issued

Expected(m) == /\ phase = "downloading"
               /\ m.block.number = Len(file)
TakesBlock(m) ==
    /\ m.gamestate.level = 0
    /\ Expected(m)
    /\ m.block # Error
    /\ file' = Append(file, m.block.data)
    /\ LET acknowledged == Append(issued, Command("nextdl", m.block.number))
       IN  IF m.block.data = Eof
           THEN phase' = "waiting" /\ issued' = Append(acknowledged, Command("donedl", 0))
           ELSE phase' = "downloading" /\ issued' = acknowledged
    /\ UNCHANGED known

TakesError(m) == /\ m.gamestate.level = 0
                 /\ Expected(m)
                 /\ m.block = Error
                 /\ phase' = "gone"
                 /\ UNCHANGED <<known, issued, file>>

TakesSnapshot(m) ==
    /\ m.gamestate.level = 0
    /\ ~Expected(m)
    /\ known' = IF phase = "playing" /\ Tells(m) THEN submitted[m.last] ELSE known
    /\ UNCHANGED <<phase, issued, file>>

ClientReceives(i) ==
    /\ phase # "gone"
    /\ down' = Later(down, i)
    /\ heard' = down[i].age
    /\ acked' = Greater(acked, down[i].ack)
    /\ serverCommandSequence' = Greater(serverCommandSequence, down[i].last)
    /\ \/ TakesGamestate(down[i])
       \/ TakesBlock(down[i])
       \/ TakesError(down[i])
       \/ TakesSnapshot(down[i])
    /\ UNCHANGED server
    /\ UNCHANGED up

-----------------------------------------------------------------------------
Next == \/ SendSnapshot
        \/ \E i \in DOMAIN up : PacketEvent(i)
        \/ \E i \in DOMAIN down : ClientReceives(i)
        \/ SpawnServer \/ MapRestart
        \/ ClientSends \/ Chat

Spec == Init /\ [][Next]_vars

\* The server sends a message in every frame that the rate leaves room in, the
\* client in each of its own; a block is sent again after the timeout, and not
\* every snapshot is too large for a command.  Of the messages that are sent
\* again and again some arrive, with what is new to the receiver in them.
SendNews == /\ SendSnapshot
            /\ LET m == down'[Len(down')]
               IN  m.block # NoBlock \/ m.last > reliableAcknowledge
News(m) == m.gamestate.level # 0 \/ Expected(m) \/ Tells(m)
FairSpec ==
    /\ Spec
    /\ WF_vars(SendSnapshot) /\ WF_vars(ClientSends) /\ SF_vars(SendNews)
    /\ SF_vars(\E i \in DOMAIN up : PacketEvent(i))
    /\ SF_vars(\E i \in DOMAIN down : ClientReceives(i))
    /\ SF_vars(\E i \in DOMAIN down : News(down[i]) /\ ClientReceives(i))

-----------------------------------------------------------------------------
(* Properties *)

\* A client that keeps to the protocol is never dropped, whatever is lost and
\* whatever the server loads: not for lost commands (custom_SV_ClientCommand),
\* not for a block the server does not expect (custom_SV_NextDownload_f).
NeverDropped == state # "ZOMBIE"

\* The blocks the client accepts are the file of its level, in order: although
\* a block that is sent again after the acknowledgement of a later one is read
\* from a slot of the window that holds newer data.
FileIntact == \A n \in DOMAIN file : file[n] = Data(known.level, n - 1)

\* A download comes through: neither cut short by a drop nor mixed up.
DownloadSound == NeverDropped /\ FileIntact

\* No server command is skipped on its way to the client, and none that it
\* lacks counts as acknowledged: only once the ring was full the server may
\* take a late acknowledgement for "all of them".
NoCommandSkipped ==
    \/ full
    \/ /\ reliableAcknowledge <= serverCommandSequence
       /\ \A i \in DOMAIN down :
            down[i].gamestate.level = 0 /\ down[i].last > down[i].first
            => down[i].first <= serverCommandSequence

\* In the world is only who has the gamestate of the level that runs: not one
\* whose moves of the level before arrive late.
InWorldOfItsLevel == state = "ACTIVE" => known.level = level

\* custom_SV_WriteDownloadToClient sends nothing to a client in the world: "At
\* this point, all relevant downloads should have been processed already".
DownloadsBeforeWorld == state = "ACTIVE" => phase # "downloading"

\* What may keep a client waiting: the file was refused (it is told only once, in a
\* message that may be lost), the ring was full, or the last command it sent was a
\* chat line that reads "nextdl"; or its request for the file of an earlier level was
\* executed late, and it answers none of those blocks.
Refusal == download.name = 0 /\ lastText = "download"
Stale == download.name # 0 /\ phase = "playing"
Else == phase = "gone" \/ Refusal \/ full \/ lastText = "say_nextdl"
Excused == Stale \/ Else

\* No client gets stuck when the map is loaded, in the middle of its download
\* or else: it gets the gamestate of the new level, and a download ends, unless
\* a fast restart put the client in the world before its request came.
NeverStuck ==
    /\ known.level < level ~> (known.level = level \/ Excused)
    /\ phase = "downloading" ~>
         (phase # "downloading" \/ state = "ACTIVE" \/ Excused)

\* custom_SV_ExecuteClientMessage's comment, "Fix for clients getting stuck in the
\* file download process if the server executes a map load while downloading is
\* still in progress": it leaves the late request above.
MapLoadReaches == known.level < level ~> (known.level = level \/ Else)

\* added_dvars.md on sv_downloadMessage: who attempts to download a file is
\* "disconnected from the server, with the specified message displayed".  The refusal
\* is told once, and a client that does not get it waits for its file.
RefusalTold == Refusal /\ phase = "downloading" ~> phase # "downloading"

\* Every command the client issued is executed at last, although the server
\* reads none of a message that belongs to another level or restart.
CommandsExecuted ==
    lastClientCommand < Len(issued) ~>
        \/ lastClientCommand = Len(issued)
        \/ state = "ACTIVE" /\ phase = "downloading"
        \/ Excused
===============================================================================

-------------------------- MODULE WebSocketClient --------------------------
(* The WebSocket half of src/code/http_websocket_client.hpp: scripts open, use  *)
(* and close connections by slot id, lws reports what happens to them, and      *)
(* poll() runs the script callbacks from a queue, once per server frame.        *)
(*                                                                            *)
(* Everything runs on the game thread. What makes it hard is the order: a       *)
(* callback may open, close or change the level while older events still wait   *)
(* in the queue, and the queue may outlast the frame's byte budget.             *)
(*                                                                            *)
(* Abstractions: a Ws object is a number, in the order of their creation; an    *)
(* event is its socket and kind; bytes are counted in messages; a deadline may   *)
(* have passed whenever timers() looks. libwebsockets is external: it tries to   *)
(* connect, reports, and destroys a connection last of all.                      *)
EXTENDS Naturals, Integers, Sequences, FiniteSets

CONSTANTS
    SlotCount,   \* LWS_MAX_WEBSOCKETS
    MaxOpens,    \* bound of the model: Ws objects created
    MaxLevels,   \* bound: level changes
    MaxEvents,   \* bound: events left over at the end of a frame, or queued before a message
    RxQueueMax,  \* RX_QUEUE_MAX, in messages
    Reconnecting,\* whether scripts ask for a reconnect: a subset of BOOLEAN
    Pinging      \* whether scripts ask for pings: a subset of BOOLEAN

ASSUME BoundsAssumption ==
    /\ SlotCount \in Nat \ {0} /\ MaxOpens \in Nat \ {0}
    /\ MaxLevels \in Nat /\ MaxEvents \in Nat /\ RxQueueMax \in Nat
    /\ Reconnecting \subseteq BOOLEAN /\ Pinging \subseteq BOOLEAN

Socks == 1..MaxOpens
Slots == 0..(SlotCount - 1)

VARIABLES
    phase,    \* "script", or the part of poll(): "service", "timers", "deliver",
              \* "callback" (a script callback runs), "reap"; "gone" after quit
    turn,     \* the Ws that timers() looks at next
    ws,       \* the Ws objects
    slots,    \* script ids: the number of a Ws, 0 when free
    created,  \* Ws objects created so far
    events,   \* the event queue
    rxCount,  \* ws_rx_bytes
    level,    \* level changes so far
    quitting,
    heard     \* history: what the script of each Ws knows from its callbacks

vars == <<phase, turn, ws, slots, created, events, rxCount, level, quitting, heard>>

\* conn stands for live, wsi and connected: "none", "connecting", "connected".
NewWs == [st |-> "new", conn |-> "none", killed |-> FALSE, err |-> FALSE,
          closing |-> FALSE, detached |-> FALSE, finished |-> FALSE,
          reconnect |-> FALSE, ping |-> FALSE, waiting |-> FALSE, sendq |-> 0, wantClose |-> FALSE,
          closeDeadline |-> FALSE, pong |-> "no", born |-> 0]

Init ==
    /\ phase = "script" /\ turn = 1
    /\ ws = [k \in Socks |-> NewWs]
    /\ slots = [i \in Slots |-> 0]
    /\ created = 0 /\ events = <<>> /\ rxCount = 0 /\ level = 0
    /\ quitting = FALSE
    /\ heard = [k \in Socks |-> "new"]

EventKinds == {"open", "message", "error", "dropped", "closed", "closedByRemote"}
Ev(k, kind) == [sock |-> k, kind |-> kind]
Alive(k) == ws[k].st = "used"
Freed(k) == [NewWs EXCEPT !.st = "freed", !.born = ws[k].born]
ScriptRuns == phase \in {"script", "callback"} /\ ~quitting

Messages(evs) == Cardinality({n \in 1..Len(evs) : evs[n].kind = "message"})

\* queue()
Queue(evs) ==
    IF quitting THEN UNCHANGED <<events, rxCount>>
    ELSE /\ events' = events \o evs
         /\ rxCount' = rxCount + Messages(evs)

-----------------------------------------------------------------------------
(* ended() and ws_ended(): the wsi is gone. *)

MutantReconnects(w) == w.reconnect  \* closing is not looked at
Reconnects(w) == w.reconnect /\ ~w.closing

EndedWs(w) ==
    [w EXCEPT !.conn = "none", !.sendq = 0, !.wantClose = FALSE, !.pong = "no",
              !.err = FALSE, !.waiting = Reconnects(w),
              !.finished = w.finished \/ ~Reconnects(w)]

MutantTellsError(w) == w.err  \* also while closing
TellsError(w) == w.err /\ ~w.closing
\* byRemote is ~closing /\ ~killed, fullyDisconnected is finished.
CloseKind(w) ==
    IF Reconnects(w) THEN "dropped"
    ELSE IF ~w.closing /\ ~w.killed THEN "closedByRemote" ELSE "closed"
MutantEndedEvents(k, w) ==  \* the close is told before its error
    IF w.detached THEN <<>>
    ELSE (IF w.conn = "connected" THEN <<Ev(k, CloseKind(w))>> ELSE <<>>)
         \o (IF TellsError(w) THEN <<Ev(k, "error")>> ELSE <<>>)
EndedEvents(k, w) ==
    IF w.detached THEN <<>>
    ELSE (IF TellsError(w) THEN <<Ev(k, "error")>> ELSE <<>>)
         \o (IF w.conn = "connected" THEN <<Ev(k, CloseKind(w))>> ELSE <<>>)
Ended(k, w) == /\ ws' = [ws EXCEPT ![k] = EndedWs(w)]
               /\ Queue(EndedEvents(k, w))

\* connect(): lws takes the connection or fails at once, WSI_DESTROY included.
Connect(k, w) ==
    LET c == [w EXCEPT !.conn = "connecting", !.killed = FALSE, !.waiting = FALSE]
    IN  \/ ws' = [ws EXCEPT ![k] = c] /\ UNCHANGED <<events, rxCount>>
        \/ Ended(k, [c EXCEPT !.err = TRUE])

\* kill(): lws closes the wsi at a later service.
Killed(w, why) ==
    IF w.conn = "none" \/ w.killed THEN w
    ELSE [w EXCEPT !.killed = TRUE, !.err = w.err \/ why]

MutantShutFinishes(w) ==  \* finished at once, whatever lws still holds
    LET c == [w EXCEPT !.closing = TRUE]
    IN  CASE w.conn = "none"       -> [c EXCEPT !.finished = TRUE]
          [] w.conn = "connected"  -> [c EXCEPT !.wantClose = TRUE,
                                                !.closeDeadline = TRUE]
          [] w.conn = "connecting" -> [Killed(c, FALSE) EXCEPT !.finished = TRUE]

MutantShut(w) ==  \* no deadline for the close frame
    LET c == [w EXCEPT !.closing = TRUE]
    IN  CASE w.conn = "none"       -> [c EXCEPT !.finished = TRUE]
          [] w.conn = "connected"  -> [c EXCEPT !.wantClose = TRUE]
          [] w.conn = "connecting" -> Killed(c, FALSE)

\* ws_shut()
Shut(w) ==
    LET c == [w EXCEPT !.closing = TRUE]
    IN  CASE w.conn = "none"       -> [c EXCEPT !.finished = TRUE]
          [] w.conn = "connected"  -> [c EXCEPT !.wantClose = TRUE,
                                                !.closeDeadline = TRUE]
          [] w.conn = "connecting" -> Killed(c, FALSE)

-----------------------------------------------------------------------------
(* The script functions, and the game's level change and quit. *)

MutantFreeSlots == Slots  \* slots in use are not skipped
FreeSlots == {i \in Slots : slots[i] = 0}

\* webSocketConnect: the lowest free slot. An invalid URL or header ends at once.
WsOpen(reconnect, ping) ==
    LET k == created + 1
        i == CHOOSE s \in FreeSlots : \A r \in FreeSlots : s <= r
        w == [NewWs EXCEPT !.st = "used", !.reconnect = reconnect,
                            !.ping = ping, !.born = level]
    IN  /\ ScriptRuns /\ created < MaxOpens /\ FreeSlots # {}
        /\ created' = k /\ slots' = [slots EXCEPT ![i] = k]
        /\ \/ Connect(k, w)
           \/ Ended(k, [w EXCEPT !.reconnect = FALSE, !.err = TRUE])
        /\ UNCHANGED <<phase, turn, level, quitting, heard>>

\* webSocketSendText to a connected socket with room in its queue.
WsSend(i) ==
    /\ ScriptRuns /\ slots[i] # 0
    /\ LET k == slots[i]
       IN  /\ ws[k].conn = "connected" /\ ~ws[k].closing /\ ws[k].sendq = 0
           /\ ws' = [ws EXCEPT ![k].sendq = 1]
    /\ UNCHANGED <<phase, turn, slots, created, events, rxCount, level, quitting, heard>>

\* webSocketClose
WsClose(i) ==
    /\ ScriptRuns /\ slots[i] # 0
    /\ ws' = [ws EXCEPT ![slots[i]] = Shut(@)]
    /\ UNCHANGED <<phase, turn, slots, created, events, rxCount, level, quitting, heard>>

Slotted == {k \in Socks : \E i \in Slots : slots[i] = k}

MutantDropAll ==  \* the byte count survives the events
    /\ events' = <<>> /\ UNCHANGED rxCount
    /\ ws' = [k \in Socks |-> IF k \in Slotted
                              THEN Shut([ws[k] EXCEPT !.detached = TRUE]) ELSE ws[k]]
    /\ slots' = [i \in Slots |-> 0]
MutantDropSlots ==  \* the sockets still report
    /\ events' = <<>> /\ rxCount' = 0
    /\ ws' = [k \in Socks |-> IF k \in Slotted THEN Shut(ws[k]) ELSE ws[k]]
    /\ slots' = [i \in Slots |-> 0]
\* level_changed()
DropAll ==
    /\ events' = <<>> /\ rxCount' = 0
    /\ ws' = [k \in Socks |-> IF k \in Slotted
                              THEN Shut([ws[k] EXCEPT !.detached = TRUE]) ELSE ws[k]]
    /\ slots' = [i \in Slots |-> 0]

LevelChanged ==
    /\ ScriptRuns /\ level < MaxLevels
    /\ level' = level + 1 /\ DropAll
    /\ UNCHANGED <<phase, turn, created, quitting, heard>>

\* shutdown(): the level ends, then up to 100 more frames for the close frames ...
Shutdown ==
    /\ phase = "script" /\ ~quitting
    /\ quitting' = TRUE /\ DropAll
    /\ UNCHANGED <<phase, turn, created, level, heard>>
\* ... and everything is freed.
Destroy ==
    /\ phase = "script" /\ quitting
    /\ phase' = "gone" /\ events' = <<>>
    /\ ws' = [k \in Socks |-> IF Alive(k) THEN Freed(k) ELSE ws[k]]
    /\ UNCHANGED <<turn, slots, created, rxCount, level, quitting, heard>>

-----------------------------------------------------------------------------
(* poll(): lws_service() *)

Poll ==
    /\ phase = "script" /\ phase' = "service"
    /\ UNCHANGED <<turn, ws, slots, created, events, rxCount, level, quitting, heard>>

InService(k) == phase = "service" /\ Alive(k)
ServiceUnchanged == UNCHANGED <<phase, turn, slots, created, level, quitting, heard>>

\* LWS_CALLBACK_CLIENT_ESTABLISHED; closed during the handshake, it is refused and
\* lws ends the connection.
Established(k) ==
    /\ InService(k) /\ ws[k].conn = "connecting" /\ ~ws[k].closing
    /\ ws' = [ws EXCEPT ![k].conn = "connected"]
    /\ Queue(IF ws[k].detached THEN <<>> ELSE <<Ev(k, "open")>>)
    /\ ServiceUnchanged

\* LWS_CALLBACK_CLIENT_RECEIVE of the last fragment of a text message.
Receive(k) ==
    /\ InService(k) /\ ws[k].conn = "connected" /\ Len(events) <= MaxEvents
    /\ Queue(IF ws[k].detached THEN <<>> ELSE <<Ev(k, "message")>>)
    /\ ws' = IF rxCount' > RxQueueMax THEN [ws EXCEPT ![k] = Killed(@, TRUE)] ELSE ws
    /\ ServiceUnchanged

ReceivePong(k) ==
    /\ InService(k) /\ ws[k].conn = "connected" /\ ws[k].pong = "wait"
    /\ ws' = [ws EXCEPT ![k].pong = "no"]
    /\ UNCHANGED <<events, rxCount>> /\ ServiceUnchanged

\* LWS_CALLBACK_CLIENT_WRITEABLE: one text frame, or the ping, or the close frame,
\* after which lws ends the connection.
Writeable(k) ==
    /\ InService(k) /\ ws[k].conn = "connected"
    /\ \/ /\ ws[k].sendq > 0
          /\ ws' = [ws EXCEPT ![k].sendq = 0] /\ UNCHANGED <<events, rxCount>>
       \/ /\ ws[k].sendq = 0 /\ ws[k].pong = "want"
          /\ ws' = [ws EXCEPT ![k].pong = "wait"] /\ UNCHANGED <<events, rxCount>>
       \/ /\ ws[k].sendq = 0 /\ ws[k].pong # "want" /\ ws[k].wantClose
          /\ ws' = [ws EXCEPT ![k].wantClose = FALSE] /\ UNCHANGED <<events, rxCount>>
    /\ ServiceUnchanged

\* LWS_CALLBACK_WSI_DESTROY: lws, the peer or the network ended the connection; an
\* attempt to connect may end with LWS_CALLBACK_CLIENT_CONNECTION_ERROR before ...
ConnectionLost(k) ==
    /\ InService(k) /\ ws[k].conn # "none"
    /\ \/ Ended(k, ws[k])
       \/ ws[k].conn = "connecting" /\ Ended(k, [ws[k] EXCEPT !.err = TRUE])
    /\ ServiceUnchanged
\* ... or kill() asked for it.
KillServed(k) ==
    /\ InService(k) /\ ws[k].conn # "none" /\ ws[k].killed
    /\ Ended(k, ws[k])
    /\ ServiceUnchanged

Serviced ==
    /\ phase = "service" /\ phase' = "timers"
    /\ UNCHANGED <<turn, ws, slots, created, events, rxCount, level, quitting, heard>>

-----------------------------------------------------------------------------
(* poll(): timers() *)

\* Its turn: at most one of these happens to a Ws in a frame ...
InTimers(k) == phase = "timers" /\ turn = k /\ k <= created
TurnOver == /\ turn' = turn + 1
            /\ UNCHANGED <<phase, slots, created, level, quitting, heard>>

CloseTimeout(k) ==
    /\ InTimers(k) /\ ws[k].conn # "none" /\ ws[k].closeDeadline
    /\ ws' = [ws EXCEPT ![k] = Killed(@, FALSE)]
    /\ UNCHANGED <<events, rxCount>> /\ TurnOver
ConnectTimeout(k) ==
    /\ InTimers(k) /\ ws[k].conn = "connecting"
    /\ ws' = [ws EXCEPT ![k] = Killed(@, TRUE)]
    /\ UNCHANGED <<events, rxCount>> /\ TurnOver
PingTimer(k) ==
    /\ InTimers(k) /\ ws[k].conn = "connected"
    /\ \/ /\ ws[k].pong = "wait"
          /\ ws' = [ws EXCEPT ![k] = Killed(@, TRUE)]
       \/ /\ ws[k].ping /\ ws[k].pong # "wait" /\ ~ws[k].closing
          /\ ws' = [ws EXCEPT ![k].pong = "want"]
    /\ UNCHANGED <<events, rxCount>> /\ TurnOver
Reconnect(k) ==
    /\ InTimers(k) /\ ws[k].conn = "none" /\ Alive(k)
    /\ ~ws[k].finished /\ ws[k].waiting
    /\ Connect(k, ws[k])
    /\ TurnOver
\* ... or no deadline of it has passed.
NotDue(k) ==
    /\ InTimers(k)
    /\ UNCHANGED <<ws, events, rxCount>> /\ TurnOver
TimersDone ==
    /\ phase = "timers" /\ turn > created
    /\ phase' = "deliver" /\ turn' = 1
    /\ UNCHANGED <<ws, slots, created, events, rxCount, level, quitting, heard>>

-----------------------------------------------------------------------------
(* poll(): deliver() and reap() *)

\* What a script that kept to the documented order of callbacks would make of one.
Learns(state, kind) ==
    CASE kind = "open" /\ state \in {"new", "down"}              -> "open"
      [] kind = "message" /\ state = "open"                       -> "open"
      [] kind = "error" /\ state \in {"new", "down"}             -> "down"
      [] kind = "error" /\ state = "open"                         -> "failed"
      [] kind = "dropped" /\ state \in {"open", "failed"}        -> "down"
      [] kind \in {"closed", "closedByRemote"}
                       /\ state \in {"open", "failed"}           -> "over"
      [] OTHER                                                    -> "confused"

MutantRxAfter(e) == rxCount - 1  \* whatever the event
RxAfter(e) == IF e.kind = "message" THEN rxCount - 1 ELSE rxCount

\* The next event's script callback starts, and may call the script functions.
Deliver ==
    LET e == Head(events)
    IN  /\ phase = "deliver" /\ events # <<>> /\ e.kind \in EventKinds
        /\ events' = Tail(events)
        /\ rxCount' = RxAfter(e)
        /\ heard' = [heard EXCEPT ![e.sock] = Learns(@, e.kind)]
        /\ phase' = "callback"
        /\ UNCHANGED <<turn, ws, slots, created, level, quitting>>
\* It returns; the frame's budget allows another event ...
CallbackDone ==
    /\ phase = "callback" /\ phase' = "deliver"
    /\ UNCHANGED <<turn, ws, slots, created, events, rxCount, level, quitting, heard>>
\* ... or it does not, or there is none.
DeliverDone ==
    /\ \/ phase = "callback" /\ Len(events) <= MaxEvents
       \/ phase = "deliver" /\ events = <<>>
    /\ phase' = "reap"
    /\ UNCHANGED <<turn, ws, slots, created, events, rxCount, level, quitting, heard>>

Reapable(k) == Alive(k) /\ ws[k].conn = "none" /\ ws[k].finished
Reap ==
    /\ phase = "reap" /\ phase' = "script"
    /\ slots' = [i \in Slots |-> IF slots[i] # 0 /\ Reapable(slots[i]) THEN 0
                                 ELSE slots[i]]
    /\ ws' = [k \in Socks |-> IF Reapable(k) THEN Freed(k) ELSE ws[k]]
    /\ UNCHANGED <<turn, created, events, rxCount, level, quitting, heard>>

-----------------------------------------------------------------------------
Script == \/ \E r \in Reconnecting, p \in Pinging : WsOpen(r, p)
          \/ \E i \in Slots : WsSend(i) \/ WsClose(i)
          \/ LevelChanged \/ Shutdown
Lws(k) == \/ Established(k) \/ Receive(k) \/ ReceivePong(k) \/ Writeable(k)
          \/ ConnectionLost(k) \/ KillServed(k)
Timers(k) == CloseTimeout(k) \/ ConnectTimeout(k) \/ PingTimer(k) \/ Reconnect(k)
             \/ NotDue(k)
Frame == Poll \/ Serviced \/ TimersDone \/ Deliver \/ CallbackDone \/ DeliverDone \/ Reap
Next == Script \/ Destroy \/ Frame \/ \E k \in Socks : Lws(k) \/ Timers(k)
Spec == Init /\ [][Next]_vars

\* Frames follow each other, lws destroys what kill() asked it to, and a close
\* deadline passes. The peer, the network and the scripts owe nothing.
FairSpec == /\ Spec /\ WF_vars(Frame)
            /\ \A k \in Socks : /\ WF_vars(Timers(k)) /\ SF_vars(KillServed(k))
                               /\ SF_vars(CloseTimeout(k))

-----------------------------------------------------------------------------
TypeOK ==
    /\ phase \in {"script", "service", "timers", "deliver", "callback", "reap", "gone"}
    /\ turn \in 1..(MaxOpens + 1)
    /\ ws \in [Socks -> [st : {"new", "used", "freed"},
                        conn : {"none", "connecting", "connected"},
                        killed : BOOLEAN, err : BOOLEAN, closing : BOOLEAN,
                        detached : BOOLEAN, finished : BOOLEAN, reconnect : BOOLEAN,
                        ping : BOOLEAN, waiting : BOOLEAN, sendq : 0..1, wantClose : BOOLEAN,
                        closeDeadline : BOOLEAN, pong : {"no", "want", "wait"},
                        born : 0..MaxLevels]]
    /\ slots \in [Slots -> 0..MaxOpens] /\ created \in 0..MaxOpens
    /\ events \in Seq([sock : Socks, kind : EventKinds])
    /\ rxCount \in Nat /\ level \in 0..MaxLevels /\ quitting \in BOOLEAN
    /\ heard \in [Socks -> {"new", "open", "failed", "down", "over", "confused"}]

\* However callbacks, drops and reconnects interleave, a script hears of each
\* connection in order: messages only between onConnect and onClose, one onClose
\* per onConnect, and nothing after the onClose that says fullyDisconnected.
HeardInOrder == \A k \in Socks : heard[k] # "confused"

\* No event of a socket opened in an earlier level waits to be delivered: the
\* script handles it carries are dead.
OldLevelSilent ==
    \A n \in 1..Len(events) :
        events[n].kind \in EventKinds => ws[events[n].sock].born = level

\* ws_rx_bytes counts the undelivered messages and nothing else: a count left too
\* high would kill quiet sockets, one too low lets the queue grow.
RxAccounted == phase # "gone" => rxCount = Messages(events)

\* A script id means one live socket of this level, and each of those has an id.
SlotOwned ==
    /\ \A i, j \in Slots : slots[i] # 0 /\ slots[i] = slots[j] => i = j
    /\ \A k \in Socks : k \in Slotted <=> Alive(k) /\ ~ws[k].detached

\* finished, on which reap() frees, is never set while lws can still call back.
FinishedIsDead == \A k \in Socks : ws[k].finished => ws[k].conn = "none"

\* Once a script or the level closed a socket it is never connected again, not even
\* when the close came while it waited to reconnect.
ClosedNeverReconnects ==
    [][\A k \in Socks :
         ws[k].closing /\ ws[k].conn = "none" => ws'[k].conn = "none"]_vars

\* A closed socket is freed in the end, and its slot with it, although the peer
\* stopped reading and the close frame never goes out.
ClosedIsFreed == \A k \in Socks : (Alive(k) /\ ws[k].closing) ~> ~Alive(k)

\* ws_close's comment: no further onError once a script called webSocketClose.
NoErrorAfterClose ==
    [][phase = "deliver" /\ phase' = "callback" /\ Head(events).kind = "error"
         => ~ws[Head(events).sock].closing]_vars

\* doc/http_websocket.md: a script that closes a connection it knows to be open
\* hears the onClose that says fullyDisconnected, unless the level or server ends.
CloseIsHeard ==
    \A k \in Socks :
        (ws[k].closing /\ heard[k] = "open")
            ~> (heard[k] = "over" \/ quitting \/ ws[k].born # level)

\* The bookkeeping: the byte count, the slots, and what reap() may free.
SocketsSound == TypeOK /\ RxAccounted /\ SlotOwned /\ FinishedIsDead

\* What scripts hear, and do not hear any more after a change of the level.
StoryInOrder == HeardInOrder /\ OldLevelSilent
=============================================================================

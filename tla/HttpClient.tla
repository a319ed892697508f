----------------------------- MODULE HttpClient -----------------------------
(* The whole of src/code/http_websocket_client.hpp: the requests of httpFetch   *)
(* beside the sockets of WebSocketClient. Both share the event queue, its        *)
(* budget, the frame of poll() and the generation, which is the level.           *)
(*                                                                            *)
(* A request is reported once, by finish(), and freed once lws let go of it too: *)
(* the reply may be complete before the connection is gone, and a timeout may    *)
(* strike a request that has been answered.                                      *)
EXTENDS WebSocketClient

CONSTANT MaxReqs    \* bound of the model: requests made
ASSUME ReqsAssumption == MaxReqs \in Nat

Reqs == 1..MaxReqs

VARIABLES
    req,       \* the Req objects, in the order of their creation
    made,      \* requests made so far
    answered   \* history: callbacks run, per request
reqVars == <<req, made, answered>>
allVars == <<vars, reqVars>>

NewReq == [st |-> "new", live |-> FALSE, killed |-> FALSE, err |-> FALSE,
           reported |-> FALSE, timed |-> FALSE, gen |-> 0]
ReqKinds == {"done", "failed"}

HttpInit == Init /\ req = [r \in Reqs |-> NewReq] /\ made = 0
                 /\ answered = [r \in Reqs |-> 0]

MutantReports(q) == TRUE  \* reported is not looked at
Reports(q) == ~q.reported
MutantOfThisLevel(q) == TRUE  \* gen is not looked at
OfThisLevel(q) == q.gen = level

\* finish()
Outcome(r, q) ==
    IF Reports(q) /\ OfThisLevel(q)
    THEN <<Ev(r, IF q.err THEN "failed" ELSE "done")>> ELSE <<>>
Finished(q) == [q EXCEPT !.reported = TRUE]
Finish(r, q) == req' = [req EXCEPT ![r] = Finished(q)] /\ Queue(Outcome(r, q))

MutantEndedReq(r, q) ==  \* the loss of the connection is not reported
    req' = [req EXCEPT ![r] = [q EXCEPT !.live = FALSE]] /\ Queue(<<>>)
\* ended() of a request: without an answer it is an error.
EndedReq(r, q) == Finish(r, [q EXCEPT !.live = FALSE, !.err = TRUE])

FreedReq(q) == [NewReq EXCEPT !.st = "freed", !.gen = q.gen, !.live = q.live]
ReqStays == UNCHANGED <<phase, turn, ws, slots, created, level, quitting, heard>>

\* httpFetch. A request that is not valid is reported and deleted at once.
Fetch(timed) ==
    LET r == made + 1
        q == [NewReq EXCEPT !.st = "used", !.gen = level, !.timed = timed]
    IN  /\ ScriptRuns /\ made < MaxReqs /\ made' = r
        /\ \/ /\ req' = [req EXCEPT ![r] = FreedReq(q)]
              /\ Queue(Outcome(r, [q EXCEPT !.err = TRUE]))
           \/ /\ req' = [req EXCEPT ![r] = [q EXCEPT !.live = TRUE]]
              /\ UNCHANGED <<events, rxCount>>
           \/ EndedReq(r, q)
        /\ ReqStays /\ UNCHANGED answered

LiveReq(r) == req[r].st = "used" /\ req[r].live

\* LWS_CALLBACK_COMPLETED_CLIENT_HTTP: the reply is there, the connection still is.
Completed(r) ==
    /\ phase = "service" /\ LiveReq(r) /\ ~req[r].reported
    /\ Finish(r, req[r])
    /\ ReqStays /\ UNCHANGED <<made, answered>>
\* LWS_CALLBACK_WSI_DESTROY: after the reply, or instead of it.
Destroyed(r) ==
    /\ phase = "service" /\ LiveReq(r)
    /\ EndedReq(r, req[r])
    /\ ReqStays /\ UNCHANGED <<made, answered>>

\* timers() looks at the requests first.
ReqTimeout(r) ==
    /\ phase = "timers" /\ turn = 1 /\ LiveReq(r) /\ req[r].timed /\ ~req[r].killed
    /\ req' = [req EXCEPT ![r].killed = TRUE, ![r].err = TRUE]
    /\ ReqStays /\ UNCHANGED <<events, rxCount, made, answered>>

\* deliver(): onDone or onError of a request runs.
DeliverReq ==
    LET e == Head(events)
    IN  /\ phase = "deliver" /\ events # <<>> /\ e.kind \in ReqKinds
        /\ events' = Tail(events) /\ phase' = "callback"
        /\ answered' = [answered EXCEPT ![e.sock] = @ + 1]
        /\ UNCHANGED <<turn, ws, slots, created, rxCount, level, quitting, heard>>
        /\ UNCHANGED <<req, made>>

MutantReapableReq(q) == q.reported  \* lws may still call back
ReapableReq(q) == ~q.live /\ q.reported
ReapReqs == /\ req' = [r \in Reqs |-> IF req[r].st = "used" /\ ReapableReq(req[r])
                                      THEN FreedReq(req[r]) ELSE req[r]]
            /\ UNCHANGED <<made, answered>>
DestroyReqs == /\ req' = [r \in Reqs |-> IF req[r].st = "used" THEN FreedReq(req[r])
                                         ELSE req[r]]
               /\ UNCHANGED <<made, answered>>

-----------------------------------------------------------------------------
HttpFrame ==
    \/ (Poll \/ Serviced \/ TimersDone \/ Deliver \/ CallbackDone \/ DeliverDone)
       /\ UNCHANGED reqVars
    \/ Reap /\ ReapReqs
    \/ DeliverReq
HttpNext ==
    \/ HttpFrame
    \/ Destroy /\ DestroyReqs
    \/ (Script \/ \E k \in Socks : Lws(k) \/ Timers(k)) /\ UNCHANGED reqVars
    \/ \E timed \in BOOLEAN : Fetch(timed)
    \/ \E r \in Reqs : Completed(r) \/ Destroyed(r) \/ ReqTimeout(r)
HttpSpec == HttpInit /\ [][HttpNext]_allVars

\* As FairSpec; and a request's own deadline passes, and lws then destroys it.
HttpFairSpec ==
    /\ HttpSpec /\ WF_allVars(HttpFrame)
    /\ \A k \in Socks : /\ WF_allVars(Timers(k) /\ UNCHANGED reqVars)
                        /\ SF_allVars(KillServed(k) /\ UNCHANGED reqVars)
                        /\ SF_allVars(CloseTimeout(k) /\ UNCHANGED reqVars)
    /\ \A r \in Reqs : /\ SF_allVars(ReqTimeout(r))
                       /\ SF_allVars(req[r].killed /\ Destroyed(r))

-----------------------------------------------------------------------------
ReqTypeOK ==
    /\ req \in [Reqs -> [st : {"new", "used", "freed"}, live : BOOLEAN,
                         killed : BOOLEAN, err : BOOLEAN, reported : BOOLEAN,
                         timed : BOOLEAN, gen : 0..MaxLevels]]
    /\ made \in 0..MaxReqs /\ answered \in [Reqs -> 0..1]
    /\ \A n \in 1..Len(events) : events[n].kind \in EventKinds \cup ReqKinds

Queued(r) == Cardinality({n \in 1..Len(events) :
                            events[n].sock = r /\ events[n].kind \in ReqKinds})

\* fetch()'s comment, "Exactly one of onDone/onError": never two, although the reply,
\* a timeout and the end of the connection each report the request.
OneOutcome == \A r \in Reqs : answered[r] + Queued(r) <= 1

\* No request made in an earlier level is still to be reported to a script.
OldRequestsSilent ==
    \A n \in 1..Len(events) :
        events[n].kind \in ReqKinds => req[events[n].sock].gen = level

\* A freed request is not one that lws still holds and may call back about.
FreedIsDead ==
    phase # "gone" => \A r \in Reqs : req[r].st = "freed" => ~req[r].live

\* ... and not none: a request with a timeout is answered in the end, unless the
\* level changes first or the server quits.
FetchAnswered ==
    \A r \in Reqs :
        (req[r].st = "used" /\ req[r].timed)
            ~> (answered[r] = 1 \/ req[r].gen # level \/ quitting)

\* One outcome and one end for each request, none for a level that is gone.
RequestsSound == ReqTypeOK /\ OneOutcome /\ OldRequestsSilent /\ FreedIsDead

\* Nothing is kept for ever: requests are answered, closed sockets freed.
NothingLingers == FetchAnswered /\ ClosedIsFreed
=============================================================================

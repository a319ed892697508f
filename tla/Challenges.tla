------------------------------- MODULE Challenges -------------------------------
(***************************************************************************)
(* The challenge table: an entry per address, whether its client is        *)
(* connected, and the guid the authorize server gave for it, which the     *)
(* connect takes (src/code/libcod.cpp: custom_SV_GetChallenge,             *)
(* custom_SV_AuthorizeIpPacket, and the challenge's part of                *)
(* custom_SV_DirectConnect and custom_SV_DropClient).                      *)
(*                                                                         *)
(* Peers have addresses of their own that are not local, and authorization *)
(* is on.  A challenge number is random: it is known by the entry that     *)
(* holds it, and the number of an entry that was issued again is none.     *)
(***************************************************************************)
EXTENDS Integers, FiniteSetsExt

CONSTANTS Peers,            \* the addresses, numbered
          MaxChallenges,    \* MAX_CHALLENGES
          AuthorizeTimeout  \* sv_authorizeTimeout, in frames

VARIABLES
    challenges, \* svs.challenges; answered is history
    asked,      \* the entry the authorize server has yet to answer for, by peer
    number,     \* the challenge a peer was told last
    session     \* the guid of a connected client, and whether it was answered for

vars == <<challenges, asked, number, session>>

Entries == 1 .. MaxChallenges
Unknown == 0
NoGuid == 0
NoSession == [connected |-> FALSE, guid |-> NoGuid, answered |-> FALSE]

Init == /\ challenges = [i \in Entries |-> [adr |-> Unknown, age |-> AuthorizeTimeout + 1,
                                            connected |-> FALSE, guid |-> NoGuid,
                                            answered |-> FALSE]]
        /\ asked = [p \in Peers |-> Unknown]
        /\ number = [p \in Peers |-> Unknown]
        /\ session = [p \in Peers |-> NoSession]

Waiting(p) == {i \in Entries : ~challenges[i].connected /\ challenges[i].adr = p}
\* The first of the oldest; ages end at a maximum, so any of those.
Oldest == {i \in Entries : \A j \in Entries : challenges[j].age <= challenges[i].age}
\* The fields that are set; guid and authorization state are not among them.
Issued(c, p) == [c EXCEPT !.adr = p, !.age = 0, !.connected = FALSE, !.answered = FALSE]
Without(numbers, i) == [p \in Peers |-> IF numbers[p] = i THEN Unknown ELSE numbers[p]]

\* The authorize server is asked, or is overdue and the peer gets its number;
\* the packet to the peer may be lost.
Answer(p, i, numbers, requests) ==
    IF challenges'[i].age > AuthorizeTimeout
    THEN number' \in {numbers, [numbers EXCEPT ![p] = i]} /\ asked' = requests
    ELSE number' = numbers /\ asked' = [requests EXCEPT ![p] = i]

GetChallenge(p) ==
    /\ \/ /\ Waiting(p) # {}
          /\ UNCHANGED challenges
          /\ Answer(p, Min(Waiting(p)), number, asked)
       \/ /\ Waiting(p) = {}
          /\ \E i \in Oldest :
               /\ challenges' = [challenges EXCEPT ![i] = Issued(@, p)]
               /\ Answer(p, i, Without(number, i), Without(asked, i))
    /\ UNCHANGED session

\* The authorize server answers for the peer whose address the request had.  Answers
\* that refuse, and those the rate limit drops, are left out.
AuthorizeIpPacket(p) ==
    LET i == asked[p] IN
    /\ i # Unknown
    /\ challenges' = [challenges EXCEPT ![i].guid = p, ![i].answered = TRUE]
    /\ number' \in {number, [number EXCEPT ![p] = i]}
    /\ asked' = [asked EXCEPT ![p] = Unknown]
    /\ UNCHANGED session

\* The connect, which may be refused later on for another reason.
DirectConnect(p) ==
    LET i == number[p] IN
    /\ i # Unknown /\ challenges[i].adr = p
    /\ challenges' = [challenges EXCEPT ![i].connected = TRUE]
    /\ \/ UNCHANGED session
       \/ session' = [session EXCEPT ![p] = [connected |-> TRUE, guid |-> challenges[i].guid,
                                             answered |-> challenges[i].answered]]
    /\ UNCHANGED <<asked, number>>

DropClient(p) ==
    LET known == {i \in Entries : challenges[i].adr = p} IN
    /\ session[p].connected
    /\ session' = [session EXCEPT ![p] = NoSession]
    /\ challenges' = IF known = {} THEN challenges
                     ELSE [challenges EXCEPT ![Min(known)].connected = FALSE]
    /\ UNCHANGED <<asked, number>>

Frame == /\ challenges' = [i \in Entries |->
               [challenges[i] EXCEPT !.age = IF @ > AuthorizeTimeout THEN @ ELSE @ + 1]]
         /\ UNCHANGED <<asked, number, session>>

Next == \/ \E p \in Peers : GetChallenge(p) \/ AuthorizeIpPacket(p)
                            \/ DirectConnect(p) \/ DropClient(p)
        \/ Frame
Spec == Init /\ [][Next]_vars

-----------------------------------------------------------------------------
\* A guid that was confirmed for a session's own challenge is its peer's.
ConfirmedGuidIsOwn == \A p \in Peers : session[p].answered => session[p].guid = p

\* A client the authorize server never answered for has a zero guid, as the text on
\* sv_authorizeTimeout says: the entry its address was given keeps the guid that was
\* confirmed for the address before.
ZeroGuidWithoutAnswer ==
    \A p \in Peers : session[p].guid = NoGuid \/ session[p].answered
=================================================================================

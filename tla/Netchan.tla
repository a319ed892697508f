------------------------------- MODULE Netchan -------------------------------
(***************************************************************************)
(* One direction of the netchan of a client: the sender cuts a message     *)
(* into fragments (custom_Netchan_TransmitNextFragment, driven by the      *)
(* frames of custom_SV_SendClientMessages), the receiver puts them         *)
(* together again (custom_Netchan_Process).  The two ends of a connection  *)
(* run the same code, or the stock code of the same shape.                 *)
(*                                                                         *)
(* The network loses, repeats and reorders: a packet stays in net once it  *)
(* was sent and may be read at any time, any number of times, or never.    *)
(* A message is the sequence of its units; the j-th unit of the message    *)
(* with sequence number n is <<n, j>>, so that a mixed up one shows.       *)
(* A message that is too long to be sent, or for the reader's buffer, is   *)
(* one that was never sent, or was lost.                                   *)
(***************************************************************************)
EXTENDS Naturals, Sequences, FiniteSets

CONSTANTS FragmentSize,  \* FRAGMENT_SIZE, in units
          BufferSize,    \* fragmentBufferSize: MAX_MSGLEN, MAX_LEGACY_MSGLEN
          MaxLength,     \* bound: the longest message
          MaxSequence    \* bound: how many messages are sent

ASSUME NetchanAssumption ==
    /\ FragmentSize \in Nat \ {0}
    /\ BufferSize \in Nat
    /\ MaxLength \in Nat \ {0}
    /\ MaxSequence \in Nat \ {0}

VARIABLES
    outgoingSequence,  \* the number of the message that is sent, or the next
    unsent,            \* [length, start] while unsentFragments, else Nothing
    message,           \* the messages begun so far, by sequence number
    net,               \* the packets that were sent
    incomingSequence,  \* the last message that was handed on
    fragmentSequence,  \* the message whose fragments are collected
    fragmentBuffer,    \* what was collected of it
    got,               \* the message that was handed on last
    received           \* how many were handed on

sender == <<outgoingSequence, unsent, message, net>>
receiver == <<incomingSequence, fragmentSequence, fragmentBuffer, got, received>>
vars == <<outgoingSequence, unsent, message, net,
          incomingSequence, fragmentSequence, fragmentBuffer, got, received>>

Nothing == [length |-> 0, start |-> 0]
Lesser(a, b) == IF a < b THEN a ELSE b
Contents(n, length) == [j \in 1 .. length |-> <<n, j>>]

Init == /\ outgoingSequence = 1
        /\ unsent = Nothing
        /\ message = <<>>
        /\ net = {}
        /\ incomingSequence = 0
        /\ fragmentSequence = 0
        /\ fragmentBuffer = <<>>
        /\ got = <<>>
        /\ received = 0

-----------------------------------------------------------------------------
(* Sending *)

\* The fragment of message n that begins at start; the last one is shorter
\* than FRAGMENT_SIZE, and empty when the length is a multiple of it.
Fragment(n, length, start) ==
    LET size == Lesser(FragmentSize, length - start)
    IN  [sequence |-> n, fragmented |-> TRUE, start |-> start,
         data |-> SubSeq(Contents(n, length), start + 1, start + size)]

Last(packet) == Len(packet.data) # FragmentSize

\* custom_Netchan_TransmitNextFragment, length and start being the sender's.
TransmitNextFragment(length, start) ==
    LET packet == Fragment(outgoingSequence, length, start)
    IN  /\ net' = net \cup {packet}
        /\ unsent' = IF Last(packet) THEN Nothing
                     ELSE [length |-> length, start |-> start + Len(packet.data)]
        /\ outgoingSequence' = outgoingSequence + (IF Last(packet) THEN 1 ELSE 0)

\* A frame of a client with unsent fragments sends the next of them.
NextFragment == /\ unsent # Nothing
                /\ TransmitNextFragment(unsent.length, unsent.start)
                /\ UNCHANGED message
                /\ UNCHANGED receiver

\* Starts of the fragments that a loop over unsentFragments still sends.
StartsFrom(length, start) ==
    {s \in start .. length : s % FragmentSize = 0}

\* With net_noFragmentationDelay, for a fast download and before a gamestate
\* all of them are sent in a loop.
Flush == /\ unsent # Nothing
         /\ net' = net \cup {Fragment(outgoingSequence, unsent.length, s) :
                             s \in StartsFrom(unsent.length, unsent.start)}
         /\ outgoingSequence' = outgoingSequence + 1
         /\ unsent' = Nothing
         /\ UNCHANGED message
         /\ UNCHANGED receiver

\* Netchan_Transmit: a short message is one packet, of a longer one the first
\* fragment is sent.  Its callers see to it that nothing is left unsent.
Transmit(length) ==
    /\ unsent = Nothing
    /\ outgoingSequence <= MaxSequence
    /\ message' = Append(message, Contents(outgoingSequence, length))
    /\ IF length < FragmentSize
       THEN /\ net' = net \cup {[sequence |-> outgoingSequence, fragmented |-> FALSE,
                                 start |-> 0, data |-> Contents(outgoingSequence, length)]}
            /\ outgoingSequence' = outgoingSequence + 1
            /\ UNCHANGED unsent
       ELSE TransmitNextFragment(length, 0)
    /\ UNCHANGED receiver

-----------------------------------------------------------------------------
(* Receiving: custom_Netchan_Process *)

HandOn(packet, contents) ==
    /\ incomingSequence' = packet.sequence
    /\ got' = contents
    /\ received' = received + 1

\* The buffer a fragment is added to: a fragment of another message empties it.
MutantBuffer(packet) == fragmentBuffer  \* not emptied for another message
Buffer(packet) == IF packet.sequence # fragmentSequence THEN <<>> ELSE fragmentBuffer

Whole(packet) == /\ ~packet.fragmented
                 /\ HandOn(packet, packet.data)
                 /\ UNCHANGED <<fragmentSequence, fragmentBuffer>>

\* A fragment that does not continue the buffer, or does not fit.
DropsFragment(packet) ==
    \/ packet.start # Len(Buffer(packet))
    \/ Len(Buffer(packet)) + Len(packet.data) > BufferSize

Dropped(packet) == /\ packet.fragmented
                   /\ DropsFragment(packet)
                   /\ fragmentSequence' = packet.sequence
                   /\ fragmentBuffer' = Buffer(packet)
                   /\ UNCHANGED <<incomingSequence, got, received>>

Collected(packet) == /\ packet.fragmented
                     /\ ~DropsFragment(packet)
                     /\ ~Last(packet)
                     /\ fragmentSequence' = packet.sequence
                     /\ fragmentBuffer' = Buffer(packet) \o packet.data
                     /\ UNCHANGED <<incomingSequence, got, received>>

Completed(packet) == /\ packet.fragmented
                     /\ ~DropsFragment(packet)
                     /\ Last(packet)
                     /\ fragmentSequence' = packet.sequence
                     /\ fragmentBuffer' = <<>>
                     /\ HandOn(packet, Buffer(packet) \o packet.data)

MutantFresh(packet) == packet.sequence >= incomingSequence  \* repeated ones are read
Fresh(packet) == packet.sequence > incomingSequence

Process(packet) == /\ Fresh(packet)
                   /\ \/ Whole(packet)
                      \/ Dropped(packet)
                      \/ Collected(packet)
                      \/ Completed(packet)
                   /\ UNCHANGED sender

Next == \/ \E length \in 1 .. MaxLength : Transmit(length)
        \/ NextFragment
        \/ Flush
        \/ \E packet \in net : Process(packet)

Spec == Init /\ [][Next]_vars

-----------------------------------------------------------------------------
(* Properties *)

\* The fragment buffer never holds units of two messages, never a gap and never
\* more than its size: whatever the network repeats or reorders.
BufferIsPrefix ==
    /\ Len(fragmentBuffer) <= BufferSize
    /\ fragmentBuffer # <<>> =>
         /\ fragmentSequence \in DOMAIN message
         /\ fragmentBuffer = SubSeq(message[fragmentSequence], 1, Len(fragmentBuffer))
         /\ Len(fragmentBuffer) % FragmentSize = 0

\* The refinement: custom_Netchan_Process hands on whole messages only, in the
\* order of sending and each at most once, as MessageChannel promises.
Channel == INSTANCE MessageChannel WITH
    Message <- {Contents(n, length) : n \in 1 .. MaxSequence, length \in 1 .. MaxLength},
    NoMessage <- <<>>,
    flight <- SubSeq(message, incomingSequence + 1, Len(message))
ImplementsChannel == Channel!Spec
===============================================================================

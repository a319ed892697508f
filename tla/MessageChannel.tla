---------------------------- MODULE MessageChannel ----------------------------
(***************************************************************************)
(* What a netchan promises the code above it: whole messages, in the order *)
(* they were sent, each at most once.  Any of them may be lost, and one    *)
(* that arrives overtakes everything that was sent before it.              *)
(***************************************************************************)
EXTENDS Sequences, Naturals

CONSTANT Message,   \* what can be sent
         NoMessage  \* nothing was received yet

VARIABLES flight,   \* sent, and not overtaken yet; the oldest first
          got,      \* the message that was received last
          received  \* how many were received

Init == flight = <<>> /\ got = NoMessage /\ received = 0

Send(m) == flight' = Append(flight, m) /\ UNCHANGED <<got, received>>

\* Everything that was sent before the i-th message is too late from now on.
Receive(i) == /\ got' = flight[i]
              /\ received' = received + 1
              /\ flight' = SubSeq(flight, i + 1, Len(flight))

Next == \/ \E m \in Message : Send(m)
        \/ \E i \in DOMAIN flight : Receive(i)

Spec == Init /\ [][Next]_<<flight, got, received>>
===============================================================================

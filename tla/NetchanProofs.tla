---------------------------- MODULE NetchanProofs ----------------------------
(* Netchan for every fragment size, buffer size and number of messages: the    *)
(* fragment buffer is sound, and the netchan implements MessageChannel.        *)
EXTENDS Netchan, Integers, SequenceTheorems, TLAPS

Units == Nat \X Nat
Messages == Seq(Units)

\* The packets that carry the message with this number and length.
Packets(n, length) ==
    {Fragment(n, length, s) : s \in StartsFrom(length, 0)}
    \cup {[sequence |-> n, fragmented |-> FALSE, start |-> 0, data |-> Contents(n, length)]}

\* Every message consists of its own units.
MessageInv ==
    /\ message \in Seq(Messages)
    /\ \A n \in DOMAIN message : \E length \in 1 .. MaxLength :
         message[n] = Contents(n, length)

\* What the sender still has to send is a tail of the last message.
SenderInv ==
    /\ unsent \in [length : Nat, start : Nat]
    /\ unsent = Nothing => outgoingSequence = Len(message) + 1
    /\ unsent # Nothing =>
         /\ outgoingSequence = Len(message)
         /\ Len(message) > 0
         /\ unsent.length > 0
         /\ message[outgoingSequence] = Contents(outgoingSequence, unsent.length)
         /\ unsent.start \in StartsFrom(unsent.length, 0)

\* Every packet in the network carries a message that was begun.
NetInv == \A packet \in net :
            /\ packet.sequence \in DOMAIN message
            /\ packet \in Packets(packet.sequence, Len(message[packet.sequence]))

\* The receiver is not ahead of the sender, and its buffer is the beginning of
\* the message it collects.
ReceiverInv ==
    /\ incomingSequence \in 0 .. Len(message)
    /\ fragmentSequence \in Nat
    /\ received \in Nat
    /\ fragmentBuffer \in Seq(Units)
    /\ fragmentBuffer # <<>> => Len(fragmentBuffer) <= Len(message[fragmentSequence])

IInv == MessageInv /\ SenderInv /\ NetInv /\ ReceiverInv /\ BufferIsPrefix

-----------------------------------------------------------------------------
(* Arithmetic of the fragments *)

LEMMA Quotient ==
  ASSUME NEW a \in Nat, NEW f \in Nat \ {0}
  PROVE  a \div f \in Nat /\ a = f * (a \div f) + (a % f)
  BY SMT

LEMMA ProductRemainder ==
  ASSUME NEW k \in Nat, NEW f \in Nat \ {0}
  PROVE  (f * k) % f = 0
  BY SMT

\* The fragment after one that was full starts at a multiple of the size again.
LEMMA NextStart ==
  ASSUME NEW a \in Nat, NEW f \in Nat \ {0}, a % f = 0
  PROVE  (a + f) % f = 0
  <1> DEFINE k == a \div f
  <1>1. k \in Nat /\ a = f * k
    BY Quotient
  <1>2. a + f = f * (k + 1)
    BY <1>1, SMT
  <1>3. (f * (k + 1)) % f = 0
    BY <1>1, ProductRemainder
  <1> QED BY <1>2, <1>3

LEMMA ZeroStart == ASSUME NEW f \in Nat \ {0} PROVE 0 % f = 0
  BY SMT

-----------------------------------------------------------------------------
(* Messages and fragments *)

LEMMA ContentsFacts ==
  ASSUME NEW n \in Nat, NEW length \in Nat
  PROVE  /\ Contents(n, length) \in Messages
         /\ Len(Contents(n, length)) = length
  <1>1. Contents(n, length) \in [1 .. length -> Units]
    BY DEF Contents, Units
  <1>2. Contents(n, length) \in Seq(Units)
    BY <1>1
  <1>3. DOMAIN Contents(n, length) = 1 .. length
    BY DEF Contents
  <1> QED BY <1>2, <1>3, LenProperties DEF Messages

\* A fragment, its units and how many of them there are.
LEMMA FragmentFacts ==
  ASSUME NEW n \in Nat, NEW length \in Nat, NEW start \in StartsFrom(length, 0)
  PROVE  LET p == Fragment(n, length, start)
             size == Lesser(FragmentSize, length - start)
         IN  /\ p.sequence = n /\ p.fragmented /\ p.start = start
             /\ size \in Nat /\ start + size <= length
             /\ p.data = SubSeq(Contents(n, length), start + 1, start + size)
             /\ p.data \in Messages
             /\ Len(p.data) = size
             /\ Last(p) <=> size # FragmentSize
             /\ Last(p) => start + size = length
  <1> DEFINE p == Fragment(n, length, start)
             m == Contents(n, length)
             size == Lesser(FragmentSize, length - start)
  <1>1. start \in Nat /\ start <= length /\ FragmentSize \in Nat \ {0}
    BY NetchanAssumption DEF StartsFrom
  <1>2. size \in Nat /\ start + size <= length
    BY <1>1 DEF Lesser
  <1>3. size # FragmentSize => start + size = length
    BY <1>1 DEF Lesser
  <1>4. /\ p.sequence = n /\ p.fragmented /\ p.start = start
        /\ p.data = SubSeq(m, start + 1, start + size)
    BY DEF Fragment
  <1>5. m \in Seq(Units) /\ Len(m) = length
    BY ContentsFacts DEF Messages
  <1>6. \A i \in start + 1 .. start + size : m[i] \in Units
    BY <1>1, <1>2, <1>5
  <1>7. p.data \in Seq(Units) /\ Len(p.data) = size
    <2> HIDE DEF m, size
    <2> QED BY <1>1, <1>2, <1>4, <1>6, SubSeqProperties
  <1>8. Last(p) <=> size # FragmentSize
    BY <1>7 DEF Last
  <1> QED BY <1>2, <1>3, <1>4, <1>7, <1>8 DEF Messages

\* A packet of the network, taken apart.
LEMMA PacketFacts ==
  ASSUME MessageInv, NetInv, NEW packet \in net
  PROVE  LET n == packet.sequence
         IN  /\ n \in 1 .. Len(message)
             /\ message[n] \in Messages /\ Len(message[n]) \in Nat
             /\ message[n] = Contents(n, Len(message[n]))
             /\ \/ ~packet.fragmented /\ packet.data = message[n]
                \/ /\ packet.fragmented
                   /\ packet.start \in StartsFrom(Len(message[n]), 0)
                   /\ packet = Fragment(n, Len(message[n]), packet.start)
  <1> DEFINE n == packet.sequence
  <1>1. n \in 1 .. Len(message)
    BY DEF NetInv, MessageInv
  <1>2. PICK length \in 1 .. MaxLength : message[n] = Contents(n, length)
    BY <1>1 DEF MessageInv
  <1>3. length \in Nat /\ n \in Nat
    BY <1>1, NetchanAssumption
  <1>4. message[n] \in Messages /\ Len(message[n]) = length
    BY <1>2, <1>3, ContentsFacts
  <1>5. packet \in Packets(n, length)
    BY <1>4 DEF NetInv
  <1>6. CASE \E s \in StartsFrom(length, 0) : packet = Fragment(n, length, s)
    <2>1. PICK s \in StartsFrom(length, 0) : packet = Fragment(n, length, s)
      BY <1>6
    <2>2. packet.start = s /\ packet.fragmented
      BY <2>1, <1>3, FragmentFacts
    <2> QED BY <1>1, <1>2, <1>3, <1>4, <2>1, <2>2
  <1>7. CASE packet = [sequence |-> n, fragmented |-> FALSE, start |-> 0,
                       data |-> Contents(n, length)]
    <2>1. ~packet.fragmented /\ packet.data = Contents(n, length)
      BY <1>7
    <2> QED BY <1>1, <1>2, <1>3, <1>4, <2>1
  <1> QED BY <1>5, <1>6, <1>7 DEF Packets
-----------------------------------------------------------------------------
(* Sending *)

\* A message is added behind the others.
LEMMA MessageAdded ==
  ASSUME MessageInv, SenderInv, NEW length \in 1 .. MaxLength, unsent = Nothing,
         message' = Append(message, Contents(outgoingSequence, length))
  PROVE  /\ MessageInv'
         /\ outgoingSequence = Len(message) + 1
         /\ Len(message) \in Nat
         /\ Len(message') = Len(message) + 1
         /\ message'[outgoingSequence] = Contents(outgoingSequence, length)
         /\ \A n \in 1 .. Len(message) : message'[n] = message[n]
  <1> DEFINE m == Contents(outgoingSequence, length)
  <1>1. message \in Seq(Messages) /\ Len(message) \in Nat
    BY LenProperties DEF MessageInv
  <1>2. outgoingSequence = Len(message) + 1
    BY DEF SenderInv
  <1>3. m \in Messages
    BY <1>1, <1>2, NetchanAssumption, ContentsFacts
  <1>4. /\ message' \in Seq(Messages)
        /\ Len(message') = Len(message) + 1
        /\ \A n \in 1 .. Len(message) : message'[n] = message[n]
        /\ message'[Len(message) + 1] = m
    <2>1. message' = Append(message, m)
      OBVIOUS
    <2> HIDE DEF m
    <2> QED BY <1>1, <1>3, <2>1, AppendProperties
  <1>5. \A n \in 1 .. Len(message) + 1 :
          \E l \in 1 .. MaxLength : message'[n] = Contents(n, l)
    <2> TAKE n \in 1 .. Len(message) + 1
    <2>1. CASE n \in 1 .. Len(message)
      <3>1. \E l \in 1 .. MaxLength : message[n] = Contents(n, l)
        BY <1>1, <2>1 DEF MessageInv
      <3> QED BY <2>1, <3>1, <1>4
    <2>2. CASE n = Len(message) + 1
      BY <2>2, <1>2, <1>4
    <2> QED BY <1>1, <2>1, <2>2
  <1>6. MessageInv'
    <2>1. DOMAIN message' = 1 .. Len(message) + 1
      BY <1>4
    <2> QED BY <1>4, <1>5, <2>1 DEF MessageInv
  <1> QED BY <1>1, <1>2, <1>4, <1>6

\* The next fragment of the last message leaves the sender in order.
LEMMA FragmentSent ==
  ASSUME NEW length \in Nat \ {0}, NEW start \in StartsFrom(length, 0),
         MessageInv', outgoingSequence \in Nat \ {0}, outgoingSequence = Len(message'),
         message'[outgoingSequence] = Contents(outgoingSequence, length),
         \A packet \in net : /\ packet.sequence \in DOMAIN message'
                             /\ packet \in Packets(packet.sequence,
                                                   Len(message'[packet.sequence])),
         TransmitNextFragment(length, start)
  PROVE  SenderInv' /\ NetInv'
  <1> DEFINE packet == Fragment(outgoingSequence, length, start)
             size == Lesser(FragmentSize, length - start)
  <1>1. /\ packet.sequence = outgoingSequence
        /\ size \in Nat /\ start + size <= length
        /\ Len(packet.data) = size
        /\ Last(packet) <=> size # FragmentSize
    BY FragmentFacts
  <1>2. Len(message'[outgoingSequence]) = length
    BY ContentsFacts
  <1>3. packet \in Packets(outgoingSequence, length)
    BY DEF Packets
  <1>4. outgoingSequence \in DOMAIN message'
    BY DEF MessageInv
  <1>5. NetInv'
    <2>1. net' = net \cup {packet}
      BY DEF TransmitNextFragment
    <2> HIDE DEF packet
    <2> QED BY <1>1, <1>2, <1>3, <1>4, <2>1 DEF NetInv
  <1>6. SenderInv'
    <2>1. CASE Last(packet)
      <3>1. unsent' = Nothing /\ outgoingSequence' = outgoingSequence + 1
        BY <2>1 DEF TransmitNextFragment
      <3> QED BY <3>1 DEF SenderInv, Nothing
    <2>2. CASE ~Last(packet)
      <3>1. /\ unsent' = [length |-> length, start |-> start + FragmentSize]
            /\ outgoingSequence' = outgoingSequence + 0
        BY <1>1, <2>2 DEF TransmitNextFragment
      <3>2. start + FragmentSize \in StartsFrom(length, 0)
        <4>1. start \in Nat /\ start % FragmentSize = 0 /\ FragmentSize \in Nat \ {0}
          BY NetchanAssumption DEF StartsFrom
        <4>2. (start + FragmentSize) % FragmentSize = 0
          BY <4>1, NextStart
        <4>3. start + FragmentSize \in 0 .. length
          BY <4>1, <1>1, <2>2
        <4> QED BY <4>2, <4>3 DEF StartsFrom
      <3>3. start + FragmentSize \in Nat
        BY <3>2 DEF StartsFrom
      <3>4. unsent' # Nothing /\ unsent'.length = length
            /\ unsent'.start = start + FragmentSize
            /\ unsent' \in [length : Nat, start : Nat]
        BY <3>1, <3>3 DEF Nothing
      <3>5. outgoingSequence' = outgoingSequence
        BY <3>1
      <3> QED BY <3>2, <3>4, <3>5 DEF SenderInv
    <2> QED BY <2>1, <2>2
  <1> QED BY <1>5, <1>6

\* What the receiver has is not disturbed by messages that are added.
LEMMA ReceiverUndisturbed ==
  ASSUME IInv, UNCHANGED receiver, Len(message) \in Nat, Len(message') \in Nat,
         Len(message') >= Len(message), MessageInv',
         \A n \in 1 .. Len(message) : message'[n] = message[n]
  PROVE  ReceiverInv' /\ BufferIsPrefix'
  <1>1. DOMAIN message = 1 .. Len(message) /\ DOMAIN message' = 1 .. Len(message')
    BY DEF IInv, MessageInv
  <1>2. fragmentBuffer # <<>> => /\ fragmentSequence \in 1 .. Len(message)
                                 /\ message'[fragmentSequence] = message[fragmentSequence]
    BY <1>1 DEF IInv, BufferIsPrefix
  <1>3. ReceiverInv'
    BY <1>2 DEF IInv, ReceiverInv, receiver
  <1>4. BufferIsPrefix'
    BY <1>1, <1>2 DEF IInv, BufferIsPrefix, receiver
  <1> QED BY <1>3, <1>4

LEMMA TransmitKeeps ==
  ASSUME IInv, NEW length \in 1 .. MaxLength, Transmit(length)
  PROVE  IInv'
  <1>1. /\ MessageInv /\ SenderInv /\ NetInv /\ unsent = Nothing
        /\ message' = Append(message, Contents(outgoingSequence, length))
    BY DEF IInv, Transmit
  <1>2. /\ MessageInv'
        /\ outgoingSequence = Len(message) + 1
        /\ Len(message) \in Nat
        /\ Len(message') = Len(message) + 1
        /\ message'[outgoingSequence] = Contents(outgoingSequence, length)
        /\ \A n \in 1 .. Len(message) : message'[n] = message[n]
    BY <1>1, MessageAdded
  <1>3. ReceiverInv' /\ BufferIsPrefix'
    <2>1. UNCHANGED receiver
      BY DEF Transmit
    <2> QED BY <1>2, <2>1, ReceiverUndisturbed
  <1>4. length \in Nat \ {0} /\ outgoingSequence \in Nat \ {0}
    BY <1>2, NetchanAssumption
  <1>5. DOMAIN message = 1 .. Len(message) /\ DOMAIN message' = 1 .. Len(message) + 1
    BY <1>1, <1>2 DEF MessageInv
  <1>6. \A packet \in net : /\ packet.sequence \in DOMAIN message'
                           /\ packet \in Packets(packet.sequence,
                                                 Len(message'[packet.sequence]))
    BY <1>1, <1>2, <1>5 DEF NetInv
  <1>7. CASE length < FragmentSize
    <2> DEFINE packet == [sequence |-> outgoingSequence, fragmented |-> FALSE,
                          start |-> 0, data |-> Contents(outgoingSequence, length)]
    <2>1. /\ net' = net \cup {packet}
          /\ outgoingSequence' = outgoingSequence + 1
          /\ unsent' = unsent
      BY <1>7 DEF Transmit
    <2>2. Len(message'[outgoingSequence]) = length
      BY <1>2, <1>4, ContentsFacts
    <2>3. packet \in Packets(outgoingSequence, length) /\ packet.sequence = outgoingSequence
      BY DEF Packets
    <2>4. outgoingSequence \in DOMAIN message'
      BY <1>2, <1>5
    <2>5. NetInv'
      <3> HIDE DEF packet
      <3> QED BY <1>6, <2>1, <2>2, <2>3, <2>4 DEF NetInv
    <2>6. SenderInv'
      BY <1>1, <1>2, <2>1 DEF SenderInv
    <2> QED BY <1>2, <1>3, <2>5, <2>6 DEF IInv
  <1>8. CASE ~(length < FragmentSize)
    <2>1. TransmitNextFragment(length, 0)
      BY <1>8 DEF Transmit
    <2>2. 0 \in StartsFrom(length, 0)
      BY <1>4, ZeroStart, NetchanAssumption DEF StartsFrom
    <2>3. outgoingSequence = Len(message')
      BY <1>2
    <2>4. SenderInv' /\ NetInv'
      BY <1>2, <1>4, <1>6, <2>1, <2>2, <2>3, FragmentSent
    <2> QED BY <1>2, <1>3, <2>4 DEF IInv
  <1> QED BY <1>7, <1>8

\* Both kinds of step that send what is unsent leave the messages alone.
LEMMA Unsent ==
  ASSUME IInv, unsent # Nothing
  PROVE  /\ unsent.length \in Nat \ {0} /\ unsent.start \in StartsFrom(unsent.length, 0)
         /\ outgoingSequence = Len(message) /\ outgoingSequence \in Nat \ {0}
         /\ message[outgoingSequence] = Contents(outgoingSequence, unsent.length)
  <1>1. Len(message) \in Nat
    BY LenProperties DEF IInv, MessageInv
  <1> QED BY <1>1 DEF IInv, SenderInv

LEMMA NextFragmentKeeps ==
  ASSUME IInv, NextFragment
  PROVE  IInv'
  <1>1. /\ unsent # Nothing /\ TransmitNextFragment(unsent.length, unsent.start)
        /\ message' = message /\ UNCHANGED receiver
    BY DEF NextFragment
  <1>2. MessageInv'
    BY <1>1 DEF IInv, MessageInv
  <1>3. Len(message) \in Nat
    BY LenProperties DEF IInv, MessageInv
  <1>4. ReceiverInv' /\ BufferIsPrefix'
    BY <1>1, <1>2, <1>3, ReceiverUndisturbed
  <1>5. SenderInv' /\ NetInv'
    BY <1>1, <1>2, Unsent, FragmentSent DEF IInv, NetInv
  <1> QED BY <1>2, <1>4, <1>5 DEF IInv

LEMMA FlushKeeps ==
  ASSUME IInv, Flush
  PROVE  IInv'
  <1> DEFINE length == unsent.length
             n == outgoingSequence
  <1>1. /\ unsent # Nothing /\ message' = message /\ UNCHANGED receiver
        /\ net' = net \cup {Fragment(n, length, s) : s \in StartsFrom(length, unsent.start)}
        /\ outgoingSequence' = outgoingSequence + 1
        /\ unsent' = Nothing
    BY DEF Flush
  <1>2. MessageInv'
    BY <1>1 DEF IInv, MessageInv
  <1>3. Len(message) \in Nat
    BY LenProperties DEF IInv, MessageInv
  <1>4. ReceiverInv' /\ BufferIsPrefix'
    BY <1>1, <1>2, <1>3, ReceiverUndisturbed
  <1>5. /\ length \in Nat \ {0} /\ unsent.start \in StartsFrom(length, 0)
        /\ n = Len(message) /\ n \in Nat \ {0}
        /\ message[n] = Contents(n, length)
    BY <1>1, Unsent
  <1>6. SenderInv'
    BY <1>1, <1>3, <1>5 DEF SenderInv, Nothing
  <1>7. NetInv'
    <2> SUFFICES ASSUME NEW packet \in net'
                 PROVE  /\ packet.sequence \in DOMAIN message
                        /\ packet \in Packets(packet.sequence, Len(message[packet.sequence]))
      BY <1>1 DEF NetInv
    <2>1. CASE packet \in net
      BY <2>1 DEF IInv, NetInv
    <2>2. CASE \E s \in StartsFrom(length, unsent.start) : packet = Fragment(n, length, s)
      <3>1. PICK s \in StartsFrom(length, unsent.start) : packet = Fragment(n, length, s)
        BY <2>2
      <3>2. s \in StartsFrom(length, 0)
        BY <1>5 DEF StartsFrom
      <3>3. packet.sequence = n
        BY <1>5, <3>1, <3>2, FragmentFacts
      <3>4. packet \in Packets(n, length)
        BY <3>1, <3>2 DEF Packets
      <3>5. Len(message[n]) = length
        BY <1>5, ContentsFacts
      <3>6. n \in DOMAIN message
        BY <1>5 DEF IInv, MessageInv
      <3> QED BY <3>3, <3>4, <3>5, <3>6
    <2> QED BY <1>1, <2>1, <2>2
  <1> QED BY <1>2, <1>4, <1>6, <1>7 DEF IInv
-----------------------------------------------------------------------------
(* Receiving *)

\* The buffer a fragment is added to is the beginning of the fragment's message,
\* and a fragment that is not dropped continues it.
LEMMA BufferFacts ==
  ASSUME IInv, NEW packet \in net, packet.fragmented
  PROVE  LET n == packet.sequence
             buffer == Buffer(packet)
         IN  /\ buffer \in Seq(Units) /\ Len(buffer) \in Nat
             /\ Len(buffer) <= BufferSize
             /\ Len(buffer) % FragmentSize = 0
             /\ Len(buffer) <= Len(message[n])
             /\ buffer = SubSeq(message[n], 1, Len(buffer))
  <1> DEFINE n == packet.sequence
             buffer == Buffer(packet)
  <1>1. message[n] \in Seq(Units) /\ Len(message[n]) \in Nat
    BY PacketFacts DEF IInv, Messages
  <1>2. CASE buffer = <<>>
    <2>1. Len(buffer) = 0
      BY <1>2
    <2>2. SubSeq(message[n], 1, 0) = <<>>
      BY SubSeqEmpty
    <2> QED BY <1>1, <1>2, <2>1, <2>2, ZeroStart, NetchanAssumption
  <1>3. CASE buffer # <<>>
    <2>1. n = fragmentSequence /\ buffer = fragmentBuffer
      BY <1>3 DEF Buffer
    <2> QED BY <1>3, <2>1 DEF IInv, ReceiverInv, BufferIsPrefix
  <1> QED BY <1>2, <1>3

\* The buffer with the fragment that continues it: a longer beginning.
LEMMA Continued ==
  ASSUME IInv, NEW packet \in net, packet.fragmented, ~DropsFragment(packet)
  PROVE  LET m == message[packet.sequence]
             longer == Buffer(packet) \o packet.data
         IN  /\ longer \in Seq(Units) /\ Len(longer) \in Nat
             /\ Len(longer) = Len(Buffer(packet)) + Len(packet.data)
             /\ Len(longer) <= BufferSize
             /\ Len(longer) <= Len(m)
             /\ longer = SubSeq(m, 1, Len(longer))
             /\ Last(packet) => longer = m
             /\ ~Last(packet) => Len(longer) % FragmentSize = 0
  <1> DEFINE n == packet.sequence
             m == message[n]
             length == Len(m)
             size == Lesser(FragmentSize, length - packet.start)
             buffer == Buffer(packet)
             longer == buffer \o packet.data
  <1>1. /\ n \in Nat /\ length \in Nat /\ m \in Seq(Units) /\ m = Contents(n, length)
        /\ packet.start \in StartsFrom(length, 0)
        /\ packet = Fragment(n, length, packet.start)
    BY PacketFacts DEF IInv, Messages
  <1>2. /\ size \in Nat /\ packet.start + size <= length
        /\ packet.data = SubSeq(Contents(n, length), packet.start + 1, packet.start + size)
        /\ packet.data \in Seq(Units)
        /\ Len(packet.data) = size
        /\ Last(packet) <=> size # FragmentSize
        /\ Last(packet) => packet.start + size = length
    BY <1>1, FragmentFacts, SMTT(20) DEF Messages
  <1>3. /\ buffer \in Seq(Units) /\ Len(buffer) \in Nat
        /\ Len(buffer) % FragmentSize = 0
        /\ buffer = SubSeq(m, 1, Len(buffer))
    BY BufferFacts
  <1>4. packet.start = Len(buffer) /\ Len(buffer) + size <= BufferSize
    <2>1. packet.start = Len(buffer) /\ ~(Len(buffer) + Len(packet.data) > BufferSize)
      BY DEF DropsFragment
    <2>2. BufferSize \in Nat
      BY NetchanAssumption
    <2> HIDE DEF buffer, size
    <2> QED BY <1>2, <1>3, <2>1, <2>2
  <1>5. packet.data = SubSeq(m, Len(buffer) + 1, Len(buffer) + size)
    BY <1>1, <1>2, <1>4
  <1>6. longer \in Seq(Units) /\ Len(longer) = Len(buffer) + size
    <2> HIDE DEF buffer, size
    <2> QED BY <1>2, <1>3, ConcatProperties
  <1>7. longer = SubSeq(m, 1, Len(buffer) + size)
    <2>1. /\ 1 \in 1 .. Len(m) + 1 /\ Len(buffer) \in 1 - 1 .. Len(m)
          /\ Len(buffer) + size \in Len(buffer) .. Len(m)
      <3> HIDE DEF m, buffer, size
      <3> QED BY <1>1, <1>2, <1>3, <1>4
    <2>2. SubSeq(m, 1, Len(buffer)) \o SubSeq(m, Len(buffer) + 1, Len(buffer) + size)
            = SubSeq(m, 1, Len(buffer) + size)
      <3> HIDE DEF m, buffer, size
      <3> QED BY <1>1, <2>1, ConcatAdjacentSubSeq
    <2> QED BY <1>3, <1>5, <2>2
  <1>8. Last(packet) => longer = m
    BY <1>1, <1>2, <1>4, <1>7, SubSeqFull
  <1>9. ~Last(packet) => Len(longer) % FragmentSize = 0
    <2> SUFFICES ASSUME ~Last(packet) PROVE Len(longer) % FragmentSize = 0
      OBVIOUS
    <2>1. Len(longer) = Len(buffer) + FragmentSize
      BY <1>2, <1>6
    <2> QED BY <1>3, <2>1, NextStart, NetchanAssumption
  <1>10. /\ Len(longer) \in Nat /\ Len(longer) = Len(buffer) + Len(packet.data)
         /\ Len(longer) <= BufferSize /\ Len(longer) <= Len(m)
         /\ longer = SubSeq(m, 1, Len(longer))
    <2> HIDE DEF m, buffer, size, longer
    <2> QED BY <1>1, <1>2, <1>3, <1>4, <1>6, <1>7, NetchanAssumption
  <1> QED BY <1>6, <1>8, <1>9, <1>10

\* A message that is handed on is later than the last and is whole.
LEMMA HandedOn ==
  ASSUME IInv, NEW packet \in net, Process(packet), Whole(packet) \/ Completed(packet)
  PROVE  /\ packet.sequence \in incomingSequence + 1 .. Len(message)
         /\ incomingSequence' = packet.sequence
         /\ received' = received + 1
         /\ got' = message[packet.sequence]
  <1>1. packet.sequence \in 1 .. Len(message) /\ incomingSequence \in Nat
    BY PacketFacts DEF IInv, ReceiverInv
  <1>2. packet.sequence > incomingSequence
    BY DEF Process, Fresh
  <1>3. CASE Whole(packet)
    BY <1>1, <1>2, <1>3, PacketFacts DEF IInv, Whole, HandOn
  <1>4. CASE Completed(packet)
    <2>1. packet.fragmented /\ ~DropsFragment(packet) /\ Last(packet)
      BY <1>4 DEF Completed
    <2>2. Buffer(packet) \o packet.data = message[packet.sequence]
      BY <2>1, Continued
    <2> QED BY <1>1, <1>2, <1>4, <2>2 DEF Completed, HandOn
  <1> QED BY <1>3, <1>4

\* Any other packet leaves what was handed on alone.
LEMMA NotHandedOn ==
  ASSUME NEW packet, Dropped(packet) \/ Collected(packet)
  PROVE  UNCHANGED <<incomingSequence, got, received>>
  BY DEF Dropped, Collected

LEMMA ProcessKeeps ==
  ASSUME IInv, NEW packet \in net, Process(packet)
  PROVE  IInv'
  <1> DEFINE n == packet.sequence
  <1>1. UNCHANGED sender
    BY DEF Process
  <1>2. MessageInv' /\ SenderInv' /\ NetInv'
    BY <1>1 DEF IInv, MessageInv, SenderInv, NetInv, sender
  <1>3. message' = message
    BY <1>1 DEF sender
  <1>4. n \in 1 .. Len(message) /\ n \in DOMAIN message /\ Len(message) \in Nat
        /\ Len(message[n]) \in Nat
    BY PacketFacts, LenProperties DEF IInv, MessageInv, NetInv
  <1>5. CASE Whole(packet)
    <2>1. fragmentSequence' = fragmentSequence /\ fragmentBuffer' = fragmentBuffer
      BY <1>5 DEF Whole
    <2>2. BufferIsPrefix'
      BY <1>3, <2>1 DEF IInv, BufferIsPrefix
    <2>3. ReceiverInv'
      BY <1>3, <1>4, <1>5, <2>1, HandedOn DEF IInv, ReceiverInv
    <2> QED BY <1>2, <2>2, <2>3 DEF IInv
  <1>6. CASE Dropped(packet)
    <2>1. /\ packet.fragmented
          /\ fragmentSequence' = n /\ fragmentBuffer' = Buffer(packet)
      BY <1>6 DEF Dropped
    <2>2. ReceiverInv'
      BY <1>3, <1>4, <1>6, <2>1, BufferFacts, NotHandedOn DEF IInv, ReceiverInv
    <2>3. BufferIsPrefix'
      BY <1>3, <1>4, <2>1, BufferFacts DEF BufferIsPrefix
    <2> QED BY <1>2, <2>2, <2>3 DEF IInv
  <1>7. CASE Collected(packet)
    <2>1. /\ packet.fragmented /\ ~DropsFragment(packet) /\ ~Last(packet)
          /\ fragmentSequence' = n
          /\ fragmentBuffer' = Buffer(packet) \o packet.data
      BY <1>7 DEF Collected
    <2>2. ReceiverInv'
      BY <1>3, <1>4, <1>7, <2>1, Continued, NotHandedOn, SMTT(20) DEF IInv, ReceiverInv
    <2>3. BufferIsPrefix'
      BY <1>3, <1>4, <2>1, Continued DEF BufferIsPrefix
    <2> QED BY <1>2, <2>2, <2>3 DEF IInv
  <1>8. CASE Completed(packet)
    <2>1. fragmentSequence' = n /\ fragmentBuffer' = <<>>
      BY <1>8 DEF Completed
    <2>2. ReceiverInv'
      BY <1>3, <1>4, <1>8, <2>1, HandedOn DEF IInv, ReceiverInv
    <2>3. BufferIsPrefix'
      BY <2>1, NetchanAssumption DEF BufferIsPrefix
    <2> QED BY <1>2, <2>2, <2>3 DEF IInv
  <1> QED BY <1>5, <1>6, <1>7, <1>8 DEF Process
-----------------------------------------------------------------------------
(* The theorems *)

LEMMA InitInv == Init => IInv
  <1> SUFFICES ASSUME Init PROVE IInv
    OBVIOUS
  <1>1. MessageInv /\ SenderInv /\ NetInv
    BY EmptySeq DEF Init, MessageInv, SenderInv, NetInv, Nothing
  <1>2. ReceiverInv /\ BufferIsPrefix
    BY EmptySeq, NetchanAssumption DEF Init, ReceiverInv, BufferIsPrefix
  <1> QED BY <1>1, <1>2 DEF IInv

LEMMA StepInv == IInv /\ [Next]_vars => IInv'
  <1> SUFFICES ASSUME IInv, [Next]_vars PROVE IInv'
    OBVIOUS
  <1>1. CASE UNCHANGED vars
    BY <1>1 DEF vars, IInv, MessageInv, SenderInv, NetInv, ReceiverInv, BufferIsPrefix
  <1>2. CASE \E length \in 1 .. MaxLength : Transmit(length)
    BY <1>2, TransmitKeeps
  <1>3. CASE NextFragment
    BY <1>3, NextFragmentKeeps
  <1>4. CASE Flush
    BY <1>4, FlushKeeps
  <1>5. CASE \E packet \in net : Process(packet)
    BY <1>5, ProcessKeeps
  <1> QED BY <1>1, <1>2, <1>3, <1>4, <1>5 DEF Next

\* The invariant holds for every size of fragments, buffer and messages.
THEOREM Invariant == Spec => []IInv
  BY InitInv, StepInv, PTL DEF Spec

\* Whatever the network repeats, reorders or loses, custom_Netchan_Process
\* collects one message at a time, without a gap and within its buffer.
THEOREM BufferSound == Spec => []BufferIsPrefix
  <1>1. IInv => BufferIsPrefix
    BY DEF IInv
  <1> QED BY Invariant, <1>1, PTL

\* An element that is appended is appended to every tail.
LEMMA TailOfAppend ==
  ASSUME NEW S, NEW s \in Seq(S), NEW e \in S, NEW t, t = Append(s, e), NEW a \in 0 .. Len(s)
  PROVE  SubSeq(t, a + 1, Len(t)) = Append(SubSeq(s, a + 1, Len(s)), e)
  <1> DEFINE old == SubSeq(s, a + 1, Len(s))
             new == SubSeq(t, a + 1, Len(t))
  <1>1. /\ t \in Seq(S) /\ Len(t) = Len(s) + 1 /\ Len(s) \in Nat /\ a \in Nat /\ a <= Len(s)
        /\ t[Len(s) + 1] = e /\ \A i \in 1 .. Len(s) : t[i] = s[i]
    BY AppendProperties, LenProperties
  <1>2. /\ old \in Seq(S) /\ Len(old) = Len(s) - a
        /\ \A i \in 1 .. Len(s) - a : old[i] = s[a + i]
    BY <1>1, SubSeqProperties
  <1>3. /\ new \in Seq(S) /\ Len(new) = Len(s) + 1 - a
        /\ \A i \in 1 .. Len(s) + 1 - a : new[i] = t[a + i]
    BY <1>1, SubSeqProperties
  <1> HIDE DEF old, new
  <1>4. /\ Append(old, e) \in Seq(S) /\ Len(Append(old, e)) = Len(s) - a + 1
        /\ \A i \in 1 .. Len(s) - a : Append(old, e)[i] = old[i]
        /\ Append(old, e)[Len(s) - a + 1] = e
    BY <1>2, AppendProperties
  <1>5. ASSUME NEW i \in 1 .. Len(s) + 1 - a
        PROVE  new[i] = Append(old, e)[i]
    <2>1. CASE i \in 1 .. Len(s) - a
      <3>1. a + i \in 1 .. Len(s)
        BY <1>1, <2>1
      <3> QED BY <1>1, <1>2, <1>3, <1>4, <2>1, <3>1
    <2>2. CASE i = Len(s) - a + 1
      <3>1. a + i = Len(s) + 1
        BY <1>1, <2>2
      <3> QED BY <1>1, <1>3, <1>4, <2>2, <3>1
    <2>3. i \in 1 .. Len(s) - a \/ i = Len(s) - a + 1
      <3>1. Len(s) \in Nat /\ a \in Nat /\ a <= Len(s)
        BY <1>1
      <3> QED BY <3>1
    <2> QED BY <2>1, <2>2, <2>3
  <1>6. Len(new) = Len(Append(old, e)) /\ \A i \in 1 .. Len(new) : new[i] = Append(old, e)[i]
    BY <1>1, <1>3, <1>4, <1>5
  <1> QED BY <1>3, <1>4, <1>6, SeqEqual DEF old, new

\* A tail of a tail is a tail.
LEMMA TailOfTail ==
  ASSUME NEW S, NEW s \in Seq(S), NEW a \in 0 .. Len(s), NEW b \in a + 1 .. Len(s)
  PROVE  LET t == SubSeq(s, a + 1, Len(s))
         IN  /\ b - a \in DOMAIN t
             /\ t[b - a] = s[b]
             /\ SubSeq(s, b + 1, Len(s)) = SubSeq(t, (b - a) + 1, Len(t))
  <1> DEFINE t == SubSeq(s, a + 1, Len(s))
             i == b - a
             later == SubSeq(s, b + 1, Len(s))
             rest == SubSeq(t, i + 1, Len(t))
  <1>1. Len(s) \in Nat /\ a \in Nat /\ b \in Nat /\ a < b /\ b <= Len(s)
    BY LenProperties
  <1>2. /\ t \in Seq(S) /\ Len(t) = Len(s) - a
        /\ \A j \in 1 .. Len(s) - a : t[j] = s[a + j]
    BY <1>1, SubSeqProperties
  <1>3. /\ later \in Seq(S) /\ Len(later) = Len(s) - b
        /\ \A j \in 1 .. Len(s) - b : later[j] = s[b + j]
    BY <1>1, SubSeqProperties
  <1> HIDE DEF t, later
  <1>4. i \in 1 .. Len(t) /\ i = b - a
    BY <1>1, <1>2
  <1>5. i \in DOMAIN t /\ t[i] = s[b]
    BY <1>1, <1>2, <1>4
  <1> HIDE DEF i
  <1>6. /\ rest \in Seq(S) /\ Len(rest) = Len(t) - i
        /\ \A j \in 1 .. Len(t) - i : rest[j] = t[i + j]
    <2>1. Len(t) \in Nat /\ i \in Nat /\ i + 1 \in Int /\ i <= Len(t)
      BY <1>2, <1>4, LenProperties
    <2>2. \A j \in i + 1 .. Len(t) : t[j] \in S
      BY <1>2, <2>1, ElementOfSeq
    <2>3. \A j \in 1 .. Len(t) - (i + 1) + 1 : rest[j] = t[i + 1 + j - 1]
      BY <2>1, <2>2, SubSeqProperties
    <2>4. rest \in Seq(S) /\ Len(rest) = IF i + 1 <= Len(t) THEN Len(t) - (i + 1) + 1 ELSE 0
      BY <2>1, <2>2, SubSeqProperties
    <2> HIDE DEF rest
    <2> QED BY <2>1, <2>3, <2>4
  <1> HIDE DEF rest
  <1>7. Len(rest) = Len(later)
    BY <1>1, <1>2, <1>3, <1>4, <1>6
  <1>8. ASSUME NEW j \in 1 .. Len(later)
        PROVE  later[j] = rest[j]
    <2>1. j \in 1 .. Len(s) - b /\ j \in 1 .. Len(t) - i /\ i + j \in 1 .. Len(s) - a
          /\ a + (i + j) = b + j
      BY <1>1, <1>2, <1>3, <1>4
    <2> QED BY <1>2, <1>3, <1>6, <2>1
  <1>9. later = rest
    BY <1>3, <1>6, <1>7, <1>8, SeqEqual
  <1> QED BY <1>5, <1>9 DEF t, i, later, rest

\* A message that is begun is one that is sent.
LEMMA TransmitSends ==
  ASSUME IInv, NEW length \in 1 .. MaxLength, Transmit(length)
  PROVE  Channel!Next
  <1> DEFINE m == Contents(outgoingSequence, length)
  <1>1. /\ message' = Append(message, m)
        /\ outgoingSequence = Len(message) + 1
        /\ Len(message) \in Nat
    BY MessageAdded DEF IInv, Transmit
  <1>2. /\ outgoingSequence \in 1 .. MaxSequence
        /\ UNCHANGED <<incomingSequence, got, received>>
    BY <1>1, NetchanAssumption DEF Transmit, receiver
  <1>3. incomingSequence \in 0 .. Len(message) /\ message \in Seq(Messages)
    BY DEF IInv, ReceiverInv, MessageInv
  <1>4. m \in Messages
    BY <1>1, <1>2, NetchanAssumption, ContentsFacts
  <1>5. SubSeq(message', incomingSequence + 1, Len(message'))
          = Append(SubSeq(message, incomingSequence + 1, Len(message)), m)
    <2> HIDE DEF m
    <2> QED BY <1>1, <1>3, <1>4, TailOfAppend
  <1>6. Channel!Send(m)
    BY <1>2, <1>5 DEF Channel!Send
  <1> QED BY <1>2, <1>6 DEF Channel!Next

\* A message that is handed on is one that is received.
LEMMA HandedOnReceives ==
  ASSUME IInv, NEW packet \in net, Process(packet), Whole(packet) \/ Completed(packet)
  PROVE  Channel!Next
  <1> DEFINE i == packet.sequence - incomingSequence
             flight == SubSeq(message, incomingSequence + 1, Len(message))
  <1>1. /\ packet.sequence \in incomingSequence + 1 .. Len(message)
        /\ incomingSequence' = packet.sequence
        /\ received' = received + 1
        /\ got' = message[packet.sequence]
    BY HandedOn
  <1>2. /\ message' = message /\ message \in Seq(Messages)
        /\ incomingSequence \in 0 .. Len(message)
    BY DEF IInv, MessageInv, ReceiverInv, Process, sender
  <1>3. /\ i \in DOMAIN flight
        /\ flight[i] = message[packet.sequence]
        /\ SubSeq(message, packet.sequence + 1, Len(message))
             = SubSeq(flight, i + 1, Len(flight))
    BY <1>1, <1>2, TailOfTail
  <1>4. Channel!Receive(i)
    BY <1>1, <1>2, <1>3 DEF Channel!Receive
  <1> QED BY <1>3, <1>4 DEF Channel!Next

LEMMA StepRefines ==
  IInv /\ [Next]_vars
    => [Channel!Next]_<<SubSeq(message, incomingSequence + 1, Len(message)), got, received>>
  <1> SUFFICES ASSUME IInv, [Next]_vars
               PROVE  \/ Channel!Next
                      \/ UNCHANGED <<message, incomingSequence, got, received>>
    OBVIOUS
  <1>1. CASE UNCHANGED vars
    BY <1>1 DEF vars
  <1>2. CASE \E length \in 1 .. MaxLength : Transmit(length)
    BY <1>2, TransmitSends
  <1>3. CASE NextFragment \/ Flush
    BY <1>3 DEF NextFragment, Flush, receiver
  <1>4. CASE \E packet \in net : Process(packet)
    <2>1. PICK packet \in net : Process(packet)
      BY <1>4
    <2>2. CASE Whole(packet) \/ Completed(packet)
      BY <2>1, <2>2, HandedOnReceives
    <2>3. CASE Dropped(packet) \/ Collected(packet)
      BY <2>1, <2>3, NotHandedOn DEF Process, sender
    <2> QED BY <2>1, <2>2, <2>3 DEF Process
  <1> QED BY <1>1, <1>2, <1>3, <1>4 DEF Next

\* The netchan keeps the promise of MessageChannel over any network: whole
\* messages, in the order they were sent, each at most once.
THEOREM Refinement == Spec => ImplementsChannel
  <1>1. Init => Channel!Init
    BY SubSeqEmpty DEF Init, Channel!Init
  <1> QED BY Invariant, StepRefines, <1>1, PTL DEF Spec, ImplementsChannel, Channel!Spec
==============================================================================

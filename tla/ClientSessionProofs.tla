-------------------------- MODULE ClientSessionProofs --------------------------
(* ClientSession for any ring, any window, any number of levels and any messages *)
(* lost.  First the server commands: unless the ring was full, none is skipped.  *)
(* Then the session: the server never drops the client, the client's file is the *)
(* one it asked for, and it is in the world only of the level it knows.          *)
EXTENDS ClientSession, SequenceTheorems, WellFoundedInduction, TLAPS

IsSeq(s) == \E S : s \in Seq(S)

FromClient(m) == "reliable" \in DOMAIN m /\ m.reliable \in Nat
FromServer(m) == /\ {"first", "last", "gamestate"} \subseteq DOMAIN m
                 /\ m.first \in Nat /\ m.last \in Nat
\* A message that carries commands starts with none the client lacks.
Continues(m) == m.gamestate.level = 0 /\ m.last > m.first => m.first <= serverCommandSequence

Shape ==
    /\ IsSeq(submitted) /\ IsSeq(up) /\ IsSeq(down)
    /\ reliableAcknowledge \in Nat /\ serverCommandSequence \in Nat /\ full \in BOOLEAN
    /\ \A i \in 1..Len(up) : FromClient(up[i])
    /\ \A i \in 1..Len(down) : FromServer(down[i])

\* While the ring has room no acknowledgement under way is out of range: they are
\* between the one the server read last and what the client received, and no message
\* acknowledges less than those before it.
RingInv ==
    /\ reliableSequence - reliableAcknowledge < MaxReliable
    /\ reliableAcknowledge <= serverCommandSequence
    /\ \A i \in 1..Len(up) : /\ reliableAcknowledge <= up[i].reliable
                             /\ up[i].reliable <= serverCommandSequence
    /\ \A i, j \in 1..Len(up) : i < j => up[i].reliable <= up[j].reliable
    /\ \A i \in 1..Len(down) : Continues(down[i])

IInv == Shape /\ (full \/ RingInv)

-----------------------------------------------------------------------------
(* The channels *)

LEMMA SeqFacts ==
  ASSUME NEW s, IsSeq(s)
  PROVE  Len(s) \in Nat /\ DOMAIN s = 1..Len(s)
  <1>1. PICK S : s \in Seq(S)
    BY DEF IsSeq
  <1> QED BY <1>1, LenProperties

LEMMA LaterFacts ==
  ASSUME NEW s, IsSeq(s), NEW i \in 1..Len(s)
  PROVE  /\ IsSeq(Later(s, i)) /\ Len(Later(s, i)) = Len(s) - i
         /\ \A n \in 1..Len(Later(s, i)) : Later(s, i)[n] = s[n + i] /\ n + i \in 1..Len(s)
  <1>1. PICK S : s \in Seq(S)
    BY DEF IsSeq
  <1>2. Len(s) \in Nat /\ i \in Nat /\ \A n \in 1..Len(s) : s[n] \in S
    BY <1>1, LenProperties, ElementOfSeq
  <1>3. i + 1 \in Int /\ Len(s) \in Int /\ \A n \in i + 1 .. Len(s) : s[n] \in S
    BY <1>2
  <1>4. /\ Later(s, i) \in Seq(S)
        /\ Len(Later(s, i)) = IF i + 1 <= Len(s) THEN Len(s) - (i + 1) + 1 ELSE 0
        /\ \A n \in 1 .. Len(s) - (i + 1) + 1 : Later(s, i)[n] = s[i + 1 + n - 1]
    BY <1>3, SubSeqProperties DEF Later
  <1>5. Len(Later(s, i)) = Len(s) - i
    BY <1>2, <1>4
  <1>6. \A n \in 1 .. Len(s) - i : /\ n \in 1 .. Len(s) - (i + 1) + 1
                                   /\ i + 1 + n - 1 = n + i /\ n + i \in 1..Len(s)
    BY <1>2
  <1> QED BY <1>4, <1>5, <1>6 DEF IsSeq

\* What is put into a channel comes last; the oldest may be lost.
LEMMA PutFacts ==
  ASSUME NEW s, IsSeq(s), NEW m
  PROVE  /\ IsSeq(Put(s, m))
         /\ \E k \in {0, 1} :
              /\ Len(Put(s, m)) = Len(s) + 1 - k
              /\ \A n \in 1..Len(Put(s, m)) :
                   \/ n + k \in 1..Len(s) /\ Put(s, m)[n] = s[n + k]
                   \/ n = Len(Put(s, m)) /\ Put(s, m)[n] = m
  <1>1. PICK R : s \in Seq(R)
    BY DEF IsSeq
  <1> DEFINE S == R \cup {m}
             longer == Append(s, m)
             L == Len(s)
  <1>2. s \in Seq(S) /\ m \in S /\ L \in Nat
    <2>1. L \in Nat /\ s \in [1..L -> R]
      BY <1>1, LenProperties
    <2>2. R \subseteq S
      OBVIOUS
    <2> QED BY <1>1, <2>1, <2>2
  <1> HIDE DEF S
  <1>3. /\ longer \in Seq(S) /\ longer # <<>> /\ Len(longer) = L + 1
        /\ \A n \in 1..L : longer[n] = s[n]
        /\ longer[L + 1] = m
    BY <1>2, AppendProperties
  <1>4. CASE Len(longer) > Capacity
    <2>1. Put(s, m) = Tail(longer)
      BY <1>4 DEF Put
    <2>2. /\ Tail(longer) \in Seq(S) /\ Len(Tail(longer)) = Len(longer) - 1
          /\ \A n \in 1..Len(Tail(longer)) : Tail(longer)[n] = longer[n + 1]
      BY <1>3, HeadTailProperties
    <2> HIDE DEF longer, L
    <2>3. /\ Put(s, m) \in Seq(S) /\ Len(Put(s, m)) = L
          /\ \A n \in 1..L : Put(s, m)[n] = longer[n + 1]
      BY <1>2, <1>3, <2>1, <2>2
    <2>4. \A n \in 1..L : \/ n + 1 \in 1..L /\ Put(s, m)[n] = s[n + 1]
                          \/ n = L /\ Put(s, m)[n] = m
      <3> TAKE n \in 1..L
      <3>1. n + 1 \in 1..L \/ n = L
        BY <1>2
      <3> QED BY <1>3, <2>3, <3>1
    <2> QED BY <1>2, <2>3, <2>4 DEF IsSeq, L
  <1>5. CASE ~(Len(longer) > Capacity)
    <2>1. Put(s, m) = longer
      BY <1>5 DEF Put
    <2> HIDE DEF longer, L
    <2>2. \A n \in 1 .. L + 1 : \/ n + 0 \in 1..L /\ Put(s, m)[n] = s[n + 0]
                                \/ n = L + 1 /\ Put(s, m)[n] = m
      <3> TAKE n \in 1 .. L + 1
      <3>1. (n \in 1..L /\ n + 0 = n) \/ n = L + 1
        BY <1>2
      <3> QED BY <1>3, <2>1, <3>1
    <2>3. Put(s, m) \in Seq(S) /\ Len(Put(s, m)) = L + 1 - 0
      BY <1>2, <1>3, <2>1
    <2> QED BY <1>2, <1>3, <2>1, <2>2, <2>3 DEF IsSeq, L
  <1> QED BY <1>4, <1>5

LEMMA AgedFacts ==
  ASSUME NEW s, IsSeq(s)
  PROVE  /\ IsSeq(Aged(s)) /\ Len(Aged(s)) = Len(s)
         /\ \A n \in 1..Len(s) : Aged(s)[n] = [s[n] EXCEPT !.age = Before]
  <1>1. Len(s) \in Nat /\ DOMAIN s = 1..Len(s)
    BY SeqFacts
  <1> DEFINE S == {[s[n] EXCEPT !.age = Before] : n \in 1..Len(s)}
             a == [n \in 1..Len(s) |-> [s[n] EXCEPT !.age = Before]]
  <1>2. Aged(s) = a
    BY <1>1 DEF Aged
  <1>3. a \in [1..Len(s) -> S]
    OBVIOUS
  <1>4. \A n \in 1..Len(s) : a[n] = [s[n] EXCEPT !.age = Before]
    OBVIOUS
  <1> HIDE DEF S, a
  <1>5. a \in Seq(S) /\ Len(a) = Len(s)
    BY <1>1, <1>3
  <1> QED BY <1>2, <1>4, <1>5 DEF IsSeq

\* Growing older changes nothing that counts here.
LEMMA AgedKeeps ==
  ASSUME NEW s, IsSeq(s)
  PROVE  \A n \in 1..Len(s) :
           /\ FromClient(s[n]) => /\ FromClient(Aged(s)[n])
                                  /\ Aged(s)[n].reliable = s[n].reliable
           /\ FromServer(s[n]) => /\ FromServer(Aged(s)[n])
                                  /\ Continues(s[n]) => Continues(Aged(s)[n])
  <1> TAKE n \in 1..Len(s)
  <1> DEFINE a == [s[n] EXCEPT !.age = Before]
  <1>1. Aged(s)[n] = a
    BY AgedFacts
  <1>2. ASSUME FromClient(s[n])
        PROVE  FromClient(a) /\ a.reliable = s[n].reliable
    <2>1. "reliable" \in DOMAIN s[n] /\ s[n].reliable \in Nat
      BY <1>2 DEF FromClient
    <2>2. DOMAIN a = DOMAIN s[n] /\ a.reliable = s[n].reliable
      BY <2>1
    <2> HIDE DEF a
    <2> QED BY <2>1, <2>2 DEF FromClient
  <1>3. ASSUME FromServer(s[n])
        PROVE  FromServer(a) /\ (Continues(s[n]) => Continues(a))
    <2>1. /\ "first" \in DOMAIN s[n] /\ "last" \in DOMAIN s[n]
          /\ "gamestate" \in DOMAIN s[n]
          /\ s[n].first \in Nat /\ s[n].last \in Nat
      BY <1>3 DEF FromServer
    <2>2. DOMAIN a = DOMAIN s[n]
      OBVIOUS
    <2>3. a.first = s[n].first
      BY <2>1
    <2>4. a.last = s[n].last
      BY <2>1
    <2>5. a.gamestate = s[n].gamestate
      BY <2>1
    <2> HIDE DEF a
    <2> QED BY <2>1, <2>2, <2>3, <2>4, <2>5 DEF FromServer, Continues
  <1> HIDE DEF a
  <1> QED BY <1>1, <1>2, <1>3

LEMMA PutDown ==
  ASSUME NEW d, IsSeq(d), \A n \in 1..Len(d) : FromServer(d[n]), NEW m, FromServer(m)
  PROVE  /\ IsSeq(Put(d, m)) /\ \A n \in 1..Len(Put(d, m)) : FromServer(Put(d, m)[n])
         /\ (\A n \in 1..Len(d) : Continues(d[n])) /\ Continues(m) =>
              \A n \in 1..Len(Put(d, m)) : Continues(Put(d, m)[n])
  BY PutFacts

\* The messages of the client that are left once one has arrived.
LEMMA Arrived ==
  ASSUME Shape, NEW i \in 1..Len(up), up' = Later(up, i) \/ up' = Aged(Later(up, i))
  PROVE  /\ IsSeq(up') /\ \A n \in 1..Len(up') : FromClient(up'[n])
         /\ \A n \in 1..Len(up') : /\ n + i \in 1..Len(up)
                                  /\ up'[n].reliable = up[n + i].reliable
  <1> DEFINE l == Later(up, i)
  <1>1. IsSeq(up) /\ \A n \in 1..Len(up) : FromClient(up[n])
    BY DEF Shape
  <1>2. /\ IsSeq(l) /\ \A n \in 1..Len(l) : l[n] = up[n + i] /\ n + i \in 1..Len(up)
    BY <1>1, LaterFacts
  <1>3. /\ \A n \in 1..Len(l) : FromClient(l[n])
    BY <1>1, <1>2
  <1> HIDE DEF l
  <1>4. CASE up' = l
    BY <1>2, <1>3, <1>4
  <1>5. CASE up' = Aged(l)
    <2>1. IsSeq(Aged(l)) /\ Len(Aged(l)) = Len(l)
      BY <1>2, AgedFacts
    <2>2. \A n \in 1..Len(l) : FromClient(Aged(l)[n]) /\ Aged(l)[n].reliable = l[n].reliable
      BY <1>2, <1>3, AgedKeeps
    <2> QED BY <1>2, <1>5, <2>1, <2>2
  <1> QED BY <1>4, <1>5 DEF l

-----------------------------------------------------------------------------
(* The steps *)

LEMMA SendSnapshotKeeps ==
  ASSUME IInv, SendSnapshot
  PROVE  IInv'
  <1>1. UNCHANGED <<submitted, reliableAcknowledge, full, up, serverCommandSequence>>
    BY DEF SendSnapshot, client
  <1>2. PICK w \in WriteDownload(download),
             last \in IF state = "ACTIVE" THEN Fitting ELSE {reliableAcknowledge} :
          down' = Put(down, [age |-> After, ack |-> lastClientCommand,
                             first |-> reliableAcknowledge, last |-> last,
                             gamestate |-> [level |-> 0, restart |-> 0],
                             block |-> w.block])
    BY DEF SendSnapshot
  <1> DEFINE m == [age |-> After, ack |-> lastClientCommand,
                   first |-> reliableAcknowledge, last |-> last,
                   gamestate |-> [level |-> 0, restart |-> 0], block |-> w.block]
  <1>3. /\ Shape /\ Len(submitted) \in Nat /\ reliableAcknowledge \in Nat
        /\ serverCommandSequence \in Nat
    BY SeqFacts DEF IInv, Shape
  <1>4. last \in Nat
    BY <1>2, <1>3 DEF Fitting, reliableSequence
  <1>5. FromServer(m) /\ m.first = reliableAcknowledge
    BY <1>3, <1>4 DEF FromServer
  <1>6. RingInv => Continues(m)
    BY <1>5 DEF RingInv, Continues
  <1> HIDE DEF m
  <1>7. down' = Put(down, m)
    BY <1>2 DEF m
  <1>8. /\ IsSeq(down') /\ \A n \in 1..Len(down') : FromServer(down'[n])
        /\ RingInv => \A n \in 1..Len(down') : Continues(down'[n])
    BY <1>3, <1>5, <1>6, <1>7, PutDown DEF Shape, RingInv
  <1>9. Shape'
    BY <1>1, <1>3, <1>8 DEF Shape
  <1>10. RingInv => RingInv'
    BY <1>1, <1>8 DEF RingInv, Continues, reliableSequence
  <1> QED BY <1>1, <1>9, <1>10 DEF IInv

\* What the server does with a message that has arrived: it takes its acknowledgement
\* or, if that is out of range, its own number of commands.
LEMMA PacketEventKeeps ==
  ASSUME IInv, NEW i \in DOMAIN up, PacketEvent(i)
  PROVE  IInv'
  <1>1. /\ Shape /\ i \in 1..Len(up) /\ Len(up) \in Nat /\ Len(submitted) \in Nat
        /\ reliableAcknowledge \in Nat /\ serverCommandSequence \in Nat
        /\ FromClient(up[i]) /\ up[i].reliable \in Nat /\ MaxReliable \in Nat
    BY SeqFacts, SessionAssumption DEF IInv, Shape, FromClient
  <1>2. UNCHANGED <<submitted, full, serverCommandSequence>>
    BY DEF PacketEvent
  <1>3. \/ OutOfRange(up[i]) /\ reliableAcknowledge' = reliableSequence
        \/ ~OutOfRange(up[i]) /\ reliableAcknowledge' = up[i].reliable
    BY DEF PacketEvent, Ignored, ExecuteClientMessage
  <1>4. \/ up' = Later(up, i) /\ down' = down
        \/ /\ up' = Aged(Later(up, i))
           /\ \E ack : down' = Put(Aged(down), GamestateMessage(ack, up[i].reliable))
    BY DEF PacketEvent, Ignored, ExecuteClientMessage, Executed, EnterWorld, Offered,
           SendsGamestate, SendsNothing
  <1>5. /\ IsSeq(up') /\ \A n \in 1..Len(up') : FromClient(up'[n])
        /\ \A n \in 1..Len(up') : /\ n + i \in 1..Len(up)
                                 /\ up'[n].reliable = up[n + i].reliable
    BY <1>1, <1>4, Arrived
  <1>6. /\ IsSeq(down') /\ \A n \in 1..Len(down') : FromServer(down'[n])
        /\ RingInv => \A n \in 1..Len(down') : Continues(down'[n])
    <2>1. CASE down' = down
      BY <1>1, <2>1 DEF Shape, RingInv
    <2>2. ASSUME NEW ack, down' = Put(Aged(down), GamestateMessage(ack, up[i].reliable))
          PROVE  /\ IsSeq(down') /\ \A n \in 1..Len(down') : FromServer(down'[n])
                 /\ RingInv => \A n \in 1..Len(down') : Continues(down'[n])
      <3> DEFINE m == GamestateMessage(ack, up[i].reliable)
                 d == Aged(down)
      <3>1. FromServer(m) /\ m.first = up[i].reliable
        BY <1>1 DEF GamestateMessage, FromServer, reliableSequence
      <3>2. RingInv => Continues(m)
        BY <1>1, <3>1 DEF RingInv, Continues
      <3>3. /\ IsSeq(d) /\ Len(d) = Len(down)
            /\ \A n \in 1..Len(d) : FromServer(d[n])
            /\ RingInv => \A n \in 1..Len(d) : Continues(d[n])
        <4>1. IsSeq(down) /\ \A n \in 1..Len(down) : FromServer(down[n])
          BY <1>1 DEF Shape
        <4>2. RingInv => \A n \in 1..Len(down) : Continues(down[n])
          BY DEF RingInv
        <4>3. IsSeq(Aged(down)) /\ Len(Aged(down)) = Len(down)
          BY <4>1, AgedFacts
        <4>4. \A n \in 1..Len(down) :
                /\ FromServer(Aged(down)[n])
                /\ Continues(down[n]) => Continues(Aged(down)[n])
          BY <4>1, AgedKeeps
        <4> QED BY <4>2, <4>3, <4>4
      <3> HIDE DEF m, d
      <3>4. down' = Put(d, m)
        BY <2>2 DEF m, d
      <3> QED BY <3>1, <3>2, <3>3, <3>4, PutDown
    <2> QED BY <1>4, <2>1, <2>2
  <1>7. Shape'
    <2>1. reliableAcknowledge' \in Nat
      BY <1>1, <1>3 DEF reliableSequence
    <2> QED BY <1>1, <1>2, <1>5, <1>6, <2>1 DEF Shape
  <1>8. ASSUME RingInv
        PROVE  RingInv'
    <2>1. /\ reliableAcknowledge <= up[i].reliable /\ up[i].reliable <= serverCommandSequence
          /\ reliableSequence - reliableAcknowledge < MaxReliable
      BY <1>1, <1>8 DEF RingInv
    <2>2. ~OutOfRange(up[i])
      BY <1>1, <2>1 DEF OutOfRange, reliableSequence
    <2>3. /\ reliableAcknowledge' = up[i].reliable
          /\ reliableSequence - up[i].reliable < MaxReliable
      BY <1>1, <1>3, <2>2 DEF OutOfRange, reliableSequence
    <2>4. \A n \in 1..Len(up') : /\ up[i].reliable <= up'[n].reliable
                               /\ up'[n].reliable <= serverCommandSequence
      <3> TAKE n \in 1..Len(up')
      <3>1. n + i \in 1..Len(up) /\ i < n + i /\ up'[n].reliable = up[n + i].reliable
        <4>1. Len(up') \in Nat
          BY <1>5, SeqFacts
        <4> QED BY <1>1, <1>5, <4>1
      <3> QED BY <1>1, <1>8, <3>1 DEF RingInv
    <2>5. ASSUME NEW j \in 1..Len(up'), NEW n \in 1..Len(up'), j < n
          PROVE  up'[j].reliable <= up'[n].reliable
      <3>1. /\ n + i \in 1..Len(up) /\ j + i \in 1..Len(up)
            /\ up'[n].reliable = up[n + i].reliable /\ up'[j].reliable = up[j + i].reliable
        BY <1>5
      <3>2. j + i < n + i
        <4>1. Len(up') \in Nat
          BY <1>5, SeqFacts
        <4> QED BY <1>1, <2>5, <4>1
      <3> QED BY <1>8, <3>1, <3>2 DEF RingInv
    <2>6. \A n \in 1..Len(down') : Continues(down'[n])
      BY <1>6, <1>8
    <2> QED BY <1>2, <2>1, <2>3, <2>4, <2>5, <2>6 DEF RingInv, Continues, reliableSequence
  <1> QED BY <1>2, <1>7, <1>8 DEF IInv

LEMMA ClientReceivesKeeps ==
  ASSUME IInv, NEW i \in DOMAIN down, ClientReceives(i)
  PROVE  IInv'
  <1>1. /\ Shape /\ i \in 1..Len(down) /\ Len(up) \in Nat
        /\ serverCommandSequence \in Nat /\ FromServer(down[i]) /\ down[i].last \in Nat
        /\ \A n \in 1..Len(up) : up[n].reliable \in Nat
        /\ \A n \in 1..Len(down) : FromServer(down[n]) /\ down[n].first \in Nat
        /\ reliableAcknowledge \in Nat
    BY SeqFacts DEF IInv, Shape, FromServer, FromClient
  <1>2. /\ down' = Later(down, i)
        /\ serverCommandSequence' = Greater(serverCommandSequence, down[i].last)
        /\ UNCHANGED <<submitted, reliableAcknowledge, full, up>>
    BY DEF ClientReceives, server
  <1>3. serverCommandSequence' \in Nat /\ serverCommandSequence' >= serverCommandSequence
    BY <1>1, <1>2 DEF Greater
  <1>4. /\ IsSeq(down')
        /\ \A n \in 1..Len(down') : down'[n] = down[n + i] /\ n + i \in 1..Len(down)
    BY <1>1, <1>2, LaterFacts DEF Shape
  <1>5. Shape'
    BY <1>1, <1>2, <1>3, <1>4 DEF Shape
  <1>6. ASSUME RingInv
        PROVE  RingInv'
    <2>1. \A n \in 1..Len(down) :
            down[n].gamestate.level = 0 /\ down[n].last > down[n].first =>
              down[n].first <= serverCommandSequence'
      BY <1>1, <1>3, <1>6 DEF RingInv, Continues
    <2>2. \A n \in 1..Len(up) : up[n].reliable <= serverCommandSequence'
      BY <1>1, <1>3, <1>6 DEF RingInv
    <2>3. reliableAcknowledge <= serverCommandSequence'
      BY <1>1, <1>3, <1>6 DEF RingInv
    <2>4. \A n \in 1..Len(down') :
            down'[n].gamestate.level = 0 /\ down'[n].last > down'[n].first =>
              down'[n].first <= serverCommandSequence'
      BY <1>4, <2>1
    <2> QED BY <1>2, <1>6, <2>2, <2>3, <2>4 DEF RingInv, Continues, reliableSequence
  <1> QED BY <1>2, <1>5, <1>6 DEF IInv

LEMMA ClientSendsKeeps ==
  ASSUME IInv, ClientSends
  PROVE  IInv'
  <1> DEFINE m == [age |-> heard, known |-> known, reliable |-> serverCommandSequence,
                   first |-> acked, last |-> Len(issued), move |-> phase = "playing"]
  <1>1. /\ up' = Put(up, m)
        /\ UNCHANGED <<submitted, reliableAcknowledge, full, down, serverCommandSequence>>
    BY DEF ClientSends, server
  <1>2. /\ Shape /\ serverCommandSequence \in Nat /\ IsSeq(up) /\ Len(up) \in Nat
        /\ \A n \in 1..Len(up) : FromClient(up[n]) /\ up[n].reliable \in Nat
    BY SeqFacts DEF IInv, Shape, FromClient
  <1>3. FromClient(m) /\ m.reliable = serverCommandSequence
    BY <1>2 DEF FromClient
  <1> HIDE DEF m
  <1>4. /\ IsSeq(up')
        /\ \E k \in {0, 1} :
             /\ Len(up') = Len(up) + 1 - k
             /\ \A n \in 1..Len(up') :
                  \/ n + k \in 1..Len(up) /\ up'[n] = up[n + k]
                  \/ n = Len(up') /\ up'[n] = m
    BY <1>1, <1>2, PutFacts
  <1>5. PICK k \in {0, 1} :
          /\ Len(up') = Len(up) + 1 - k
          /\ \A n \in 1..Len(up') :
               \/ n + k \in 1..Len(up) /\ up'[n] = up[n + k]
               \/ n = Len(up') /\ up'[n] = m
    BY <1>4
  <1>6. Shape'
    BY <1>1, <1>2, <1>3, <1>4, <1>5 DEF Shape
  <1>7. ASSUME RingInv
        PROVE  RingInv'
    <2>1. \A n \in 1..Len(up') : /\ reliableAcknowledge <= up'[n].reliable
                               /\ up'[n].reliable <= serverCommandSequence
      <3> TAKE n \in 1..Len(up')
      <3>1. CASE n + k \in 1..Len(up) /\ up'[n] = up[n + k]
        BY <1>7, <3>1 DEF RingInv
      <3>2. CASE up'[n] = m
        <4>1. reliableAcknowledge <= serverCommandSequence
          BY <1>7 DEF RingInv
        <4> QED BY <1>2, <1>3, <3>2, <4>1
      <3> QED BY <1>5, <3>1, <3>2
    <2>2. ASSUME NEW j \in 1..Len(up'), NEW n \in 1..Len(up'), j < n
          PROVE  up'[j].reliable <= up'[n].reliable
      <3>1. j + k \in 1..Len(up) /\ up'[j] = up[j + k]
        BY <1>2, <1>5, <2>2
      <3>2. CASE n + k \in 1..Len(up) /\ up'[n] = up[n + k]
        <4>1. j + k < n + k
          BY <1>2, <1>5, <2>2
        <4> QED BY <1>7, <3>1, <3>2, <4>1 DEF RingInv
      <3>3. CASE up'[n] = m
        BY <1>3, <1>7, <3>1, <3>3 DEF RingInv
      <3> QED BY <1>5, <3>2, <3>3
    <2> QED BY <1>1, <1>7, <2>1, <2>2 DEF RingInv, Continues, reliableSequence
  <1> QED BY <1>1, <1>6, <1>7 DEF IInv

\* A server command that does not fill the ring.
LEMMA MapRestartKeeps ==
  ASSUME IInv, MapRestart
  PROVE  IInv'
  <1>1. UNCHANGED <<reliableAcknowledge, up, down, serverCommandSequence>>
    BY DEF MapRestart, client
  <1>2. /\ Shape /\ IsSeq(submitted) /\ reliableAcknowledge \in Nat /\ MaxReliable \in Nat
    BY SessionAssumption DEF IInv, Shape
  <1>3. \/ UNCHANGED <<submitted, full>>
        \/ /\ \E c : submitted' = Append(submitted, c)
           /\ full' = (full \/ Len(submitted') - reliableAcknowledge >= MaxReliable)
    BY DEF MapRestart, SendServerCommand
  <1>4. IsSeq(submitted') /\ Len(submitted') \in Nat
    <2>1. ASSUME NEW c, submitted' = Append(submitted, c)
          PROVE  IsSeq(submitted')
      <3>1. PICK R : submitted \in Seq(R)
        BY <1>2 DEF IsSeq
      <3> DEFINE S == R \cup {c}
      <3>2. submitted \in Seq(S) /\ c \in S
        <4>1. Len(submitted) \in Nat /\ submitted \in [1..Len(submitted) -> R] /\ R \subseteq S
          BY <3>1, LenProperties
        <4> QED BY <3>1, <4>1
      <3> HIDE DEF S
      <3>3. submitted' \in Seq(S)
        BY <2>1, <3>2, AppendProperties
      <3> QED BY <3>3 DEF IsSeq
    <2>2. IsSeq(submitted')
      BY <1>2, <1>3, <2>1
    <2> QED BY <2>2, SeqFacts
  <1>5. Shape'
    BY <1>1, <1>2, <1>3, <1>4 DEF Shape
  <1>6. full' \/ (RingInv /\ Len(submitted') - reliableAcknowledge < MaxReliable)
    <2>1. full \in BOOLEAN /\ full' \in BOOLEAN
      BY <1>2, <1>3 DEF Shape
    <2>2. full \/ (RingInv /\ Len(submitted) - reliableAcknowledge < MaxReliable)
      BY DEF IInv, RingInv, reliableSequence
    <2>3. CASE UNCHANGED <<submitted, full>>
      BY <2>2, <2>3
    <2>4. CASE full' = (full \/ Len(submitted') - reliableAcknowledge >= MaxReliable)
      <3>1. \/ Len(submitted') - reliableAcknowledge >= MaxReliable
            \/ Len(submitted') - reliableAcknowledge < MaxReliable
        BY <1>2, <1>4
      <3> QED BY <2>2, <2>4, <3>1, Zenon
    <2> QED BY <1>3, <2>3, <2>4
  <1>7. RingInv /\ Len(submitted') - reliableAcknowledge < MaxReliable => RingInv'
    BY <1>1 DEF RingInv, Continues, reliableSequence
  <1> QED BY <1>5, <1>6, <1>7 DEF IInv

LEMMA QuietKeeps ==
  ASSUME IInv, UNCHANGED <<submitted, reliableAcknowledge, full, up, down,
                           serverCommandSequence>>
  PROVE  IInv'
  <1>1. Shape'
    BY DEF IInv, Shape
  <1>2. RingInv => RingInv'
    BY DEF RingInv, Continues, reliableSequence
  <1> QED BY <1>1, <1>2 DEF IInv

-----------------------------------------------------------------------------
(* The theorems *)

LEMMA InitHolds == Init => IInv
  <1> SUFFICES ASSUME Init
               PROVE  IInv
    OBVIOUS
  <1>1. IsSeq(<<>>) /\ Len(<<>>) = 0
    BY EmptySeq DEF IsSeq
  <1>2. Shape
    <2>1. /\ submitted = <<>> /\ up = <<>> /\ down = <<>>
          /\ reliableAcknowledge = 0 /\ serverCommandSequence = 0 /\ full = FALSE
      BY DEF Init
    <2>2. 0 \in Nat /\ \A n : n \notin 1..0
      OBVIOUS
    <2>3. IsSeq(submitted) /\ IsSeq(up) /\ IsSeq(down) /\ Len(up) = 0 /\ Len(down) = 0
      BY <1>1, <2>1, Zenon
    <2> QED BY <2>1, <2>2, <2>3 DEF Shape
  <1>3. RingInv
    BY <1>1, SessionAssumption DEF Init, RingInv, reliableSequence
  <1> QED BY <1>2, <1>3 DEF IInv

LEMMA NextKeeps == IInv /\ [Next]_vars => IInv'
  <1> SUFFICES ASSUME IInv, [Next]_vars
               PROVE  IInv'
    OBVIOUS
  <1>1. CASE SendSnapshot
    BY <1>1, SendSnapshotKeeps
  <1>2. ASSUME NEW i \in DOMAIN up, PacketEvent(i) PROVE IInv'
    BY <1>2, PacketEventKeeps
  <1>3. ASSUME NEW i \in DOMAIN down, ClientReceives(i) PROVE IInv'
    BY <1>3, ClientReceivesKeeps
  <1>4. CASE SpawnServer \/ Chat
    BY <1>4, QuietKeeps DEF SpawnServer, Chat, server, client
  <1>5. CASE MapRestart
    BY <1>5, MapRestartKeeps
  <1>6. CASE ClientSends
    BY <1>6, ClientSendsKeeps
  <1>7. CASE UNCHANGED vars
    BY <1>7, QuietKeeps DEF vars
  <1> QED BY <1>1, <1>2, <1>3, <1>4, <1>5, <1>6, <1>7 DEF Next

\* The inductive invariant holds in every state.
THEOREM Invariant == Spec => []IInv
  <1>1. Init => IInv
    BY InitHolds
  <1>2. IInv /\ [Next]_vars => IInv'
    BY NextKeeps
  <1> QED BY <1>1, <1>2, PTL DEF Spec

\* For a ring of any size and any losses: unless the ring was full, every server
\* command reaches the client in its turn, since no acknowledgement under way can be
\* out of range and so none is taken for "all of them" (custom_SV_PacketEvent,
\* SV_UpdateServerCommandsToClientAsFits).
THEOREM CommandsInOrder == Spec => []NoCommandSkipped
  <1>1. IInv => NoCommandSkipped
    <2> SUFFICES ASSUME IInv, ~full
                 PROVE  /\ reliableAcknowledge <= serverCommandSequence
                        /\ \A i \in DOMAIN down :
                             down[i].gamestate.level = 0 /\ down[i].last > down[i].first
                             => down[i].first <= serverCommandSequence
      BY DEF NoCommandSkipped
    <2>1. RingInv /\ DOMAIN down = 1..Len(down)
      BY SeqFacts DEF IInv, Shape
    <2> QED BY <2>1 DEF RingInv, Continues
  <1> QED BY <1>1, Invariant, PTL

-----------------------------------------------------------------------------
(* The session: types *)

Numbers == [level : Nat, restart : Nat]
Contents == {Data(a, n) : a \in Nat, n \in Nat} \cup {<<>>, <<"error">>}
BlockType == [number : Int, data : Contents]
Downloads == [name : Nat, open : Nat, current : Nat, client : Nat, xmit : Nat,
              slot : [0 .. Window - 1 -> Contents]]
UpType == [age : 0..2, known : Numbers, reliable : Nat, first : Nat, last : Nat,
           move : BOOLEAN]
DownType == [age : 0..2, ack : Nat, first : Nat, last : Nat, gamestate : Numbers,
             block : BlockType]
Texts == {"none", "download", "nextdl", "donedl", "say_nextdl"}
Commands == [text : Texts, argument : Nat]
Phases == {"connecting", "downloading", "waiting", "playing", "gone"}
States == {"CONNECTED", "PRIMED", "ACTIVE"}

SessionType ==
    /\ level \in Nat \ {0} /\ restart \in Nat /\ state \in States
    /\ submitted \in Seq(Numbers) /\ reliableAcknowledge \in Nat
    /\ lastClientCommand \in Nat /\ lastText \in Texts /\ download \in Downloads
    /\ down \in Seq(DownType) /\ up \in Seq(UpType)
    /\ known \in Numbers /\ phase \in Phases /\ serverCommandSequence \in Nat
    /\ heard \in 0..2 /\ issued \in Seq(Commands) /\ acked \in Nat
    /\ file \in Seq(Contents)

\* The command that asked for the file the client is getting.
Requested == Len(issued) - Len(file) - (IF phase = "waiting" THEN 1 ELSE 0)

-----------------------------------------------------------------------------
(* The session: its invariant *)

\* What the numbers say of each other.
Counted ==
    /\ known.level <= level
    /\ reliableAcknowledge <= Len(submitted) /\ serverCommandSequence <= Len(submitted)
    /\ acked <= lastClientCommand /\ lastClientCommand <= Len(issued)

UpSound(m) ==
    /\ m.reliable <= Len(submitted)
    /\ m.first <= lastClientCommand /\ m.first <= m.last /\ m.last <= Len(issued)
    /\ m.known.level <= known.level
    /\ m.age = After => m.known.level = known.level \/ phase = "playing"
    /\ phase = "waiting" /\ m.last = Len(issued) => ~m.move
DownSound(m) == m.ack <= lastClientCommand /\ m.last <= Len(submitted)
Messages == /\ \A i \in 1..Len(up) : UpSound(up[i])
            /\ \A i \in 1..Len(down) : DownSound(down[i])

\* The server commands tell of levels that only grow, and those the client lacks of
\* no level before its own.
Levels ==
    /\ \A n \in 1..Len(submitted) : submitted[n].level <= level
    /\ \A a, b \in 1..Len(submitted) : a < b => submitted[a].level <= submitted[b].level
    /\ \A n \in 1..Len(submitted) :
         n > serverCommandSequence => submitted[n].level >= known.level

\* A gamestate on its way is the only one, nobody has heard of a later message, and
\* the client it reaches has no download open, or has the level already.
Quiet == {"nextdl", "say_nextdl"}
Awaited(i) ==
    LET g == down[i].gamestate.level
    IN  \/ phase = "gone"
        \/ /\ known.level < g
           /\ download.name = 0 /\ lastText \notin Quiet
           /\ \A j \in 1..Len(down) : j > i => down[j].block = NoBlock
        \/ /\ known.level = g
           /\ phase = "playing" \/ (phase = "waiting" /\ lastClientCommand = Len(issued))
Coming(i) ==
    LET g == down[i].gamestate.level
    IN  /\ g <= level /\ heard # After /\ down[i].block = NoBlock
        /\ \A j \in 1..Len(down) : j # i => down[j].gamestate.level = 0
        /\ \A j \in 1..Len(down) : j < i => down[j].age # After /\ down[j].last <= down[i].last
        /\ \A j \in 1..Len(up) : up[j].age # After
        /\ \A n \in 1..Len(submitted) : IF n <= down[i].last THEN submitted[n].level <= g
                                        ELSE submitted[n].level >= g
        /\ Awaited(i)
Gamestates == \A i \in 1..Len(down) : down[i].gamestate.level # 0 => Coming(i)

\* The commands of a client that gets a file, and the blocks it has.
Script ==
    /\ phase \in {"connecting", "playing"} => file = <<>>
    /\ \A n \in 1..Len(file) : file[n] = Data(known.level, n - 1)
    /\ phase \in {"downloading", "waiting"} =>
         /\ Requested >= 1 /\ known.level >= 1
         /\ issued[Requested] = Command("download", known.level)
         /\ \A n \in 1..Len(file) : issued[Requested + n] = Command("nextdl", n - 1)
    /\ phase = "downloading" => Len(file) <= Blocks
    /\ phase = "waiting" => /\ Len(file) = Blocks + 1
                            /\ issued[Len(issued)] = Command("donedl", 0)

\* How far the server is in that script, with c commands executed, the download d and
\* the last command t: the request is to come, was just executed, was denied, or the
\* window is open and slides with each acknowledgement.
Idle(a, b) == \A n \in a .. b : issued[n].text \in {"download", "say_nextdl"}
Unserved == \A i \in 1..Len(down) : down[i].block = NoBlock
Carried(m, end) ==
    \/ m.block = NoBlock
    \/ /\ 0 <= m.block.number /\ m.block.number < end
       /\ m.block.number >= Len(file) => m.block.data = Data(known.level, m.block.number)
Served(c, d) ==
    /\ c >= Requested
    /\ d.name = known.level /\ d.open = known.level /\ d.client = c - Requested
    /\ Len(file) <= d.current /\ d.current <= Blocks + 1 /\ d.current <= d.client + Window
    /\ d.xmit <= d.current
    /\ \A b \in 0 .. d.current - 1 :
         b >= d.current - Window => d.slot[b % Window] = Data(known.level, b)
Getting(c, d) ==
    \/ c < Requested /\ file = <<>> /\ Unserved /\ Idle(c + 1, Requested - 1)
    \/ c = Requested /\ file = <<>> /\ Unserved /\ d.name = known.level /\ d.open = 0
    \/ /\ c = Requested /\ file = <<>> /\ d.name = 0
       /\ \A i \in 1..Len(down) : down[i].block \in {NoBlock, Error}
    \/ Served(c, d) /\ \A i \in 1..Len(down) : Carried(down[i], d.current)
Got(c, d, t) ==
    \/ Served(c, d) /\ c <= Len(issued) - 2
    \/ c = Len(issued) - 1 /\ d.name = 0 /\ t = "nextdl"
    \/ c = Len(issued) /\ d.name = 0
Stage(c, d, t) ==
    /\ phase \in {"connecting", "playing"} => Idle(c + 1, Len(issued))
    /\ phase = "gone" => c = Len(issued)
    /\ phase = "downloading" => Getting(c, d)
    /\ phase = "waiting" => Got(c, d, t)
Progress == Stage(lastClientCommand, download, lastText)

\* A request that is to come is read in one message with all that comes before it.
Early ==
    phase = "downloading" /\ lastClientCommand < Requested =>
      /\ download.name = 0 /\ lastText \notin Quiet
      /\ \A i \in 1..Len(up) : up[i].known.level = known.level => up[i].last = Len(issued)

World ==
    /\ state = "ACTIVE" => known.level = level
    /\ state = "PRIMED" /\ (download.name # 0 \/ lastText \in Quiet) => known.level = level

SInv == /\ SessionType /\ Counted /\ Messages /\ Levels /\ Gamestates
        /\ Script /\ Progress /\ Early /\ World

-----------------------------------------------------------------------------
(* Numbers, blocks, sequences *)

LEMMA Constants ==
  /\ Blocks \in Nat \ {0} /\ Window \in Nat \ {0} /\ MaxLevel \in Nat \ {0}
  /\ \A l \in WithFile : l \in Nat \ {0}
  BY SessionAssumption

LEMMA SetInduction ==
  ASSUME NEW S, 0 \in S, \A n \in Nat : n \in S => n + 1 \in S
  PROVE  \A n \in Nat : n \in S
  <1> SUFFICES ASSUME NEW x \in Nat, x \notin S
               PROVE  FALSE
    OBVIOUS
  <1> DEFINE R == OpToRel(<, Nat)
             T == {n \in Nat : n \notin S}
  <1>1. IsWellFoundedOn(R, Nat)
    BY NatLessThanWellFounded
  <1>2. \A a, b \in Nat : a < b => <<a, b>> \in R
    BY DEF OpToRel
  <1>3. T \subseteq Nat /\ x \in T
    OBVIOUS
  <1> HIDE DEF R
  <1>4. PICK m \in T : \A y \in T : ~(<<y, m>> \in R)
    BY <1>1, <1>3, WFMin
  <1>5. m # 0 /\ m - 1 \in Nat /\ m - 1 < m /\ m - 1 + 1 = m
    BY <1>4
  <1>6. m - 1 \notin T
    BY <1>2, <1>4, <1>5
  <1> QED BY <1>4, <1>5, <1>6

LEMMA RingSlot ==
  ASSUME NEW a \in Nat
  PROVE  a % Window \in 0 .. Window - 1
  BY Constants, SMT

LEMMA RingQuotient ==
  ASSUME NEW a \in Nat, NEW m \in Nat \ {0}
  PROVE  /\ a \div m \in Nat /\ a % m \in 0 .. m - 1
         /\ a = m * (a \div m) + (a % m)
  BY SMT

LEMMA RingMultiple ==
  ASSUME NEW m \in Nat \ {0}, NEW p \in Nat, NEW q \in Nat, p < q
  PROVE  m * q >= m * p + m
  <1>1. q >= p + 1
    OBVIOUS
  <1>2. PICK d \in Nat : q = p + 1 + d
    <2>1. q - (p + 1) \in Nat /\ q = p + 1 + (q - (p + 1))
      BY <1>1
    <2> QED BY <2>1
  <1>3. m * q = m * p + m + m * d
    BY <1>2, SMT
  <1>4. m * d >= 0 /\ m * p \in Nat
    BY SMT
  <1> QED BY <1>3, <1>4, SMT

\* Two blocks less than a window apart have different slots.
LEMMA RingSlotsDiffer ==
  ASSUME NEW a \in Nat, NEW b \in Nat, a < b, b < a + Window
  PROVE  a % Window # b % Window
  <1> SUFFICES ASSUME a % Window = b % Window PROVE FALSE
    OBVIOUS
  <1> DEFINE m == Window
             p == a \div m
             q == b \div m
             r == a % m
  <1>1. m \in Nat \ {0} /\ p \in Nat /\ q \in Nat /\ r \in 0 .. m - 1
    BY Constants, RingQuotient
  <1>2. a = m * p + r /\ b = m * q + r
    BY Constants, RingQuotient
  <1>3. m * p \in Nat /\ m * q \in Nat
    BY <1>1, SMT
  <1>4. CASE p < q
    <2>1. m * q >= m * p + m
      BY <1>1, <1>4, RingMultiple
    <2> HIDE DEF p, q, r, m
    <2>2. b < a + m
      BY DEF m
    <2> QED BY <1>1, <1>2, <1>3, <2>1, <2>2
  <1>5. CASE q < p
    <2>1. m * p >= m * q + m
      BY <1>1, <1>5, RingMultiple
    <2> HIDE DEF p, q, r, m
    <2> QED BY <1>1, <1>2, <1>3, <2>1
  <1>6. CASE p = q
    BY <1>2, <1>6
  <1> QED BY <1>1, <1>4, <1>5, <1>6

LEMMA DataFacts ==
  ASSUME NEW a \in Nat, NEW n \in Nat
  PROVE  Data(a, n) \in Contents /\ (Data(a, n) = Eof <=> n >= Blocks)
  <1>1. Data(a, n) \in Contents
    BY DEF Contents
  <1>2. <<a, n>> # <<"eof">>
    <2>1. Len(<<a, n>>) = 2 /\ Len(<<"eof">>) = 1
      OBVIOUS
    <2> QED BY <2>1
  <1> QED BY <1>1, <1>2, Constants DEF Data, Eof

LEMMA NoBlockType == NoBlock \in BlockType /\ Error \in BlockType /\ NoBlock.number = -1
                     /\ Error.number = 0
  BY DEF NoBlock, Error, BlockType, Contents

LEMMA SeqOf ==
  ASSUME NEW s, IsSeq(s), NEW T, \A n \in 1..Len(s) : s[n] \in T
  PROVE  s \in Seq(T)
  <1>1. PICK S : s \in Seq(S)
    BY DEF IsSeq
  <1>2. Len(s) \in Nat /\ s \in [1..Len(s) -> S]
    BY <1>1, LenProperties
  <1>3. s = [n \in 1..Len(s) |-> s[n]]
    BY <1>2
  <1>4. s \in [1..Len(s) -> T]
    BY <1>3
  <1> QED BY <1>2, <1>4

LEMMA SeqIs ==
  ASSUME NEW T, NEW s \in Seq(T)
  PROVE  /\ IsSeq(s) /\ Len(s) \in Nat /\ DOMAIN s = 1..Len(s)
         /\ \A n \in 1..Len(s) : s[n] \in T
  BY LenProperties, ElementOfSeq DEF IsSeq

LEMMA AppendIs ==
  ASSUME NEW T, NEW s \in Seq(T), NEW e \in T
  PROVE  /\ Append(s, e) \in Seq(T) /\ Len(Append(s, e)) = Len(s) + 1
         /\ \A n \in 1..Len(s) : Append(s, e)[n] = s[n]
         /\ Append(s, e)[Len(s) + 1] = e
  BY AppendProperties

-----------------------------------------------------------------------------
(* The commands of a message *)

Readings == [state : States \cup {"ZOMBIE"}, download : Downloads, lastText : Texts,
             lastClientCommand : Nat, offers : BOOLEAN, offeredAt : Nat]

\* What is known of the server after the commands of a message up to number n.
Read(s, n) ==
    /\ s \in Readings /\ s.state # "ZOMBIE"
    /\ n <= s.lastClientCommand /\ lastClientCommand <= s.lastClientCommand
    /\ s.lastClientCommand <= Len(issued) /\ s.lastClientCommand <= Greater(lastClientCommand, n)
    /\ Stage(s.lastClientCommand, s.download, s.lastText)
    /\ s.offers => /\ phase = "waiting" /\ s.lastClientCommand = Len(issued)
                   /\ lastClientCommand < Len(issued) /\ s.state = "PRIMED"
                   /\ s.lastText = "donedl" /\ s.offeredAt <= Len(issued)
    /\ ~s.offers => s.state = state
    /\ s.lastClientCommand = lastClientCommand =>
         ~s.offers /\ s.download = download /\ s.lastText = lastText

LEMMA RequestedFacts ==
  ASSUME SessionType
  PROVE  /\ Len(issued) \in Nat /\ Len(file) \in Nat /\ Requested \in Int
         /\ phase = "waiting" => Requested = Len(issued) - Len(file) - 1
         /\ phase # "waiting" => Requested = Len(issued) - Len(file)
         /\ \A n \in 1..Len(issued) : issued[n] \in Commands
         /\ (file = <<>> <=> Len(file) = 0)
  <1>1. issued \in Seq(Commands) /\ file \in Seq(Contents)
    BY DEF SessionType
  <1>2. Len(issued) \in Nat /\ Len(file) \in Nat /\ \A n \in 1..Len(issued) : issued[n] \in Commands
    BY <1>1, SeqIs
  <1>3. file = <<>> <=> Len(file) = 0
    BY <1>1, EmptySeq
  <1> QED BY <1>2, <1>3 DEF Requested

LEMMA IdleAfter ==
  ASSUME NEW a \in Int, NEW b \in Int, Idle(a, b)
  PROVE  Idle(a + 1, b)
  <1>1. a + 1 .. b \subseteq a .. b
    OBVIOUS
  <1> QED BY <1>1 DEF Idle

LEMMA ServedMoves ==
  ASSUME NEW c \in Nat, NEW d, NEW e, Requested \in Int, Window \in Nat,
         e.name = d.name, e.open = d.open, e.current = d.current, e.xmit = d.xmit,
         e.slot = d.slot, e.client = d.client + 1, e.current \in Nat, d.client \in Nat,
         Served(c, d)
  PROVE  Served(c + 1, e)
  BY DEF Served

LEMMA DownloadFields ==
  ASSUME NEW d \in Downloads
  PROVE  /\ d.name \in Nat /\ d.open \in Nat /\ d.current \in Nat /\ d.client \in Nat
         /\ d.xmit \in Nat /\ d.slot \in [0 .. Window - 1 -> Contents]
  BY DEF Downloads

Moved(d, v) == [d EXCEPT !.client = v]
Begun(d, v) == [Closed(d) EXCEPT !.name = v]
LEMMA DownloadSteps ==
  ASSUME NEW d \in Downloads, NEW v \in Nat
  PROVE  /\ Moved(d, v) \in Downloads /\ Moved(d, v).name = d.name
         /\ Moved(d, v).open = d.open /\ Moved(d, v).current = d.current
         /\ Moved(d, v).client = v /\ Moved(d, v).xmit = d.xmit /\ Moved(d, v).slot = d.slot
         /\ Closed(d) \in Downloads /\ Closed(d).name = 0
         /\ Begun(d, v) \in Downloads /\ Begun(d, v).name = v /\ Begun(d, v).open = 0
  BY DEF Downloads, Closed, Moved, Begun

\* A command of the window: the server is at the block it acknowledges.
LEMMA NextStep ==
  ASSUME SessionType, Script, phase \in {"downloading", "waiting"},
         NEW c \in Nat, NEW d \in Downloads, Served(c, d), d.client < Len(file)
  PROVE  /\ issued[c + 1] = Command("nextdl", d.client)
         /\ d.slot[d.client % Window] = Data(known.level, d.client)
         /\ Served(c + 1, Moved(d, d.client + 1))
  <1> DEFINE e == Moved(d, d.client + 1)
  <1>1. /\ d.client = c - Requested /\ Len(file) <= d.current
        /\ d.current <= d.client + Window
    BY DEF Served
  <1>2. Len(file) \in Nat /\ Requested \in Int /\ Window \in Nat
    BY RequestedFacts, Constants
  <1>3. /\ d.client \in Nat /\ d.current \in Nat
    BY DownloadFields
  <1> DEFINE n == d.client + 1
  <1>4. n \in 1..Len(file) /\ c + 1 = Requested + n /\ n - 1 = d.client
    BY <1>1, <1>2, <1>3
  <1> HIDE DEF n
  <1>5. \A k \in 1..Len(file) : issued[Requested + k] = Command("nextdl", k - 1)
    BY DEF Script
  <1>6. issued[c + 1] = Command("nextdl", d.client)
    <2>1. issued[Requested + n] = Command("nextdl", n - 1)
      BY <1>4, <1>5, Zenon
    <2> QED BY <1>4, <2>1, Zenon
  <1>7. d.client \in 0 .. d.current - 1 /\ d.client >= d.current - Window
    BY <1>1, <1>2, <1>3
  <1>8. d.slot[d.client % Window] = Data(known.level, d.client)
    BY <1>7 DEF Served
  <1>9. /\ e \in Downloads /\ e.name = d.name /\ e.open = d.open /\ e.current = d.current
        /\ e.client = d.client + 1 /\ e.xmit = d.xmit /\ e.slot = d.slot
    <2>1. d.client + 1 \in Nat
      BY <1>3
    <2> QED BY <2>1, DownloadSteps
  <1> HIDE DEF e
  <1>10. Served(c + 1, e)
    BY <1>2, <1>3, <1>9, ServedMoves
  <1> QED BY <1>6, <1>8, <1>10 DEF e

\* What the next command may be: one that only begins a download or does nothing, the
\* request that is due, an acknowledgement that is due, or the end.
LEMMA Pending ==
  ASSUME SInv, NEW c \in Nat, c < Len(issued), NEW d \in Downloads, NEW t, Stage(c, d, t)
  PROVE  LET q == issued[c + 1]
         IN  \/ /\ q.text \in {"download", "say_nextdl"}
                /\ phase \in {"connecting", "playing"} /\ Idle(c + 1, Len(issued))
             \/ /\ q.text \in {"download", "say_nextdl"} /\ phase = "downloading"
                /\ c < Requested /\ file = <<>> /\ Unserved /\ Idle(c + 1, Requested - 1)
                /\ c + 1 = Requested => q = Command("download", known.level)
             \/ /\ phase = "downloading" /\ Served(c, d) /\ d.client < Len(file)
                /\ \A i \in 1..Len(down) : Carried(down[i], d.current)
             \/ /\ phase = "waiting" /\ Served(c, d) /\ d.client < Len(file)
                /\ c <= Len(issued) - 2
             \/ /\ phase = "waiting" /\ c + 1 = Len(issued) /\ d.name = 0
                /\ q = Command("donedl", 0)
  <1> DEFINE q == issued[c + 1]
  <1>1. /\ SessionType /\ Script /\ phase \in Phases
        /\ Len(issued) \in Nat /\ Len(file) \in Nat /\ Requested \in Int
        /\ phase = "waiting" => Requested = Len(issued) - Len(file) - 1
        /\ phase # "waiting" => Requested = Len(issued) - Len(file)
        /\ file = <<>> => Len(file) = 0
    BY RequestedFacts DEF SInv, SessionType
  <1>2. ASSUME phase \in {"connecting", "playing"}
        PROVE  q.text \in {"download", "say_nextdl"} /\ Idle(c + 1, Len(issued))
    <2>1. Idle(c + 1, Len(issued)) /\ c + 1 \in c + 1 .. Len(issued)
      BY <1>1, <1>2 DEF Stage
    <2> QED BY <2>1 DEF Idle
  <1>3. phase # "gone"
    BY DEF Stage
  <1>4. ASSUME phase = "waiting"
        PROVE  \/ Served(c, d) /\ d.client < Len(file) /\ c <= Len(issued) - 2
               \/ c + 1 = Len(issued) /\ d.name = 0 /\ q = Command("donedl", 0)
    <2>1. Got(c, d, t)
      BY <1>4 DEF Stage
    <2>2. CASE Served(c, d) /\ c <= Len(issued) - 2
      <3>1. d.client = c - Requested
        BY <2>2 DEF Served
      <3> QED BY <1>1, <1>4, <2>2, <3>1
    <2>3. CASE c = Len(issued) - 1 /\ d.name = 0
      <3>1. c + 1 = Len(issued)
        BY <1>1, <2>3
      <3> QED BY <1>1, <1>4, <2>3, <3>1 DEF Script
    <2> QED BY <2>1, <2>2, <2>3 DEF Got
  <1>5. ASSUME phase = "downloading"
        PROVE  \/ /\ q.text \in {"download", "say_nextdl"}
                  /\ c < Requested /\ file = <<>> /\ Unserved /\ Idle(c + 1, Requested - 1)
                  /\ c + 1 = Requested => q = Command("download", known.level)
               \/ /\ Served(c, d) /\ d.client < Len(file)
                  /\ \A i \in 1..Len(down) : Carried(down[i], d.current)
    <2>1. Getting(c, d)
      BY <1>5 DEF Stage
    <2>2. CASE c < Requested /\ file = <<>> /\ Unserved /\ Idle(c + 1, Requested - 1)
      <3>1. CASE c + 1 = Requested
        <4>1. q = Command("download", known.level)
          BY <1>1, <1>5, <3>1 DEF Script
        <4>2. q.text = "download"
          BY <4>1 DEF Command
        <4> HIDE DEF q
        <4> QED BY <2>2, <4>1, <4>2
      <3>2. CASE c + 1 # Requested
        <4>1. c + 1 \in c + 1 .. Requested - 1
          BY <1>1, <2>2, <3>2
        <4> QED BY <2>2, <3>2, <4>1 DEF Idle
      <3> QED BY <3>1, <3>2
    <2>3. Requested = Len(issued) - Len(file)
      BY <1>1, <1>5
    <2>4. ~(c = Requested /\ file = <<>>)
      <3> SUFFICES ASSUME c = Requested, file = <<>> PROVE FALSE
        OBVIOUS
      <3>1. Len(file) = 0
        BY <1>1
      <3> QED BY <1>1, <2>3, <3>1
    <2>5. CASE Served(c, d) /\ \A i \in 1..Len(down) : Carried(down[i], d.current)
      <3>1. d.client = c - Requested
        BY <2>5 DEF Served
      <3>2. d.client < Len(file)
        BY <1>1, <2>3, <3>1
      <3> QED BY <2>5, <3>2
    <2> QED BY <2>1, <2>2, <2>4, <2>5 DEF Getting
  <1> QED BY <1>1, <1>2, <1>3, <1>4, <1>5 DEF Phases

\* What the next command does to the progress of the download.
LEMMA StageStep ==
  ASSUME SInv, NEW c \in Nat, c < Len(issued), NEW d \in Downloads, NEW t, Stage(c, d, t)
  PROVE  LET q == issued[c + 1]
         IN  \/ q.text = "say_nextdl" /\ Stage(c + 1, d, q.text)
             \/ q.text = "download" /\ Stage(c + 1, Begun(d, q.argument), q.text)
             \/ /\ q.text = "nextdl" /\ q.argument = d.client
                /\ d.slot[d.client % Window] # Eof /\ Stage(c + 1, Moved(d, d.client + 1), q.text)
             \/ /\ q.text = "nextdl" /\ q.argument = d.client
                /\ d.slot[d.client % Window] = Eof /\ Stage(c + 1, Closed(d), q.text)
             \/ /\ q.text = "donedl" /\ phase = "waiting" /\ c + 1 = Len(issued)
                /\ Stage(c + 1, d, q.text)
  <1> DEFINE q == issued[c + 1]
             Goal == \/ q.text = "say_nextdl" /\ Stage(c + 1, d, q.text)
                     \/ q.text = "download" /\ Stage(c + 1, Begun(d, q.argument), q.text)
                     \/ /\ q.text = "nextdl" /\ q.argument = d.client
                        /\ d.slot[d.client % Window] # Eof
                        /\ Stage(c + 1, Moved(d, d.client + 1), q.text)
                     \/ /\ q.text = "nextdl" /\ q.argument = d.client
                        /\ d.slot[d.client % Window] = Eof /\ Stage(c + 1, Closed(d), q.text)
                     \/ /\ q.text = "donedl" /\ phase = "waiting" /\ c + 1 = Len(issued)
                        /\ Stage(c + 1, d, q.text)
  <1> SUFFICES Goal
    OBVIOUS
  <1>1. /\ SessionType /\ Script /\ phase \in Phases /\ known \in Numbers
        /\ Len(issued) \in Nat /\ Len(file) \in Nat /\ Requested \in Int
        /\ phase = "waiting" => Requested = Len(issued) - Len(file) - 1
        /\ phase # "waiting" => Requested = Len(issued) - Len(file)
        /\ Blocks \in Nat /\ known.level \in Nat
    BY RequestedFacts, Constants DEF SInv, SessionType, Numbers
  <1>2. c + 1 \in 1..Len(issued) /\ q \in Commands /\ q.text \in Texts /\ q.argument \in Nat
    BY <1>1, RequestedFacts DEF Commands
  <1>3. d.client \in Nat
    BY DownloadFields
  <1> HIDE DEF q
  <1>4. CASE /\ q.text \in {"download", "say_nextdl"}
             /\ phase \in {"connecting", "playing"} /\ Idle(c + 1, Len(issued))
    <2>1. Idle(c + 1 + 1, Len(issued))
      BY <1>1, <1>4, IdleAfter
    <2>2. \A f : Stage(c + 1, f, q.text)
      BY <1>4, <2>1 DEF Stage
    <2> QED BY <1>4, <2>2
  <1>5. CASE /\ q.text \in {"download", "say_nextdl"} /\ phase = "downloading"
             /\ c < Requested /\ file = <<>> /\ Unserved /\ Idle(c + 1, Requested - 1)
             /\ c + 1 = Requested => q = Command("download", known.level)
    <2>1. CASE c + 1 = Requested
      <3>1. q.text = "download" /\ q.argument = known.level
        BY <1>5, <2>1 DEF Command
      <3>2. /\ Begun(d, q.argument).name = known.level /\ Begun(d, q.argument).open = 0
        BY <1>2, <3>1, DownloadSteps
      <3>3. Getting(c + 1, Begun(d, q.argument))
        BY <1>5, <2>1, <3>2 DEF Getting
      <3> QED BY <1>5, <3>1, <3>3 DEF Stage
    <2>2. CASE c + 1 # Requested
      <3>1. c + 1 < Requested /\ c + 1 \in Int /\ Requested - 1 \in Int
        BY <1>1, <1>5, <2>2
      <3>2. Idle(c + 1 + 1, Requested - 1)
        BY <1>5, <3>1, IdleAfter
      <3>3. \A f : Getting(c + 1, f)
        BY <1>5, <3>1, <3>2 DEF Getting
      <3>4. \A f : Stage(c + 1, f, q.text)
        BY <1>5, <3>3 DEF Stage
      <3> QED BY <1>5, <3>4
    <2> QED BY <2>1, <2>2
  <1>6. ASSUME phase \in {"downloading", "waiting"}, Served(c, d), d.client < Len(file)
        PROVE  /\ q.text = "nextdl" /\ q.argument = d.client
               /\ Served(c + 1, Moved(d, d.client + 1))
               /\ Moved(d, d.client + 1).current = d.current
               /\ Closed(d).name = 0
               /\ d.slot[d.client % Window] = Eof <=> d.client >= Blocks
    <2>1. /\ q = Command("nextdl", d.client) /\ Served(c + 1, Moved(d, d.client + 1))
          /\ d.slot[d.client % Window] = Data(known.level, d.client)
      BY <1>1, <1>6, NextStep DEF q
    <2>2. Data(known.level, d.client) = Eof <=> d.client >= Blocks
      BY <1>1, <1>3, DataFacts
    <2>3. q.text = "nextdl" /\ q.argument = d.client
      BY <2>1 DEF Command
    <2>4. d.client + 1 \in Nat
      BY <1>3
    <2>5. Moved(d, d.client + 1).current = d.current /\ Closed(d).name = 0
      BY <2>4, DownloadSteps
    <2> QED BY <2>1, <2>2, <2>3, <2>5
  <1>7. CASE /\ phase = "downloading" /\ Served(c, d) /\ d.client < Len(file)
             /\ \A i \in 1..Len(down) : Carried(down[i], d.current)
    <2>1. d.client < Blocks
      <3>1. Len(file) <= Blocks
        BY <1>1, <1>7 DEF Script
      <3> QED BY <1>1, <1>3, <1>7, <3>1
    <2> DEFINE f == Moved(d, d.client + 1)
    <2>2. /\ q.text = "nextdl" /\ q.argument = d.client /\ Served(c + 1, f)
          /\ f.current = d.current /\ d.slot[d.client % Window] # Eof
      <3>1. ~(d.client >= Blocks)
        BY <1>1, <1>3, <2>1
      <3> QED BY <1>6, <1>7, <3>1
    <2> HIDE DEF f
    <2>3. Getting(c + 1, f)
      BY <1>7, <2>2 DEF Getting
    <2>4. Stage(c + 1, f, q.text)
      BY <1>7, <2>3 DEF Stage
    <2> QED BY <2>2, <2>4 DEF f
  <1>8. CASE /\ phase = "waiting" /\ Served(c, d) /\ d.client < Len(file)
             /\ c <= Len(issued) - 2
    <2>1. d.client = c - Requested /\ Len(file) = Blocks + 1
      BY <1>1, <1>8 DEF Script, Served
    <2> DEFINE f == Moved(d, d.client + 1)
    <2>2. /\ q.text = "nextdl" /\ q.argument = d.client /\ Served(c + 1, f)
          /\ Closed(d).name = 0
          /\ d.slot[d.client % Window] = Eof <=> d.client >= Blocks
      BY <1>6, <1>8
    <2> HIDE DEF f
    <2>3. CASE d.client < Blocks
      <3>1. c + 1 <= Len(issued) - 2 /\ ~(d.client >= Blocks)
        BY <1>1, <1>3, <1>8, <2>1, <2>3
      <3>2. Stage(c + 1, f, q.text)
        BY <1>8, <2>2, <3>1 DEF Stage, Got
      <3> QED BY <2>2, <3>1, <3>2 DEF f
    <2>4. CASE d.client >= Blocks
      <3>1. c + 1 = Len(issued) - 1
        BY <1>1, <1>3, <1>8, <2>1, <2>4
      <3>2. Stage(c + 1, Closed(d), q.text)
        BY <1>8, <2>2, <3>1 DEF Stage, Got
      <3> QED BY <2>2, <2>4, <3>2
    <2> QED BY <1>1, <1>3, <2>3, <2>4
  <1>9. CASE /\ phase = "waiting" /\ c + 1 = Len(issued) /\ d.name = 0
             /\ q = Command("donedl", 0)
    <2>1. q.text = "donedl"
      BY <1>9 DEF Command
    <2>2. Stage(c + 1, d, q.text)
      BY <1>9 DEF Stage, Got
    <2> QED BY <1>9, <2>1, <2>2
  <1> HIDE DEF Goal
  <1> QED BY <1>4, <1>5, <1>7, <1>8, <1>9, Pending DEF q

LEMMA SInvCounts ==
  ASSUME SInv
  PROVE  /\ lastClientCommand \in Nat /\ Len(issued) \in Nat
         /\ lastClientCommand <= Len(issued)
         /\ download \in Downloads /\ state \in States /\ lastText \in Texts
         /\ \A n \in 1..Len(issued) : issued[n] \in Commands
  BY RequestedFacts DEF SInv, SessionType, Counted

LEMMA ReceivedRead ==
  ASSUME SInv, NEW n \in Nat, n <= lastClientCommand
  PROVE  Read(Received, n)
  <1>1. /\ Received.state = state /\ Received.download = download
        /\ Received.lastText = lastText /\ Received.lastClientCommand = lastClientCommand
        /\ Received.offers = FALSE /\ Received.offeredAt = 0
    BY DEF Received
  <1>2. Received \in Readings /\ Received.state # "ZOMBIE"
    BY SInvCounts DEF Received, Readings, States
  <1>3. Stage(lastClientCommand, download, lastText)
    BY DEF SInv, Progress
  <1> HIDE DEF Received
  <1> QED BY <1>1, <1>2, <1>3, SInvCounts DEF Read, Greater

LEMMA ReadStep ==
  ASSUME SInv, NEW n \in Nat \ {0}, n <= Len(issued), NEW s, Read(s, n - 1)
  PROVE  Read(ClientCommand(s, n), n)
  <1> DEFINE c == s.lastClientCommand
             d == s.download
             q == issued[n]
  <1>1. /\ s \in Readings /\ s.state # "ZOMBIE" /\ c \in Nat /\ d \in Downloads
        /\ n - 1 <= c /\ lastClientCommand <= c /\ c <= Len(issued)
        /\ c <= Greater(lastClientCommand, n - 1)
        /\ Stage(c, d, s.lastText)
        /\ s.offers => c = Len(issued)
        /\ ~s.offers => s.state = state
    BY DEF Read, Readings
  <1>2. /\ Len(issued) \in Nat /\ lastClientCommand \in Nat /\ q \in Commands
        /\ q.text \in Texts /\ q.argument \in Nat
    BY SInvCounts DEF Commands
  <1>3. CASE n <= c
    <2>1. ClientCommand(s, n) = s
      BY <1>3 DEF ClientCommand
    <2>2. c <= Greater(lastClientCommand, n)
      BY <1>1, <1>2 DEF Greater
    <2> QED BY <1>3, <2>1, <2>2 DEF Read
  <1>4. CASE n = c + 1
    <2> DEFINE x == Execute(s, q)
               e == [x EXCEPT !.lastClientCommand = n, !.lastText = q.text]
    <2>1. ClientCommand(s, n) = e
      BY <1>1, <1>4 DEF ClientCommand
    <2>2. c < Len(issued) /\ ~s.offers /\ s.offers = FALSE /\ s.state = state
      BY <1>1, <1>2, <1>4 DEF Readings
    <2> DEFINE Result(f, st, o) ==
                 /\ x \in Readings /\ x.download = f /\ x.state = st /\ x.offers = o
                 /\ Stage(n, f, q.text)
    <2>3. \/ q.text # "donedl" /\ \E f \in Downloads : Result(f, state, FALSE)
          \/ /\ q.text = "donedl" /\ phase = "waiting" /\ n = Len(issued)
             /\ Result(d, "PRIMED", TRUE) /\ x.offeredAt = c
      <3>1. \/ q.text = "say_nextdl" /\ Stage(n, d, q.text)
            \/ q.text = "download" /\ Stage(n, Begun(d, q.argument), q.text)
            \/ /\ q.text = "nextdl" /\ q.argument = d.client
               /\ d.slot[d.client % Window] # Eof /\ Stage(n, Moved(d, d.client + 1), q.text)
            \/ /\ q.text = "nextdl" /\ q.argument = d.client
               /\ d.slot[d.client % Window] = Eof /\ Stage(n, Closed(d), q.text)
            \/ /\ q.text = "donedl" /\ phase = "waiting" /\ n = Len(issued)
               /\ Stage(n, d, q.text)
        BY <1>1, <1>4, <2>2, StageStep
      <3>2. state \in States
        BY SInvCounts
      <3> HIDE DEF q, d
      <3>3. CASE q.text = "say_nextdl" /\ Stage(n, d, q.text)
        <4>1. x = s
          BY <3>3 DEF Execute
        <4> QED BY <1>1, <2>2, <3>3, <4>1 DEF d
      <3>4. CASE q.text = "download" /\ Stage(n, Begun(d, q.argument), q.text)
        <4> DEFINE f == Begun(d, q.argument)
        <4>1. x = [s EXCEPT !.download = f]
          BY <3>4 DEF Execute, BeginDownload, Begun, d, Readings
        <4>2. f \in Downloads
          BY <1>1, <1>2, DownloadSteps
        <4> HIDE DEF f, x
        <4>3. Result(f, state, FALSE)
          BY <1>1, <2>2, <3>2, <3>4, <4>1, <4>2 DEF Readings, f
        <4> QED BY <3>4, <4>2, <4>3
      <3>5. CASE /\ q.text = "nextdl" /\ q.argument = d.client
                 /\ d.slot[d.client % Window] # Eof /\ Stage(n, Moved(d, d.client + 1), q.text)
        <4> DEFINE f == Moved(d, d.client + 1)
        <4>1. x = [s EXCEPT !.download = f]
          BY <3>5 DEF Execute, NextDownload, Moved, d, Readings
        <4>2. f \in Downloads
          <5>1. d.client + 1 \in Nat
            BY <1>1, DownloadFields
          <5> QED BY <1>1, <5>1, DownloadSteps
        <4> HIDE DEF f, x
        <4>3. Result(f, state, FALSE)
          BY <1>1, <2>2, <3>2, <3>5, <4>1, <4>2 DEF Readings, f
        <4> QED BY <3>5, <4>2, <4>3
      <3>6. CASE /\ q.text = "nextdl" /\ q.argument = d.client
                 /\ d.slot[d.client % Window] = Eof /\ Stage(n, Closed(d), q.text)
        <4> DEFINE f == Closed(d)
        <4>1. x = [s EXCEPT !.download = f]
          BY <3>6 DEF Execute, NextDownload, d, Readings
        <4>2. f \in Downloads
          BY <1>1, <1>2, DownloadSteps
        <4> HIDE DEF f, x
        <4>3. Result(f, state, FALSE)
          BY <1>1, <2>2, <3>2, <3>6, <4>1, <4>2 DEF Readings, f
        <4> QED BY <3>6, <4>2, <4>3
      <3>7. CASE /\ q.text = "donedl" /\ phase = "waiting" /\ n = Len(issued)
                 /\ Stage(n, d, q.text)
        <4>1. x = DoneDownload(s)
          BY <3>7 DEF Execute
        <4> HIDE DEF x
        <4>2. Result(d, "PRIMED", TRUE) /\ x.offeredAt = c
          BY <1>1, <3>7, <4>1 DEF Readings, States, DoneDownload, d
        <4> QED BY <3>7, <4>2
      <3> QED BY <3>1, <3>3, <3>4, <3>5, <3>6, <3>7
    <2>4. c <= Len(issued) /\ n <= Greater(lastClientCommand, n) /\ lastClientCommand < n
      BY <1>1, <1>2, <1>4 DEF Greater
    <2> HIDE DEF x, q, d
    <2>5. ASSUME x \in Readings
          PROVE  /\ e \in Readings /\ e.lastClientCommand = n /\ e.lastText = q.text
                 /\ e.download = x.download /\ e.state = x.state /\ e.offers = x.offers
                 /\ e.offeredAt = x.offeredAt
      BY <1>2, <2>5 DEF Readings
    <2> HIDE DEF e
    <2>6. CASE q.text # "donedl" /\ \E f \in Downloads : Result(f, state, FALSE)
      <3>1. PICK f \in Downloads : Result(f, state, FALSE)
        BY <2>6
      <3>2. e.state = state /\ e.offers = FALSE /\ state # "ZOMBIE"
        BY <1>1, <2>2, <2>5, <3>1
      <3>3. Stage(e.lastClientCommand, e.download, e.lastText)
        BY <2>5, <3>1
      <3>4. Read(e, n)
        BY <1>2, <2>4, <2>5, <3>1, <3>2, <3>3 DEF Read
      <3> QED BY <2>1, <3>4
    <2>7. CASE /\ q.text = "donedl" /\ phase = "waiting" /\ n = Len(issued)
               /\ Result(d, "PRIMED", TRUE) /\ x.offeredAt = c
      <3>1. /\ e.state = "PRIMED" /\ e.offers = TRUE /\ e.offeredAt <= Len(issued)
            /\ e.lastText = "donedl"
        BY <1>1, <1>2, <2>5, <2>7 DEF c
      <3>2. Stage(e.lastClientCommand, e.download, e.lastText)
        BY <2>5, <2>7
      <3>3. Read(e, n)
        BY <1>2, <2>4, <2>5, <2>7, <3>1, <3>2 DEF Read
      <3> QED BY <2>1, <3>3
    <2> QED BY <2>3, <2>6, <2>7
  <1> QED BY <1>1, <1>2, <1>3, <1>4

\* The recursion has a solution, over any range of commands.
LEMMA Recursion ==
  ASSUME NEW a \in Nat, NEW k \in Nat
  PROVE  \E f : f = [n \in a .. a + k |->
                       IF n = a THEN Received ELSE ClientCommand(f[n - 1], n)]
  <1> DEFINE Solves(f, b) == f = [n \in a .. b |->
                                    IF n = a THEN Received ELSE ClientCommand(f[n - 1], n)]
             S == {j \in Nat : \E f : Solves(f, a + j)}
  <1>1. 0 \in S
    <2> DEFINE f == [n \in a .. a + 0 |-> Received]
    <2>1. \A n \in a .. a + 0 : n = a
      OBVIOUS
    <2>2. Solves(f, a + 0)
      BY <2>1
    <2> QED BY <2>2
  <1>2. ASSUME NEW j \in Nat, j \in S
        PROVE  j + 1 \in S
    <2>1. PICK f : Solves(f, a + j)
      BY <1>2
    <2> DEFINE b == a + (j + 1)
               v == ClientCommand(f[b - 1], b)
               g == [n \in a .. b |-> IF n = b THEN v ELSE f[n]]
               h == [n \in a .. b |-> IF n = a THEN Received ELSE ClientCommand(g[n - 1], n)]
    <2>2. b \in Nat /\ b # a /\ b - 1 = a + j /\ b - 1 \in a .. b /\ b - 1 # b
      OBVIOUS
    <2>3. ASSUME NEW n \in a .. b
          PROVE  (IF n = b THEN v ELSE f[n])
                   = IF n = a THEN Received ELSE ClientCommand(g[n - 1], n)
      <3>1. CASE n = b
        <4>1. g[n - 1] = f[b - 1]
          BY <2>2, <3>1
        <4> QED BY <2>2, <3>1, <4>1
      <3>2. CASE n # b
        <4>1. n \in a .. a + j
          BY <2>2, <3>2
        <4>2. f[n] = IF n = a THEN Received ELSE ClientCommand(f[n - 1], n)
          BY <2>1, <4>1
        <4>3. CASE n # a
          <5>1. n - 1 \in a .. b /\ n - 1 # b
            BY <2>2, <4>1, <4>3
          <5>2. g[n - 1] = f[n - 1]
            BY <5>1
          <5> QED BY <3>2, <4>2, <4>3, <5>2
        <4> QED BY <3>2, <4>2, <4>3
      <3> QED BY <3>1, <3>2
    <2>4. g = h
      BY <2>3
    <2>5. Solves(g, b)
      BY <2>4
    <2>6. \E w : Solves(w, a + (j + 1))
      BY <2>5
    <2> HIDE DEF Solves
    <2> QED BY <2>6
  <1> HIDE DEF S
  <1>3. k \in S
    BY <1>1, <1>2, SetInduction
  <1> QED BY <1>3 DEF S

\* What a whole message of commands leads to.
LEMMA CommandsRead ==
  ASSUME SInv, NEW m \in UpType, UpSound(m)
  PROVE  Read(ClientCommands(m), m.last)
  <1> DEFINE a == m.first
             k == m.last - m.first
             F(f) == [n \in a .. m.last |->
                        IF n = a THEN Received ELSE ClientCommand(f[n - 1], n)]
             after == CHOOSE f : f = F(f)
  <1>1. /\ a \in Nat /\ m.last \in Nat /\ a <= m.last /\ a <= lastClientCommand
        /\ m.last <= Len(issued) /\ k \in Nat /\ a + k = m.last
    BY DEF UpType, UpSound
  <1>2. after = F(after)
    <2>1. \E f : f = F(f)
      BY <1>1, Recursion, SMTT(20)
    <2> HIDE DEF F
    <2> QED BY <2>1
  <1>3. ClientCommands(m) = after[m.last]
    BY DEF ClientCommands
  <1> HIDE DEF after
  <1>4. \A n \in a .. m.last :
          after[n] = IF n = a THEN Received ELSE ClientCommand(after[n - 1], n)
    BY <1>2
  <1> DEFINE S == {j \in Nat : a + j <= m.last => Read(after[a + j], a + j)}
  <1>5. 0 \in S
    <2>1. a + 0 = a /\ a \in a .. m.last
      BY <1>1
    <2>2. after[a] = Received
      BY <1>4, <2>1
    <2>3. Read(Received, a)
      BY <1>1, ReceivedRead
    <2> QED BY <2>1, <2>2, <2>3
  <1>6. ASSUME NEW j \in Nat, j \in S
        PROVE  j + 1 \in S
    <2> SUFFICES ASSUME a + (j + 1) <= m.last
                 PROVE  Read(after[a + (j + 1)], a + (j + 1))
      OBVIOUS
    <2> DEFINE n == a + (j + 1)
    <2>1. /\ n \in Nat \ {0} /\ n \in a .. m.last /\ n # a /\ n - 1 = a + j /\ a + j <= m.last
      BY <1>1, SMTT(20)
    <2>2. n <= Len(issued)
      BY <1>1, SInvCounts
    <2>3. Read(after[n - 1], n - 1)
      BY <1>6, <2>1
    <2>4. after[n] = ClientCommand(after[n - 1], n)
      BY <1>4, <2>1
    <2> HIDE DEF n
    <2>5. Read(after[n], n)
      BY <2>1, <2>2, <2>3, <2>4, ReadStep
    <2> QED BY <2>5 DEF n
  <1> HIDE DEF S
  <1>7. k \in S
    BY <1>1, <1>5, <1>6, SetInduction
  <1> QED BY <1>1, <1>3, <1>7 DEF S

-----------------------------------------------------------------------------
(* The channels, with the types of their messages *)

LEMMA LaterTyped ==
  ASSUME NEW T, NEW s \in Seq(T), NEW i \in 1..Len(s)
  PROVE  /\ Later(s, i) \in Seq(T) /\ Len(Later(s, i)) \in Nat
         /\ \A n \in 1..Len(Later(s, i)) :
              Later(s, i)[n] = s[n + i] /\ n + i \in 1..Len(s) /\ n + i > i
  <1>1. IsSeq(s) /\ \A n \in 1..Len(s) : s[n] \in T
    BY SeqIs
  <1>2. /\ IsSeq(Later(s, i))
        /\ \A n \in 1..Len(Later(s, i)) : Later(s, i)[n] = s[n + i] /\ n + i \in 1..Len(s)
    BY <1>1, LaterFacts
  <1>3. Later(s, i) \in Seq(T)
    BY <1>1, <1>2, SeqOf
  <1>4. Len(Later(s, i)) \in Nat /\ Len(s) \in Nat
    BY <1>3, SeqIs
  <1>5. \A n \in 1..Len(Later(s, i)) : n + i > i
    BY <1>4
  <1> QED BY <1>2, <1>3, <1>4, <1>5

LEMMA PutTyped ==
  ASSUME NEW T, NEW s \in Seq(T), NEW m \in T
  PROVE  /\ Put(s, m) \in Seq(T) /\ Len(Put(s, m)) \in Nat
         /\ \E k \in {0, 1} :
              /\ Len(Put(s, m)) = Len(s) + 1 - k
              /\ \A n \in 1..Len(Put(s, m)) :
                   \/ n + k \in 1..Len(s) /\ Put(s, m)[n] = s[n + k]
                   \/ n = Len(Put(s, m)) /\ Put(s, m)[n] = m
  <1>1. IsSeq(s) /\ \A n \in 1..Len(s) : s[n] \in T
    BY SeqIs
  <1>2. /\ IsSeq(Put(s, m))
        /\ \E k \in {0, 1} :
             /\ Len(Put(s, m)) = Len(s) + 1 - k
             /\ \A n \in 1..Len(Put(s, m)) :
                  \/ n + k \in 1..Len(s) /\ Put(s, m)[n] = s[n + k]
                  \/ n = Len(Put(s, m)) /\ Put(s, m)[n] = m
    BY <1>1, PutFacts
  <1>3. \A n \in 1..Len(Put(s, m)) : Put(s, m)[n] \in T
    BY <1>1, <1>2
  <1>4. Put(s, m) \in Seq(T)
    BY <1>2, <1>3, SeqOf
  <1>5. Len(Put(s, m)) \in Nat
    BY <1>4, SeqIs
  <1> QED BY <1>2, <1>4, <1>5

LEMMA AgedUp ==
  ASSUME NEW s \in Seq(UpType)
  PROVE  /\ Aged(s) \in Seq(UpType) /\ Len(Aged(s)) = Len(s)
         /\ \A n \in 1..Len(s) :
              LET a == Aged(s)[n]  b == s[n]
              IN  /\ a.age = Before /\ a.known = b.known /\ a.reliable = b.reliable
                  /\ a.first = b.first /\ a.last = b.last /\ a.move = b.move
  <1>1. IsSeq(s) /\ \A n \in 1..Len(s) : s[n] \in UpType
    BY SeqIs
  <1>2. /\ IsSeq(Aged(s)) /\ Len(Aged(s)) = Len(s)
        /\ \A n \in 1..Len(s) : Aged(s)[n] = [s[n] EXCEPT !.age = Before]
    BY <1>1, AgedFacts
  <1>3. ASSUME NEW b \in UpType
        PROVE  LET a == [b EXCEPT !.age = Before]
               IN  /\ a \in UpType
                   /\ a.age = Before /\ a.known = b.known /\ a.reliable = b.reliable
                   /\ a.first = b.first /\ a.last = b.last /\ a.move = b.move
    <2> DEFINE a == [b EXCEPT !.age = Before]
    <2>1. /\ b \in UpType /\ Before \in 0..2
      BY DEF Before
    <2>2. a \in UpType
      BY <2>1 DEF UpType
    <2>3. /\ a.age = Before /\ a.known = b.known /\ a.reliable = b.reliable
          /\ a.first = b.first /\ a.last = b.last
      BY <2>1 DEF UpType
    <2>4. a.move = b.move
      BY <2>1, Zenon DEF UpType
    <2> QED BY <2>2, <2>3, <2>4
  <1>4. \A n \in 1..Len(s) :
              LET a == Aged(s)[n]  b == s[n]
              IN  /\ a \in UpType
                  /\ a.age = Before /\ a.known = b.known /\ a.reliable = b.reliable
                  /\ a.first = b.first /\ a.last = b.last /\ a.move = b.move
    <2> TAKE n \in 1..Len(s)
    <2>1. s[n] \in UpType /\ Aged(s)[n] = [s[n] EXCEPT !.age = Before]
      BY <1>1, <1>2
    <2> QED BY <1>3, <2>1
  <1>5. Aged(s) \in Seq(UpType)
    BY <1>2, <1>4, SeqOf
  <1> QED BY <1>2, <1>4, <1>5

LEMMA AgedDown ==
  ASSUME NEW s \in Seq(DownType)
  PROVE  /\ Aged(s) \in Seq(DownType) /\ Len(Aged(s)) = Len(s)
         /\ \A n \in 1..Len(s) :
              LET a == Aged(s)[n]  b == s[n]
              IN  /\ a.age = Before /\ a.ack = b.ack /\ a.last = b.last
                  /\ a.gamestate = b.gamestate /\ a.block = b.block
  <1>1. IsSeq(s) /\ \A n \in 1..Len(s) : s[n] \in DownType
    BY SeqIs
  <1>2. /\ IsSeq(Aged(s)) /\ Len(Aged(s)) = Len(s)
        /\ \A n \in 1..Len(s) : Aged(s)[n] = [s[n] EXCEPT !.age = Before]
    BY <1>1, AgedFacts
  <1>3. ASSUME NEW b \in DownType
        PROVE  LET a == [b EXCEPT !.age = Before]
               IN  /\ a \in DownType
                   /\ a.age = Before /\ a.ack = b.ack /\ a.last = b.last
                   /\ a.gamestate = b.gamestate /\ a.block = b.block
    BY DEF DownType, Before
  <1>4. \A n \in 1..Len(s) :
              LET a == Aged(s)[n]  b == s[n]
              IN  /\ a \in DownType
                  /\ a.age = Before /\ a.ack = b.ack /\ a.last = b.last
                  /\ a.gamestate = b.gamestate /\ a.block = b.block
    <2> TAKE n \in 1..Len(s)
    <2>1. s[n] \in DownType /\ Aged(s)[n] = [s[n] EXCEPT !.age = Before]
      BY <1>1, <1>2
    <2> QED BY <1>3, <2>1
  <1>5. Aged(s) \in Seq(DownType)
    BY <1>2, <1>4, SeqOf
  <1> QED BY <1>2, <1>4, <1>5

-----------------------------------------------------------------------------
(* The window *)

\* Reading ahead fills the slots after the last block with the blocks of the file, and
\* leaves those of the blocks less than a window before the new end.
LEMMA FillFacts ==
  ASSUME NEW d \in Downloads
  PROVE  LET f == Filled(d)
         IN  /\ f \in Downloads /\ f.name = d.name /\ f.open = d.open
             /\ f.client = d.client /\ f.xmit = d.xmit
             /\ f.current = Greater(d.current, Lesser(d.client + Window, Blocks + 1))
             /\ d.client <= d.current =>
                  \A b \in 0 .. f.current - 1 :
                    b >= f.current - Window =>
                      f.slot[b % Window] = IF b < d.current THEN d.slot[b % Window]
                                           ELSE Data(d.open, b)
  <1> DEFINE end == Greater(d.current, Lesser(d.client + Window, Blocks + 1))
             read(i) == {n \in d.current .. end - 1 : n % Window = i}
             new(i) == IF read(i) = {} THEN d.slot[i]
                       ELSE Data(d.open, CHOOSE n \in read(i) : TRUE)
             slots == [i \in 0 .. Window - 1 |-> new(i)]
             f == [d EXCEPT !.current = end, !.slot = slots]
  <1>1. Filled(d) = f
    BY DEF Filled
  <1>2. /\ d.name \in Nat /\ d.open \in Nat /\ d.current \in Nat /\ d.client \in Nat
        /\ d.xmit \in Nat /\ d.slot \in [0 .. Window - 1 -> Contents]
        /\ Window \in Nat \ {0} /\ Blocks \in Nat
    BY DownloadFields, Constants
  <1>3. /\ end \in Nat /\ d.current <= end
        /\ end > d.current => end <= d.client + Window
    BY <1>2 DEF Greater, Lesser
  <1>4. f.current = end /\ f.slot = slots /\ f.name = d.name /\ f.open = d.open
        /\ f.client = d.client /\ f.xmit = d.xmit
    BY DEF Downloads
  <1> HIDE DEF end
  <1>5. slots \in [0 .. Window - 1 -> Contents]
    <2>1. ASSUME NEW i \in 0 .. Window - 1
          PROVE  new(i) \in Contents
      <3>1. CASE read(i) = {}
        BY <1>2, <3>1
      <3>2. CASE read(i) # {}
        <4> DEFINE c == CHOOSE n \in read(i) : TRUE
        <4>1. c \in read(i)
          BY <3>2
        <4>2. c \in Nat
          BY <1>2, <1>3, <4>1
        <4> HIDE DEF c
        <4>3. Data(d.open, c) \in Contents
          BY <1>2, <4>2, DataFacts
        <4> QED BY <3>2, <4>3 DEF c
      <3> QED BY <3>1, <3>2
    <2> HIDE DEF new
    <2> QED BY <2>1
  <1>6. f \in Downloads
    <2> HIDE DEF slots
    <2> QED BY <1>2, <1>3, <1>5 DEF Downloads
  <1>7. ASSUME d.client <= d.current, NEW b \in 0 .. end - 1, b >= end - Window
        PROVE  slots[b % Window] = IF b < d.current THEN d.slot[b % Window] ELSE Data(d.open, b)
    <2>1. b \in Nat /\ b % Window \in 0 .. Window - 1
      BY <1>3, RingSlot
    <2>2. end <= d.current + Window
      BY <1>2, <1>3, <1>7
    <2>3. \A n \in read(b % Window) : n = b
      <3> TAKE n \in read(b % Window)
      <3>1. n \in Nat /\ d.current <= n /\ n < end /\ n % Window = b % Window
        BY <1>2, <1>3
      <3>2. n < b + Window /\ (d.current <= b => b < n + Window)
        BY <1>2, <1>3, <1>7, <2>1, <2>2, <3>1
      <3>3. ~(b < n)
        BY <2>1, <3>1, <3>2, RingSlotsDiffer
      <3>4. ~(n < b)
        <4> SUFFICES ASSUME n < b PROVE FALSE
          OBVIOUS
        <4>1. b < n + Window
          BY <1>2, <2>1, <3>1, <3>2
        <4> QED BY <2>1, <3>1, <4>1, RingSlotsDiffer
      <3> QED BY <2>1, <3>1, <3>3, <3>4
    <2>4. slots[b % Window] = new(b % Window)
      BY <2>1
    <2>5. CASE b < d.current
      <3>1. read(b % Window) = {}
        BY <1>2, <1>3, <2>1, <2>3, <2>5
      <3> QED BY <2>4, <2>5, <3>1
    <2>6. CASE ~(b < d.current)
      <3>1. b \in read(b % Window)
        BY <1>2, <1>3, <1>7, <2>1, <2>6
      <3>2. (CHOOSE n \in read(b % Window) : TRUE) = b
        BY <2>3, <3>1
      <3> QED BY <2>4, <2>6, <3>1, <3>2
    <2> QED BY <2>5, <2>6
  <1> HIDE DEF f, slots
  <1> QED BY <1>1, <1>4, <1>6, <1>7 DEF end

LEMMA WriteOutcomes ==
  ASSUME NEW d \in Downloads, NEW w \in WriteDownload(d)
  PROVE  \/ ~Writing(d) /\ w = Silent(d, state)
         \/ Writing(d) /\ d.open = 0 /\ \E st \in {state, "CONNECTED"} : w = Refused(d, st)
         \/ LET f == Filled(Opened(d))
            IN  /\ Writing(d)
                /\ \/ w = Silent(f, "CONNECTED")
                   \/ f.xmit # f.current /\ w = SendsFrom(f, f.xmit)
                   \/ f.client # f.current /\ w = SendsFrom(f, f.client)
  BY DEF WriteDownload

LEMMA OpenedFacts ==
  ASSUME NEW d \in Downloads
  PROVE  /\ Opened(d) \in Downloads /\ Opened(d).name = d.name
         /\ d.open # 0 => Opened(d) = d
         /\ d.open = 0 => /\ Opened(d).open = d.name /\ Opened(d).current = 0
                          /\ Opened(d).client = 0 /\ Opened(d).xmit = 0
  BY DEF Downloads, Opened

LEMMA SendsFromFacts ==
  ASSUME NEW d \in Downloads, NEW x \in Nat
  PROVE  LET w == SendsFrom(d, x)
         IN  /\ w.download \in Downloads /\ w.download.name = d.name
             /\ w.download.open = d.open /\ w.download.current = d.current
             /\ w.download.client = d.client /\ w.download.xmit = x + 1
             /\ w.download.slot = d.slot
             /\ w.block \in BlockType /\ w.block.number = x
             /\ w.block.data = d.slot[x % Window] /\ w.state = "CONNECTED"
  <1>1. d.slot[x % Window] \in Contents
    BY DownloadFields, RingSlot
  <1> QED BY <1>1 DEF SendsFrom, Downloads, BlockType

LEMMA RefusedFacts ==
  ASSUME NEW d \in Downloads, NEW st
  PROVE  /\ Refused(d, st).download \in Downloads /\ Refused(d, st).download.name = 0
         /\ Refused(d, st).block = Error /\ Refused(d, st).state = st
         /\ Silent(d, st).download = d /\ Silent(d, st).block = NoBlock
         /\ Silent(d, st).state = st
  BY DEF Refused, Silent, Downloads

LEMMA WriteTyped ==
  ASSUME NEW d \in Downloads, NEW w \in WriteDownload(d)
  PROVE  /\ w.download \in Downloads /\ w.block \in BlockType
         /\ w.download.name \in {0, d.name} /\ w.state \in {state, "CONNECTED"}
         /\ ~Writing(d) => w.download = d /\ w.block = NoBlock /\ w.state = state
  <1> DEFINE f == Filled(Opened(d))
  <1>1. f \in Downloads /\ f.name = d.name /\ f.xmit \in Nat /\ f.client \in Nat
    BY OpenedFacts, FillFacts, DownloadFields
  <1> HIDE DEF f
  <1>2. NoBlock \in BlockType /\ Error \in BlockType
    BY NoBlockType
  <1>3. ASSUME NEW x \in Nat
        PROVE  /\ SendsFrom(f, x).download \in Downloads
               /\ SendsFrom(f, x).download.name = f.name
               /\ SendsFrom(f, x).block \in BlockType
               /\ SendsFrom(f, x).state = "CONNECTED"
    BY <1>1, SendsFromFacts
  <1>4. \/ ~Writing(d) /\ w = Silent(d, state)
        \/ Writing(d) /\ \E st \in {state, "CONNECTED"} : w = Refused(d, st)
        \/ Writing(d) /\ (w = Silent(f, "CONNECTED") \/ \E x \in Nat : w = SendsFrom(f, x))
    BY <1>1, WriteOutcomes DEF f
  <1>5. CASE ~Writing(d) /\ w = Silent(d, state)
    BY <1>2, <1>5, RefusedFacts
  <1>6. ASSUME Writing(d), NEW st \in {state, "CONNECTED"}, w = Refused(d, st)
        PROVE  /\ w.download \in Downloads /\ w.block \in BlockType
               /\ w.download.name = 0 /\ w.state \in {state, "CONNECTED"}
    BY <1>2, <1>6, RefusedFacts
  <1>7. CASE Writing(d) /\ w = Silent(f, "CONNECTED")
    BY <1>1, <1>2, <1>7, RefusedFacts
  <1>8. ASSUME Writing(d), NEW x \in Nat, w = SendsFrom(f, x)
        PROVE  /\ w.download \in Downloads /\ w.block \in BlockType
               /\ w.download.name = d.name /\ w.state = "CONNECTED"
    BY <1>1, <1>3, <1>8
  <1> QED BY <1>4, <1>5, <1>6, <1>7, <1>8

\* A window that is open stays so when the server reads ahead and sends.
LEMMA WindowMoves ==
  ASSUME SessionType, NEW c \in Nat, NEW d \in Downloads, Served(c, d),
         d.client <= Len(file)
  PROVE  /\ Filled(d) \in Downloads /\ Served(c, Filled(d))
         /\ d.current <= Filled(d).current /\ Filled(d).client = d.client
  <1> DEFINE f == Filled(d)
  <1>1. /\ Len(file) \in Nat /\ Requested \in Int /\ Window \in Nat \ {0} /\ Blocks \in Nat
        /\ d.client \in Nat /\ d.current \in Nat /\ d.xmit \in Nat
        /\ known.level \in Nat
    BY RequestedFacts, Constants, DownloadFields DEF SessionType, Numbers
  <1>2. /\ c >= Requested /\ d.name = known.level /\ d.open = known.level
        /\ d.client = c - Requested
        /\ Len(file) <= d.current /\ d.current <= Blocks + 1
        /\ d.current <= d.client + Window /\ d.xmit <= d.current
        /\ \A b \in 0 .. d.current - 1 :
             b >= d.current - Window => d.slot[b % Window] = Data(known.level, b)
    BY DEF Served
  <1>3. d.client <= d.current
    BY <1>1, <1>2
  <1>4. /\ f \in Downloads /\ f.name = d.name /\ f.open = d.open
        /\ f.client = d.client /\ f.xmit = d.xmit
        /\ f.current = Greater(d.current, Lesser(d.client + Window, Blocks + 1))
        /\ \A b \in 0 .. f.current - 1 :
             b >= f.current - Window =>
               f.slot[b % Window] = IF b < d.current THEN d.slot[b % Window]
                                    ELSE Data(d.open, b)
    BY <1>3, FillFacts
  <1> HIDE DEF f
  <1>5. /\ f.current \in Nat /\ d.current <= f.current /\ f.current <= Blocks + 1
        /\ f.current <= f.client + Window
    BY <1>1, <1>2, <1>4 DEF Greater, Lesser
  <1>6. ASSUME NEW b \in 0 .. f.current - 1, b >= f.current - Window
        PROVE  f.slot[b % Window] = Data(known.level, b)
    <2>1. CASE b < d.current
      <3>1. b \in 0 .. d.current - 1 /\ b >= d.current - Window
        BY <1>1, <1>5, <1>6, <2>1, SMTT(20)
      <3>2. d.slot[b % Window] = Data(known.level, b)
        BY <1>2, <3>1
      <3> QED BY <1>4, <1>6, <2>1, <3>2
    <2>2. CASE ~(b < d.current)
      BY <1>2, <1>4, <1>6, <2>2
    <2> QED BY <2>1, <2>2
  <1>7. Served(c, f)
    BY <1>1, <1>2, <1>4, <1>5, <1>6 DEF Served
  <1> QED BY <1>4, <1>5, <1>7 DEF f

\* What it sends is a block of the file, or one the client has.
LEMMA WindowSends ==
  ASSUME SessionType, NEW c \in Nat, NEW f \in Downloads, Served(c, f),
         f.client <= Len(file), NEW x \in Nat, x < f.current
  PROVE  LET w == SendsFrom(f, x)
         IN  /\ Served(c, w.download) /\ w.download.current = f.current
             /\ Carried(w, f.current)
  <1> DEFINE w == SendsFrom(f, x)
             e == w.download
  <1>1. /\ Len(file) \in Nat /\ Window \in Nat
        /\ f.client \in Nat /\ f.current \in Nat
    BY RequestedFacts, Constants, DownloadFields
  <1>2. /\ e.name = f.name /\ e.open = f.open /\ e.current = f.current
        /\ e.client = f.client /\ e.xmit = x + 1 /\ e.slot = f.slot
        /\ w.block.number = x /\ w.block.data = f.slot[x % Window]
    BY SendsFromFacts
  <1> HIDE DEF w
  <1>3. e.xmit <= e.current
    BY <1>1, <1>2
  <1>4. Served(c, e)
    BY <1>2, <1>3 DEF Served
  <1>5. ASSUME x >= Len(file)
        PROVE  f.slot[x % Window] = Data(known.level, x)
    <2>1. /\ f.current <= f.client + Window
          /\ \A b \in 0 .. f.current - 1 :
               b >= f.current - Window => f.slot[b % Window] = Data(known.level, b)
      BY DEF Served
    <2>2. x \in 0 .. f.current - 1 /\ x >= f.current - Window
      BY <1>1, <1>5, <2>1
    <2> QED BY <2>1, <2>2
  <1>6. Carried(w, f.current)
    BY <1>2, <1>5 DEF Carried
  <1> QED BY <1>2, <1>4, <1>6 DEF w

\* Writing with an open window, or with one that this call opens.
LEMMA WriteServed ==
  ASSUME SessionType, NEW c \in Nat, NEW d \in Downloads, d.name # 0,
         Served(c, Opened(d)), Opened(d).client <= Len(file),
         NEW w \in WriteDownload(d)
  PROVE  \/ w.download = d /\ w.block = NoBlock
         \/ d.open = 0 /\ w.download.name = 0 /\ w.block = Error
         \/ /\ Served(c, w.download) /\ Opened(d).current <= w.download.current
            /\ Carried(w, w.download.current)
  <1> DEFINE o == Opened(d)
             f == Filled(o)
  <1>1. o \in Downloads
    BY OpenedFacts
  <1>2. f \in Downloads /\ Served(c, f) /\ o.current <= f.current /\ f.client = o.client
    BY <1>1, WindowMoves
  <1>3. /\ Len(file) \in Nat /\ f.client \in Nat /\ f.current \in Nat /\ f.xmit \in Nat
    BY <1>2, RequestedFacts, DownloadFields
  <1>4. Len(file) <= f.current /\ f.xmit <= f.current /\ f.client <= Len(file)
    BY <1>2 DEF Served
  <1> HIDE DEF f, o
  <1>5. \/ ~Writing(d) /\ w = Silent(d, state)
        \/ d.open = 0 /\ \E st \in {state, "CONNECTED"} : w = Refused(d, st)
        \/ w = Silent(f, "CONNECTED")
        \/ f.xmit # f.current /\ w = SendsFrom(f, f.xmit)
        \/ f.client # f.current /\ w = SendsFrom(f, f.client)
    BY WriteOutcomes DEF f, o
  <1>6. CASE w = Silent(d, state)
    BY <1>6, RefusedFacts
  <1>7. ASSUME d.open = 0, NEW st \in {state, "CONNECTED"}, w = Refused(d, st)
        PROVE  d.open = 0 /\ w.download.name = 0 /\ w.block = Error
    BY <1>7, RefusedFacts
  <1>8. CASE w = Silent(f, "CONNECTED")
    BY <1>2, <1>8, RefusedFacts DEF Carried, o
  <1>9. ASSUME NEW x \in {f.xmit, f.client}, x # f.current, w = SendsFrom(f, x)
        PROVE  /\ Served(c, w.download) /\ o.current <= w.download.current
               /\ Carried(w, w.download.current)
    <2>1. x \in Nat /\ x < f.current
      BY <1>3, <1>4, <1>9
    <2> QED BY <1>2, <1>4, <1>9, <2>1, WindowSends
  <1> QED BY <1>5, <1>6, <1>7, <1>8, <1>9 DEF o

-----------------------------------------------------------------------------
(* The steps of the server *)

FromOld(n) == down'[n].block = NoBlock \/ \E k \in 1..Len(down) : down'[n].block = down[k].block
ClientPart == <<phase, file, issued, known>>

LEMMA CarriedSame ==
  ASSUME NEW m, NEW p, m.block = p.block, NEW end
  PROVE  Carried(m, end) <=> Carried(p, end)
  BY DEF Carried

\* No new blocks, and the download where the commands left it.
LEMMA StageKept ==
  ASSUME NEW c, NEW d, NEW t, Stage(c, d, t), UNCHANGED ClientPart,
         c = lastClientCommand', d = download', t = lastText',
         \A n \in 1..Len(down') : FromOld(n)
  PROVE  Progress'
  <1>1. /\ phase' = phase /\ file' = file /\ issued' = issued /\ known' = known
        /\ Requested' = Requested
    BY DEF ClientPart, Requested
  <1>2. /\ \A a, b : Idle(a, b)' <=> Idle(a, b)
        /\ \A m, end : Carried(m, end)' <=> Carried(m, end)
        /\ Served(c, d)' <=> Served(c, d)
    BY <1>1 DEF Idle, Carried, Served
  <1>3. Unserved => Unserved'
    BY DEF Unserved, FromOld
  <1>4. ASSUME NEW end, \A i \in 1..Len(down) : Carried(down[i], end)
        PROVE  (\A i \in 1..Len(down) : Carried(down[i], end))'
    <2>1. \A i \in 1..Len(down') : Carried(down'[i], end)
      BY <1>4, CarriedSame DEF FromOld, Carried
    <2>2. \A i \in 1..Len(down') : Carried(down[i], end)'
      BY <1>1, <2>1 DEF Carried
    <2> QED BY <2>2
  <1>5. (\A i \in 1..Len(down) : down[i].block \in {NoBlock, Error})
          => \A i \in 1..Len(down') : down'[i].block \in {NoBlock, Error}
    BY DEF FromOld
  <1>6. Getting(c, d) => Getting(c, d)'
    <2>1. CASE c < Requested /\ file = <<>> /\ Unserved /\ Idle(c + 1, Requested - 1)
      <3>1. Idle(c + 1, Requested - 1)'
        BY <1>1, <2>1 DEF Idle
      <3> QED BY <1>1, <1>3, <2>1, <3>1 DEF Getting
    <2>2. CASE c = Requested /\ file = <<>> /\ Unserved /\ d.name = known.level /\ d.open = 0
      BY <1>1, <1>3, <2>2 DEF Getting
    <2>3. CASE /\ c = Requested /\ file = <<>> /\ d.name = 0
               /\ \A i \in 1..Len(down) : down[i].block \in {NoBlock, Error}
      BY <1>1, <1>5, <2>3 DEF Getting
    <2>4. CASE Served(c, d) /\ \A i \in 1..Len(down) : Carried(down[i], d.current)
      <3>1. (\A i \in 1..Len(down) : Carried(down[i], d.current))'
        BY <1>4, <2>4
      <3> QED BY <1>2, <2>4, <3>1 DEF Getting
    <2> QED BY <2>1, <2>2, <2>3, <2>4 DEF Getting
  <1>7. Got(c, d, t) => Got(c, d, t)'
    BY <1>1, <1>2 DEF Got
  <1>8. Stage(c, d, t)'
    <2>1. phase \in {"connecting", "playing"} => Idle(c + 1, Len(issued))'
      BY <1>1 DEF Stage, Idle
    <2> QED BY <1>1, <1>6, <1>7, <2>1 DEF Stage
  <1> QED BY <1>8 DEF Progress

\* The numbers that every step starts from.
LEMMA SessionFacts ==
  ASSUME SInv
  PROVE  /\ SessionType /\ Script /\ phase \in Phases /\ known \in Numbers
         /\ known.level \in Nat /\ known.restart \in Nat
         /\ level \in Nat \ {0} /\ restart \in Nat
         /\ Len(issued) \in Nat /\ Len(file) \in Nat /\ Requested \in Int
         /\ phase = "waiting" => Requested = Len(issued) - Len(file) - 1
         /\ phase # "waiting" => Requested = Len(issued) - Len(file)
         /\ file = <<>> <=> Len(file) = 0
         /\ Blocks \in Nat /\ Window \in Nat
         /\ lastClientCommand \in Nat /\ lastClientCommand <= Len(issued)
         /\ download \in Downloads /\ state \in States /\ lastText \in Texts
         /\ Len(submitted) \in Nat /\ Len(up) \in Nat /\ Len(down) \in Nat
         /\ \A i \in 1..Len(up) : up[i] \in UpType /\ UpSound(up[i])
         /\ \A i \in 1..Len(down) : down[i] \in DownType /\ DownSound(down[i])
  <1>1. SessionType /\ Script /\ Messages
    BY DEF SInv
  <1>2. /\ submitted \in Seq(Numbers) /\ up \in Seq(UpType) /\ down \in Seq(DownType)
    BY <1>1 DEF SessionType
  <1>3. /\ Len(submitted) \in Nat /\ Len(up) \in Nat /\ Len(down) \in Nat
        /\ \A i \in 1..Len(up) : up[i] \in UpType
        /\ \A i \in 1..Len(down) : down[i] \in DownType
    BY <1>2, SeqIs
  <1>4. phase \in Phases /\ known \in Numbers /\ level \in Nat \ {0} /\ restart \in Nat
    BY <1>1 DEF SessionType
  <1>5. known.level \in Nat /\ known.restart \in Nat
    BY <1>4 DEF Numbers
  <1> QED BY <1>1, <1>3, <1>4, <1>5, RequestedFacts, SInvCounts, Constants DEF Messages

LEMMA SnapshotStage ==
  ASSUME SInv, NEW w \in WriteDownload(download), NEW m, m.block = w.block,
         down' = Put(down, m), m \in DownType, download' = w.download, UNCHANGED ClientPart,
         UNCHANGED <<lastClientCommand, lastText>>
  PROVE  Progress'
  <1> DEFINE c == lastClientCommand
             d == download
             e == w.download
  <1>1. /\ Stage(c, d, lastText) /\ Len(down) \in Nat
        /\ d \in Downloads /\ w.block \in BlockType
        /\ ~Writing(d) => e = d /\ w.block = NoBlock
    BY SessionFacts, WriteTyped DEF SInv, Progress
  <1>2. /\ phase' = phase /\ file' = file /\ issued' = issued /\ known' = known
        /\ Requested' = Requested /\ lastClientCommand' = c /\ lastText' = lastText
    BY DEF ClientPart, Requested
  <1>3. \A n \in 1..Len(down') :
          \/ \E k \in 1..Len(down) : down'[n] = down[k]
          \/ down'[n] = m
    BY PutTyped DEF SessionType, SInv
  <1>4. ASSUME e = d, w.block = NoBlock
        PROVE  Progress'
    <2>1. \A n \in 1..Len(down') : FromOld(n)
      BY <1>3, <1>4 DEF FromOld
    <2> QED BY <1>1, <1>2, <1>4, <2>1, StageKept
  <1>5. \A f : Served(c, f)' <=> Served(c, f)
    BY <1>2 DEF Served
  <1>6. /\ known.level \in Nat /\ Len(file) \in Nat /\ Requested \in Int
        /\ phase = "waiting" => Requested = Len(issued) - Len(file) - 1
        /\ phase # "waiting" => Requested = Len(issued) - Len(file)
        /\ c \in Nat /\ c <= Len(issued) /\ Blocks \in Nat /\ Window \in Nat \ {0}
        /\ phase \in Phases /\ SessionType /\ Len(issued) \in Nat
        /\ file = <<>> => Len(file) = 0
    BY SessionFacts, Constants
  <1>7. CASE Writing(d) /\ phase \in {"connecting", "playing", "gone"}
    BY <1>1, <1>2, <1>7 DEF Progress, Stage, Idle
  <1>8. CASE Writing(d) /\ phase = "downloading"
    <2>1. d.name # 0 /\ Getting(c, d)
      BY <1>1, <1>8 DEF Writing, Stage
    <2>2. known.level # 0
      BY <1>8 DEF SInv, Script
    <2>3. ~(c < Requested)
      BY <1>8, <2>1 DEF SInv, Early
    <2> DEFINE o == Opened(d)
    <2>4. /\ Served(c, o) /\ o.client <= Len(file)
          /\ d.open = 0 => c = Requested /\ file = <<>>
          /\ \A i \in 1..Len(down) : Carried(down[i], o.current)
      <3>1. /\ o \in Downloads /\ o.name = d.name
            /\ d.open # 0 => o = d
            /\ d.open = 0 => o.open = d.name /\ o.current = 0 /\ o.client = 0 /\ o.xmit = 0
        BY <1>1, OpenedFacts
      <3> HIDE DEF o, d, c
      <3>2. CASE c = Requested /\ file = <<>> /\ Unserved /\ d.name = known.level /\ d.open = 0
        <4>1. o.client = c - Requested /\ Len(file) = 0 /\ o.current = 0
          BY <1>6, <3>1, <3>2
        <4>2. 0 .. o.current - 1 = {}
          BY <4>1
        <4>3. Served(c, o)
          BY <1>6, <3>1, <3>2, <4>1, <4>2 DEF Served
        <4> QED BY <1>6, <3>2, <4>1, <4>3 DEF Unserved, Carried
      <3>3. CASE Served(c, d) /\ \A i \in 1..Len(down) : Carried(down[i], d.current)
        <4>1. d.open = known.level /\ d.client = c - Requested
          BY <3>3 DEF Served
        <4>2. d.client <= Len(file) /\ d.open # 0
          BY <1>6, <1>8, <2>2, <4>1
        <4> QED BY <3>1, <3>3, <4>2
      <3> QED BY <2>1, <2>3, <3>2, <3>3 DEF Getting
    <2> HIDE DEF o
    <2>5. \/ e = d /\ w.block = NoBlock
          \/ d.open = 0 /\ e.name = 0 /\ w.block = Error
          \/ Served(c, e) /\ o.current <= e.current /\ Carried(w, e.current)
      BY <1>1, <1>6, <2>1, <2>4, WriteServed DEF o
    <2>6. CASE d.open = 0 /\ e.name = 0 /\ w.block = Error
      <3>1. Unserved
        <4>1. ~Served(c, d)
          BY <2>2, <2>6 DEF Served
        <4> QED BY <2>1, <2>3, <4>1 DEF Getting
      <3>2. (\A i \in 1..Len(down) : down[i].block \in {NoBlock, Error})'
        BY <1>3, <2>6, <3>1 DEF Unserved
      <3>3. Getting(c, e)'
        BY <1>2, <2>4, <2>6, <3>2 DEF Getting
      <3> QED BY <1>2, <1>8, <3>3 DEF Progress, Stage
    <2>7. CASE Served(c, e) /\ o.current <= e.current /\ Carried(w, e.current)
      <3>1. e \in Downloads /\ o \in Downloads
        BY <1>1, OpenedFacts, WriteTyped DEF o
      <3>2. e.current \in Nat /\ o.current \in Nat
        BY <3>1, DownloadFields
      <3>3. \A i \in 1..Len(down) : Carried(down[i], e.current)
        <4> TAKE i \in 1..Len(down)
        <4>1. Carried(down[i], o.current)
          BY <2>4
        <4>2. down[i].block.number \in Int
          BY SessionFacts DEF DownType, BlockType
        <4> HIDE DEF e
        <4> QED BY <2>7, <3>2, <4>1, <4>2 DEF Carried
      <3>4. Carried(m, e.current)
        BY <2>7, CarriedSame
      <3>5. (\A i \in 1..Len(down) : Carried(down[i], e.current))'
        <4>1. \A i \in 1..Len(down') : Carried(down'[i], e.current)
          BY <1>3, <3>3, <3>4
        <4> QED BY <1>2, <4>1 DEF Carried
      <3>6. Getting(c, e)'
        BY <1>5, <2>7, <3>5 DEF Getting
      <3> QED BY <1>2, <1>8, <3>6 DEF Progress, Stage
    <2> QED BY <1>4, <2>5, <2>6, <2>7
  <1>9. CASE Writing(d) /\ phase = "waiting"
    <2>1. d.name # 0 /\ Got(c, d, lastText)
      BY <1>1, <1>9 DEF Writing, Stage
    <2>2. Served(c, d) /\ c <= Len(issued) - 2
      BY <2>1 DEF Got
    <2>3. d.open # 0 /\ d.client <= Len(file) /\ Opened(d) = d
      <3>1. d.open = known.level /\ d.client = c - Requested /\ known.level # 0
        BY <1>9, <2>2 DEF Served, SInv, Script
      <3>2. d.open # 0 /\ d.client <= Len(file)
        BY <1>6, <1>9, <2>2, <3>1
      <3> QED BY <1>1, <3>2, OpenedFacts
    <2>4. \/ e = d /\ w.block = NoBlock
          \/ Served(c, e)
      BY <1>1, <1>6, <2>1, <2>2, <2>3, WriteServed
    <2>5. CASE Served(c, e)
      <3>1. Got(c, e, lastText)'
        BY <1>2, <1>5, <2>2, <2>5 DEF Got
      <3> QED BY <1>2, <1>9, <3>1 DEF Progress, Stage
    <2> QED BY <1>4, <2>4, <2>5
  <1> QED BY <1>1, <1>4, <1>6, <1>7, <1>8, <1>9 DEF Phases

LEMMA SnapshotStep ==
  ASSUME SInv, SendSnapshot
  PROVE  SInv'
  <1>1. PICK w \in WriteDownload(download),
             last \in (IF state = "ACTIVE" THEN Fitting ELSE {reliableAcknowledge}) :
          /\ download' = w.download
          /\ state' = w.state
          /\ down' = Put(down, [age |-> After, ack |-> lastClientCommand,
                                first |-> reliableAcknowledge, last |-> last,
                                gamestate |-> [level |-> 0, restart |-> 0],
                                block |-> w.block])
    BY DEF SendSnapshot
  <1> DEFINE m == [age |-> After, ack |-> lastClientCommand,
                   first |-> reliableAcknowledge, last |-> last,
                   gamestate |-> [level |-> 0, restart |-> 0],
                   block |-> w.block]
  <1>2. /\ UNCHANGED <<level, restart, submitted, reliableAcknowledge, lastClientCommand,
                       lastText, full, up>>
        /\ UNCHANGED client
    BY DEF SendSnapshot
  <1>3. /\ level' = level /\ restart' = restart /\ submitted' = submitted
        /\ reliableAcknowledge' = reliableAcknowledge
        /\ lastClientCommand' = lastClientCommand /\ lastText' = lastText /\ up' = up
        /\ known' = known /\ phase' = phase
        /\ serverCommandSequence' = serverCommandSequence /\ heard' = heard
        /\ issued' = issued /\ acked' = acked /\ file' = file /\ Requested' = Requested
    BY <1>2 DEF client, Requested
  <1>4. /\ SessionType /\ Counted /\ reliableAcknowledge \in Nat
        /\ lastClientCommand \in Nat /\ Len(submitted) \in Nat
        /\ reliableAcknowledge <= Len(submitted) /\ download \in Downloads
        /\ Len(down) \in Nat
    BY SessionFacts DEF SInv, SessionType, Counted
  <1>5. last \in Nat /\ last <= Len(submitted)
    BY <1>4 DEF Fitting, reliableSequence
  <1>6. /\ w.download \in Downloads /\ w.block \in BlockType
        /\ w.download.name \in {0, download.name}
        /\ w.state = state \/ w.state = "CONNECTED"
        /\ ~Writing(download) => /\ w.download = download /\ w.block = NoBlock
                                 /\ w.state = state
    BY <1>4, WriteTyped
  <1>7. /\ m \in DownType /\ m.age = After /\ m.ack = lastClientCommand
        /\ m.last = last /\ m.gamestate.level = 0 /\ m.block = w.block
    BY <1>4, <1>5, <1>6 DEF DownType, Numbers, After
  <1>8. down' = Put(down, m)
    BY <1>1
  <1> HIDE DEF m
  <1>9. down \in Seq(DownType)
    BY <1>4 DEF SessionType
  <1>10. down' \in Seq(DownType) /\ Len(down') \in Nat
    BY <1>7, <1>8, <1>9, PutTyped
  <1>11. PICK k \in {0, 1} :
           /\ Len(down') = Len(down) + 1 - k
           /\ \A n \in 1..Len(down') : \/ n + k \in 1..Len(down) /\ down'[n] = down[n + k]
                                       \/ n = Len(down') /\ down'[n] = m
    <2>1. \E k \in {0, 1} :
             /\ Len(Put(down, m)) = Len(down) + 1 - k
             /\ \A n \in 1..Len(Put(down, m)) :
                  \/ n + k \in 1..Len(down) /\ Put(down, m)[n] = down[n + k]
                  \/ n = Len(Put(down, m)) /\ Put(down, m)[n] = m
      <3>1. m \in DownType
        BY <1>7
      <3> QED BY <1>9, <3>1, PutTyped, Zenon
    <2> QED BY <1>8, <2>1, Zenon
  <1>12. SessionType'
    <2>1. state' \in States
      BY <1>1, <1>4, <1>6 DEF SessionType, States
    <2> QED BY <1>1, <1>3, <1>4, <1>6, <1>10, <2>1 DEF SessionType
  <1>13. Counted'
    BY <1>3, <1>4 DEF Counted
  <1>14. Messages'
    <2>3. \A i \in 1..Len(down') : DownSound(down'[i])
      <3>1. DownSound(m)
        BY <1>4, <1>5, <1>7 DEF DownSound
      <3>2. \A i \in 1..Len(down) : DownSound(down[i])
        BY DEF SInv, Messages
      <3> QED BY <1>11, <3>1, <3>2
    <2>4. (\A i \in 1..Len(down) : DownSound(down[i]))'
      BY <1>3, <2>3 DEF DownSound
    <2>5. (\A i \in 1..Len(up) : UpSound(up[i]))'
      <3>1. \A i \in 1..Len(up) : UpSound(up[i])
        BY DEF SInv, Messages
      <3> QED BY <1>3, <3>1 DEF UpSound
    <2> QED BY <2>4, <2>5 DEF Messages
  <1>15. Levels'
    BY <1>3 DEF SInv, Levels
  <1>16. Gamestates'
    <2> SUFFICES ASSUME NEW i \in 1..Len(down'), down'[i].gamestate.level # 0
                 PROVE  Coming(i)'
      BY DEF Gamestates
    <2>1. i + k \in 1..Len(down) /\ down'[i] = down[i + k] /\ i \in Nat
      BY <1>7, <1>10, <1>11
    <2>2. Coming(i + k)
      BY <2>1 DEF SInv, Gamestates
    <2> DEFINE g == down[i + k].gamestate.level
    <2>3. \A j \in 1..Len(down') : j # i => down'[j].gamestate.level = 0
      <3> TAKE j \in 1..Len(down')
      <3>1. j # i => j + k # i + k
        BY <2>1
      <3> QED BY <1>7, <1>11, <2>2, <3>1 DEF Coming
    <2>4. \A j \in 1..Len(down') : j < i => j + k < i + k /\ j + k \in 1..Len(down)
                                            /\ down'[j] = down[j + k]
      <3> TAKE j \in 1..Len(down')
      <3>1. j < i => j # Len(down') /\ j + k < i + k
        BY <1>10, <2>1
      <3> QED BY <1>11, <3>1
    <2>5. \A j \in 1..Len(down') :
            j < i => down'[j].age # After /\ down'[j].last <= down'[i].last
      BY <2>1, <2>2, <2>4 DEF Coming
    <2>6. \A n \in 1..Len(submitted) :
             IF n <= down'[i].last THEN submitted[n].level <= g
             ELSE submitted[n].level >= g
      BY <2>1, <2>2 DEF Coming
    <2>7. Awaited(i)'
      <3>1. CASE known.level < g /\ download.name = 0 /\ lastText \notin Quiet
                 /\ \A j \in 1..Len(down) : j > i + k => down[j].block = NoBlock
        <4>1. w.download = download /\ w.block = NoBlock
          BY <1>6, <3>1 DEF Writing
        <4>2. \A j \in 1..Len(down') : j > i => down'[j].block = NoBlock
          <5> TAKE j \in 1..Len(down')
          <5>1. j > i => j + k > i + k
            BY <1>10, <2>1
          <5> QED BY <1>7, <1>11, <3>1, <4>1, <5>1
        <4> QED BY <1>1, <1>3, <2>1, <3>1, <4>1, <4>2 DEF Awaited
      <3>2. CASE phase = "gone"
        BY <1>3, <3>2 DEF Awaited
      <3>3. CASE /\ known.level = g
                 /\ phase = "playing" \/ (phase = "waiting" /\ lastClientCommand = Len(issued))
        BY <1>3, <2>1, <3>3 DEF Awaited
      <3> QED BY <2>2, <3>1, <3>2, <3>3 DEF Coming, Awaited
    <2>8. /\ g <= level' /\ heard' # After /\ down'[i].block = NoBlock
          /\ \A j \in 1..Len(up') : up'[j].age # After
      BY <1>3, <2>1, <2>2 DEF Coming
    <2> QED BY <1>3, <2>1, <2>3, <2>5, <2>6, <2>7, <2>8 DEF Coming
  <1>17. Script'
    BY <1>3 DEF SInv, Script
  <1>18. Progress'
    BY <1>1, <1>3, <1>7, <1>8, SnapshotStage DEF ClientPart
  <1>19. Early'
    <2>1. download.name = 0 => download' = download
      BY <1>1, <1>6 DEF Writing
    <2> QED BY <1>3, <2>1 DEF SInv, Early
  <1>20. World'
    <2>1. CASE Writing(download)
      <3>1. state # "ACTIVE" /\ download.name # 0
        BY <2>1 DEF Writing
      <3>2. CASE state' = "CONNECTED"
        BY <3>2 DEF World
      <3>3. CASE state' = state
        BY <1>3, <3>1, <3>3 DEF SInv, World
      <3> QED BY <1>1, <1>6, <3>2, <3>3
    <2>2. CASE ~Writing(download)
      BY <1>1, <1>3, <1>6, <2>2 DEF SInv, World
    <2> QED BY <2>1, <2>2
  <1> QED BY <1>12, <1>13, <1>14, <1>15, <1>16, <1>17, <1>18, <1>19, <1>20 DEF SInv

Aside == <<level, restart, submitted, full, known, phase, serverCommandSequence, issued,
             acked, file>>

\* The message that is read is current only for a client of the level that runs, or one
\* the server is sending a file to.
LEMMA CurrentLevel ==
  ASSUME SInv, NEW m \in UpType, UpSound(m), Current(m), download.name = 0,
         lastText \notin Quiet
  PROVE  known.level = level /\ m.known.level = level
  <1>1. SameServerId(m)
    BY DEF Current, Quiet
  <1>2. m.known.level = level /\ m.known.level <= known.level /\ known.level <= level
    BY <1>1 DEF SameServerId, SameLevel, UpSound, SInv, Counted
  <1> QED BY <1>2, SessionFacts

LEMMA PrimedLevel ==
  ASSUME SInv, NEW m \in UpType, UpSound(m), Current(m), state \in {"PRIMED", "ACTIVE"}
  PROVE  known.level = level
  BY CurrentLevel DEF SInv, World

\* The commands that were executed: none, or all of a current message.
Execution(m) ==
    \/ UNCHANGED <<download, lastText, lastClientCommand>>
    \/ Current(m) /\ lastClientCommand < lastClientCommand' /\ m.last <= lastClientCommand'
Handled(m) ==
    /\ download' \in Downloads /\ lastText' \in Texts /\ lastClientCommand' \in Nat
    /\ lastClientCommand <= lastClientCommand' /\ lastClientCommand' <= Len(issued)
    /\ reliableAcknowledge' \in Nat /\ reliableAcknowledge' <= Len(submitted)
    /\ state' \in States /\ Execution(m) /\ World'
    /\ \E c, d, t : /\ c = lastClientCommand' /\ d = download' /\ t = lastText'
                    /\ Stage(c, d, t)

LEMMA EarlyKept ==
  ASSUME SInv, NEW m \in UpType, UpSound(m), Handled(m), UNCHANGED Aside,
         \E i \in 1..Len(up) : m = up[i],
         \A j \in 1..Len(up') : \E i \in 1..Len(up) :
            up'[j].known = up[i].known /\ up'[j].last = up[i].last
  PROVE  Early'
  <1>1. /\ phase' = phase /\ Requested' = Requested /\ known' = known /\ issued' = issued
    BY DEF Aside, Requested
  <1> SUFFICES ASSUME phase = "downloading", lastClientCommand' < Requested
               PROVE  /\ download'.name = 0 /\ lastText' \notin Quiet
                      /\ \A j \in 1..Len(up') :
                           up'[j].known.level = known.level => up'[j].last = Len(issued)
    BY <1>1 DEF Early
  <1>2. /\ lastClientCommand \in Nat /\ lastClientCommand' \in Nat
        /\ lastClientCommand <= lastClientCommand'
        /\ Requested \in Int /\ Requested = Len(issued) - Len(file) /\ Len(file) \in Nat
        /\ Len(issued) \in Nat
    BY SessionFacts DEF Handled
  <1>3. lastClientCommand < Requested
    BY <1>2
  <1>4. /\ download.name = 0 /\ lastText \notin Quiet
        /\ \A i \in 1..Len(up) : up[i].known.level = known.level => up[i].last = Len(issued)
    BY <1>3 DEF SInv, Early
  <1>5. ~(Current(m) /\ m.last <= lastClientCommand')
    <2> SUFFICES ASSUME Current(m), m.last <= lastClientCommand' PROVE FALSE
      OBVIOUS
    <2>1. m.known.level = known.level
      BY <1>4, CurrentLevel
    <2>2. m.last = Len(issued)
      BY <1>4, <2>1
    <2> QED BY <1>2, <2>2
  <1>6. download' = download /\ lastText' = lastText
    BY <1>5 DEF Handled, Execution
  <1>7. ASSUME NEW j \in 1..Len(up'), up'[j].known.level = known.level
        PROVE  up'[j].last = Len(issued)
    <2>1. PICK i \in 1..Len(up) : up'[j].known = up[i].known /\ up'[j].last = up[i].last
      OBVIOUS
    <2>2. up[i].known.level = known.level
      BY <1>7, <2>1
    <2> QED BY <1>4, <2>1, <2>2
  <1> QED BY <1>4, <1>6, <1>7

LEMMA SessionKept ==
  ASSUME SInv, NEW m, Handled(m), UNCHANGED Aside, up' \in Seq(UpType),
         down' \in Seq(DownType), heard' \in 0..2
  PROVE  SessionType' /\ Counted' /\ Levels' /\ Script'
  <1>1. /\ level' = level /\ restart' = restart /\ submitted' = submitted
        /\ known' = known /\ phase' = phase
        /\ serverCommandSequence' = serverCommandSequence
        /\ issued' = issued /\ acked' = acked /\ file' = file /\ Requested' = Requested
    BY DEF Aside, Requested
  <1>2. SessionType'
    <2>1. /\ state' \in States /\ reliableAcknowledge' \in Nat
          /\ lastClientCommand' \in Nat /\ lastText' \in Texts /\ download' \in Downloads
      BY DEF Handled
    <2>2. SessionType
      BY DEF SInv
    <2> QED BY <1>1, <2>1, <2>2 DEF SessionType
  <1>3. Counted'
    <2>1. /\ Counted /\ acked \in Nat /\ lastClientCommand \in Nat
          /\ lastClientCommand' \in Nat /\ lastClientCommand <= lastClientCommand'
      BY DEF SInv, SessionType, Handled
    <2> QED BY <1>1, <2>1 DEF Counted, Handled
  <1>4. Levels' /\ Script'
    BY <1>1 DEF SInv, Levels, Script
  <1> QED BY <1>2, <1>3, <1>4

\* A message is read and answered by nothing.
LEMMA QuietStep ==
  ASSUME SInv, NEW i \in 1..Len(up), UNCHANGED Aside, SendsNothing(i), Handled(up[i])
  PROVE  SInv'
  <1> DEFINE m == up[i]
  <1>1. m \in UpType /\ UpSound(m) /\ SessionType
    BY SessionFacts
  <1>2. /\ level' = level /\ submitted' = submitted
        /\ known' = known /\ phase' = phase /\ issued' = issued /\ file' = file
        /\ down' = down /\ heard' = heard /\ up' = Later(up, i)
    BY DEF Aside, SendsNothing
  <1>3. /\ up' \in Seq(UpType) /\ Len(up') \in Nat
        /\ \A n \in 1..Len(up') : up'[n] = up[n + i] /\ n + i \in 1..Len(up)
    BY <1>1, <1>2, LaterTyped, SMTT(20) DEF SessionType
  <1>4. SessionType' /\ Counted' /\ Levels' /\ Script'
    BY <1>1, <1>2, <1>3, SessionKept DEF SessionType
  <1>5. /\ lastClientCommand \in Nat /\ lastClientCommand' \in Nat
        /\ lastClientCommand <= lastClientCommand'
        /\ lastClientCommand' <= Len(issued) /\ Len(issued) \in Nat
        /\ level \in Nat /\ known.level \in Nat
    BY SessionFacts DEF Handled
  <1>6. Messages'
    <2>1. \A n \in 1..Len(up') : up'[n] \in UpType /\ UpSound(up'[n])
      BY <1>3, SessionFacts
    <2>2. (\A n \in 1..Len(up) : UpSound(up[n]))'
      BY <1>2, <1>5, <2>1, SMTT(20) DEF UpSound, UpType
    <2>3. (\A n \in 1..Len(down) : DownSound(down[n]))'
      <3>1. \A n \in 1..Len(down) : down[n] \in DownType /\ DownSound(down[n])
        BY SessionFacts
      <3> QED BY <1>2, <1>5, <3>1 DEF DownSound, DownType
    <2> QED BY <2>2, <2>3 DEF Messages
  <1>7. Gamestates'
    <2> SUFFICES ASSUME NEW j \in 1..Len(down), down[j].gamestate.level # 0
                 PROVE  Coming(j)'
      BY <1>2 DEF Gamestates
    <2>1. Coming(j)
      BY DEF SInv, Gamestates
    <2>2. \A n \in 1..Len(up') : up'[n].age # After
      BY <1>3, <2>1 DEF Coming
    <2> DEFINE g == down[j].gamestate.level
    <2>3. Awaited(j)'
      <3>1. CASE phase = "gone"
        BY <1>2, <3>1 DEF Awaited
      <3>2. CASE /\ known.level < g
                 /\ download.name = 0 /\ lastText \notin Quiet
                 /\ \A n \in 1..Len(down) : n > j => down[n].block = NoBlock
        <4>1. ~Current(m)
          <5> SUFFICES ASSUME Current(m) PROVE FALSE
            OBVIOUS
          <5>1. known.level = level
            BY <1>1, <3>2, CurrentLevel
          <5>2. g <= level /\ g \in Nat
            <6>1. down[j] \in DownType
              BY SessionFacts
            <6> QED BY <2>1, <6>1 DEF Coming, DownType, Numbers
          <5> QED BY <1>5, <3>2, <5>1, <5>2
        <4>2. download' = download /\ lastText' = lastText
          BY <4>1 DEF Handled, Execution
        <4> QED BY <1>2, <3>2, <4>2 DEF Awaited
      <3>3. CASE /\ known.level = g
                 /\ phase = "playing" \/ (phase = "waiting" /\ lastClientCommand = Len(issued))
        <4>1. lastClientCommand = Len(issued) => lastClientCommand' = Len(issued)
          BY <1>5
        <4> QED BY <1>2, <3>3, <4>1 DEF Awaited
      <3> QED BY <2>1, <3>1, <3>2, <3>3 DEF Coming, Awaited
    <2> QED BY <1>2, <2>1, <2>2, <2>3 DEF Coming
  <1>8. Progress'
    <2>1. PICK c, d, t : /\ c = lastClientCommand' /\ d = download' /\ t = lastText'
                         /\ Stage(c, d, t)
      BY DEF Handled
    <2>2. \A n \in 1..Len(down') : FromOld(n)
      BY <1>2 DEF FromOld
    <2> QED BY <1>2, <2>1, <2>2, StageKept DEF ClientPart
  <1>9. Early'
    <2>1. \A j \in 1..Len(up') : \E n \in 1..Len(up) :
            up'[j].known = up[n].known /\ up'[j].last = up[n].last
      BY <1>3
    <2> QED BY <1>1, <2>1, EarlyKept
  <1> QED BY <1>4, <1>6, <1>7, <1>8, <1>9 DEF SInv, Handled

\* A message is read and answered by the gamestate.
LEMMA GamestateStep ==
  ASSUME SInv, NEW i \in 1..Len(up), UNCHANGED Aside, Handled(up[i]),
         NEW a \in Nat, a <= lastClientCommand', NEW r \in Nat,
         SendsGamestate(a, r, i),
         \A j \in 1..Len(down) : down[j].gamestate.level = 0,
         \/ known.level < level /\ download'.name = 0 /\ lastText' \notin Quiet
         \/ /\ known.level = level
            /\ phase = "playing" \/ (phase = "waiting" /\ lastClientCommand' = Len(issued))
  PROVE  SInv'
  <1> DEFINE m == up[i]
             gm == GamestateMessage(a, r)
             later == Later(up, i)
             old == Aged(down)
  <1>1. /\ m \in UpType /\ UpSound(m) /\ SessionType /\ Len(submitted) \in Nat
        /\ up \in Seq(UpType) /\ down \in Seq(DownType) /\ Len(down) \in Nat
    BY SessionFacts DEF SessionType
  <1>2. /\ level' = level /\ submitted' = submitted
        /\ known' = known /\ phase' = phase /\ issued' = issued /\ file' = file
        /\ down' = Put(old, gm) /\ heard' = Before /\ up' = Aged(later)
    BY DEF Aside, SendsGamestate
  <1>3. /\ later \in Seq(UpType) /\ Len(later) \in Nat
        /\ \A n \in 1..Len(later) : later[n] = up[n + i] /\ n + i \in 1..Len(up)
    BY <1>1, LaterTyped
  <1> HIDE DEF later
  <1>4. /\ up' \in Seq(UpType) /\ Len(up') = Len(later)
        /\ \A n \in 1..Len(later) : /\ up'[n].age = Before /\ up'[n].known = later[n].known
                                    /\ up'[n].reliable = later[n].reliable
                                    /\ up'[n].first = later[n].first
                                    /\ up'[n].last = later[n].last
                                    /\ up'[n].move = later[n].move
    BY <1>2, <1>3, AgedUp
  <1>5. /\ old \in Seq(DownType) /\ Len(old) = Len(down)
        /\ \A n \in 1..Len(down) : /\ old[n].age = Before /\ old[n].ack = down[n].ack
                                   /\ old[n].last = down[n].last
                                   /\ old[n].gamestate = down[n].gamestate
                                   /\ old[n].block = down[n].block
    BY <1>1, AgedDown
  <1> HIDE DEF old
  <1>6. /\ gm \in DownType /\ gm.age = Gamestate /\ gm.ack = a /\ gm.last = Len(submitted)
        /\ gm.gamestate.level = level /\ gm.block = NoBlock
    <2>1. level \in Nat /\ restart \in Nat /\ NoBlock \in BlockType /\ Gamestate \in 0..2
      BY SessionFacts, NoBlockType DEF Gamestate
    <2> QED BY <1>1, <2>1 DEF GamestateMessage, DownType, Numbers, reliableSequence
  <1> HIDE DEF gm
  <1>7. down' \in Seq(DownType) /\ Len(down') \in Nat
    BY <1>2, <1>5, <1>6, PutTyped
  <1>8. PICK k \in {0, 1} :
          /\ Len(down') = Len(old) + 1 - k
          /\ \A n \in 1..Len(down') :
               \/ n + k \in 1..Len(old) /\ down'[n] = old[n + k]
               \/ n = Len(down') /\ down'[n] = gm
    <2>1. \E k \in {0, 1} :
            /\ Len(Put(old, gm)) = Len(old) + 1 - k
            /\ \A n \in 1..Len(Put(old, gm)) :
                 \/ n + k \in 1..Len(old) /\ Put(old, gm)[n] = old[n + k]
                 \/ n = Len(Put(old, gm)) /\ Put(old, gm)[n] = gm
      BY <1>5, <1>6, PutTyped
    <2> QED BY <1>2, <2>1, Zenon
  <1>9. \A n \in 1..Len(down') :
          \/ n = Len(down') /\ down'[n] = gm
          \/ /\ down'[n].gamestate.level = 0 /\ down'[n].age = Before
             /\ \E j \in 1..Len(down) : /\ down'[n].ack = down[j].ack
                                        /\ down'[n].last = down[j].last
                                        /\ down'[n].block = down[j].block
    <2> TAKE n \in 1..Len(down')
    <2>1. CASE n + k \in 1..Len(old) /\ down'[n] = old[n + k]
      <3>1. n + k \in 1..Len(down)
        BY <1>5, <2>1
      <3> QED BY <1>5, <2>1, <3>1, SMTT(20)
    <2> QED BY <1>8, <2>1
  <1>10. SessionType' /\ Counted' /\ Levels' /\ Script'
    BY <1>1, <1>2, <1>4, <1>7, SessionKept DEF Before
  <1>11. /\ lastClientCommand \in Nat /\ lastClientCommand' \in Nat
         /\ lastClientCommand <= lastClientCommand'
         /\ lastClientCommand' <= Len(issued) /\ Len(issued) \in Nat
         /\ level \in Nat /\ known.level \in Nat
    BY SessionFacts DEF Handled
  <1>12. Messages'
    <2>1. \A n \in 1..Len(up') : later[n] \in UpType /\ UpSound(later[n])
      BY <1>3, <1>4, SessionFacts
    <2>2. (\A n \in 1..Len(up) : UpSound(up[n]))'
      <3>1. Before # After
        BY DEF Before, After
      <3>2. ASSUME NEW n \in 1..Len(up')
            PROVE  UpSound(up[n])'
        <4>1. /\ up'[n].age = Before /\ up'[n].known = later[n].known
              /\ up'[n].reliable = later[n].reliable /\ up'[n].first = later[n].first
              /\ up'[n].last = later[n].last /\ up'[n].move = later[n].move
              /\ later[n].first \in Nat
          BY <1>4, <2>1, <3>2 DEF UpType
        <4>2. LET u == later[n]
              IN  /\ u.reliable <= Len(submitted)
                  /\ u.first <= lastClientCommand /\ u.first <= u.last /\ u.last <= Len(issued)
                  /\ u.known.level <= known.level
                  /\ phase = "waiting" /\ u.last = Len(issued) => ~u.move
          BY <2>1, <3>2 DEF UpSound
        <4>3. later[n].first <= lastClientCommand'
          BY <1>11, <4>1, <4>2
        <4> QED BY <1>2, <3>1, <4>1, <4>2, <4>3 DEF UpSound
      <3> QED BY <3>2
    <2>3. (\A n \in 1..Len(down) : DownSound(down[n]))'
      <3>1. \A n \in 1..Len(down) :
              down[n].ack \in Nat /\ down[n].ack <= lastClientCommand
              /\ down[n].last <= Len(submitted)
        BY SessionFacts DEF DownSound, DownType
      <3>2. \A n \in 1..Len(down') : /\ down'[n].ack <= lastClientCommand'
                                     /\ down'[n].last <= Len(submitted)
        <4> TAKE n \in 1..Len(down')
        <4>1. CASE down'[n] = gm
          BY <1>1, <1>6, <4>1
        <4>2. ASSUME NEW j \in 1..Len(down), down'[n].ack = down[j].ack,
                     down'[n].last = down[j].last
              PROVE  down'[n].ack <= lastClientCommand' /\ down'[n].last <= Len(submitted)
          <5>1. /\ down[j].ack \in Nat /\ down[j].ack <= lastClientCommand
                /\ down[j].last <= Len(submitted)
            BY <3>1
          <5> QED BY <1>11, <4>2, <5>1
        <4> QED BY <1>9, <4>1, <4>2
      <3> QED BY <1>2, <3>2 DEF DownSound
    <2> QED BY <2>2, <2>3 DEF Messages
  <1>13. Gamestates'
    <2> SUFFICES ASSUME NEW j \in 1..Len(down'), down'[j].gamestate.level # 0
                 PROVE  Coming(j)'
      BY DEF Gamestates
    <2>1. j = Len(down') /\ down'[j] = gm
      BY <1>9
    <2>2. /\ \A n \in 1..Len(down') : n # j => down'[n].gamestate.level = 0
          /\ \A n \in 1..Len(down') :
               n < j => down'[n].age # After /\ down'[n].last <= Len(submitted)
      <3>1. \A n \in 1..Len(down) : down[n].last <= Len(submitted)
        BY SessionFacts DEF DownSound
      <3>2. \A n \in 1..Len(down') : n < j => n # Len(down')
        BY <1>7, <2>1
      <3> QED BY <1>9, <2>1, <3>1, <3>2, SMTT(20) DEF Before, After
    <2>3. \A n \in 1..Len(up') : up'[n].age # After
      BY <1>4 DEF Before, After
    <2>4. \A n \in 1..Len(submitted) : n <= Len(submitted) /\ submitted[n].level <= level
      BY <1>1 DEF SInv, Levels
    <2>5. Awaited(j)'
      <3>1. \A n \in 1..Len(down') : ~(n > j)
        BY <1>7, <2>1
      <3> QED BY <1>2, <1>6, <2>1, <3>1 DEF Awaited
    <2>6. heard' # After /\ level <= level'
      BY <1>2, <1>11 DEF Before, After
    <2> QED BY <1>2, <1>6, <2>1, <2>2, <2>3, <2>4, <2>5, <2>6 DEF Coming
  <1>14. Progress'
    <2>1. PICK c, d, t : /\ c = lastClientCommand' /\ d = download' /\ t = lastText'
                         /\ Stage(c, d, t)
      BY DEF Handled
    <2>2. \A n \in 1..Len(down') : FromOld(n)
      BY <1>6, <1>9 DEF FromOld
    <2> QED BY <1>2, <2>1, <2>2, StageKept DEF ClientPart
  <1>15. Early'
    <2>1. \A j \in 1..Len(up') : \E n \in 1..Len(up) :
            up'[j].known = up[n].known /\ up'[j].last = up[n].last
      <3> TAKE j \in 1..Len(up')
      <3>1. /\ up'[j].known = up[j + i].known /\ up'[j].last = up[j + i].last
            /\ j + i \in 1..Len(up)
        BY <1>3, <1>4
      <3> QED BY <3>1
    <2> QED BY <1>1, <2>1, EarlyKept
  <1> QED BY <1>10, <1>12, <1>13, <1>14, <1>15 DEF SInv, Handled

\* A download that is due is being told of, and only then the client is at its end.
LEMMA DueGamestate ==
  ASSUME SInv, NEW m \in UpType, UpSound(m), Current(m), phase = "waiting",
         lastClientCommand < Len(issued)
  PROVE  \A j \in 1..Len(down) : down[j].gamestate.level = 0
  <1> SUFFICES ASSUME NEW j \in 1..Len(down), down[j].gamestate.level # 0
               PROVE  FALSE
    OBVIOUS
  <1> DEFINE g == down[j].gamestate.level
  <1>1. Coming(j)
    BY DEF SInv, Gamestates
  <1>2. g <= level /\ g \in Nat /\ known.level \in Nat /\ level \in Nat
    <2>1. down[j] \in DownType
      BY SessionFacts
    <2> QED BY <1>1, <2>1, SessionFacts DEF Coming, DownType, Numbers
  <1>3. known.level < g /\ download.name = 0 /\ lastText \notin Quiet
    BY <1>1, SessionFacts, SMTT(20) DEF Coming, Awaited
  <1>4. known.level = level
    BY <1>3, CurrentLevel
  <1> QED BY <1>2, <1>3, <1>4

LEMMA StageHere ==
  ASSUME SInv, UNCHANGED <<download, lastText, lastClientCommand>>
  PROVE  \E c, d, t : /\ c = lastClientCommand' /\ d = download' /\ t = lastText'
                      /\ Stage(c, d, t)
  BY DEF SInv, Progress

\* A message none of whose commands are read.
LEMMA Unread ==
  ASSUME SInv, NEW m \in UpType, UpSound(m), UNCHANGED Aside,
         UNCHANGED <<download, lastText, lastClientCommand>>,
         reliableAcknowledge' \in {reliableSequence, m.reliable}, state' \in States, World'
  PROVE  Handled(m)
  <1>1. /\ download' \in Downloads /\ lastText' \in Texts /\ lastClientCommand' \in Nat
        /\ lastClientCommand <= lastClientCommand' /\ lastClientCommand' <= Len(issued)
    BY SessionFacts
  <1>2. reliableAcknowledge' \in Nat /\ reliableAcknowledge' <= Len(submitted)
    BY SessionFacts, SMTT(60) DEF UpType, UpSound, reliableSequence
  <1> QED BY <1>1, <1>2, StageHere DEF Handled, Execution

LEMMA IgnoredStep ==
  ASSUME SInv, NEW i \in 1..Len(up), UNCHANGED Aside, Ignored(i)
  PROVE  SInv'
  <1>1. /\ reliableAcknowledge' = reliableSequence /\ SendsNothing(i)
        /\ UNCHANGED <<state, download, lastText, lastClientCommand>>
    BY DEF Ignored
  <1>2. state' \in States /\ World'
    BY <1>1, SessionFacts DEF SInv, World, Aside
  <1>3. Handled(up[i])
    BY <1>1, <1>2, SessionFacts, Unread
  <1> QED BY <1>1, <1>3, QuietStep

LEMMA EnterWorldStep ==
  ASSUME SInv, NEW i \in 1..Len(up), UNCHANGED Aside, EnterWorld(i),
         reliableAcknowledge' = up[i].reliable
  PROVE  SInv'
  <1>1. /\ SameLevel(up[i]) /\ SendsNothing(i)
        /\ state' = IF state = "PRIMED" THEN "ACTIVE" ELSE state
        /\ UNCHANGED <<download, lastText, lastClientCommand>>
    BY DEF EnterWorld
  <1>2. known.level = level
    <2>1. up[i].known.level <= known.level /\ known.level <= level /\ up[i].known.level = level
      BY <1>1, SessionFacts DEF SInv, Counted, UpSound, SameLevel
    <2> QED BY <2>1, SessionFacts, SMTT(20)
  <1>3. state' \in States /\ World'
    BY <1>1, <1>2, SessionFacts DEF World, Aside, States
  <1>4. Handled(up[i])
    BY <1>1, <1>3, SessionFacts, Unread
  <1> QED BY <1>1, <1>4, QuietStep

LEMMA OfferedStep ==
  ASSUME SInv, NEW i \in 1..Len(up), UNCHANGED Aside, Offered(i),
         reliableAcknowledge' = up[i].reliable
  PROVE  SInv'
  <1> DEFINE m == up[i]
  <1>1. /\ ~Current(m) /\ ~SameLevel(m) /\ m \in UpType /\ UpSound(m)
        /\ UNCHANGED <<download, lastText, lastClientCommand>>
    BY SessionFacts DEF Offered
  <1>2. download.name = 0 /\ lastText \notin Quiet /\ m.known.level # level
    BY <1>1 DEF Current, Quiet, SameLevel
  <1>3. CASE m.age = After
    <2>1. SendsGamestate(lastClientCommand, m.reliable, i) /\ state' = "PRIMED"
      BY <1>3 DEF Offered
    <2>2. state' \in States /\ World'
      BY <1>1, <1>2, <2>1 DEF World, States
    <2>3. Handled(m)
      BY <1>1, <2>2, Unread
    <2>4. \A j \in 1..Len(down) : down[j].gamestate.level = 0
      BY <1>3 DEF SInv, Gamestates, Coming
    <2>5. m.known.level = known.level \/ phase = "playing"
      BY <1>1, <1>3 DEF UpSound
    <2>6. known.level < level \/ known.level = level
      BY SessionFacts, SMTT(20) DEF SInv, Counted
    <2>7. m.reliable \in Nat /\ lastClientCommand \in Nat
          /\ lastClientCommand <= lastClientCommand'
      <3>1. m.reliable \in Nat
        BY <1>1 DEF UpType
      <3>2. lastClientCommand \in Nat /\ lastClientCommand' = lastClientCommand
        BY <1>1, SessionFacts
      <3> QED BY <3>1, <3>2
    <2>8. \/ known.level < level /\ download'.name = 0 /\ lastText' \notin Quiet
          \/ /\ known.level = level
             /\ phase = "playing" \/ (phase = "waiting" /\ lastClientCommand' = Len(issued))
      BY <1>1, <1>2, <2>5, <2>6
    <2> QED BY <2>1, <2>3, <2>4, <2>7, <2>8, GamestateStep
  <1>4. CASE m.age # After
    <2>1. SendsNothing(i) /\ UNCHANGED state
      BY <1>4 DEF Offered
    <2>2. state' \in States /\ World'
      BY <1>1, <2>1, SessionFacts DEF SInv, World, Aside
    <2>3. Handled(m)
      BY <1>1, <2>2, Unread
    <2> QED BY <2>1, <2>3, QuietStep
  <1> QED BY <1>3, <1>4

LEMMA ExecutedStep ==
  ASSUME SInv, NEW i \in 1..Len(up), UNCHANGED Aside, Executed(i),
         reliableAcknowledge' = up[i].reliable
  PROVE  SInv'
  <1> DEFINE m == up[i]
             s == ClientCommands(m)
             c == s.lastClientCommand
  <1>1. /\ Current(m) /\ m \in UpType /\ UpSound(m) /\ Read(s, m.last)
    BY SessionFacts, CommandsRead DEF Executed
  <1>2. /\ state' = Entered(s, m) /\ download' = s.download /\ lastText' = s.lastText
        /\ lastClientCommand' = c
        /\ IF s.offers THEN SendsGamestate(s.offeredAt, m.reliable, i) ELSE SendsNothing(i)
    BY DEF Executed
  <1> HIDE DEF s
  <1>3. /\ s \in Readings /\ s.state # "ZOMBIE" /\ s.download \in Downloads
        /\ s.lastText \in Texts /\ c \in Nat /\ s.offeredAt \in Nat
        /\ s.state \in States /\ lastClientCommand \in Nat /\ Len(issued) \in Nat
        /\ m.last \in Nat /\ m.reliable \in Nat
        /\ reliableAcknowledge' \in Nat /\ reliableAcknowledge' <= Len(submitted)
    BY <1>1, SessionFacts DEF Read, Readings, UpType, UpSound
  <1>4. /\ m.last <= c /\ lastClientCommand <= c /\ c <= Len(issued)
        /\ c <= Greater(lastClientCommand, m.last)
        /\ Stage(c, s.download, s.lastText)
        /\ c = lastClientCommand =>
             ~s.offers /\ s.download = download /\ s.lastText = lastText
    BY <1>1 DEF Read
  <1>5. Execution(m)
    <2>1. CASE c = lastClientCommand
      BY <1>2, <1>4, <2>1 DEF Execution
    <2>2. CASE c # lastClientCommand
      <3>1. lastClientCommand < c
        BY <1>3, <1>4, <2>2
      <3> QED BY <1>1, <1>2, <1>4, <3>1 DEF Execution
    <2> QED BY <2>1, <2>2
  <1>6. state' \in States
    BY <1>2, <1>3 DEF Entered, States
  <1>7. ASSUME World' PROVE Handled(m)
    <2>1. \E x, d, t : /\ x = lastClientCommand' /\ d = download' /\ t = lastText'
                       /\ Stage(x, d, t)
      BY <1>2, <1>4
    <2> QED BY <1>2, <1>3, <1>4, <1>5, <1>6, <1>7, <2>1 DEF Handled
  <1>8. known' = known /\ level' = level
    BY DEF Aside
  <1>9. CASE ~s.offers
    <2>1. s.state = state /\ SendsNothing(i)
      BY <1>1, <1>2, <1>9 DEF Read
    <2>2. state \in {"PRIMED", "ACTIVE"} => known.level = level
      BY <1>1, PrimedLevel
    <2>3. World'
      BY <1>2, <1>8, <2>1, <2>2 DEF World, Entered
    <2> QED BY <1>7, <2>1, <2>3, QuietStep
  <1>10. CASE s.offers
    <2>1. /\ phase = "waiting" /\ c = Len(issued) /\ lastClientCommand < Len(issued)
          /\ s.state = "PRIMED" /\ s.lastText = "donedl" /\ s.offeredAt <= Len(issued)
      BY <1>1, <1>10 DEF Read
    <2>2. m.last = Len(issued)
      <3>1. m.last <= Len(issued)
        BY <1>1 DEF UpSound
      <3>2. m.last >= Len(issued)
        BY <1>3, <1>4, <2>1 DEF Greater
      <3> QED BY <1>3, <3>1, <3>2
    <2>3. ~m.move
      BY <1>1, <2>1, <2>2 DEF UpSound
    <2>4. state' = "PRIMED"
      BY <1>2, <2>1, <2>3 DEF Entered
    <2>5. download'.name = 0
      <3>1. Got(c, s.download, s.lastText)
        BY <1>4, <2>1 DEF Stage
      <3> QED BY <1>2, <1>3, <2>1, <3>1 DEF Got
    <2>6. lastText' \notin Quiet
      BY <1>2, <2>1 DEF Quiet
    <2>7. Handled(m)
      BY <1>7, <2>4, <2>5, <2>6 DEF World
    <2>8. \A j \in 1..Len(down) : down[j].gamestate.level = 0
      BY <1>1, <2>1, DueGamestate
    <2>9. known.level < level \/ known.level = level
      BY SessionFacts, SMTT(20) DEF SInv, Counted
    <2>10. SendsGamestate(s.offeredAt, m.reliable, i) /\ s.offeredAt <= lastClientCommand'
      BY <1>2, <1>10, <2>1
    <2>11. \/ known.level < level /\ download'.name = 0 /\ lastText' \notin Quiet
           \/ /\ known.level = level
              /\ phase = "playing" \/ (phase = "waiting" /\ lastClientCommand' = Len(issued))
      BY <1>2, <2>1, <2>5, <2>6, <2>9
    <2> QED BY <1>3, <2>7, <2>8, <2>10, <2>11, GamestateStep
  <1> QED BY <1>9, <1>10

LEMMA PacketStep ==
  ASSUME SInv, NEW i \in DOMAIN up, PacketEvent(i)
  PROVE  SInv'
  <1>1. i \in 1..Len(up)
    <2>1. up \in Seq(UpType)
      BY DEF SInv, SessionType
    <2> QED BY <2>1, SeqIs
  <1>2. UNCHANGED Aside
    BY DEF PacketEvent, Aside
  <1>3. CASE Ignored(i)
    BY <1>1, <1>2, <1>3, IgnoredStep
  <1>4. CASE ExecuteClientMessage(i)
    <2>1. reliableAcknowledge' = up[i].reliable
      BY <1>4 DEF ExecuteClientMessage
    <2> QED BY <1>1, <1>2, <1>4, <2>1, ExecutedStep, EnterWorldStep, OfferedStep
            DEF ExecuteClientMessage
  <1> QED BY <1>3, <1>4 DEF PacketEvent

-----------------------------------------------------------------------------
(* The steps of the client *)

Receives(i) ==
    /\ down' = Later(down, i)
    /\ heard' = down[i].age
    /\ acked' = Greater(acked, down[i].ack)
    /\ serverCommandSequence' = Greater(serverCommandSequence, down[i].last)
    /\ UNCHANGED server
    /\ UNCHANGED up

LEMMA ReceivesFacts ==
  ASSUME SInv, NEW i \in 1..Len(down), Receives(i)
  PROVE  /\ down' \in Seq(DownType) /\ Len(down') \in Nat
         /\ \A n \in 1..Len(down') : down'[n] = down[n + i] /\ n + i \in 1..Len(down)
                                     /\ n + i > i
         /\ heard' = down[i].age /\ heard' \in 0..2
         /\ acked' \in Nat /\ acked' <= lastClientCommand
         /\ serverCommandSequence' \in Nat /\ serverCommandSequence' <= Len(submitted)
         /\ serverCommandSequence <= serverCommandSequence'
         /\ down[i].last <= serverCommandSequence' /\ down[i].last \in Nat
         /\ down[i].gamestate.level \in Nat
         /\ level' = level /\ restart' = restart /\ state' = state /\ submitted' = submitted
         /\ reliableAcknowledge' = reliableAcknowledge
         /\ lastClientCommand' = lastClientCommand /\ lastText' = lastText
         /\ download' = download /\ up' = up
  <1>1. /\ down \in Seq(DownType) /\ acked \in Nat /\ serverCommandSequence \in Nat
        /\ acked <= lastClientCommand /\ serverCommandSequence <= Len(submitted)
        /\ down' = Later(down, i)
    BY DEF SInv, SessionType, Counted, Receives
  <1>2. /\ down' \in Seq(DownType) /\ Len(down') \in Nat
        /\ \A n \in 1..Len(down') : down'[n] = down[n + i] /\ n + i \in 1..Len(down)
                                    /\ n + i > i
    BY <1>1, LaterTyped
  <1>3. /\ down[i].last \in Nat /\ down[i].ack \in Nat /\ down[i].age \in 0..2
        /\ down[i].gamestate.level \in Nat
        /\ down[i].ack <= lastClientCommand /\ down[i].last <= Len(submitted)
    BY SessionFacts DEF DownType, DownSound, Numbers
  <1>4. /\ acked' \in Nat /\ acked' <= lastClientCommand
        /\ serverCommandSequence' \in Nat /\ serverCommandSequence' <= Len(submitted)
        /\ serverCommandSequence <= serverCommandSequence'
        /\ down[i].last <= serverCommandSequence'
    BY <1>1, <1>3 DEF Receives, Greater
  <1> QED BY <1>2, <1>3, <1>4 DEF Receives, server

\* What the client has and issues after it.
LEMMA ReceivesSession ==
  ASSUME SInv, NEW i \in 1..Len(down), Receives(i),
         known' \in Numbers, phase' \in Phases, issued' \in Seq(Commands),
         file' \in Seq(Contents), known.level <= known'.level, known'.level <= level,
         Len(issued) <= Len(issued'),
         \A n \in 1..Len(submitted) :
            n > serverCommandSequence' => submitted[n].level >= known'.level,
         \A j \in 1..Len(up) :
            /\ up[j].age = After => up[j].known.level = known'.level \/ phase' = "playing"
            /\ phase' = "waiting" /\ up[j].last = Len(issued') => ~up[j].move
  PROVE  SessionType' /\ Counted' /\ Messages' /\ Levels' /\ World'
  <1>1. /\ down' \in Seq(DownType) /\ Len(down') \in Nat
        /\ \A n \in 1..Len(down') : down'[n] = down[n + i] /\ n + i \in 1..Len(down)
        /\ heard' \in 0..2 /\ acked' \in Nat /\ acked' <= lastClientCommand
        /\ serverCommandSequence' \in Nat /\ serverCommandSequence' <= Len(submitted)
        /\ level' = level /\ restart' = restart /\ state' = state /\ submitted' = submitted
        /\ reliableAcknowledge' = reliableAcknowledge
        /\ lastClientCommand' = lastClientCommand /\ lastText' = lastText
        /\ download' = download /\ up' = up
    BY ReceivesFacts
  <1>2. SessionType /\ Counted /\ Levels /\ World
    BY DEF SInv
  <1>3. /\ Len(issued) \in Nat /\ Len(issued') \in Nat /\ known.level \in Nat
        /\ known'.level \in Nat /\ level \in Nat /\ lastClientCommand \in Nat
        /\ lastClientCommand <= Len(issued)
    BY SessionFacts, SeqIs DEF Numbers
  <1>4. SessionType'
    BY <1>1, <1>2 DEF SessionType
  <1>5. Counted'
    BY <1>1, <1>2, <1>3 DEF Counted
  <1>6. Messages'
    <2>1. ASSUME NEW j \in 1..Len(up)
          PROVE  UpSound(up[j])'
      <3>1. LET u == up[j]
            IN  /\ u.reliable <= Len(submitted)
                /\ u.first <= lastClientCommand /\ u.first <= u.last /\ u.last <= Len(issued)
                /\ u.known.level <= known.level
        BY SessionFacts DEF UpSound
      <3>2. up[j].last \in Nat /\ up[j].known.level \in Nat
        BY SessionFacts DEF UpType, Numbers
      <3>3. up[j].last <= Len(issued') /\ up[j].known.level <= known'.level
        <4>1. up[j].last <= Len(issued) /\ up[j].known.level <= known.level
          BY <3>1
        <4>2. up[j].last <= Len(issued')
          BY <1>3, <3>2, <4>1
        <4>3. up[j].known.level <= known'.level
          <5> DEFINE a == up[j].known.level
                     b == known.level
                     e == known'.level
          <5>1. a \in Nat /\ b \in Nat /\ e \in Nat /\ a <= b /\ b <= e
            BY <1>3, <3>2, <4>1
          <5> HIDE DEF a, b, e
          <5>2. a <= e
            BY <5>1
          <5> QED BY <5>2 DEF a, e
        <4> QED BY <4>2, <4>3
      <3>4. /\ up[j].age = After => up[j].known.level = known'.level \/ phase' = "playing"
            /\ phase' = "waiting" /\ up[j].last = Len(issued') => ~up[j].move
        OBVIOUS
      <3> QED BY <1>1, <3>1, <3>3, <3>4 DEF UpSound
    <2>2. \A n \in 1..Len(down') : DownSound(down'[n])
      BY <1>1, SessionFacts
    <2>3. (\A n \in 1..Len(down) : DownSound(down[n]))'
      BY <1>1, <2>2 DEF DownSound
    <2>4. (\A n \in 1..Len(up) : UpSound(up[n]))'
      BY <1>1, <2>1
    <2> QED BY <2>3, <2>4 DEF Messages
  <1>7. Levels'
    BY <1>1, <1>2 DEF Levels
  <1>8. World'
    <2>1. known.level = level => known'.level = level
      BY <1>3
    <2> QED BY <1>1, <1>2, <2>1 DEF World
  <1> QED BY <1>4, <1>5, <1>6, <1>7, <1>8

\* A gamestate behind the message is still to come.
LEMMA ComingKept ==
  ASSUME SInv, NEW i \in 1..Len(down), Receives(i),
         \A j \in 1..Len(down') : down'[j].gamestate.level # 0 => Awaited(j)'
  PROVE  Gamestates'
  <1> SUFFICES ASSUME NEW j \in 1..Len(down'), down'[j].gamestate.level # 0
               PROVE  Coming(j)'
    BY DEF Gamestates
  <1>1. /\ Len(down') \in Nat
        /\ \A n \in 1..Len(down') : down'[n] = down[n + i] /\ n + i \in 1..Len(down)
                                    /\ n + i > i
        /\ level' = level /\ submitted' = submitted /\ up' = up /\ heard' = down[i].age
    BY ReceivesFacts
  <1> DEFINE x == j + i
  <1>2. x \in 1..Len(down) /\ down'[j] = down[x] /\ x > i
    BY <1>1
  <1>3. Coming(x)
    BY <1>2 DEF SInv, Gamestates
  <1>4. heard' # After
    BY <1>1, <1>2, <1>3 DEF Coming
  <1>5. \A n \in 1..Len(down') :
          /\ n # j => n + i # x
          /\ n < j => n + i < x
    BY <1>1
  <1> HIDE DEF x
  <1>6. /\ \A n \in 1..Len(down') : n # j => down'[n].gamestate.level = 0
        /\ \A n \in 1..Len(down') : n < j => /\ down'[n].age # After
                                             /\ down'[n].last <= down'[j].last
    BY <1>1, <1>2, <1>3, <1>5, ZenonT(40) DEF Coming
  <1> QED BY <1>1, <1>2, <1>3, <1>4, <1>6 DEF Coming

LEMMA SnapshotTaken ==
  ASSUME SInv, NEW i \in 1..Len(down), Receives(i), phase # "gone", TakesSnapshot(down[i])
  PROVE  SInv'
  <1> DEFINE m == down[i]
  <1>1. /\ m.gamestate.level = 0 /\ phase' = phase /\ issued' = issued /\ file' = file
        /\ known' = IF phase = "playing" /\ Tells(m) THEN submitted[m.last] ELSE known
    BY DEF TakesSnapshot
  <1>2. /\ SessionType /\ Script /\ phase \in Phases /\ known \in Numbers
        /\ known.level \in Nat /\ level \in Nat /\ known.level <= level
        /\ Len(submitted) \in Nat /\ submitted \in Seq(Numbers)
        /\ issued \in Seq(Commands) /\ file \in Seq(Contents)
        /\ Len(issued) \in Nat /\ serverCommandSequence \in Nat
    BY SessionFacts DEF SInv, Counted, SessionType
  <1>3. /\ m.last \in Nat /\ m.last <= Len(submitted) /\ serverCommandSequence' \in Nat
        /\ m.last <= serverCommandSequence'
        /\ serverCommandSequence <= serverCommandSequence'
    BY ReceivesFacts, SessionFacts DEF DownSound
  <1>4. /\ known' \in Numbers /\ known'.level \in Nat
        /\ known.level <= known'.level /\ known'.level <= level
        /\ \A n \in 1..Len(submitted) :
             n > serverCommandSequence' => submitted[n].level >= known'.level
        /\ known' # known => /\ phase = "playing" /\ m.last \in 1..Len(submitted)
                             /\ known' = submitted[m.last]
    <2>1. CASE phase = "playing" /\ Tells(m)
      <3>1. m.last \in 1..Len(submitted) /\ m.last > serverCommandSequence
        BY <1>2, <1>3, <2>1 DEF Tells
      <3>2. known' = submitted[m.last] /\ submitted[m.last] \in Numbers
        BY <1>1, <1>2, <2>1, <3>1, SeqIs
      <3>3. /\ submitted[m.last].level <= level /\ submitted[m.last].level >= known.level
            /\ \A n \in 1..Len(submitted) :
                 m.last < n => submitted[m.last].level <= submitted[n].level
        BY <3>1 DEF SInv, Levels
      <3>4. \A n \in 1..Len(submitted) : n > serverCommandSequence' => m.last < n
        BY <1>3
      <3>5. \A n \in 1..Len(submitted) : submitted[n].level \in Nat
        <4>1. \A n \in 1..Len(submitted) : submitted[n] \in Numbers
          BY <1>2, SeqIs
        <4> QED BY <4>1 DEF Numbers
      <3>6. submitted[m.last].level \in Nat
        BY <3>1, <3>5
      <3>7. \A n \in 1..Len(submitted) :
              n > serverCommandSequence' => submitted[n].level >= submitted[m.last].level
        BY <3>3, <3>4, <3>5, <3>6
      <3>8. known.level <= submitted[m.last].level
        BY <1>2, <3>3, <3>6
      <3> QED BY <2>1, <3>1, <3>2, <3>3, <3>6, <3>7, <3>8
    <2>2. CASE ~(phase = "playing" /\ Tells(m))
      <3>1. known' = known
        BY <1>1, <2>2
      <3>2. \A n \in 1..Len(submitted) :
              n > serverCommandSequence' => n > serverCommandSequence
        BY <1>2, <1>3
      <3> QED BY <1>2, <3>1, <3>2 DEF SInv, Levels
    <2> QED BY <2>1, <2>2
  <1>5. \A j \in 1..Len(up) :
          /\ up[j].age = After => up[j].known.level = known'.level \/ phase' = "playing"
          /\ phase' = "waiting" /\ up[j].last = Len(issued') => ~up[j].move
    BY <1>1, <1>4, SessionFacts DEF UpSound
  <1>6. SessionType' /\ Counted' /\ Messages' /\ Levels' /\ World'
    BY <1>1, <1>2, <1>4, <1>5, ReceivesSession
  <1>7. Requested' = Requested
    BY <1>1 DEF Requested
  <1>8. /\ Len(down') \in Nat
        /\ \A n \in 1..Len(down') : down'[n] = down[n + i] /\ n + i \in 1..Len(down)
                                    /\ n + i > i
        /\ download' = download /\ lastText' = lastText
        /\ lastClientCommand' = lastClientCommand /\ submitted' = submitted /\ up' = up
    BY ReceivesFacts
  <1>9. Script'
    <2>1. CASE known' = known
      BY <1>1, <1>2, <1>7, <2>1 DEF Script
    <2>2. CASE phase = "playing"
      <3>1. file = <<>> /\ Len(file) = 0
        BY <1>2, <2>2, SessionFacts DEF Script
      <3>2. 1..Len(file) = {}
        BY <3>1
      <3> QED BY <1>1, <2>2, <3>1, <3>2 DEF Script
    <2> QED BY <1>4, <2>1, <2>2
  <1>10. Progress'
    <2>1. CASE known' = known
      <3>1. \A n \in 1..Len(down') : FromOld(n)
        BY <1>8 DEF FromOld
      <3>2. Stage(lastClientCommand, download, lastText)
        BY DEF SInv, Progress
      <3> QED BY <1>1, <1>8, <2>1, <3>1, <3>2, StageKept DEF ClientPart
    <2>2. CASE phase = "playing"
      BY <1>1, <1>8, <2>2 DEF SInv, Progress, Stage, Idle
    <2> QED BY <1>4, <2>1, <2>2
  <1>11. Early'
    BY <1>1, <1>4, <1>7, <1>8 DEF SInv, Early
  <1>12. Gamestates'
    <2> SUFFICES ASSUME NEW j \in 1..Len(down'), down'[j].gamestate.level # 0
                 PROVE  Awaited(j)'
      BY ComingKept
    <2>1. down'[j] = down[j + i] /\ j + i \in 1..Len(down) /\ i < j + i /\ i \in 1..Len(down)
      BY <1>8
    <2>2. Coming(j + i)
      BY <2>1 DEF SInv, Gamestates
    <2> DEFINE g == down[j + i].gamestate.level
    <2>3. g \in Nat /\ down[j + i].last \in Nat
      BY <2>1, SessionFacts DEF DownType, Numbers
    <2>4. known'.level <= g
      <3>1. known.level <= g
        BY <1>2, <2>2, <2>3, SMTT(20) DEF Coming, Awaited
      <3>2. CASE known' = known
        BY <3>1, <3>2
      <3>3. CASE known' # known
        <4>1. m.last <= down[j + i].last
          BY <2>1, <2>2 DEF Coming
        <4> QED BY <1>4, <2>2, <3>3, <4>1 DEF Coming
      <3> QED BY <3>2, <3>3
    <2>5. CASE known'.level = g /\ phase = "playing"
      BY <1>1, <2>1, <2>5 DEF Awaited
    <2>6. CASE known'.level < g /\ phase = "playing"
      <3>1. ~(known.level = g)
        BY <1>2, <1>4, <2>3, <2>6
      <3>2. /\ download.name = 0 /\ lastText \notin Quiet
            /\ \A n \in 1..Len(down) : n > j + i => down[n].block = NoBlock
        BY <2>2, <2>6, <3>1 DEF Coming, Awaited
      <3>3. \A n \in 1..Len(down') : n > j => n + i > j + i
        BY <1>8
      <3>4. ASSUME NEW n \in 1..Len(down'), n > j
            PROVE  down'[n].block = NoBlock
        <4>1. down'[n] = down[n + i] /\ n + i \in 1..Len(down)
          BY <1>8
        <4>2. n + i > j + i
          BY <3>3, <3>4
        <4> QED BY <3>2, <4>1, <4>2
      <3>5. download'.name = 0 /\ lastText' \notin Quiet /\ down'[j].gamestate.level = g
        BY <1>8, <2>1, <3>2
      <3> QED BY <2>6, <3>4, <3>5 DEF Awaited
    <2>7. CASE phase # "playing"
      <3>1. known' = known
        BY <1>4, <2>7
      <3>2. \A n \in 1..Len(down') : n > j => n + i > j + i
        BY <1>8
      <3>3. phase # "gone"
        OBVIOUS
      <3>4. CASE /\ known.level < g /\ download.name = 0 /\ lastText \notin Quiet
                 /\ \A n \in 1..Len(down) : n > j + i => down[n].block = NoBlock
        <4>1. ASSUME NEW n \in 1..Len(down'), n > j
              PROVE  down'[n].block = NoBlock
          <5>1. down'[n] = down[n + i] /\ n + i \in 1..Len(down)
            BY <1>8
          <5>2. n + i > j + i
            BY <3>2, <4>1
          <5> QED BY <3>4, <5>1, <5>2
        <4> QED BY <1>8, <2>1, <3>1, <3>4, <4>1 DEF Awaited
      <3>5. CASE /\ known.level = g
                 /\ phase = "waiting" /\ lastClientCommand = Len(issued)
        BY <1>1, <1>8, <2>1, <3>1, <3>5 DEF Awaited
      <3> QED BY <2>2, <2>7, <3>3, <3>4, <3>5 DEF Coming, Awaited
    <2>8. known'.level = g \/ known'.level < g
      BY <1>4, <2>3, <2>4, SMTT(20)
    <2> QED BY <2>5, <2>6, <2>7, <2>8
  <1> QED BY <1>6, <1>9, <1>10, <1>11, <1>12 DEF SInv

LEMMA NotTheError ==
  ASSUME NEW a \in Nat, NEW n \in Nat
  PROVE  Data(a, n) # <<"error">>
  <1>1. <<a, n>> # <<"error">>
    <2>1. Len(<<a, n>>) = 2 /\ Len(<<"error">>) = 1
      OBVIOUS
    <2> QED BY <2>1
  <1>2. <<"eof">> # <<"error">>
    <2>1. <<"eof">>[1] = "eof" /\ <<"error">>[1] = "error"
      OBVIOUS
    <2> QED BY <2>1
  <1> QED BY <1>1, <1>2 DEF Data, Eof

LEMMA ErrorTaken ==
  ASSUME SInv, NEW i \in 1..Len(down), Receives(i), TakesError(down[i])
  PROVE  SInv'
  <1> DEFINE m == down[i]
  <1>1. /\ phase = "downloading" /\ m.block.number = Len(file) /\ m.block = Error
        /\ phase' = "gone" /\ known' = known /\ issued' = issued /\ file' = file
    BY DEF TakesError, Expected
  <1>2. /\ SessionType /\ Script /\ known \in Numbers
        /\ known.level \in Nat /\ level \in Nat /\ known.level <= level
        /\ issued \in Seq(Commands) /\ file \in Seq(Contents)
        /\ Len(issued) \in Nat /\ serverCommandSequence \in Nat
    BY SessionFacts DEF SInv, Counted, SessionType
  <1>3. serverCommandSequence' \in Nat /\ serverCommandSequence <= serverCommandSequence'
    BY ReceivesFacts
  <1>4. \A n \in 1..Len(submitted) :
          n > serverCommandSequence' => submitted[n].level >= known.level
    <2>1. \A n \in 1..Len(submitted) :
            n > serverCommandSequence' => n > serverCommandSequence
      BY <1>2, <1>3, SessionFacts
    <2> QED BY <2>1 DEF SInv, Levels
  <1>5. \A j \in 1..Len(up) :
          /\ up[j].age = After => up[j].known.level = known.level
          /\ phase' # "waiting"
    BY <1>1, SessionFacts DEF UpSound
  <1>6. SessionType' /\ Counted' /\ Messages' /\ Levels' /\ World'
    <2>1. known.level <= known'.level /\ Len(issued) <= Len(issued') /\ phase' \in Phases
      BY <1>1, <1>2 DEF Phases
    <2> QED BY <1>1, <1>2, <1>4, <1>5, <2>1, ReceivesSession
  <1>7. Script'
    BY <1>1, <1>2 DEF Script
  <1>8. lastClientCommand = Len(issued)
    <2>1. Getting(lastClientCommand, download)
      BY <1>1 DEF SInv, Progress, Stage
    <2>2. Error # NoBlock /\ Error.number = 0 /\ Error.data = <<"error">>
      BY DEF Error, NoBlock
    <2>3. ~Unserved
      BY <1>1, <2>2 DEF Unserved
    <2>4. ~Carried(m, download.current)
      <3>1. Data(known.level, 0) # <<"error">>
        BY <1>2, NotTheError
      <3> QED BY <1>1, <2>2, <3>1, SessionFacts DEF Carried
    <2>5. lastClientCommand = Requested /\ file = <<>>
      BY <2>1, <2>3, <2>4 DEF Getting
    <2> QED BY <1>1, <2>5, SessionFacts
  <1>9. /\ lastClientCommand' = lastClientCommand /\ up' = up
    BY ReceivesFacts
  <1>10. Progress'
    BY <1>1, <1>8, <1>9 DEF Progress, Stage
  <1>11. Early'
    BY <1>1 DEF Early
  <1>12. Gamestates'
    BY <1>1, ComingKept DEF Awaited
  <1> QED BY <1>6, <1>7, <1>10, <1>11, <1>12 DEF SInv

\* Who takes a block gets it from an open window, and has the level the download is of.
LEMMA BlockServed ==
  ASSUME SInv, NEW i \in 1..Len(down), Expected(down[i]), down[i].block # Error
  PROVE  /\ phase = "downloading" /\ Served(lastClientCommand, download)
         /\ \A j \in 1..Len(down) : Carried(down[j], download.current)
         /\ \A j \in 1..Len(down) : down[j].gamestate.level = 0
         /\ Len(file) < download.current
         /\ down[i].block.data = Data(known.level, Len(file))
  <1>1. phase = "downloading" /\ down[i].block.number = Len(file)
    BY DEF Expected
  <1>2. Getting(lastClientCommand, download)
    BY <1>1 DEF SInv, Progress, Stage
  <1>3. Len(file) \in Nat /\ known.level \in Nat /\ download.current \in Nat
    BY SessionFacts, DownloadFields
  <1>4. down[i].block # NoBlock
    BY <1>1, <1>3, NoBlockType
  <1>5. /\ Served(lastClientCommand, download)
        /\ \A j \in 1..Len(down) : Carried(down[j], download.current)
    BY <1>2, <1>4 DEF Getting, Unserved
  <1>6. Carried(down[i], download.current)
    BY <1>5
  <1>7. Len(file) < download.current /\ down[i].block.data = Data(known.level, Len(file))
    BY <1>1, <1>3, <1>4, <1>6 DEF Carried
  <1>8. ASSUME NEW j \in 1..Len(down), down[j].gamestate.level # 0
        PROVE  FALSE
    <2>1. Awaited(j)
      BY <1>8 DEF SInv, Gamestates, Coming
    <2>2. download.name = 0
      BY <1>1, <2>1 DEF Awaited
    <2>3. download.name = known.level /\ known.level # 0
      BY <1>1, <1>5 DEF Served, SInv, Script
    <2> QED BY <2>2, <2>3
  <1> QED BY <1>1, <1>5, <1>7, <1>8

LEMMA CommandTyped ==
  ASSUME NEW n \in Nat
  PROVE  /\ Command("nextdl", n) \in Commands /\ Command("donedl", 0) \in Commands
         /\ Command("download", n) \in Commands
  BY DEF Command, Commands, Texts

LEMMA BlockTaken ==
  ASSUME SInv, NEW i \in 1..Len(down), Receives(i), TakesBlock(down[i])
  PROVE  SInv'
  <1> DEFINE m == down[i]
             n == Len(file)
             N == Len(issued)
             q == Command("nextdl", n)
             last == Command("donedl", 0)
             k == known.level
  <1>1. /\ m.block # Error /\ Expected(m) /\ m.block.number = n /\ known' = known
        /\ file' = Append(file, m.block.data)
        /\ IF m.block.data = Eof
           THEN phase' = "waiting" /\ issued' = Append(Append(issued, Command("nextdl", m.block.number)), last)
           ELSE phase' = "downloading" /\ issued' = Append(issued, Command("nextdl", m.block.number))
    BY DEF TakesBlock, Expected
  <1>2. /\ phase = "downloading" /\ Served(lastClientCommand, download)
        /\ \A j \in 1..Len(down) : Carried(down[j], download.current)
        /\ \A j \in 1..Len(down) : down[j].gamestate.level = 0
        /\ n < download.current /\ m.block.data = Data(k, n)
    BY <1>1, BlockServed
  <1>3. /\ SessionType /\ Script /\ known \in Numbers /\ k \in Nat /\ level \in Nat
        /\ k <= level /\ n \in Nat /\ N \in Nat /\ Requested = N - n
        /\ issued \in Seq(Commands) /\ file \in Seq(Contents)
        /\ lastClientCommand \in Nat /\ lastClientCommand <= N /\ Blocks \in Nat
    BY <1>2, SessionFacts DEF SInv, Counted, SessionType
  <1>4. /\ Data(k, n) \in Contents /\ (Data(k, n) = Eof <=> n >= Blocks)
        /\ q \in Commands /\ last \in Commands
    BY <1>3, DataFacts, CommandTyped
  <1>5. n <= Blocks
    BY <1>2, <1>3 DEF Script
  <1>6. /\ file' \in Seq(Contents) /\ Len(file') = n + 1
        /\ \A x \in 1..n : file'[x] = file[x]
        /\ file'[n + 1] = Data(k, n)
    BY <1>1, <1>2, <1>3, <1>4, AppendIs
  <1> DEFINE longer == Append(issued, q)
  <1>7. /\ longer \in Seq(Commands) /\ Len(longer) = N + 1
        /\ \A x \in 1..N : longer[x] = issued[x]
        /\ longer[N + 1] = q
    BY <1>3, <1>4, AppendIs
  <1> HIDE DEF longer
  <1>8. /\ issued' \in Seq(Commands)
        /\ \A x \in 1..N : issued'[x] = issued[x]
        /\ issued'[N + 1] = q
        /\ \/ /\ n < Blocks /\ phase' = "downloading" /\ Len(issued') = N + 1
           \/ /\ n = Blocks /\ phase' = "waiting" /\ Len(issued') = N + 2
              /\ issued'[N + 2] = last
    <2>1. CASE n < Blocks
      <3>1. Data(k, n) # Eof
        BY <1>3, <1>4, <2>1
      <3>2. issued' = longer /\ phase' = "downloading"
        BY <1>1, <1>2, <3>1 DEF longer
      <3> QED BY <1>7, <2>1, <3>2
    <2>2. CASE n = Blocks
      <3>1. Data(k, n) = Eof
        BY <1>3, <1>4, <2>2
      <3>2. issued' = Append(longer, last) /\ phase' = "waiting"
        BY <1>1, <1>2, <3>1 DEF longer
      <3>3. /\ issued' \in Seq(Commands) /\ Len(issued') = N + 1 + 1
            /\ \A x \in 1 .. N + 1 : issued'[x] = longer[x]
            /\ issued'[N + 1 + 1] = last
        BY <1>4, <1>7, <3>2, AppendIs
      <3>4. N + 1 + 1 = N + 2 /\ N + 1 \in 1 .. N + 1 /\ \A x \in 1..N : x \in 1 .. N + 1
        BY <1>3
      <3> QED BY <1>7, <2>2, <3>2, <3>3, <3>4
    <2> QED BY <1>3, <1>5, <2>1, <2>2
  <1>9. Requested' = Requested
    <2>1. Requested' = Len(issued') - Len(file') - (IF phase' = "waiting" THEN 1 ELSE 0)
      BY DEF Requested
    <2> QED BY <1>3, <1>6, <1>8, <2>1
  <1>10. /\ down' \in Seq(DownType) /\ Len(down') \in Nat
         /\ \A x \in 1..Len(down') : down'[x] = down[x + i] /\ x + i \in 1..Len(down)
         /\ serverCommandSequence' \in Nat
         /\ serverCommandSequence <= serverCommandSequence'
         /\ download' = download /\ lastText' = lastText
         /\ lastClientCommand' = lastClientCommand /\ up' = up
    BY ReceivesFacts
  <1>11. SessionType' /\ Counted' /\ Messages' /\ Levels' /\ World'
    <2>1. \A x \in 1..Len(submitted) :
            x > serverCommandSequence' => submitted[x].level >= known'.level
      <3>1. serverCommandSequence \in Nat
        BY <1>3 DEF SessionType
      <3>2. \A x \in 1..Len(submitted) :
              x > serverCommandSequence' => x > serverCommandSequence
        BY <1>10, <3>1, SessionFacts
      <3> QED BY <1>1, <3>2 DEF SInv, Levels
    <2>2. \A j \in 1..Len(up) :
            /\ up[j].age = After => up[j].known.level = known'.level \/ phase' = "playing"
            /\ phase' = "waiting" /\ up[j].last = Len(issued') => ~up[j].move
      <3> TAKE j \in 1..Len(up)
      <3>1. up[j].last \in Nat /\ up[j].last <= N
        BY SessionFacts DEF UpType, UpSound
      <3>2. up[j].last # Len(issued')
        BY <1>3, <1>8, <3>1
      <3>3. up[j].age = After => up[j].known.level = known'.level
        BY <1>1, <1>2, SessionFacts DEF UpSound
      <3> QED BY <3>2, <3>3
    <2>3. phase' \in Phases /\ Len(issued) <= Len(issued')
      BY <1>1, <1>3, <1>8 DEF Phases
    <2>4. known' \in Numbers /\ known.level <= known'.level /\ known'.level <= level
      BY <1>1, <1>3
    <2>5. issued' \in Seq(Commands) /\ file' \in Seq(Contents)
      BY <1>6, <1>8
    <2> QED BY <2>1, <2>2, <2>3, <2>4, <2>5, ReceivesSession
  <1> HIDE DEF n, N, q, last, k
  <1>12. Script'
    <2>1. /\ Requested >= 1 /\ k >= 1 /\ issued[Requested] = Command("download", k)
          /\ \A x \in 1..n : file[x] = Data(k, x - 1)
          /\ \A x \in 1..n : issued[Requested + x] = Command("nextdl", x - 1)
      BY <1>2, <1>3 DEF Script, k, n
    <2>2. \A x \in 1 .. n + 1 : file'[x] = Data(k, x - 1)
      <3> TAKE x \in 1 .. n + 1
      <3>1. x \in 1..n \/ (x = n + 1 /\ x - 1 = n)
        BY <1>3
      <3> QED BY <1>6, <2>1, <3>1
    <2>3. \A x \in 1 .. n + 1 : issued'[Requested + x] = Command("nextdl", x - 1)
      <3> TAKE x \in 1 .. n + 1
      <3>1. CASE x \in 1..n
        <4>1. Requested + x \in 1..N
          BY <1>3, <2>1, <3>1
        <4> QED BY <1>8, <2>1, <3>1, <4>1
      <3>2. CASE x = n + 1
        <4>1. Requested + x = N + 1 /\ x - 1 = n
          BY <1>3, <3>2
        <4> QED BY <1>8, <4>1 DEF q
      <3> QED BY <1>3, <3>1, <3>2
    <2>4. issued'[Requested] = Command("download", k)
      <3>1. Requested \in 1..N
        BY <1>3, <2>1
      <3> QED BY <1>8, <2>1, <3>1
    <2>5. phase' = "downloading" => Len(file') <= Blocks
      BY <1>3, <1>6, <1>8, SMTT(20)
    <2>6. phase' = "waiting" => /\ Len(file') = Blocks + 1
                                /\ issued'[Len(issued')] = Command("donedl", 0)
      BY <1>6, <1>8 DEF last
    <2>7. known'.level = k /\ phase' \in {"downloading", "waiting"}
      BY <1>1, <1>8 DEF k
    <2> QED BY <1>6, <1>9, <2>1, <2>2, <2>3, <2>4, <2>5, <2>6, <2>7 DEF Script
  <1>13. Served(lastClientCommand, download)'
    <2>1. n + 1 <= download.current
      <3>1. download.current \in Nat
        BY SessionFacts, DownloadFields
      <3> QED BY <1>2, <1>3, <3>1
    <2> QED BY <1>1, <1>2, <1>6, <1>9, <1>10, <2>1 DEF Served
  <1>14. Progress'
    <2>1. CASE phase' = "downloading"
      <3>1. \A j \in 1..Len(down') : Carried(down'[j], download.current)
        BY <1>2, <1>10
      <3>2. (\A j \in 1..Len(down) : Carried(down[j], download.current))'
        <4> SUFFICES ASSUME NEW j \in 1..Len(down')
                     PROVE  Carried(down[j], download.current)'
          OBVIOUS
        <4>1. Carried(down'[j], download.current)
          BY <3>1
        <4>2. down'[j].block.number \in Int
          <5>1. down'[j] \in DownType
            BY <1>10, SeqIs
          <5> QED BY <5>1 DEF DownType, BlockType
        <4>3. down'[j].block.number >= n + 1 => down'[j].block.number >= n
          BY <1>3, <4>2
        <4> QED BY <1>1, <1>6, <1>10, <4>1, <4>3 DEF Carried, n
      <3> QED BY <1>13, <2>1, <3>2 DEF Progress, Stage, Getting
    <2>2. CASE phase' = "waiting"
      <3>1. lastClientCommand' <= Len(issued') - 2
        BY <1>3, <1>8, <1>10, <2>2
      <3> QED BY <1>13, <2>2, <3>1 DEF Progress, Stage, Got
    <2> QED BY <1>8, <2>1, <2>2
  <1>15. Early'
    <2>1. ~(lastClientCommand' < Requested')
      <3>1. lastClientCommand >= Requested
        BY <1>2 DEF Served
      <3> QED BY <1>3, <1>9, <1>10, <3>1
    <2> QED BY <2>1 DEF Early
  <1>16. Gamestates'
    BY <1>2, <1>10 DEF Gamestates
  <1> QED BY <1>11, <1>12, <1>14, <1>15, <1>16 DEF SInv

\* When the gamestate arrives the commands under way only begin downloads, or do nothing.
LEMMA IdleAll ==
  ASSUME SInv, phase # "gone",
         \/ phase \in {"connecting", "playing"}
         \/ download.name = 0 /\ lastText \notin Quiet
         \/ phase = "waiting" /\ lastClientCommand = Len(issued)
  PROVE  Idle(lastClientCommand + 1, Len(issued))
  <1> DEFINE c == lastClientCommand
             N == Len(issued)
  <1>1. /\ Stage(c, download, lastText) /\ phase \in Phases /\ Script
        /\ c \in Nat /\ N \in Nat /\ c <= N /\ Requested \in Int /\ Len(file) \in Nat
        /\ phase # "waiting" => Requested = N - Len(file)
        /\ file = <<>> => Len(file) = 0
    BY SessionFacts DEF SInv, Progress
  <1>2. ASSUME c >= N
        PROVE  Idle(c + 1, N)
    <2>1. c + 1 .. N = {}
      BY <1>1, <1>2
    <2> QED BY <2>1 DEF Idle
  <1>3. CASE phase \in {"connecting", "playing"}
    BY <1>1, <1>3 DEF Stage
  <1>4. CASE phase = "waiting"
    <2>1. Got(c, download, lastText) /\ known.level # 0
      BY <1>1, <1>4 DEF Stage, Script
    <2>2. CASE Served(c, download) /\ c <= N - 2
      <3>1. download.name # 0 /\ c # N
        BY <1>1, <2>1, <2>2 DEF Served
      <3> QED BY <1>4, <3>1
    <2>3. CASE c = N - 1 /\ download.name = 0 /\ lastText = "nextdl"
      BY <1>1, <1>4, <2>3 DEF Quiet
    <2>4. CASE c = N
      BY <1>1, <1>2, <2>4
    <2> QED BY <2>1, <2>2, <2>3, <2>4 DEF Got
  <1>5. CASE phase = "downloading"
    <2>1. /\ Getting(c, download) /\ known.level # 0 /\ download.name = 0
          /\ issued[Requested] = Command("download", known.level)
      BY <1>1, <1>5 DEF Stage, Script
    <2>2. CASE c < Requested /\ file = <<>> /\ Idle(c + 1, Requested - 1)
      <3>1. Requested = N
        BY <1>1, <1>5, <2>2
      <3>2. ASSUME NEW n \in c + 1 .. N
            PROVE  issued[n].text \in {"download", "say_nextdl"}
        <4>1. CASE n = N
          BY <2>1, <3>1, <4>1 DEF Command
        <4>2. CASE n # N
          <5>1. n \in c + 1 .. Requested - 1
            BY <1>1, <3>1, <4>2
          <5> QED BY <2>2, <5>1 DEF Idle
        <4> QED BY <4>1, <4>2
      <3> QED BY <3>2 DEF Idle
    <2>3. CASE c = Requested /\ file = <<>>
      <3>1. c = N
        BY <1>1, <1>5, <2>3
      <3> QED BY <1>1, <1>2, <3>1
    <2>4. ~Served(c, download)
      BY <2>1 DEF Served
    <2> QED BY <2>1, <2>2, <2>3, <2>4 DEF Getting
  <1> QED BY <1>1, <1>3, <1>4, <1>5 DEF Phases

LEMMA GamestateTaken ==
  ASSUME SInv, NEW i \in 1..Len(down), Receives(i), phase # "gone", TakesGamestate(down[i])
  PROVE  SInv'
  <1> DEFINE m == down[i]
             g == m.gamestate.level
             c == lastClientCommand
             N == Len(issued)
  <1>1. /\ g # 0 /\ known' = m.gamestate /\ file' = <<>>
        /\ IF g \in WithFile /\ ~Has(g)
           THEN phase' = "downloading" /\ issued' = Append(issued, Command("download", g))
           ELSE phase' = "playing" /\ UNCHANGED issued
    BY DEF TakesGamestate
  <1>2. Coming(i) /\ Awaited(i)
    BY <1>1 DEF SInv, Gamestates, Coming
  <1>3. /\ SessionType /\ Script /\ phase \in Phases /\ known.level \in Nat /\ level \in Nat
        /\ c \in Nat /\ N \in Nat /\ c <= N /\ issued \in Seq(Commands)
        /\ m.gamestate \in Numbers /\ g \in Nat /\ g <= level
        /\ m \in DownType
    BY <1>2, SessionFacts DEF SInv, SessionType, DownType, Numbers, Coming
  <1>4. /\ known.level <= g
        /\ \/ /\ known.level < g /\ download.name = 0 /\ lastText \notin Quiet
              /\ \A j \in 1..Len(down) : j > i => down[j].block = NoBlock
           \/ Has(g) /\ (phase = "playing" \/ (phase = "waiting" /\ c = N))
    BY <1>2, <1>3 DEF Awaited, Has
  <1>5. Idle(c + 1, N)
    BY <1>3, <1>4, IdleAll
  <1>6. /\ down' \in Seq(DownType) /\ Len(down') \in Nat
        /\ \A n \in 1..Len(down') : down'[n] = down[n + i] /\ n + i \in 1..Len(down)
                                    /\ n + i > i
        /\ serverCommandSequence' \in Nat /\ m.last <= serverCommandSequence' /\ m.last \in Nat
        /\ level' = level /\ submitted' = submitted /\ up' = up
        /\ lastClientCommand' = c /\ lastText' = lastText /\ download' = download
    BY ReceivesFacts
  <1>7. /\ known' \in Numbers /\ known'.level = g
        /\ file' \in Seq(Contents) /\ Len(file') = 0
    <2>1. file' \in Seq(Contents) /\ Len(file') = 0
      BY <1>1
    <2> QED BY <1>1, <1>3, <2>1
  <1>8. \/ phase' = "playing" /\ issued' = issued
        \/ /\ phase' = "downloading" /\ known.level < g /\ ~Has(g)
           /\ issued' \in Seq(Commands) /\ Len(issued') = N + 1
           /\ \A n \in 1..N : issued'[n] = issued[n]
           /\ issued'[N + 1] = Command("download", g)
    <2>1. Command("download", g) \in Commands
      BY <1>3, CommandTyped
    <2>2. CASE g \in WithFile /\ ~Has(g)
      <3>1. known.level < g
        BY <1>4, <2>2
      <3>2. phase' = "downloading" /\ issued' = Append(issued, Command("download", g))
        BY <1>1, <2>2
      <3>3. /\ issued' \in Seq(Commands) /\ Len(issued') = N + 1
            /\ \A n \in 1..N : issued'[n] = issued[n]
            /\ issued'[N + 1] = Command("download", g)
        BY <1>3, <2>1, <3>2, AppendIs
      <3> QED BY <2>2, <3>1, <3>2, <3>3
    <2>3. CASE ~(g \in WithFile /\ ~Has(g))
      BY <1>1, <2>3
    <2> QED BY <2>2, <2>3
  <1>9. SessionType' /\ Counted' /\ Messages' /\ Levels' /\ World'
    <2>1. ASSUME NEW n \in 1..Len(submitted), n > serverCommandSequence'
          PROVE  submitted[n].level >= known'.level
      <3>1. ~(n <= m.last)
        BY <1>6, <2>1
      <3> QED BY <1>2, <1>7, <3>1 DEF Coming
    <2>2. /\ phase' \in Phases /\ issued' \in Seq(Commands)
          /\ Len(issued) <= Len(issued') /\ phase' # "waiting"
      BY <1>3, <1>8 DEF Phases
    <2>3. \A j \in 1..Len(up) : up[j].age # After
      BY <1>2 DEF Coming
    <2>4. known.level <= known'.level /\ known'.level <= level
      BY <1>3, <1>4, <1>7
    <2> QED BY <1>7, <2>1, <2>2, <2>3, <2>4, ReceivesSession
  <1>10. Requested' = Len(issued') - Len(file')
    BY <1>8 DEF Requested
  <1>11. Gamestates'
    <2>1. \A n \in 1..Len(down') : n + i # i
      BY <1>6
    <2>2. \A n \in 1..Len(down') : down'[n].gamestate.level = 0
      BY <1>2, <1>6, <2>1 DEF Coming
    <2> QED BY <2>2 DEF Gamestates
  <1> HIDE DEF N, c, g
  <1>12. CASE phase' = "playing" /\ issued' = issued
    <2>1. Script'
      <3>1. 1..Len(file') = {}
        BY <1>7
      <3> QED BY <1>1, <1>12, <3>1 DEF Script
    <2>3. Progress'
      BY <1>5, <1>6, <1>12 DEF Progress, Stage, Idle, N
    <2>4. Early'
      BY <1>12 DEF Early
    <2> QED BY <1>9, <1>11, <2>1, <2>3, <2>4 DEF SInv
  <1>13. CASE /\ phase' = "downloading" /\ known.level < g /\ ~Has(g)
              /\ issued' \in Seq(Commands) /\ Len(issued') = N + 1
              /\ \A n \in 1..N : issued'[n] = issued[n]
              /\ issued'[N + 1] = Command("download", g)
    <2>1. Requested' = N + 1 /\ 1..Len(file') = {}
      BY <1>3, <1>7, <1>10, <1>13
    <2>2. /\ download.name = 0 /\ lastText \notin Quiet
          /\ \A j \in 1..Len(down) : j > i => down[j].block = NoBlock
      BY <1>4, <1>13
    <2>3. g >= 1 /\ Blocks \in Nat
      BY <1>1, <1>3, Constants DEF g
    <2>4. Script'
      <3>1. Requested' >= 1 /\ known'.level >= 1 /\ Len(file') <= Blocks
        BY <1>3, <1>7, <2>1, <2>3
      <3> QED BY <1>7, <1>13, <2>1, <3>1 DEF Script
    <2>5. Progress'
      <3>1. Unserved'
        BY <1>6, <2>2 DEF Unserved
      <3>2. c < N + 1 /\ N + 1 - 1 = N
        BY <1>3
      <3>3. \A n \in c + 1 .. N : n \in 1..N /\ issued[n].text \in {"download", "say_nextdl"}
        BY <1>3, <1>5 DEF Idle
      <3>4. \A n \in c + 1 .. N : issued'[n].text \in {"download", "say_nextdl"}
        BY <1>13, <3>3
      <3>5. Idle(lastClientCommand + 1, Requested - 1)'
        <4>1. lastClientCommand' = c /\ Requested' - 1 = N
          BY <1>3, <1>6, <2>1
        <4>2. \A n \in lastClientCommand' + 1 .. Requested' - 1 :
                issued'[n].text \in {"download", "say_nextdl"}
          BY <3>4, <4>1, Zenon
        <4> QED BY <4>2 DEF Idle
      <3>6. Getting(lastClientCommand, download)'
        BY <1>1, <1>6, <2>1, <3>1, <3>2, <3>5 DEF Getting
      <3> QED BY <1>13, <3>6 DEF Progress, Stage
    <2>6. Early'
      <3>1. \A j \in 1..Len(up) : up[j].known.level # g
        <4> TAKE j \in 1..Len(up)
        <4>1. up[j].known.level \in Nat /\ up[j].known.level <= known.level
          BY SessionFacts DEF UpType, UpSound, Numbers
        <4> QED BY <1>3, <1>13, <4>1
      <3> QED BY <1>6, <1>7, <2>2, <3>1 DEF Early
    <2> QED BY <1>9, <1>11, <2>4, <2>5, <2>6 DEF SInv
  <1> QED BY <1>8, <1>12, <1>13

LEMMA ReceiveStep ==
  ASSUME SInv, NEW i \in DOMAIN down, ClientReceives(i)
  PROVE  SInv'
  <1>1. i \in 1..Len(down)
    <2>1. down \in Seq(DownType)
      BY DEF SInv, SessionType
    <2> QED BY <2>1, SeqIs
  <1>2. Receives(i) /\ phase # "gone"
    BY DEF ClientReceives, Receives
  <1> QED BY <1>1, <1>2, GamestateTaken, BlockTaken, ErrorTaken, SnapshotTaken
          DEF ClientReceives

\* Both channels and what is under way in them stay.
LEMMA SameProgress ==
  ASSUME SInv, UNCHANGED ClientPart, UNCHANGED <<lastClientCommand, download, lastText, down>>
  PROVE  Progress'
  <1>1. Stage(lastClientCommand, download, lastText)
    BY DEF SInv, Progress
  <1>2. \A n \in 1..Len(down') : FromOld(n)
    BY DEF FromOld
  <1> QED BY <1>1, <1>2, StageKept

LEMMA SpawnStep ==
  ASSUME SInv, SpawnServer
  PROVE  SInv'
  <1>1. /\ level' = level + 1 /\ restart' = 0 /\ state' = "CONNECTED"
        /\ submitted' = submitted /\ reliableAcknowledge' = reliableAcknowledge
        /\ lastClientCommand' = lastClientCommand /\ lastText' = lastText
        /\ download' = download /\ down' = down /\ up' = up
        /\ known' = known /\ phase' = phase
        /\ serverCommandSequence' = serverCommandSequence /\ heard' = heard
        /\ issued' = issued /\ acked' = acked /\ file' = file /\ Requested' = Requested
    BY DEF SpawnServer, client, Requested
  <1>2. /\ SessionType /\ Counted /\ Messages /\ Levels /\ Gamestates /\ Script /\ Early
        /\ level \in Nat \ {0} /\ known.level \in Nat
    BY SessionFacts DEF SInv
  <1>3. level' \in Nat \ {0} /\ state' \in States
    BY <1>1, <1>2 DEF States
  <1>4. SessionType'
    BY <1>1, <1>2, <1>3 DEF SessionType
  <1>5. Counted'
    BY <1>1, <1>2 DEF Counted
  <1>6. Messages'
    BY <1>1, <1>2 DEF Messages, UpSound, DownSound
  <1>7. Levels'
    <2>1. \A n \in 1..Len(submitted) : submitted[n].level <= level + 1
      <3> TAKE n \in 1..Len(submitted)
      <3>1. submitted \in Seq(Numbers)
        BY <1>2 DEF SessionType
      <3>2. submitted[n] \in Numbers
        BY <3>1, SeqIs
      <3>3. submitted[n].level \in Nat /\ submitted[n].level <= level
        BY <1>2, <3>2 DEF Levels, Numbers
      <3> QED BY <1>2, <3>3
    <2> QED BY <1>1, <1>2, <2>1 DEF Levels
  <1>8. Gamestates'
    <2> SUFFICES ASSUME NEW i \in 1..Len(down), down[i].gamestate.level # 0
                 PROVE  Coming(i)'
      BY <1>1 DEF Gamestates
    <2>1. Coming(i)
      BY <1>2 DEF Gamestates
    <2>2. down[i].gamestate.level \in Nat
      BY SessionFacts DEF DownType, Numbers
    <2>3. down[i].gamestate.level <= level + 1
      BY <1>2, <2>1, <2>2 DEF Coming
    <2>4. Awaited(i)'
      BY <1>1, <2>1 DEF Coming, Awaited
    <2> QED BY <1>1, <2>1, <2>3, <2>4 DEF Coming
  <1>9. Script' /\ Early'
    BY <1>1, <1>2 DEF Script, Early
  <1>10. Progress'
    BY <1>1, SameProgress DEF ClientPart
  <1>11. World'
    BY <1>1 DEF World
  <1> QED BY <1>4, <1>5, <1>6, <1>7, <1>8, <1>9, <1>10, <1>11 DEF SInv

LEMMA RestartStep ==
  ASSUME SInv, MapRestart
  PROVE  SInv'
  <1> DEFINE S == Len(submitted)
             e == [level |-> level, restart |-> restart + 1]
  <1>1. /\ level' = level /\ restart' = restart + 1 /\ state' = state
        /\ submitted' = submitted \/ submitted' = Append(submitted, e)
        /\ reliableAcknowledge' = reliableAcknowledge
        /\ lastClientCommand' = lastClientCommand /\ lastText' = lastText
        /\ download' = download /\ down' = down /\ up' = up
        /\ known' = known /\ phase' = phase
        /\ serverCommandSequence' = serverCommandSequence /\ heard' = heard
        /\ issued' = issued /\ acked' = acked /\ file' = file /\ Requested' = Requested
    BY DEF MapRestart, SendServerCommand, client, Requested
  <1>2. /\ SessionType /\ Counted /\ Messages /\ Levels /\ Gamestates /\ Script /\ Early /\ World
        /\ level \in Nat \ {0} /\ restart \in Nat /\ known.level \in Nat /\ known.level <= level
        /\ submitted \in Seq(Numbers) /\ S \in Nat
        /\ serverCommandSequence \in Nat /\ serverCommandSequence <= S
    BY SessionFacts DEF SInv, SessionType, Counted
  <1>3. e \in Numbers /\ e.level = level
    BY <1>2 DEF Numbers
  <1> HIDE DEF e
  <1>4. \A n \in 1..S : submitted[n].level \in Nat
    <2>1. \A n \in 1..S : submitted[n] \in Numbers
      BY <1>2, SeqIs
    <2> QED BY <2>1 DEF Numbers
  <1>5. /\ submitted' \in Seq(Numbers) /\ Len(submitted') \in Nat /\ S <= Len(submitted')
        /\ \A n \in 1..Len(submitted') :
             \/ n \in 1..S /\ submitted'[n] = submitted[n]
             \/ n = S + 1 /\ submitted'[n].level = level
    <2>1. CASE submitted' = submitted
      BY <1>2, <2>1
    <2>2. CASE submitted' = Append(submitted, e)
      <3>1. /\ submitted' \in Seq(Numbers) /\ Len(submitted') = S + 1
            /\ \A n \in 1..S : submitted'[n] = submitted[n]
            /\ submitted'[S + 1] = e
        BY <1>2, <1>3, <2>2, AppendIs
      <3>2. \A n \in 1..(S + 1) : n \in 1..S \/ n = S + 1
        BY <1>2
      <3> QED BY <1>2, <1>3, <3>1, <3>2
    <2> QED BY <1>1, <2>1, <2>2
  <1>6. SessionType'
    <2>1. restart' \in Nat
      BY <1>1, <1>2
    <2> QED BY <1>1, <1>2, <1>5, <2>1 DEF SessionType
  <1>7. Counted'
    <2>1. reliableAcknowledge \in Nat
      BY <1>2 DEF SessionType
    <2> QED BY <1>1, <1>2, <1>5, <2>1 DEF Counted
  <1>8. Messages'
    <2>1. ASSUME NEW i \in 1..Len(up)
          PROVE  UpSound(up[i])'
      <3>1. up[i].reliable \in Nat /\ UpSound(up[i])
        BY SessionFacts DEF UpType
      <3>2. up[i].reliable <= Len(submitted')
        BY <1>2, <1>5, <3>1 DEF UpSound
      <3> QED BY <1>1, <3>1, <3>2 DEF UpSound
    <2>2. ASSUME NEW i \in 1..Len(down)
          PROVE  DownSound(down[i])'
      <3>1. down[i].last \in Nat /\ DownSound(down[i])
        BY SessionFacts DEF DownType
      <3>2. down[i].last <= Len(submitted')
        BY <1>2, <1>5, <3>1 DEF DownSound
      <3> QED BY <1>1, <3>1, <3>2 DEF DownSound
    <2> QED BY <1>1, <2>1, <2>2 DEF Messages
  <1>9. Levels'
    <2>1. \A n \in 1..Len(submitted') : /\ submitted'[n].level \in Nat
                                        /\ submitted'[n].level <= level
      BY <1>2, <1>4, <1>5 DEF Levels
    <2>2. ASSUME NEW a \in 1..Len(submitted'), NEW b \in 1..Len(submitted'), a < b
          PROVE  submitted'[a].level <= submitted'[b].level
      <3>1. CASE b \in 1..S /\ submitted'[b] = submitted[b]
        <4>1. a \in 1..S /\ a # S + 1
          BY <1>2, <2>2, <3>1
        <4>2. submitted'[a] = submitted[a]
          BY <1>5, <4>1
        <4> QED BY <1>2, <2>2, <3>1, <4>1, <4>2 DEF Levels
      <3>2. CASE b = S + 1 /\ submitted'[b].level = level
        BY <2>1, <3>2
      <3> QED BY <1>5, <3>1, <3>2
    <2>3. ASSUME NEW n \in 1..Len(submitted'), n > serverCommandSequence
          PROVE  submitted'[n].level >= known.level
      <3>1. CASE n \in 1..S /\ submitted'[n] = submitted[n]
        BY <1>2, <2>3, <3>1 DEF Levels
      <3>2. CASE n = S + 1 /\ submitted'[n].level = level
        BY <1>2, <3>2
      <3> QED BY <1>5, <3>1, <3>2
    <2> QED BY <1>1, <2>1, <2>2, <2>3 DEF Levels
  <1>10. Gamestates'
    <2> SUFFICES ASSUME NEW i \in 1..Len(down), down[i].gamestate.level # 0
                 PROVE  Coming(i)'
      BY <1>1 DEF Gamestates
    <2>1. Coming(i)
      BY <1>2 DEF Gamestates
    <2> DEFINE g == down[i].gamestate.level
    <2>2. g \in Nat /\ down[i].last \in Nat /\ down[i].last <= S
      BY SessionFacts DEF DownType, Numbers, DownSound
    <2>3. Awaited(i)'
      BY <1>1, <2>1 DEF Coming, Awaited
    <2>4. ASSUME NEW n \in 1..Len(submitted')
          PROVE  IF n <= down[i].last THEN submitted'[n].level <= g
                 ELSE submitted'[n].level >= g
      <3>1. CASE n \in 1..S /\ submitted'[n] = submitted[n]
        BY <2>1, <3>1 DEF Coming
      <3>2. CASE n = S + 1 /\ submitted'[n].level = level
        <4>1. ~(n <= down[i].last) /\ level >= g
          BY <1>2, <2>1, <2>2, <3>2 DEF Coming
        <4> QED BY <3>2, <4>1
      <3> QED BY <1>5, <3>1, <3>2
    <2> QED BY <1>1, <2>1, <2>3, <2>4 DEF Coming
  <1>11. Script' /\ Early' /\ World'
    BY <1>1, <1>2 DEF Script, Early, World
  <1>12. Progress'
    BY <1>1, SameProgress DEF ClientPart
  <1> QED BY <1>6, <1>7, <1>8, <1>9, <1>10, <1>11, <1>12 DEF SInv

LEMMA SendStep ==
  ASSUME SInv, ClientSends
  PROVE  SInv'
  <1> DEFINE m == [age |-> heard, known |-> known, reliable |-> serverCommandSequence,
                   first |-> acked, last |-> Len(issued), move |-> phase = "playing"]
  <1>1. /\ level' = level /\ restart' = restart /\ state' = state /\ submitted' = submitted
        /\ reliableAcknowledge' = reliableAcknowledge
        /\ lastClientCommand' = lastClientCommand /\ lastText' = lastText
        /\ download' = download /\ down' = down /\ up' = Put(up, m)
        /\ known' = known /\ phase' = phase
        /\ serverCommandSequence' = serverCommandSequence /\ heard' = heard
        /\ issued' = issued /\ acked' = acked /\ file' = file /\ Requested' = Requested
    BY DEF ClientSends, server, Requested
  <1>2. /\ SessionType /\ Counted /\ Messages /\ Levels /\ Gamestates /\ Script /\ Early /\ World
        /\ acked \in Nat /\ lastClientCommand \in Nat /\ Len(issued) \in Nat
        /\ acked <= lastClientCommand /\ lastClientCommand <= Len(issued)
        /\ serverCommandSequence \in Nat /\ serverCommandSequence <= Len(submitted)
        /\ heard \in 0..2 /\ known \in Numbers /\ known.level \in Nat
        /\ up \in Seq(UpType)
    BY SessionFacts DEF SInv, SessionType, Counted
  <1>3. /\ m.age = heard /\ m.known = known /\ m.reliable = serverCommandSequence
        /\ m.first = acked /\ m.last = Len(issued)
    OBVIOUS
  <1>4. m.move = (phase = "playing")
    BY Zenon
  <1>5. m \in UpType
    <2>1. (phase = "playing") \in BOOLEAN
      OBVIOUS
    <2> QED BY <1>2, <2>1 DEF UpType
  <1>6. UpSound(m)
    <2>1. phase = "waiting" => ~m.move
      BY <1>4
    <2> QED BY <1>2, <1>3, <2>1 DEF UpSound
  <1> HIDE DEF m
  <1>7. /\ up' \in Seq(UpType) /\ Len(up') \in Nat
        /\ \A n \in 1..Len(up') : up'[n] = m \/ \E i \in 1..Len(up) : up'[n] = up[i]
    BY <1>1, <1>2, <1>5, PutTyped
  <1>8. SessionType'
    BY <1>1, <1>2, <1>7 DEF SessionType
  <1>9. Counted' /\ Levels' /\ Script' /\ World'
    BY <1>1, <1>2 DEF Counted, Levels, Script, World
  <1>10. Messages'
    <2>1. \A n \in 1..Len(up') : UpSound(up'[n])
      BY <1>2, <1>6, <1>7 DEF Messages
    <2>2. (\A n \in 1..Len(up) : UpSound(up[n]))'
      BY <1>1, <2>1 DEF UpSound
    <2>3. (\A n \in 1..Len(down) : DownSound(down[n]))'
      BY <1>1, <1>2 DEF Messages, DownSound
    <2> QED BY <2>2, <2>3 DEF Messages
  <1>11. Gamestates'
    <2> SUFFICES ASSUME NEW i \in 1..Len(down), down[i].gamestate.level # 0
                 PROVE  Coming(i)'
      BY <1>1 DEF Gamestates
    <2>1. Coming(i)
      BY <1>2 DEF Gamestates
    <2>2. \A n \in 1..Len(up') : up'[n].age # After
      BY <1>3, <1>7, <2>1 DEF Coming
    <2>3. Awaited(i)'
      BY <1>1, <2>1 DEF Coming, Awaited
    <2> QED BY <1>1, <2>1, <2>2, <2>3 DEF Coming
  <1>12. Early'
    <2> SUFFICES ASSUME phase = "downloading", lastClientCommand < Requested
                 PROVE  /\ download.name = 0 /\ lastText \notin Quiet
                        /\ \A n \in 1..Len(up') :
                             up'[n].known.level = known.level => up'[n].last = Len(issued)
      BY <1>1 DEF Early
    <2>1. /\ download.name = 0 /\ lastText \notin Quiet
          /\ \A i \in 1..Len(up) : up[i].known.level = known.level => up[i].last = Len(issued)
      BY <1>2 DEF Early
    <2> QED BY <1>3, <1>7, <2>1
  <1>13. Progress'
    BY <1>1, SameProgress DEF ClientPart
  <1> QED BY <1>8, <1>9, <1>10, <1>11, <1>12, <1>13 DEF SInv

LEMMA ChatStep ==
  ASSUME SInv, Chat
  PROVE  SInv'
  <1> DEFINE q == Command("say_nextdl", 0)
             N == Len(issued)
  <1>1. /\ level' = level /\ restart' = restart /\ state' = state /\ submitted' = submitted
        /\ reliableAcknowledge' = reliableAcknowledge
        /\ lastClientCommand' = lastClientCommand /\ lastText' = lastText
        /\ download' = download /\ down' = down /\ up' = up
        /\ known' = known /\ phase' = phase /\ phase = "playing"
        /\ serverCommandSequence' = serverCommandSequence /\ heard' = heard
        /\ issued' = Append(issued, q) /\ acked' = acked /\ file' = file
    BY DEF Chat, server
  <1>2. /\ SessionType /\ Counted /\ Messages /\ Levels /\ Gamestates /\ Script /\ World
        /\ lastClientCommand \in Nat /\ N \in Nat /\ lastClientCommand <= N
        /\ issued \in Seq(Commands)
        /\ Idle(lastClientCommand + 1, N)
    BY <1>1, SessionFacts DEF SInv, SessionType, Progress, Stage
  <1>3. q \in Commands /\ q.text = "say_nextdl"
    BY DEF Command, Commands, Texts
  <1> HIDE DEF q
  <1>4. /\ issued' \in Seq(Commands) /\ Len(issued') = N + 1
        /\ \A n \in 1..N : issued'[n] = issued[n]
        /\ issued'[N + 1] = q
    BY <1>1, <1>2, <1>3, AppendIs
  <1>5. SessionType'
    BY <1>1, <1>2, <1>4 DEF SessionType
  <1>6. Counted' /\ Levels' /\ World'
    BY <1>1, <1>2, <1>4 DEF Counted, Levels, World
  <1>7. Script'
    <2>1. 1..Len(file') = {} /\ file' = <<>>
      BY <1>1, <1>2 DEF Script
    <2> QED BY <1>1, <2>1 DEF Script
  <1>8. Messages'
    <2>1. ASSUME NEW i \in 1..Len(up)
          PROVE  UpSound(up[i])'
      <3>1. up[i].last \in Nat /\ UpSound(up[i])
        BY SessionFacts DEF UpType
      <3>2. up[i].last <= Len(issued')
        BY <1>2, <1>4, <3>1 DEF UpSound
      <3> QED BY <1>1, <3>1, <3>2 DEF UpSound
    <2>2. (\A i \in 1..Len(down) : DownSound(down[i]))'
      BY <1>1, <1>2 DEF Messages, DownSound
    <2> QED BY <1>1, <2>1, <2>2 DEF Messages
  <1>9. Gamestates'
    <2> SUFFICES ASSUME NEW i \in 1..Len(down), down[i].gamestate.level # 0
                 PROVE  Coming(i)'
      BY <1>1 DEF Gamestates
    <2>1. Coming(i)
      BY <1>2 DEF Gamestates
    <2>2. Awaited(i)'
      BY <1>1, <2>1 DEF Coming, Awaited
    <2> QED BY <1>1, <2>1, <2>2 DEF Coming
  <1>10. Progress'
    <2>1. ASSUME NEW n \in lastClientCommand + 1 .. N + 1
          PROVE  issued'[n].text \in {"download", "say_nextdl"}
      <3>1. CASE n = N + 1
        BY <1>3, <1>4, <3>1
      <3>2. CASE n # N + 1
        <4>1. n \in lastClientCommand + 1 .. N /\ n \in 1..N
          BY <1>2, <3>2
        <4> QED BY <1>2, <1>4, <4>1 DEF Idle
      <3> QED BY <3>1, <3>2
    <2>2. Idle(lastClientCommand + 1, Len(issued))'
      BY <1>1, <1>4, <2>1 DEF Idle
    <2> QED BY <1>1, <2>2 DEF Progress, Stage
  <1>11. Early'
    BY <1>1 DEF Early
  <1> QED BY <1>5, <1>6, <1>7, <1>8, <1>9, <1>10, <1>11 DEF SInv

LEMMA IdleStep ==
  ASSUME SInv, UNCHANGED vars
  PROVE  SInv'
  BY DEF vars, SInv, SessionType, Counted, Messages, UpSound, DownSound, Levels, Gamestates,
         Coming, Awaited, Script, Requested, Progress, Stage, Idle, Unserved, Carried, Served,
         Getting, Got, Early, World

LEMMA SessionStarts ==
  ASSUME Init
  PROVE  SInv
  <1>1. /\ level = 1 /\ restart = 0 /\ state = "CONNECTED" /\ submitted = <<>>
        /\ reliableAcknowledge = 0 /\ lastClientCommand = 0 /\ lastText = "none"
        /\ download = NoDownload /\ down = <<>> /\ up = <<>>
        /\ known = [level |-> 0, restart |-> 0] /\ phase = "connecting"
        /\ serverCommandSequence = 0 /\ heard = After /\ issued = <<>> /\ acked = 0
        /\ file = <<>>
    BY DEF Init
  <1>2. \A T : /\ <<>> \in Seq(T) /\ Len(<<>>) = 0 /\ 1..Len(<<>>) = {}
    OBVIOUS
  <1>3. NoDownload \in Downloads
    <2>1. [i \in 0 .. Window - 1 |-> <<>>] \in [0 .. Window - 1 -> Contents]
      <3>1. <<>> \in Contents
        BY DEF Contents
      <3> QED BY <3>1
    <2> QED BY <2>1 DEF NoDownload, Downloads
  <1>4. SessionType
    <2>1. known \in Numbers /\ heard \in 0..2 /\ level \in Nat \ {0}
      BY <1>1 DEF Numbers, After
    <2> QED BY <1>1, <1>2, <1>3, <2>1 DEF SessionType, States, Texts, Phases
  <1>5. Counted /\ Messages /\ Levels /\ Gamestates
    BY <1>1, <1>2 DEF Counted, Messages, Levels, Gamestates
  <1>6. Script
    BY <1>1, <1>2 DEF Script
  <1>7. Progress
    BY <1>1, <1>2 DEF Progress, Stage, Idle
  <1>8. Early /\ World
    BY <1>1 DEF Early, World
  <1> QED BY <1>4, <1>5, <1>6, <1>7, <1>8 DEF SInv

\* Whatever is lost and whatever is loaded, the session keeps its invariant.
THEOREM Session == Spec => []SInv
  <1>1. Init => SInv
    BY SessionStarts
  <1>2. SInv /\ [Next]_vars => SInv'
    <2> SUFFICES ASSUME SInv, [Next]_vars
                 PROVE  SInv'
      OBVIOUS
    <2>1. CASE SendSnapshot
      BY <2>1, SnapshotStep
    <2>2. CASE \E i \in DOMAIN up : PacketEvent(i)
      BY <2>2, PacketStep
    <2>3. CASE \E i \in DOMAIN down : ClientReceives(i)
      BY <2>3, ReceiveStep
    <2>4. CASE SpawnServer
      BY <2>4, SpawnStep
    <2>5. CASE MapRestart
      BY <2>5, RestartStep
    <2>6. CASE ClientSends
      BY <2>6, SendStep
    <2>7. CASE Chat
      BY <2>7, ChatStep
    <2>8. CASE UNCHANGED vars
      BY <2>8, IdleStep
    <2> QED BY <2>1, <2>2, <2>3, <2>4, <2>5, <2>6, <2>7, <2>8 DEF Next
  <1> QED BY <1>1, <1>2, PTL DEF Spec

\* custom_SV_NextDownload_f, custom_SV_ClientCommand and custom_SV_WriteDownloadToClient:
\* the server never drops the client, and the blocks it accepts are those of the file.
THEOREM DownloadsAreSound == Spec => []DownloadSound
  <1>1. SInv => DownloadSound
    <2> SUFFICES ASSUME SInv PROVE DownloadSound
      OBVIOUS
    <2>1. /\ state \in States /\ file \in Seq(Contents)
          /\ \A n \in 1..Len(file) : file[n] = Data(known.level, n - 1)
      BY DEF SInv, SessionType, Script
    <2>2. DOMAIN file = 1..Len(file)
      BY <2>1, SeqIs
    <2> QED BY <2>1, <2>2 DEF DownloadSound, NeverDropped, FileIntact, States
  <1> QED BY <1>1, Session, PTL

\* custom_SV_ExecuteClientMessage lets only who knows the running level into the world.
THEOREM WorldOfItsLevel == Spec => []InWorldOfItsLevel
  <1>1. SInv => InWorldOfItsLevel
    BY DEF SInv, World, InWorldOfItsLevel
  <1> QED BY <1>1, Session, PTL
================================================================================

--------------------------- MODULE SnapshotsProofs ---------------------------
(* Snapshots for all sizes of the rings, any number of levels, messages and    *)
(* snapshots of other clients: the base of a difference is intact, and the     *)
(* client can read what it receives.                                           *)
EXTENDS Snapshots, SequenceTheorems, TLAPS

\* All that is assumed of the constants.
Sizes == /\ {Backup, RingSize} \subseteq Nat \ {0}
         /\ {Margin, MaxEntities} \subseteq Nat
         /\ Players \in Nat

IsSequence(s) == s \in Seq({s[n] : n \in DOMAIN s})

Moves == [level : Nat, ack : Nat, delta : BOOLEAN]
Frames == [ps : Nat, first_entity : Nat, num_entities : Nat,
           first_client : Nat, num_clients : Nat]

TypeInv ==
    /\ level \in Nat
    /\ state \in {"CONNECTED", "PRIMED", "ACTIVE", "ZOMBIE"}
    /\ IsSequence(down) /\ Len(down) \in Nat
    /\ deltaMessage \in Int /\ gamestateMessageNum \in Int
    /\ frames \in [0 .. Backup - 1 -> Frames]
    /\ nextSnapshotEntities \in Nat /\ nextSnapshotClients \in Nat
    /\ snapshotEntities \in [0 .. RingSize - 1 -> Nat]
    /\ up \in Seq(Moves)
    /\ known \in Nat /\ heard \in 0 .. Len(down) /\ held \subseteq 1 .. heard

\* Levels only grow along the messages, and no gamestate comes between a
\* snapshot and its base.
DownInv ==
    /\ \A n \in 1 .. Len(down) :
         /\ down[n].kind \in {"other", "gamestate", "snapshot"}
         /\ down[n].level \in Nat /\ down[n].level <= level
         /\ down[n].base \in Nat /\ down[n].num \in Nat
         /\ down[n].base # None =>
              \A g \in down[n].base .. n : down[g].kind # "gamestate"
    /\ \A m, n \in 1 .. Len(down) : m < n => down[m].level <= down[n].level

\* The client is never ahead of the server, nor of what is still under way.
KnownInv ==
    /\ known <= level
    /\ \A n \in heard + 1 .. Len(down) : known <= down[n].level
    /\ \A i \in 1 .. Len(up) : up[i].level <= known
    /\ \A i, j \in 1 .. Len(up) : i < j => up[i].level <= up[j].level

\* Once the client is in the world, all its messages are of this level, and the
\* base it asked for is a snapshot it has.
StateInv ==
    /\ state = "ACTIVE" => /\ known = level
                           /\ \A i \in 1 .. Len(up) : up[i].level = level
                           /\ deltaMessage >= 1 => deltaMessage \in held
    /\ state \in {"CONNECTED", "PRIMED"} =>
         \A n \in 1 .. Len(down) : down[n].kind = "snapshot" => down[n].level < level

\* Snapshots of a level come after its gamestates, to a client that knows it.
SnapshotInv ==
    state # "ZOMBIE" =>
      /\ \A g, n \in 1 .. Len(down) :
           /\ down[g].kind = "gamestate" /\ down[n].kind = "snapshot"
           /\ down[g].level = down[n].level
           => g < n
      /\ \A n \in heard + 1 .. Len(down) :
           down[n].kind = "snapshot" => down[n].level = known
      /\ \A n \in held : down[n].kind = "snapshot" /\ down[n].level = known

\* An acknowledgement of the level the client is still in names a snapshot it
\* still has.
MoveInv ==
    state # "ZOMBIE" =>
      \A i \in 1 .. Len(up) : up[i].delta =>
        /\ up[i].ack \in 1 .. heard
        /\ down[up[i].ack].kind = "snapshot"
        /\ down[up[i].ack].level = up[i].level
        /\ up[i].level = known => up[i].ack \in held

\* The frame of a snapshot that is young enough is that snapshot's, and while no
\* entity behind it was overwritten its entities are in the ring.
RingInv ==
    state # "ZOMBIE" =>
      \A n \in 1 .. Len(down) :
        down[n].kind = "snapshot" /\ Len(down) < n + Backup =>
          LET frame == frames[n % Backup]
          IN  /\ frame.ps = n
              /\ frame.num_entities = down[n].num
              /\ down[n].level = level =>
                   /\ frame.first_entity + frame.num_entities <= nextSnapshotEntities
                   /\ nextSnapshotEntities <= frame.first_entity + RingSize =>
                        \A k \in frame.first_entity ..
                                 frame.first_entity + frame.num_entities - 1 :
                           snapshotEntities[k % RingSize] = n

IInv == /\ TypeInv /\ DownInv /\ KnownInv /\ StateInv /\ SnapshotInv /\ MoveInv
        /\ RingInv /\ BaseIntact /\ Readable

-----------------------------------------------------------------------------
(* Slots of a ring *)

LEMMA SlotRange ==
  ASSUME NEW a \in Nat, NEW m \in Nat \ {0}
  PROVE  a % m \in 0 .. m - 1
  BY SMT

LEMMA Quotient ==
  ASSUME NEW a \in Nat, NEW m \in Nat \ {0}
  PROVE  a \div m \in Nat /\ a = m * (a \div m) + (a % m)
  BY SMT

LEMMA Multiple ==
  ASSUME NEW m \in Nat \ {0}, NEW p \in Nat, NEW q \in Nat, p < q
  PROVE  m * q >= m * p + m
  <1>1. q >= p + 1
    OBVIOUS
  <1>2. PICK d \in Nat : q = p + 1 + d
    <2>1. q - (p + 1) \in Nat /\ q = p + 1 + (q - (p + 1))
      BY <1>1
    <2> QED BY <2>1
  <1>3. m * q = m * p + m + m * d
    BY <1>2, SMT
  <1>4. m * d >= 0 /\ m * p \in Nat
    BY SMT
  <1> QED BY <1>3, <1>4, SMT

\* Two indices less than a ring apart have different slots.
LEMMA SlotsDiffer ==
  ASSUME NEW a \in Nat, NEW b \in Nat, NEW m \in Nat \ {0}, a < b, b < a + m
  PROVE  a % m # b % m
  <1> SUFFICES ASSUME a % m = b % m PROVE FALSE
    OBVIOUS
  <1> DEFINE p == a \div m
             q == b \div m
             r == a % m
  <1>1. p \in Nat /\ q \in Nat /\ r \in 0 .. m - 1
    BY Quotient, SlotRange
  <1>2. a = m * p + r /\ b = m * q + r
    BY Quotient
  <1>3. m * p \in Nat /\ m * q \in Nat
    BY <1>1, SMT
  <1>4. CASE p < q
    <2>1. m * q >= m * p + m
      BY <1>1, <1>4, Multiple
    <2> HIDE DEF p, q, r
    <2> QED BY <1>1, <1>2, <1>3, <2>1
  <1>5. CASE q < p
    <2>1. m * p >= m * q + m
      BY <1>1, <1>5, Multiple
    <2> HIDE DEF p, q, r
    <2> QED BY <1>1, <1>2, <1>3, <2>1
  <1>6. CASE p = q
    BY <1>2, <1>6
  <1> QED BY <1>1, <1>4, <1>5, <1>6

\* What is stored has the new mark; an entry less than a ring back keeps its own.
LEMMA StoredFacts ==
  ASSUME Sizes, TypeInv, NEW num \in Nat, NEW mark \in Nat, Stores(num, mark)
  PROVE  /\ nextSnapshotEntities \in Nat
         /\ nextSnapshotEntities' = nextSnapshotEntities + num
         /\ nextSnapshotClients' \in Nat
         /\ snapshotEntities' \in [0 .. RingSize - 1 -> Nat]
         /\ \A k \in nextSnapshotEntities .. nextSnapshotEntities + num - 1 :
              snapshotEntities'[k % RingSize] = mark
         /\ \A k \in Nat : /\ k < nextSnapshotEntities
                           /\ nextSnapshotEntities + num <= k + RingSize
              => snapshotEntities'[k % RingSize] = snapshotEntities[k % RingSize]
  <1> DEFINE next == nextSnapshotEntities
  <1>1. /\ next \in Nat /\ nextSnapshotClients \in Nat
        /\ snapshotEntities \in [0 .. RingSize - 1 -> Nat]
        /\ RingSize \in Nat \ {0} /\ Players \in Nat
    BY DEF TypeInv, Sizes
  <1>2. /\ nextSnapshotEntities' = next + num
        /\ nextSnapshotClients' = nextSnapshotClients + Players
        /\ snapshotEntities' =
             [i \in 0 .. RingSize - 1 |->
                IF \E k \in next .. next + num - 1 : k % RingSize = i
                THEN mark ELSE snapshotEntities[i]]
    BY DEF Stores, Stored
  <1> HIDE DEF next
  <1>3. snapshotEntities' \in [0 .. RingSize - 1 -> Nat]
    BY <1>1, <1>2
  <1>4. ASSUME NEW k \in next .. next + num - 1
        PROVE  snapshotEntities'[k % RingSize] = mark
    <2>1. k \in Nat
      BY <1>1
    <2>2. k % RingSize \in 0 .. RingSize - 1
      BY <1>1, <2>1, SlotRange
    <2> QED BY <1>2, <2>2
  <1>5. ASSUME NEW k \in Nat, k < next, next + num <= k + RingSize
        PROVE  snapshotEntities'[k % RingSize] = snapshotEntities[k % RingSize]
    <2>1. k % RingSize \in 0 .. RingSize - 1
      BY <1>1, SlotRange
    <2>2. \A j \in next .. next + num - 1 : j % RingSize # k % RingSize
      <3> TAKE j \in next .. next + num - 1
      <3>1. j \in Nat /\ k < j /\ j < k + RingSize
        BY <1>1, <1>5
      <3> QED BY <1>1, <3>1, SlotsDiffer
    <2> QED BY <1>2, <2>1, <2>2
  <1>6. \A k \in next .. next + num - 1 : snapshotEntities'[k % RingSize] = mark
    BY <1>4
  <1>7. \A k \in Nat : k < next /\ next + num <= k + RingSize
          => snapshotEntities'[k % RingSize] = snapshotEntities[k % RingSize]
    BY <1>5
  <1>8. nextSnapshotClients' \in Nat
    BY <1>1, <1>2
  <1> QED BY <1>1, <1>2, <1>3, <1>6, <1>7, <1>8 DEF next

\* Sequences without a set their elements are taken from.
LEMMA Added ==
  ASSUME NEW s, NEW m, IsSequence(s)
  PROVE  /\ IsSequence(Append(s, m))
         /\ Len(s) \in Nat /\ DOMAIN s = 1 .. Len(s)
         /\ Len(Append(s, m)) = Len(s) + 1
         /\ \A n \in 1 .. Len(s) : Append(s, m)[n] = s[n]
         /\ Append(s, m)[Len(s) + 1] = m
  <1> DEFINE S == {s[n] : n \in DOMAIN s} \cup {m}
             t == Append(s, m)
  <1>1. s \in Seq(S)
    BY DEF IsSequence
  <1>2. m \in S
    OBVIOUS
  <1>3. /\ t \in Seq(S) /\ Len(t) = Len(s) + 1
        /\ \A n \in 1 .. Len(s) : t[n] = s[n]
        /\ t[Len(s) + 1] = m
    <2> HIDE DEF S
    <2> QED BY <1>1, <1>2, AppendProperties
  <1>4. Len(s) \in Nat /\ DOMAIN s = 1 .. Len(s)
    BY <1>1, LenProperties
  <1>5. DOMAIN t = 1 .. Len(t) /\ t \in [1 .. Len(t) -> S] /\ Len(t) \in Nat
    BY <1>3, LenProperties
  <1>6. t \in [1 .. Len(t) -> {t[n] : n \in DOMAIN t}]
    BY <1>5
  <1>7. t \in Seq({t[n] : n \in DOMAIN t})
    <2> DEFINE T == {t[n] : n \in DOMAIN t}
    <2>1. t \in [1 .. Len(t) -> T] /\ Len(t) \in Nat
      BY <1>5, <1>6
    <2> HIDE DEF t, T
    <2>2. t \in Seq(T)
      BY <2>1, SeqDef
    <2> QED BY <2>2 DEF T
  <1> QED BY <1>3, <1>4, <1>7 DEF IsSequence

\* u is what is left of the client's messages behind the first o.
Behind(u, o) ==
    /\ u \in Seq(Moves)
    /\ \A j \in 1 .. Len(u) : j + o \in 1 .. Len(up) /\ u[j] = up[j + o]

LEMMA BehindFacts ==
  ASSUME up \in Seq(Moves)
  PROVE  /\ Len(up) \in Nat /\ DOMAIN up = 1 .. Len(up)
         /\ Behind(up, 0)
         /\ \A i \in 1 .. Len(up) : Behind(SubSeq(up, i + 1, Len(up)), i)
  <1>1. Len(up) \in Nat /\ DOMAIN up = 1 .. Len(up)
    BY LenProperties
  <1>2. Behind(up, 0)
    BY <1>1 DEF Behind
  <1>3. ASSUME NEW i \in 1 .. Len(up)
        PROVE  Behind(SubSeq(up, i + 1, Len(up)), i)
    <2> DEFINE u == SubSeq(up, i + 1, Len(up))
    <2>1. \A k \in i + 1 .. Len(up) : up[k] \in Moves
      <3> TAKE k \in i + 1 .. Len(up)
      <3>1. k \in 1 .. Len(up)
        BY <1>1
      <3> QED BY <3>1, ElementOfSeq
    <2>2. /\ u \in Seq(Moves)
          /\ Len(u) = IF i + 1 <= Len(up) THEN Len(up) - (i + 1) + 1 ELSE 0
          /\ \A j \in 1 .. Len(up) - (i + 1) + 1 : u[j] = up[i + 1 + j - 1]
      <3>1. i + 1 \in Int /\ Len(up) \in Int
        BY <1>1
      <3> QED BY <2>1, <3>1, SubSeqProperties
    <2> HIDE DEF u
    <2>3. ASSUME NEW j \in 1 .. Len(u)
          PROVE  j + i \in 1 .. Len(up) /\ u[j] = up[j + i]
      <3>1. Len(u) = Len(up) - i
        <4>1. Len(u) = IF i + 1 <= Len(up) THEN Len(up) - (i + 1) + 1 ELSE 0
          BY <2>2
        <4>2. Len(up) \in Nat
          BY <1>1
        <4> QED BY <4>1, <4>2
      <3>2. j \in 1 .. Len(up) - (i + 1) + 1 /\ i + 1 + j - 1 = j + i
            /\ j + i \in 1 .. Len(up)
        BY <1>1, <3>1
      <3> QED BY <2>2, <3>2
    <2>4. Behind(u, i)
      BY <2>2, <2>3 DEF Behind
    <2> QED BY <2>4 DEF u
  <1> QED BY <1>1, <1>2, <1>3

-----------------------------------------------------------------------------
(* Messages of the server *)

\* A message that may be sent in this state is put behind the others.
Sends(m) ==
    /\ down' = Append(down, m)
    /\ m.level = level /\ m.num \in Nat
    /\ \/ m.kind = "other" /\ m.base = None
       \/ m.kind = "gamestate" /\ m.base = None /\ state \in {"CONNECTED", "PRIMED"}
       \/ m.kind = "snapshot" /\ m.base = None /\ state \in {"ACTIVE", "ZOMBIE"}
       \/ /\ m.kind = "snapshot" /\ state = "ACTIVE"
          /\ m.base = deltaMessage /\ m.base >= 1
          /\ Len(down) + 1 - m.base < Backup

LEMMA SentFacts ==
  ASSUME IInv, NEW m, Sends(m)
  PROVE  /\ IsSequence(down') /\ Len(down) \in Nat /\ Len(down') = Len(down) + 1
         /\ DOMAIN down = 1 .. Len(down) /\ DOMAIN down' = 1 .. Len(down) + 1
         /\ \A n \in 1 .. Len(down) : down'[n] = down[n]
         /\ down'[Len(down) + 1] = m
         /\ m.kind \in {"other", "gamestate", "snapshot"} /\ m.base \in Nat
         /\ m.base # None => /\ m.kind = "snapshot" /\ state = "ACTIVE"
                             /\ m.base \in held /\ m.base \in 1 .. Len(down)
                             /\ down[m.base].kind = "snapshot"
                             /\ down[m.base].level = level
                             /\ Len(down) + 1 - m.base < Backup
  <1>1. IsSequence(down)
    BY DEF IInv, TypeInv
  <1>2. /\ IsSequence(down') /\ Len(down) \in Nat /\ Len(down') = Len(down) + 1
        /\ DOMAIN down = 1 .. Len(down)
        /\ \A n \in 1 .. Len(down) : down'[n] = down[n]
        /\ down'[Len(down) + 1] = m
    <2>1. down' = Append(down, m)
      BY DEF Sends
    <2> QED BY <1>1, <2>1, Added
  <1>3. DOMAIN down' = 1 .. Len(down) + 1
    <2>1. down' = Append(down, m)
      BY DEF Sends
    <2> QED BY <1>2, Added
  <1>4. m.kind \in {"other", "gamestate", "snapshot"} /\ m.base \in Nat
    BY DEF Sends, None, IInv, TypeInv
  <1>5. ASSUME m.base # None
        PROVE  /\ m.kind = "snapshot" /\ state = "ACTIVE"
               /\ m.base \in held /\ m.base \in 1 .. Len(down)
               /\ down[m.base].kind = "snapshot"
               /\ down[m.base].level = level
               /\ Len(down) + 1 - m.base < Backup
    <2>1. /\ m.kind = "snapshot" /\ state = "ACTIVE"
          /\ m.base = deltaMessage /\ m.base >= 1
          /\ Len(down) + 1 - m.base < Backup
      BY <1>5 DEF Sends
    <2>2. m.base \in held /\ known = level
      BY <2>1 DEF IInv, StateInv
    <2>3. m.base \in 1 .. Len(down)
      <3>1. held \subseteq 1 .. heard /\ heard \in 0 .. Len(down) /\ Len(down) \in Nat
        BY DEF IInv, TypeInv
      <3>2. m.base \in 1 .. heard
        BY <2>2, <3>1
      <3> QED BY <3>1, <3>2
    <2>4. down[m.base].kind = "snapshot" /\ down[m.base].level = level
      BY <2>1, <2>2 DEF IInv, SnapshotInv
    <2> QED BY <2>1, <2>2, <2>3, <2>4
  <1> QED BY <1>2, <1>3, <1>4, <1>5

LEMMA SentKeeps ==
  ASSUME IInv, NEW m, Sends(m), UNCHANGED <<level, client>>,
         state' = "ZOMBIE" <=> state = "ZOMBIE", NEW o \in Nat, Behind(up', o)
  PROVE  DownInv' /\ KnownInv' /\ SnapshotInv' /\ MoveInv' /\ Readable'
  <1> DEFINE N == Len(down)
  <1>1. /\ N \in Nat /\ Len(down') = N + 1
        /\ \A n \in 1 .. N : down'[n] = down[n]
        /\ down'[N + 1] = m
        /\ m.kind \in {"other", "gamestate", "snapshot"} /\ m.base \in Nat
        /\ m.level = level /\ m.num \in Nat
        /\ m.base # None => /\ m.kind = "snapshot" /\ state = "ACTIVE"
                            /\ m.base \in held /\ m.base \in 1 .. N
                            /\ down[m.base].kind = "snapshot"
                            /\ down[m.base].level = level
                            /\ N + 1 - m.base < Backup
    BY SentFacts DEF Sends
  <1>2. /\ level' = level /\ level \in Nat /\ known' = known /\ known \in Nat
        /\ heard' = heard /\ heard \in 0 .. N
        /\ held' = held /\ held \subseteq 1 .. heard
    BY DEF IInv, TypeInv, client
  <1> HIDE DEF N
  <1>3. DownInv'
    <2>1. ASSUME NEW n \in 1 .. N + 1
          PROVE  /\ down'[n].kind \in {"other", "gamestate", "snapshot"}
                 /\ down'[n].level \in Nat /\ down'[n].level <= level
                 /\ down'[n].base \in Nat /\ down'[n].num \in Nat
      <3>1. CASE n \in 1 .. N
        BY <1>1, <3>1 DEF IInv, DownInv, N
      <3>2. CASE n = N + 1
        BY <1>1, <1>2, <3>2
      <3> QED BY <1>1, <3>1, <3>2
    <2>2. ASSUME NEW n \in 1 .. N + 1, down'[n].base # None,
                 NEW g \in down'[n].base .. n
          PROVE  down'[g].kind # "gamestate"
      <3>1. CASE n \in 1 .. N
        <4>1. down[n].base \in Nat /\ down[n].base # 0 /\ g \in 1 .. N /\ g \in down[n].base .. n
          BY <1>1, <2>2, <3>1 DEF IInv, DownInv, N, None
        <4>2. down[g].kind # "gamestate"
          BY <1>1, <2>2, <3>1, <4>1 DEF IInv, DownInv, N, None
        <4> QED BY <1>1, <4>1, <4>2
      <3>2. CASE n = N + 1 /\ g = N + 1
        BY <1>1, <2>2, <3>2
      <3>3. CASE n = N + 1 /\ g # N + 1
        <4>1. m.base # None /\ g \in m.base .. N /\ g \in 1 .. N /\ down'[g] = down[g]
          BY <1>1, <2>2, <3>3 DEF None
        <4>2. down[g].level \in Nat /\ down[g].level <= level
          BY <1>1, <1>2, <4>1 DEF IInv, DownInv, N
        <4>3. down[g].level = level
          <5>1. CASE g = m.base
            BY <1>1, <4>1, <5>1
          <5>2. CASE m.base < g
            <6>1. down[m.base].level <= down[g].level
              BY <1>1, <4>1, <5>2 DEF IInv, DownInv, N
            <6> QED BY <1>1, <1>2, <4>1, <4>2, <6>1
          <5> QED BY <1>1, <4>1, <5>1, <5>2
        <4>4. down[g].kind = "gamestate" => g < m.base
          BY <1>1, <4>1, <4>3 DEF IInv, SnapshotInv, N
        <4> QED BY <1>1, <4>1, <4>4
      <3> QED BY <1>1, <3>1, <3>2, <3>3
    <2>3. ASSUME NEW k \in 1 .. N + 1, NEW n \in 1 .. N + 1, k < n
          PROVE  down'[k].level <= down'[n].level
      <3>1. CASE n \in 1 .. N
        <4>1. k \in 1 .. N /\ down'[k] = down[k] /\ down'[n] = down[n]
          BY <1>1, <2>3, <3>1
        <4>2. down[k].level <= down[n].level
          BY <2>3, <3>1, <4>1 DEF IInv, DownInv, N
        <4> QED BY <4>1, <4>2
      <3>2. CASE n = N + 1
        BY <1>1, <1>2, <2>3, <3>2 DEF IInv, DownInv, N
      <3> QED BY <1>1, <3>1, <3>2
    <2> QED BY <1>1, <1>2, <2>1, <2>2, <2>3 DEF DownInv
  <1>4. KnownInv'
    <2>1. \A n \in heard + 1 .. N + 1 : known <= down'[n].level
      BY <1>1, <1>2, SMTT(20) DEF IInv, KnownInv, N
    <2>2. \A i \in 1 .. Len(up') : up'[i].level <= known
      BY DEF IInv, KnownInv, Behind
    <2>3. \A i, j \in 1 .. Len(up') : i < j => up'[i].level <= up'[j].level
      <3> TAKE i, j \in 1 .. Len(up')
      <3>1. /\ i + o \in 1 .. Len(up) /\ j + o \in 1 .. Len(up)
            /\ i < j => i + o < j + o
            /\ up'[i] = up[i + o] /\ up'[j] = up[j + o]
        BY DEF Behind
      <3> QED BY <3>1 DEF IInv, KnownInv
    <2> QED BY <1>1, <1>2, <2>1, <2>2, <2>3 DEF IInv, KnownInv
  <1>5. SnapshotInv'
    <2> SUFFICES ASSUME state # "ZOMBIE" PROVE SnapshotInv'
      BY DEF SnapshotInv
    <2>1. m.kind = "snapshot" => state = "ACTIVE" /\ known = level
      BY DEF Sends, IInv, StateInv
    <2>2. ASSUME NEW g \in 1 .. N + 1, NEW n \in 1 .. N + 1, down'[g].kind = "gamestate",
                 down'[n].kind = "snapshot", down'[g].level = down'[n].level
          PROVE  g < n
      <3>1. CASE g \in 1 .. N /\ n \in 1 .. N
        BY <1>1, <2>2, <3>1 DEF IInv, SnapshotInv, N
      <3>2. CASE g = N + 1 /\ n \in 1 .. N
        <4>1. state \in {"CONNECTED", "PRIMED"} /\ down[n].level = level
          BY <1>1, <2>2, <3>2 DEF Sends
        <4>2. down[n].level < level
          BY <1>1, <2>2, <3>2, <4>1 DEF IInv, StateInv, N
        <4> QED BY <1>2, <4>1, <4>2
      <3>3. CASE n = N + 1
        BY <1>1, <2>2, <3>3
      <3> QED BY <1>1, <3>1, <3>2, <3>3
    <2>3. \A n \in heard + 1 .. N + 1 : down'[n].kind = "snapshot" => down'[n].level = known
      BY <1>1, <1>2, <2>1 DEF IInv, SnapshotInv, N
    <2>4. \A n \in held : down'[n].kind = "snapshot" /\ down'[n].level = known
      <3> TAKE n \in held
      <3>1. n \in 1 .. N /\ down[n].kind = "snapshot" /\ down[n].level = known
        BY <1>1, <1>2 DEF IInv, SnapshotInv
      <3> QED BY <1>1, <3>1
    <2> QED BY <1>1, <1>2, <2>2, <2>3, <2>4 DEF SnapshotInv
  <1>6. MoveInv'
    <2> SUFFICES ASSUME state # "ZOMBIE", NEW i \in 1 .. Len(up'), up'[i].delta
                 PROVE  /\ up'[i].ack \in 1 .. heard
                        /\ down'[up'[i].ack].kind = "snapshot"
                        /\ down'[up'[i].ack].level = up'[i].level
                        /\ up'[i].level = known => up'[i].ack \in held
      BY <1>2 DEF MoveInv
    <2>1. i + o \in 1 .. Len(up) /\ up'[i] = up[i + o]
      BY DEF Behind
    <2>2. /\ up[i + o].ack \in 1 .. heard
          /\ down[up[i + o].ack].kind = "snapshot"
          /\ down[up[i + o].ack].level = up[i + o].level
          /\ up[i + o].level = known => up[i + o].ack \in held
      BY <2>1 DEF IInv, MoveInv
    <2>3. up[i + o].ack \in 1 .. N
      BY <1>2, <2>2, <1>1
    <2> QED BY <1>1, <2>1, <2>2, <2>3
  <1>7. Readable'
    <2> SUFFICES ASSUME NEW n \in heard + 1 .. N + 1, down'[n].base # None
                 PROVE  down'[n].base \in held /\ n - down'[n].base < Backup
      BY <1>1, <1>2 DEF Readable
    <2>1. CASE n \in heard + 1 .. N
      BY <1>1, <1>2, <2>1 DEF IInv, Readable, N
    <2>2. CASE n = N + 1
      BY <1>1, <2>2
    <2> QED BY <1>1, <1>2, <2>1, <2>2
  <1> QED BY <1>3, <1>4, <1>5, <1>6, <1>7

LEMMA SentState ==
  ASSUME IInv, NEW m, Sends(m), UNCHANGED <<level, state, deltaMessage, up, client>>
  PROVE  StateInv'
  <1>1. /\ Len(down) \in Nat /\ Len(down') = Len(down) + 1
        /\ \A n \in 1 .. Len(down) : down'[n] = down[n]
        /\ down'[Len(down) + 1] = m
    BY SentFacts
  <1>2. level' = level /\ state' = state /\ known' = known /\ held' = held /\ up' = up
        /\ deltaMessage' = deltaMessage
    BY DEF client
  <1>3. state = "ACTIVE" => /\ known = level
                            /\ \A i \in 1 .. Len(up) : up[i].level = level
                            /\ deltaMessage >= 1 => deltaMessage \in held
    BY DEF IInv, StateInv
  <1>4. ASSUME state \in {"CONNECTED", "PRIMED"}, NEW n \in 1 .. Len(down) + 1,
               down'[n].kind = "snapshot"
        PROVE  down'[n].level < level
    <2>1. n \in 1 .. Len(down)
      BY <1>1, <1>4 DEF Sends
    <2> QED BY <1>1, <1>4, <2>1 DEF IInv, StateInv
  <1>5. CASE state \in {"CONNECTED", "PRIMED"}
    BY <1>1, <1>2, <1>4, <1>5 DEF StateInv
  <1>6. CASE state = "ACTIVE"
    BY <1>2, <1>3, <1>6 DEF StateInv
  <1>7. CASE state = "ZOMBIE"
    BY <1>2, <1>7 DEF StateInv
  <1> QED BY <1>5, <1>6, <1>7 DEF IInv, TypeInv

LEMMA SentBase ==
  ASSUME IInv, NEW m, Sends(m),
         m.base # None => /\ m.from.ps = m.base
                          /\ m.from.entities = [i \in 1 .. down[m.base].num |-> m.base]
  PROVE  BaseIntact'
  <1>1. /\ Len(down) \in Nat
        /\ DOMAIN down = 1 .. Len(down) /\ DOMAIN down' = 1 .. Len(down) + 1
        /\ \A n \in 1 .. Len(down) : down'[n] = down[n]
        /\ down'[Len(down) + 1] = m
        /\ m.base # None => m.base \in 1 .. Len(down) /\ down[m.base].kind = "snapshot"
    BY SentFacts
  <1> SUFFICES ASSUME NEW n \in 1 .. Len(down) + 1, down'[n].base # None
               PROVE  LET b == down'[n].base
                      IN  /\ b \in 1 .. n - 1
                          /\ down'[b].kind = "snapshot"
                          /\ down'[n].from.ps = b
                          /\ down'[n].from.entities = [i \in 1 .. down'[b].num |-> b]
    BY <1>1 DEF BaseIntact
  <1>2. CASE n \in 1 .. Len(down)
    <2> DEFINE b == down[n].base
    <2>1. /\ b \in 1 .. n - 1
          /\ down[b].kind = "snapshot"
          /\ down[n].from.ps = b
          /\ down[n].from.entities = [i \in 1 .. down[b].num |-> b]
      BY <1>1, <1>2 DEF IInv, BaseIntact
    <2>2. down'[n] = down[n] /\ b \in 1 .. Len(down) /\ down'[b] = down[b]
      BY <1>1, <1>2, <2>1
    <2> QED BY <2>1, <2>2
  <1>3. CASE n = Len(down) + 1
    <2>1. m.base # None /\ down'[n] = m
      BY <1>1, <1>3
    <2>2. down'[m.base] = down[m.base] /\ m.base \in 1 .. n - 1
      BY <1>1, <1>3, <2>1
    <2> QED BY <1>1, <2>1, <2>2
  <1> QED BY <1>1, <1>2, <1>3

-----------------------------------------------------------------------------
(* The rings *)

\* Storing more keeps what is behind a frame, as long as it was not overwritten.
LEMMA StoresKeep ==
  ASSUME Sizes, IInv, state # "ZOMBIE", NEW num \in Nat, NEW mark \in Nat,
         Stores(num, mark)
  PROVE  /\ nextSnapshotEntities' = nextSnapshotEntities + num
         /\ nextSnapshotClients' \in Nat
         /\ snapshotEntities' \in [0 .. RingSize - 1 -> Nat]
         /\ \A k \in nextSnapshotEntities .. nextSnapshotEntities + num - 1 :
              snapshotEntities'[k % RingSize] = mark
         /\ \A n \in 1 .. Len(down) :
              /\ down[n].kind = "snapshot" /\ Len(down) < n + Backup
              /\ down[n].level = level
              => LET frame == frames[n % Backup]
                 IN  /\ frame.first_entity + frame.num_entities <= nextSnapshotEntities'
                     /\ nextSnapshotEntities' <= frame.first_entity + RingSize =>
                          \A k \in frame.first_entity ..
                                   frame.first_entity + frame.num_entities - 1 :
                            snapshotEntities'[k % RingSize] = n
  <1>1. RingSize \in Nat \ {0} /\ Backup \in Nat \ {0} /\ TypeInv
    BY DEF IInv, Sizes
  <1>2. /\ nextSnapshotEntities \in Nat
        /\ nextSnapshotEntities' = nextSnapshotEntities + num
        /\ nextSnapshotClients' \in Nat
        /\ snapshotEntities' \in [0 .. RingSize - 1 -> Nat]
    BY <1>1, StoredFacts
  <1>3. /\ \A k \in nextSnapshotEntities .. nextSnapshotEntities + num - 1 :
             snapshotEntities'[k % RingSize] = mark
        /\ \A k \in Nat : /\ k < nextSnapshotEntities
                          /\ nextSnapshotEntities + num <= k + RingSize
             => snapshotEntities'[k % RingSize] = snapshotEntities[k % RingSize]
    BY <1>1, StoredFacts
  <1>4. ASSUME NEW n \in 1 .. Len(down), down[n].kind = "snapshot",
               Len(down) < n + Backup, down[n].level = level
        PROVE  LET frame == frames[n % Backup]
               IN  /\ frame.first_entity + frame.num_entities <= nextSnapshotEntities'
                   /\ nextSnapshotEntities' <= frame.first_entity + RingSize =>
                        \A k \in frame.first_entity ..
                                 frame.first_entity + frame.num_entities - 1 :
                          snapshotEntities'[k % RingSize] = n
    <2> DEFINE frame == frames[n % Backup]
               f == frame.first_entity
               l == frame.num_entities
    <2>1. f \in Nat /\ l \in Nat
      <3>1. n % Backup \in 0 .. Backup - 1
        <4>1. n \in Nat
          BY DEF IInv, TypeInv
        <4> QED BY <1>1, <4>1, SlotRange
      <3>2. frame \in Frames
        BY <3>1 DEF IInv, TypeInv
      <3> QED BY <3>2 DEF Frames
    <2>2. /\ f + l <= nextSnapshotEntities
          /\ nextSnapshotEntities <= f + RingSize =>
               \A k \in f .. f + l - 1 : snapshotEntities[k % RingSize] = n
      BY <1>4 DEF IInv, RingInv
    <2> HIDE DEF f, l, frame
    <2>3. f + l <= nextSnapshotEntities'
      BY <1>1, <1>2, <2>1, <2>2
    <2>4. ASSUME nextSnapshotEntities' <= f + RingSize, NEW k \in f .. f + l - 1
          PROVE  snapshotEntities'[k % RingSize] = n
      <3>1. /\ k \in Nat /\ k < nextSnapshotEntities
            /\ nextSnapshotEntities + num <= k + RingSize
            /\ nextSnapshotEntities <= f + RingSize
        BY <1>1, <1>2, <2>1, <2>2, <2>4
      <3>2. snapshotEntities[k % RingSize] = n
        BY <2>2, <3>1
      <3> QED BY <1>3, <3>1, <3>2
    <2> QED BY <2>3, <2>4 DEF f, l, frame
  <1> QED BY <1>1, <1>2, <1>3, <1>4

LEMMA OthersSnapshotKeeps ==
  ASSUME Sizes, IInv, OthersSnapshot
  PROVE  IInv'
  <1>1. PICK num \in 0 .. MaxEntities : Stores(num, Others)
    BY DEF OthersSnapshot
  <1>2. num \in Nat /\ Others \in Nat
    BY DEF Sizes, Others
  <1>3. UNCHANGED <<level, state, down, deltaMessage, gamestateMessageNum, frames, up,
                    known, heard, held>>
    BY DEF OthersSnapshot, client
  <1>4. /\ nextSnapshotEntities' \in Nat /\ nextSnapshotClients' \in Nat
        /\ snapshotEntities' \in [0 .. RingSize - 1 -> Nat]
    <2>1. TypeInv
      BY DEF IInv
    <2>2. /\ nextSnapshotEntities \in Nat
          /\ nextSnapshotEntities' = nextSnapshotEntities + num
          /\ nextSnapshotClients' \in Nat
          /\ snapshotEntities' \in [0 .. RingSize - 1 -> Nat]
      BY <1>1, <1>2, <2>1, StoredFacts
    <2> QED BY <1>2, <2>2
  <1>5. TypeInv'
    BY <1>3, <1>4 DEF IInv, TypeInv
  <1>6. RingInv'
    <2> SUFFICES ASSUME state # "ZOMBIE" PROVE RingInv'
      BY <1>3 DEF RingInv
    <2>1. \A n \in 1 .. Len(down) :
              /\ down[n].kind = "snapshot" /\ Len(down) < n + Backup
              /\ down[n].level = level
              => LET frame == frames[n % Backup]
                 IN  /\ frame.first_entity + frame.num_entities <= nextSnapshotEntities'
                     /\ nextSnapshotEntities' <= frame.first_entity + RingSize =>
                          \A k \in frame.first_entity ..
                                   frame.first_entity + frame.num_entities - 1 :
                            snapshotEntities'[k % RingSize] = n
      BY <1>1, <1>2, StoresKeep
    <2> QED BY <1>3, <2>1 DEF IInv, RingInv
  <1>7. DownInv' /\ KnownInv' /\ StateInv' /\ SnapshotInv' /\ MoveInv'
    BY <1>3 DEF IInv, DownInv, KnownInv, StateInv, SnapshotInv, MoveInv
  <1>8. BaseIntact' /\ Readable'
    BY <1>3 DEF IInv, BaseIntact, Readable
  <1> QED BY <1>5, <1>6, <1>7, <1>8 DEF IInv

\* The state variables a message of the server leaves as they are.
LEMMA SentTypes ==
  ASSUME IInv, NEW m, Sends(m), UNCHANGED <<level, state, deltaMessage,
         gamestateMessageNum, up, client>>,
         frames' \in [0 .. Backup - 1 -> Frames],
         nextSnapshotEntities' \in Nat, nextSnapshotClients' \in Nat,
         snapshotEntities' \in [0 .. RingSize - 1 -> Nat]
  PROVE  TypeInv'
  <1>1. IsSequence(down') /\ Len(down) \in Nat /\ Len(down') = Len(down) + 1
    BY SentFacts
  <1>2. heard \in 0 .. Len(down) /\ held \subseteq 1 .. heard /\ known \in Nat
    BY DEF IInv, TypeInv
  <1>3. heard' \in 0 .. Len(down') /\ held' \subseteq 1 .. heard' /\ known' \in Nat
    BY <1>1, <1>2 DEF client
  <1>4. Len(down') \in Nat
    BY <1>1
  <1> QED BY <1>1, <1>3, <1>4 DEF IInv, TypeInv

-----------------------------------------------------------------------------
(* A snapshot of the client *)

LEMMA FrameOf ==
  ASSUME Sizes, IInv, NEW n \in Nat
  PROVE  /\ n % Backup \in 0 .. Backup - 1
         /\ frames[n % Backup] \in Frames
         /\ frames[n % Backup].first_entity \in Nat
         /\ frames[n % Backup].num_entities \in Nat
  <1>1. n % Backup \in 0 .. Backup - 1
    BY SlotRange DEF Sizes
  <1>2. frames[n % Backup] \in Frames
    BY <1>1 DEF IInv, TypeInv
  <1> QED BY <1>1, <1>2 DEF Frames

\* Building a snapshot writes the slot of the message that is sent, and of no
\* snapshot that a later message can be a difference to.
LEMMA Built ==
  ASSUME Sizes, IInv, state = "ACTIVE", NEW num \in 0 .. MaxEntities,
         BuildClientSnapshot(num)
  PROVE  LET n == Len(down) + 1
         IN  /\ frames' \in [0 .. Backup - 1 -> Frames]
             /\ frames'[n % Backup].ps = n
             /\ frames'[n % Backup].first_entity = nextSnapshotEntities
             /\ frames'[n % Backup].num_entities = num
             /\ \A k \in 1 .. Len(down) : n < k + Backup =>
                  frames'[k % Backup] = frames[k % Backup]
             /\ Stores(num, n) /\ n \in Nat /\ num \in Nat
  <1> DEFINE n == Len(down) + 1
             new == [ps |-> n, first_entity |-> nextSnapshotEntities, num_entities |-> num,
                     first_client |-> nextSnapshotClients, num_clients |-> Players]
  <1>1. /\ n \in Nat /\ Len(down) \in Nat /\ num \in Nat
        /\ Backup \in Nat \ {0} /\ Players \in Nat
        /\ nextSnapshotEntities \in Nat /\ nextSnapshotClients \in Nat
        /\ frames \in [0 .. Backup - 1 -> Frames]
    BY DEF IInv, TypeInv, Sizes
  <1>2. new \in Frames /\ new.ps = n /\ new.first_entity = nextSnapshotEntities
        /\ new.num_entities = num
    BY <1>1 DEF Frames
  <1>3. frames' = [frames EXCEPT ![n % Backup] = new] /\ Stores(num, n)
    BY DEF BuildClientSnapshot, Slot, outgoingSequence
  <1> HIDE DEF new, n
  <1>4. n % Backup \in 0 .. Backup - 1
    BY <1>1, SlotRange
  <1>5. frames' \in [0 .. Backup - 1 -> Frames] /\ frames'[n % Backup] = new
    BY <1>1, <1>2, <1>3, <1>4
  <1>6. ASSUME NEW k \in 1 .. Len(down), n < k + Backup
        PROVE  frames'[k % Backup] = frames[k % Backup]
    <2>1. k \in Nat /\ k < n
      BY <1>1 DEF n
    <2>2. k % Backup \in 0 .. Backup - 1 /\ k % Backup # n % Backup
      BY <1>1, <1>6, <2>1, SlotRange, SlotsDiffer
    <2> QED BY <1>1, <1>3, <2>2
  <1> QED BY <1>1, <1>2, <1>3, <1>5, <1>6 DEF n

\* What is behind the frames after a snapshot was built.
LEMMA BuiltRing ==
  ASSUME Sizes, IInv, state = "ACTIVE", NEW num \in 0 .. MaxEntities,
         BuildClientSnapshot(num),
         NEW n \in 1 .. Len(down), down[n].kind = "snapshot", Len(down) + 1 < n + Backup
  PROVE  LET frame == frames'[n % Backup]
         IN  /\ frame = frames[n % Backup]
             /\ frame.ps = n
             /\ frame.num_entities = down[n].num
             /\ down[n].level = level =>
                  /\ frame.first_entity + frame.num_entities <= nextSnapshotEntities'
                  /\ nextSnapshotEntities' <= frame.first_entity + RingSize =>
                       \A k \in frame.first_entity ..
                                frame.first_entity + frame.num_entities - 1 :
                         snapshotEntities'[k % RingSize] = n
  <1> DEFINE frame == frames[n % Backup]
  <1>1. frames'[n % Backup] = frame /\ Stores(num, Len(down) + 1)
        /\ Len(down) + 1 \in Nat /\ num \in Nat
    BY Built
  <1>2. Len(down) < n + Backup
    BY DEF IInv, TypeInv, Sizes
  <1>3. frame.ps = n /\ frame.num_entities = down[n].num
    BY <1>2 DEF IInv, RingInv
  <1>4. down[n].level = level =>
          /\ frame.first_entity + frame.num_entities <= nextSnapshotEntities'
          /\ nextSnapshotEntities' <= frame.first_entity + RingSize =>
               \A k \in frame.first_entity ..
                        frame.first_entity + frame.num_entities - 1 :
                 snapshotEntities'[k % RingSize] = n
    BY <1>1, <1>2, StoresKeep
  <1> QED BY <1>1, <1>3, <1>4

\* A base that is chosen is intact: its slot, and all entities behind it.
LEMMA BaseFacts ==
  ASSUME Sizes, IInv, state = "ACTIVE", NEW num \in 0 .. MaxEntities,
         BuildClientSnapshot(num), Base # None
  PROVE  /\ Base = deltaMessage /\ Base >= 1
         /\ Len(down) + 1 - Base < Backup
         /\ From(Base).ps = Base
         /\ From(Base).entities = [i \in 1 .. down[Base].num |-> Base]
  <1> DEFINE b == deltaMessage
             N == Len(down)
             frame == frames'[b % Backup]
  <1>1. /\ Base = b /\ b \in Int /\ ~(b < 1)
        /\ ~(N + 1 - b >= Backup - Margin)
        /\ ~(frame.first_entity < nextSnapshotEntities' - RingSize)
    BY DEF Base, TooOld, OutOfDate, Slot, outgoingSequence, IInv, TypeInv
  <1>2. N \in Nat /\ Backup \in Nat /\ Margin \in Nat /\ RingSize \in Nat \ {0}
    BY DEF Sizes, IInv, TypeInv
  <1>3. b >= 1 /\ N + 1 - b < Backup
    BY <1>1, <1>2
  <1>4. b \in held /\ known = level
    BY <1>3 DEF IInv, StateInv
  <1>5. b \in 1 .. N
    <2>1. held \subseteq 1 .. heard /\ heard \in 0 .. N
      BY DEF IInv, TypeInv
    <2>2. b \in 1 .. heard
      BY <1>4, <2>1
    <2> QED BY <1>2, <2>1, <2>2
  <1>6. down[b].kind = "snapshot" /\ down[b].level = level
    BY <1>4 DEF IInv, SnapshotInv
  <1>7. N + 1 < b + Backup
    BY <1>2, <1>3, <1>1
  <1>8. /\ frame = frames[b % Backup]
        /\ frame.ps = b
        /\ frame.num_entities = down[b].num
        /\ frame.first_entity + frame.num_entities <= nextSnapshotEntities'
        /\ nextSnapshotEntities' <= frame.first_entity + RingSize =>
             \A k \in frame.first_entity .. frame.first_entity + frame.num_entities - 1 :
               snapshotEntities'[k % RingSize] = b
    BY <1>5, <1>6, <1>7, BuiltRing
  <1>9. frame.first_entity \in Nat /\ frame.num_entities \in Nat
    <2>1. b \in Nat
      BY <1>1, <1>3
    <2> QED BY <1>8, <2>1, FrameOf
  <1>10. nextSnapshotEntities' \in Nat
    <2>1. TypeInv /\ Stores(num, N + 1) /\ N + 1 \in Nat /\ num \in Nat
      BY Built DEF IInv
    <2>2. nextSnapshotEntities' = nextSnapshotEntities + num /\ nextSnapshotEntities \in Nat
      BY <2>1, StoredFacts
    <2> QED BY <2>1, <2>2
  <1>11. \A k \in frame.first_entity .. frame.first_entity + frame.num_entities - 1 :
           snapshotEntities'[k % RingSize] = b
    <2>1. nextSnapshotEntities' \in Nat /\ frame.first_entity \in Nat /\ RingSize \in Nat
      BY <1>2, <1>9, <1>10
    <2>2. ~(frame.first_entity < nextSnapshotEntities' - RingSize)
      BY <1>1
    <2> HIDE DEF frame
    <2>3. nextSnapshotEntities' <= frame.first_entity + RingSize
      BY <2>1, <2>2
    <2> QED BY <1>8, <2>3
  <1>12. From(b).ps = b /\ From(b).entities = Entities(frame)
    BY <1>3, <1>8 DEF From, Slot, None
  <1>13. Entities(frame) = [i \in 1 .. down[b].num |-> b]
    <2>1. \A i \in 1 .. frame.num_entities :
            snapshotEntities'[(frame.first_entity + i - 1) % RingSize] = b
      <3> TAKE i \in 1 .. frame.num_entities
      <3>1. frame.first_entity + i - 1 \in
              frame.first_entity .. frame.first_entity + frame.num_entities - 1
        BY <1>9
      <3> QED BY <1>11, <3>1
    <2> QED BY <1>8, <2>1 DEF Entities
  <1> QED BY <1>1, <1>3, <1>12, <1>13

LEMMA SendSnapshotKeeps ==
  ASSUME Sizes, IInv, SendClientSnapshot
  PROVE  IInv'
  <1>1. UNCHANGED <<level, state, deltaMessage, gamestateMessageNum, up, client>>
    BY DEF SendClientSnapshot
  <1>2. up \in Seq(Moves) /\ Behind(up', 0)
    BY <1>1, BehindFacts DEF IInv, TypeInv
  \* What holds after any message, given the message and the frames.
  <1>3. ASSUME NEW m, Sends(m), TypeInv', RingInv',
               m.base # None => /\ m.from.ps = m.base
                                /\ m.from.entities = [i \in 1 .. down[m.base].num |-> m.base]
        PROVE  IInv'
    <2>1. DownInv' /\ KnownInv' /\ SnapshotInv' /\ MoveInv' /\ Readable'
      BY <1>1, <1>2, <1>3, SentKeeps
    <2>2. StateInv' /\ BaseIntact'
      BY <1>1, <1>3, SentState, SentBase
    <2> QED BY <1>3, <2>1, <2>2 DEF IInv
  <1>4. ASSUME down' = Append(down, Other)
        PROVE  Sends(Other) /\ Other.base = None /\ Other.kind = "other"
    BY <1>4 DEF Sends, Other, None
  <1>5. CASE state \notin {"ACTIVE", "ZOMBIE"}
    <2>1. down' = Append(down, Other) /\ UNCHANGED <<frames, rings>>
      BY <1>5 DEF SendClientSnapshot
    <2>2. TypeInv'
      BY <1>1, <1>4, <2>1, SentTypes DEF IInv, TypeInv, rings
    <2>3. RingInv'
      <3>1. /\ Len(down) \in Nat /\ Len(down') = Len(down) + 1
            /\ \A n \in 1 .. Len(down) : down'[n] = down[n]
            /\ down'[Len(down) + 1] = Other
        BY <1>4, <2>1, SentFacts
      <3>2. state' = state /\ level' = level /\ frames' = frames
            /\ nextSnapshotEntities' = nextSnapshotEntities
            /\ snapshotEntities' = snapshotEntities
        BY <1>1, <2>1 DEF rings
      <3>3. Backup \in Nat
        BY DEF Sizes
      <3>4. \A n \in 1 .. Len(down) : Len(down) + 1 < n + Backup => Len(down) < n + Backup
        BY <3>1, <3>3
      <3>5. \A n \in 1 .. Len(down) + 1 : n \in 1 .. Len(down) \/ n = Len(down) + 1
        BY <3>1
      <3> QED BY <1>4, <2>1, <3>1, <3>2, <3>4, <3>5 DEF IInv, RingInv
    <2> QED BY <1>3, <1>4, <2>1, <2>2, <2>3
  <1>6. CASE state = "ZOMBIE"
    <2>1. PICK num \in 0 .. MaxEntities :
            /\ BuildClientSnapshot(num)
            /\ \/ down' = Append(down, Message("snapshot", Base, num))
               \/ down' = Append(down, Other)
      BY <1>6 DEF SendClientSnapshot
    <2>2. frames' \in [0 .. Backup - 1 -> Frames] /\ UNCHANGED rings
      <3> DEFINE s == (Len(down) + 1) % Backup
                 emptied == [frames[s] EXCEPT !.num_entities = 0, !.num_clients = 0]
      <3>1. /\ frames' = [frames EXCEPT ![s].num_entities = 0, ![s].num_clients = 0]
            /\ UNCHANGED rings
        BY <1>6, <2>1 DEF BuildClientSnapshot, Slot, outgoingSequence
      <3>2. Len(down) + 1 \in Nat
        BY DEF IInv, TypeInv
      <3>3. s \in 0 .. Backup - 1 /\ frames[s] \in Frames
        BY <3>2, FrameOf
      <3>4. frames \in [0 .. Backup - 1 -> Frames]
        BY DEF IInv, TypeInv
      <3> HIDE DEF s
      <3>5. frames' = [frames EXCEPT ![s] = emptied]
        BY <3>1, <3>3, <3>4
      <3>6. emptied \in Frames
        BY <3>3 DEF Frames
      <3> QED BY <3>1, <3>3, <3>4, <3>5, <3>6
    <2>3. RingInv'
      BY <1>1, <1>6 DEF RingInv
    <2>4. Base = None
      BY <1>6 DEF Base
    <2>5. CASE down' = Append(down, Other)
      <3>1. TypeInv'
        BY <1>1, <1>4, <2>2, <2>5, SentTypes DEF IInv, TypeInv, rings
      <3> QED BY <1>3, <1>4, <2>3, <2>5, <3>1
    <2>6. CASE down' = Append(down, Message("snapshot", Base, num))
      <3> DEFINE m == Message("snapshot", Base, num)
      <3>1. m.kind = "snapshot" /\ m.base = None /\ m.level = level /\ m.num = num
        BY <2>4 DEF Message
      <3>2. num \in Nat
        BY DEF Sizes
      <3> HIDE DEF m
      <3>3. Sends(m)
        BY <1>6, <2>6, <3>1, <3>2 DEF Sends, m
      <3>4. TypeInv'
        BY <1>1, <2>2, <3>3, SentTypes DEF IInv, TypeInv, rings
      <3> QED BY <1>3, <2>3, <3>1, <3>3, <3>4
    <2> QED BY <2>1, <2>5, <2>6
  <1>7. CASE state = "ACTIVE"
    <2>1. PICK num \in 0 .. MaxEntities :
            /\ BuildClientSnapshot(num)
            /\ \/ down' = Append(down, Message("snapshot", Base, num))
               \/ down' = Append(down, Other)
      BY <1>7 DEF SendClientSnapshot
    <2> DEFINE N == Len(down)
    <2>2. /\ frames' \in [0 .. Backup - 1 -> Frames]
          /\ frames'[(N + 1) % Backup].ps = N + 1
          /\ frames'[(N + 1) % Backup].first_entity = nextSnapshotEntities
          /\ frames'[(N + 1) % Backup].num_entities = num
          /\ Stores(num, N + 1) /\ N + 1 \in Nat /\ num \in Nat
      BY <1>7, <2>1, Built
    <2>3. /\ nextSnapshotEntities \in Nat
          /\ nextSnapshotEntities' = nextSnapshotEntities + num
          /\ nextSnapshotClients' \in Nat
          /\ snapshotEntities' \in [0 .. RingSize - 1 -> Nat]
          /\ \A k \in nextSnapshotEntities .. nextSnapshotEntities + num - 1 :
               snapshotEntities'[k % RingSize] = N + 1
      BY <2>2, StoredFacts DEF IInv
    <2>4. nextSnapshotEntities' \in Nat
      BY <2>2, <2>3
    <2>5. ASSUME NEW m, Sends(m), m.kind = "snapshot" => m.num = num
          PROVE  TypeInv' /\ RingInv'
      <3>1. TypeInv'
        BY <1>1, <2>2, <2>3, <2>4, <2>5, SentTypes
      <3>2. /\ N \in Nat /\ Len(down') = N + 1
            /\ \A n \in 1 .. N : down'[n] = down[n]
            /\ down'[N + 1] = m
        BY <2>5, SentFacts
      <3>3. level' = level
        BY <1>1
      <3>4. ASSUME NEW n \in 1 .. N + 1, down'[n].kind = "snapshot", N + 1 < n + Backup
            PROVE  LET frame == frames'[n % Backup]
                   IN  /\ frame.ps = n
                       /\ frame.num_entities = down'[n].num
                       /\ down'[n].level = level =>
                            /\ frame.first_entity + frame.num_entities
                                  <= nextSnapshotEntities'
                            /\ nextSnapshotEntities' <= frame.first_entity + RingSize =>
                                 \A k \in frame.first_entity ..
                                          frame.first_entity + frame.num_entities - 1 :
                                   snapshotEntities'[k % RingSize] = n
        <4>1. CASE n \in 1 .. N
          <5>1. down'[n] = down[n]
            BY <3>2, <4>1
          <5> QED BY <1>7, <2>1, <3>4, <4>1, <5>1, BuiltRing
        <4>2. CASE n = N + 1
          BY <2>2, <2>3, <2>4, <2>5, <3>2, <3>4, <4>2
        <4> QED BY <3>2, <4>1, <4>2
      <3> HIDE DEF N
      <3>5. RingInv'
        BY <3>2, <3>3, <3>4 DEF RingInv
      <3> QED BY <3>1, <3>5
    <2>6. CASE down' = Append(down, Other)
      BY <1>3, <1>4, <2>5, <2>6
    <2>7. CASE down' = Append(down, Message("snapshot", Base, num))
      <3> DEFINE m == Message("snapshot", Base, num)
      <3>1. /\ m.kind = "snapshot" /\ m.base = Base /\ m.level = level /\ m.num = num
            /\ m.from = From(Base)
        BY DEF Message
      <3> HIDE DEF m
      <3>2. Base # None => /\ Base = deltaMessage /\ Base >= 1
                           /\ N + 1 - Base < Backup
                           /\ From(Base).ps = Base
                           /\ From(Base).entities = [i \in 1 .. down[Base].num |-> Base]
        BY <1>7, <2>1, BaseFacts
      <3>3. Sends(m)
        BY <1>7, <2>2, <2>7, <3>1, <3>2 DEF Sends, m
      <3> QED BY <1>3, <2>5, <3>1, <3>2, <3>3
    <2> QED BY <2>1, <2>6, <2>7
  <1> QED BY <1>5, <1>6, <1>7 DEF IInv, TypeInv

-----------------------------------------------------------------------------
(* The client's messages *)

\* A message without a snapshot leaves the rings as they are.
LEMMA OtherRing ==
  ASSUME Sizes, IInv, state # "ZOMBIE", NEW m, Sends(m), m.kind # "snapshot",
         UNCHANGED <<level, frames, rings>>
  PROVE  RingInv'
  <1>1. /\ Len(down) \in Nat /\ Len(down') = Len(down) + 1
        /\ \A n \in 1 .. Len(down) : down'[n] = down[n]
        /\ down'[Len(down) + 1] = m
    BY SentFacts
  <1>2. /\ level' = level /\ frames' = frames
        /\ nextSnapshotEntities' = nextSnapshotEntities
        /\ snapshotEntities' = snapshotEntities
    BY DEF rings
  <1>3. Backup \in Nat
    BY DEF Sizes
  <1>4. \A n \in 1 .. Len(down) : Len(down) + 1 < n + Backup => Len(down) < n + Backup
    BY <1>1, <1>3
  <1>5. \A n \in 1 .. Len(down) + 1 : n \in 1 .. Len(down) \/ n = Len(down) + 1
    BY <1>1
  <1> QED BY <1>1, <1>2, <1>4, <1>5 DEF IInv, RingInv

\* Some moves are gone and no message was sent: all but the state of the client
\* on the server is as it was.
LEMMA QuietKeeps ==
  ASSUME IInv, UNCHANGED <<level, down, gamestateMessageNum, frames, rings, client>>,
         state' \in {"CONNECTED", "PRIMED", "ACTIVE", "ZOMBIE"},
         state = "ZOMBIE" => state' = "ZOMBIE", deltaMessage' \in Int,
         up' \in Seq(Moves), NEW o \in Nat, Behind(up', o), StateInv'
  PROVE  IInv'
  <1>1. /\ level' = level /\ down' = down /\ frames' = frames
        /\ gamestateMessageNum' = gamestateMessageNum
        /\ nextSnapshotEntities' = nextSnapshotEntities
        /\ snapshotEntities' = snapshotEntities
        /\ nextSnapshotClients' = nextSnapshotClients
        /\ known' = known /\ heard' = heard /\ held' = held
    BY DEF rings, client
  <1>2. TypeInv'
    BY <1>1 DEF IInv, TypeInv
  <1>3. DownInv' /\ BaseIntact' /\ Readable'
    BY <1>1 DEF IInv, DownInv, BaseIntact, Readable
  <1>4. SnapshotInv' /\ RingInv'
    BY <1>1 DEF IInv, SnapshotInv, RingInv
  <1>5. KnownInv'
    <2>1. \A i \in 1 .. Len(up') : up'[i].level <= known
      BY DEF IInv, KnownInv, Behind
    <2>2. \A i, j \in 1 .. Len(up') : i < j => up'[i].level <= up'[j].level
      <3> TAKE i, j \in 1 .. Len(up')
      <3>1. /\ i + o \in 1 .. Len(up) /\ j + o \in 1 .. Len(up)
            /\ i < j => i + o < j + o
            /\ up'[i] = up[i + o] /\ up'[j] = up[j + o]
        BY DEF Behind
      <3> QED BY <3>1 DEF IInv, KnownInv
    <2> QED BY <1>1, <2>1, <2>2 DEF IInv, KnownInv
  <1>6. MoveInv'
    <2>1. \A i \in 1 .. Len(up') : i + o \in 1 .. Len(up) /\ up'[i] = up[i + o]
      BY DEF Behind
    <2> QED BY <1>1, <2>1 DEF IInv, MoveInv
  <1> QED BY <1>2, <1>3, <1>4, <1>5, <1>6 DEF IInv

LEMMA MoveTypes ==
  ASSUME up \in Seq(Moves), NEW i \in 1 .. Len(up)
  PROVE  up[i].level \in Nat /\ up[i].ack \in Nat
  <1>1. up[i] \in Moves
    BY ElementOfSeq
  <1> QED BY <1>1 DEF Moves

\* The levels of a move that is for this level, and of the later ones.
LEMMA MoveFacts ==
  ASSUME IInv, NEW i \in 1 .. Len(up), up[i].level = level,
         Behind(up', i)
  PROVE  known = level /\ \A j \in 1 .. Len(up') : up'[j].level = level
  <1>1. level \in Nat /\ known \in Nat /\ known <= level /\ up[i].level <= known
        /\ up \in Seq(Moves)
    BY DEF IInv, TypeInv, KnownInv
  <1>2. known = level
    BY <1>1
  <1>3. ASSUME NEW j \in 1 .. Len(up')
        PROVE  up'[j].level = level
    <2>1. j + i \in 1 .. Len(up) /\ i < j + i /\ up'[j] = up[j + i]
      BY DEF Behind
    <2>2. up[i].level <= up[j + i].level /\ up[j + i].level <= known
      BY <2>1 DEF IInv, KnownInv
    <2>3. up[j + i].level \in Nat
      BY <1>1, <2>1, MoveTypes
    <2> QED BY <1>1, <1>2, <2>1, <2>2, <2>3
  <1> QED BY <1>2, <1>3

\* Moves that are dropped do not change what is known of the others.
LEMMA IgnoredState ==
  ASSUME IInv, UNCHANGED <<level, state, down, deltaMessage, client>>,
         NEW o \in Nat, Behind(up', o)
  PROVE  StateInv'
  <1>1. /\ level' = level /\ state' = state /\ down' = down
        /\ deltaMessage' = deltaMessage
        /\ known' = known /\ heard' = heard /\ held' = held
    BY DEF client
  <1>2. \A i \in 1 .. Len(up') : i + o \in 1 .. Len(up) /\ up'[i] = up[i + o]
    BY DEF Behind
  <1> QED BY <1>1, <1>2 DEF IInv, StateInv

LEMMA PacketEventKeeps ==
  ASSUME Sizes, IInv, NEW i \in DOMAIN up, PacketEvent(i)
  PROVE  IInv'
  <1>1. /\ up \in Seq(Moves) /\ deltaMessage \in Int /\ gamestateMessageNum \in Int
        /\ state \in {"CONNECTED", "PRIMED", "ACTIVE", "ZOMBIE"}
    BY DEF IInv, TypeInv
  <1>2. i \in 1 .. Len(up) /\ i \in Nat
    BY <1>1
  <1>3. up' \in Seq(Moves) /\ Behind(up', i)
    BY <1>1, <1>2, BehindFacts DEF PacketEvent
  <1>4. UNCHANGED <<level, frames, rings, client>>
    BY DEF PacketEvent
  <1>5. CASE Ignored
    <2>1. StateInv'
      BY <1>2, <1>3, <1>4, <1>5, IgnoredState DEF Ignored
    <2> QED BY <1>1, <1>2, <1>3, <1>4, <1>5, <2>1, QuietKeeps DEF Ignored
  <1>6. CASE state # "ZOMBIE" /\ up[i].level = level /\ UserMove(up[i])
    <2>1. known = level /\ \A j \in 1 .. Len(up') : up'[j].level = level
      BY <1>2, <1>3, <1>6, MoveFacts
    <2>2. down' = down /\ gamestateMessageNum' = gamestateMessageNum
      BY <1>6 DEF UserMove
    <2>3. level' = level /\ known' = known /\ heard' = heard /\ held' = held
      BY <1>4 DEF client
    <2>4. CASE state = "PRIMED"
      <3>1. state' = "ACTIVE" /\ deltaMessage' = -1
        BY <1>6, <2>4 DEF UserMove, ClientEnterWorld
      <3>2. StateInv'
        BY <2>1, <2>3, <3>1 DEF StateInv
      <3> QED BY <1>2, <1>3, <1>4, <1>6, <2>2, <3>1, <3>2, QuietKeeps
    <2>5. CASE state # "PRIMED"
      <3>1. /\ state' = state
            /\ deltaMessage' = IF state = "ACTIVE" /\ up[i].delta THEN up[i].ack ELSE -1
        BY <1>6, <2>5 DEF UserMove
      <3>2. up[i].ack \in Nat
        BY <1>1, <1>2, MoveTypes
      <3>3. state = "ACTIVE" /\ up[i].delta => up[i].ack \in held
        BY <1>2, <1>6, <2>1 DEF IInv, MoveInv
      <3>4. deltaMessage' \in Int
        BY <3>1, <3>2
      <3>5. StateInv'
        <4>1. CASE state = "ACTIVE"
          BY <2>1, <2>3, <3>1, <3>3, <4>1 DEF StateInv
        <4>2. CASE state # "ACTIVE"
          BY <2>2, <2>3, <3>1, <4>2 DEF IInv, StateInv
        <4> QED BY <4>1, <4>2
      <3> QED BY <1>1, <1>2, <1>3, <1>4, <1>6, <2>2, <3>1, <3>4, <3>5, QuietKeeps
    <2> QED BY <2>4, <2>5
  <1>7. CASE state # "ZOMBIE" /\ up[i].level # level /\ SendClientGameState
    <2> DEFINE g == [Other EXCEPT !.kind = "gamestate"]
    <2>1. state \in {"CONNECTED", "PRIMED"}
      BY <1>1, <1>2, <1>7 DEF IInv, StateInv
    <2>2. /\ g.kind = "gamestate" /\ g.level = level /\ g.base = None /\ g.num = 0
          /\ down' = Append(down, g) /\ state' = "PRIMED"
          /\ gamestateMessageNum' = Len(down) + 1 /\ deltaMessage' = deltaMessage
      BY <1>7 DEF SendClientGameState, Other, outgoingSequence
    <2> HIDE DEF g
    <2>3. Sends(g)
      BY <2>1, <2>2 DEF Sends
    <2>4. /\ IsSequence(down') /\ Len(down) \in Nat /\ Len(down') = Len(down) + 1
          /\ \A n \in 1 .. Len(down) : down'[n] = down[n]
          /\ down'[Len(down) + 1] = g
      BY <2>3, SentFacts
    <2>5. /\ level' = level /\ known' = known /\ heard' = heard /\ held' = held
          /\ frames' = frames /\ nextSnapshotEntities' = nextSnapshotEntities
          /\ nextSnapshotClients' = nextSnapshotClients
          /\ snapshotEntities' = snapshotEntities
      BY <1>4 DEF client, rings
    <2>6. TypeInv'
      <3>1. heard \in 0 .. Len(down) /\ held \subseteq 1 .. heard
        BY DEF IInv, TypeInv
      <3>2. heard' \in 0 .. Len(down') /\ held' \subseteq 1 .. heard' /\ Len(down') \in Nat
        BY <2>4, <2>5, <3>1
      <3>3. gamestateMessageNum' \in Int
        BY <2>2, <2>4
      <3> QED BY <1>3, <2>2, <2>4, <2>5, <3>2, <3>3 DEF IInv, TypeInv
    <2>7. DownInv' /\ KnownInv' /\ SnapshotInv' /\ MoveInv' /\ Readable'
      BY <1>2, <1>3, <1>4, <1>7, <2>2, <2>3, SentKeeps
    <2>8. StateInv'
      <3>1. \A n \in 1 .. Len(down) + 1 : down'[n].kind = "snapshot" => down'[n].level < level
        <4> TAKE n \in 1 .. Len(down) + 1
        <4>1. CASE n \in 1 .. Len(down)
          BY <2>1, <2>4, <4>1 DEF IInv, StateInv
        <4>2. CASE n = Len(down) + 1
          BY <2>2, <2>4, <4>2
        <4> QED BY <2>4, <4>1, <4>2
      <3> QED BY <2>2, <2>4, <2>5, <3>1 DEF StateInv
    <2>9. BaseIntact'
      BY <2>2, <2>3, SentBase
    <2>10. RingInv'
      BY <1>4, <1>7, <2>2, <2>3, OtherRing
    <2> QED BY <2>6, <2>7, <2>8, <2>9, <2>10 DEF IInv
  <1> QED BY <1>5, <1>6, <1>7 DEF PacketEvent, ExecuteClientMessage

LEMMA DropClientKeeps ==
  ASSUME Sizes, IInv, DropClient
  PROVE  IInv'
  <1>1. /\ state' = "ZOMBIE"
        /\ UNCHANGED <<level, down, deltaMessage, gamestateMessageNum, frames, rings,
                       up, client>>
    BY DEF DropClient
  <1>2. up \in Seq(Moves) /\ deltaMessage \in Int
    BY DEF IInv, TypeInv
  <1>3. Behind(up', 0)
    BY <1>1, <1>2, BehindFacts
  <1>4. StateInv'
    BY <1>1 DEF StateInv
  <1>5. up' \in Seq(Moves) /\ deltaMessage' \in Int
    BY <1>1, <1>2
  <1> QED BY <1>1, <1>3, <1>4, <1>5, QuietKeeps

LEMMA SpawnServerKeeps ==
  ASSUME Sizes, IInv, SpawnServer
  PROVE  IInv'
  <1>1. /\ level' = level + 1
        /\ nextSnapshotEntities' = 0 /\ snapshotEntities' = Empty(RingSize)
        /\ nextSnapshotClients' = 0
        /\ state' = IF state = "ZOMBIE" THEN state ELSE "CONNECTED"
        /\ UNCHANGED <<down, deltaMessage, gamestateMessageNum, frames, up,
                       known, heard, held>>
    BY DEF SpawnServer, client
  <1>2. level \in Nat /\ known \in Nat /\ known <= level
    BY DEF IInv, TypeInv, KnownInv
  <1>3. \A n \in 1 .. Len(down) : down[n].level \in Nat /\ down[n].level <= level
    BY DEF IInv, DownInv
  <1>4. \A n \in 1 .. Len(down) : /\ down[n].level <= level'
                                  /\ down[n].level < level' /\ down[n].level # level'
    BY <1>1, <1>2, <1>3
  <1>5. TypeInv'
    <2>1. snapshotEntities' \in [0 .. RingSize - 1 -> Nat]
      BY <1>1 DEF Empty, Others
    <2>2. level' \in Nat
      BY <1>1, <1>2
    <2> QED BY <1>1, <2>1, <2>2 DEF IInv, TypeInv
  <1>6. DownInv' /\ BaseIntact' /\ Readable'
    BY <1>1, <1>4 DEF IInv, DownInv, BaseIntact, Readable
  <1>7. KnownInv'
    <2>1. known <= level'
      BY <1>1, <1>2
    <2> QED BY <1>1, <2>1 DEF IInv, KnownInv
  <1>8. StateInv'
    BY <1>1, <1>4 DEF StateInv
  <1>9. SnapshotInv' /\ MoveInv'
    BY <1>1 DEF IInv, SnapshotInv, MoveInv
  <1>10. RingInv'
    BY <1>1, <1>4 DEF IInv, RingInv
  <1> QED BY <1>5, <1>6, <1>7, <1>8, <1>9, <1>10 DEF IInv

-----------------------------------------------------------------------------
(* The client *)

LEMMA ClientSendsKeeps ==
  ASSUME Sizes, IInv, ClientSends
  PROVE  IInv'
  <1> DEFINE m == [level |-> known, ack |-> heard, delta |-> heard \in held]
             U == Len(up)
  <1>1. /\ up' = Append(up, m)
        /\ UNCHANGED <<level, state, down, deltaMessage, gamestateMessageNum, frames,
                       nextSnapshotEntities, snapshotEntities, nextSnapshotClients,
                       known, heard, held>>
    BY DEF ClientSends, rings, client
  <1>2. /\ up \in Seq(Moves) /\ level \in Nat /\ known \in Nat /\ heard \in Nat
        /\ heard \in 0 .. Len(down) /\ held \subseteq 1 .. heard
    BY DEF IInv, TypeInv
  <1>3. m \in Moves /\ m.level = known /\ m.ack = heard /\ m.delta = (heard \in held)
    BY <1>2 DEF Moves
  <1> HIDE DEF m
  <1>4. /\ U \in Nat /\ up' \in Seq(Moves) /\ Len(up') = U + 1
        /\ \A i \in 1 .. U : up'[i] = up[i]
        /\ up'[U + 1] = m
    BY <1>1, <1>2, <1>3, AppendProperties
  <1> HIDE DEF U
  <1>5. \A i \in 1 .. Len(up') : i \in 1 .. U \/ i = U + 1
    BY <1>4
  <1>6. TypeInv'
    BY <1>1, <1>4 DEF IInv, TypeInv
  <1>7. DownInv' /\ SnapshotInv' /\ RingInv' /\ BaseIntact' /\ Readable'
    BY <1>1 DEF IInv, DownInv, SnapshotInv, RingInv, BaseIntact, Readable
  <1>8. \A i \in 1 .. U : up[i].level <= known
    BY DEF IInv, KnownInv, U
  <1>9. KnownInv'
    <2>1. \A i \in 1 .. Len(up') : up'[i].level <= known
      BY <1>2, <1>3, <1>4, <1>5, <1>8
    <2>2. \A i, j \in 1 .. Len(up') : i < j => up'[i].level <= up'[j].level
      <3> SUFFICES ASSUME NEW i \in 1 .. Len(up'), NEW j \in 1 .. Len(up'), i < j
                   PROVE  up'[i].level <= up'[j].level
        OBVIOUS
      <3>1. CASE j \in 1 .. U
        <4>1. i \in 1 .. U
          BY <1>4, <3>1
        <4> QED BY <1>4, <3>1, <4>1 DEF IInv, KnownInv, U
      <3>2. CASE j = U + 1
        <4>1. i \in 1 .. U
          BY <1>4, <3>2
        <4> QED BY <1>3, <1>4, <1>8, <3>2, <4>1
      <3> QED BY <1>5, <3>1, <3>2
    <2> QED BY <1>1, <2>1, <2>2 DEF IInv, KnownInv
  <1>10. StateInv'
    <2>1. CASE state = "ACTIVE"
      <3>1. known = level /\ \A i \in 1 .. U : up[i].level = level
        BY <2>1 DEF IInv, StateInv, U
      <3>2. \A i \in 1 .. Len(up') : up'[i].level = level
        BY <1>3, <1>4, <1>5, <3>1
      <3> QED BY <1>1, <2>1, <3>1, <3>2 DEF IInv, StateInv
    <2>2. CASE state # "ACTIVE"
      BY <1>1, <2>2 DEF IInv, StateInv
    <2> QED BY <2>1, <2>2
  <1>11. MoveInv'
    <2> SUFFICES ASSUME state # "ZOMBIE", NEW i \in 1 .. Len(up'), up'[i].delta
                 PROVE  /\ up'[i].ack \in 1 .. heard
                        /\ down[up'[i].ack].kind = "snapshot"
                        /\ down[up'[i].ack].level = up'[i].level
                        /\ up'[i].level = known => up'[i].ack \in held
      BY <1>1 DEF MoveInv
    <2>1. CASE i \in 1 .. U
      BY <1>4, <2>1 DEF IInv, MoveInv, U
    <2>2. CASE i = U + 1
      <3>1. heard \in held /\ up'[i] = m
        BY <1>3, <1>4, <2>2
      <3>2. down[heard].kind = "snapshot" /\ down[heard].level = known
        BY <3>1 DEF IInv, SnapshotInv
      <3> QED BY <1>2, <1>3, <3>1, <3>2
    <2> QED BY <1>5, <2>1, <2>2
  <1> QED BY <1>6, <1>7, <1>9, <1>10, <1>11 DEF IInv

LEMMA ClientReceivesKeeps ==
  ASSUME Sizes, IInv, NEW n \in heard + 1 .. Len(down), ClientReceives(n)
  PROVE  IInv'
  <1> DEFINE N == Len(down)
  <1>1. /\ heard' = n
        /\ UNCHANGED <<level, state, down, deltaMessage, gamestateMessageNum, frames,
                       nextSnapshotEntities, snapshotEntities, nextSnapshotClients, up>>
    BY DEF ClientReceives, rings
  <1>2. /\ level \in Nat /\ known \in Nat /\ N \in Nat /\ heard \in 0 .. N
        /\ held \subseteq 1 .. heard /\ up \in Seq(Moves)
    BY DEF IInv, TypeInv
  <1>3. /\ n \in 1 .. N /\ heard < n
        /\ \A k \in n + 1 .. N : k \in heard + 1 .. N /\ k \in 1 .. N /\ n < k
    BY <1>2
  <1>4. /\ down[n].level \in Nat /\ down[n].level <= level /\ known <= down[n].level
        /\ \A k \in 1 .. N : down[k].level \in Nat
    BY <1>3 DEF IInv, DownInv, KnownInv
  <1>5. DownInv' /\ RingInv' /\ BaseIntact'
    BY <1>1, SMTT(20) DEF IInv, DownInv, RingInv, BaseIntact
  <1>6. /\ \A i \in 1 .. Len(up) : up[i].level <= known
        /\ \A i, j \in 1 .. Len(up) : i < j => up[i].level <= up[j].level
    BY DEF IInv, KnownInv
  <1>7. CASE down[n].kind = "gamestate"
    <2>1. known' = down[n].level /\ held' = {}
      BY <1>7 DEF ClientReceives
    <2>2. TypeInv'
      BY <1>1, <1>3, <1>4, <2>1 DEF IInv, TypeInv
    \* The gamestate comes before every snapshot of its level.
    <2>3. ASSUME state # "ZOMBIE", NEW b \in 1 .. heard, down[b].kind = "snapshot"
          PROVE  down[b].level # down[n].level
      <3>1. b \in 1 .. N /\ ~(n < b)
        BY <1>2, <1>3
      <3> QED BY <1>3, <1>7, <2>3, <3>1 DEF IInv, SnapshotInv
    <2>4. KnownInv'
      <3>1. \A k \in n + 1 .. N : down[n].level <= down[k].level
        BY <1>3 DEF IInv, DownInv
      <3>2. \A i \in 1 .. Len(up) : up[i].level <= down[n].level
        <4> TAKE i \in 1 .. Len(up)
        <4>1. up[i].level \in Nat
          BY <1>2, MoveTypes
        <4> QED BY <1>2, <1>4, <1>6, <4>1
      <3> QED BY <1>1, <1>4, <1>6, <2>1, <3>1, <3>2 DEF KnownInv
    <2>5. StateInv'
      <3>1. CASE state = "ACTIVE"
        <4>1. known = level /\ \A i \in 1 .. Len(up) : up[i].level = level
          BY <3>1 DEF IInv, StateInv
        <4>2. down[n].level = level
          BY <1>2, <1>4, <4>1
        <4>3. ~(deltaMessage >= 1)
          <5> SUFFICES ASSUME deltaMessage >= 1 PROVE FALSE
            OBVIOUS
          <5>1. deltaMessage \in held
            BY <3>1 DEF IInv, StateInv
          <5>2. down[deltaMessage].kind = "snapshot" /\ down[deltaMessage].level = level
            BY <3>1, <4>1, <5>1 DEF IInv, SnapshotInv
          <5> QED BY <1>2, <2>3, <3>1, <4>2, <5>1, <5>2
        <4> QED BY <1>1, <2>1, <3>1, <4>1, <4>2, <4>3 DEF StateInv
      <3>2. CASE state # "ACTIVE"
        BY <1>1, <3>2 DEF IInv, StateInv
      <3> QED BY <3>1, <3>2
    <2>6. SnapshotInv'
      <3> SUFFICES ASSUME state # "ZOMBIE" PROVE SnapshotInv'
        BY <1>1 DEF SnapshotInv
      <3>1. ASSUME NEW k \in n + 1 .. N, down[k].kind = "snapshot"
            PROVE  down[k].level = down[n].level
        <4>1. down[k].level = known
          BY <1>3, <3>1 DEF IInv, SnapshotInv
        <4>2. down[n].level <= down[k].level
          BY <1>3 DEF IInv, DownInv
        <4> QED BY <1>2, <1>4, <4>1, <4>2
      <3> QED BY <1>1, <2>1, <3>1 DEF IInv, SnapshotInv
    <2>7. MoveInv'
      <3> SUFFICES ASSUME state # "ZOMBIE", NEW i \in 1 .. Len(up), up[i].delta
                   PROVE  /\ up[i].ack \in 1 .. n
                          /\ down[up[i].ack].kind = "snapshot"
                          /\ down[up[i].ack].level = up[i].level
                          /\ up[i].level # down[n].level
        BY <1>1, <2>1 DEF MoveInv
      <3>1. /\ up[i].ack \in 1 .. heard
            /\ down[up[i].ack].kind = "snapshot"
            /\ down[up[i].ack].level = up[i].level
        BY DEF IInv, MoveInv
      <3>2. up[i].ack \in 1 .. n
        BY <1>2, <1>3, <3>1
      <3> QED BY <2>3, <3>1, <3>2
    <2>8. Readable'
      <3>1. \A k \in n + 1 .. N : down[k].base = None
        <4> SUFFICES ASSUME NEW k \in n + 1 .. N, down[k].base # None PROVE FALSE
          OBVIOUS
        <4>1. down[k].base \in held
          BY <1>3 DEF IInv, Readable
        <4>2. down[k].base \in 1 .. heard
          BY <1>2, <4>1
        <4>3. n \in down[k].base .. k
          BY <1>2, <1>3, <4>2
        <4> QED BY <1>3, <1>7, <4>3 DEF IInv, DownInv
      <3> QED BY <1>1, <3>1 DEF Readable
    <2> QED BY <1>5, <2>2, <2>4, <2>5, <2>6, <2>7, <2>8 DEF IInv
  <1>8. CASE down[n].kind # "gamestate"
    <2>1. known' = known /\ held \subseteq held' /\ held' \subseteq held \cup {n}
      BY <1>8 DEF ClientReceives
    <2>2. n \in held' => n \in held \/ down[n].kind = "snapshot"
      BY <1>8 DEF ClientReceives, Reads
    <2>3. TypeInv'
      <3>1. held' \subseteq 1 .. n /\ n \in 0 .. N
        BY <1>2, <1>3, <2>1
      <3> QED BY <1>1, <2>1, <3>1 DEF IInv, TypeInv
    <2>4. KnownInv'
      <3>1. \A k \in n + 1 .. N : known <= down[k].level
        BY <1>3 DEF IInv, KnownInv
      <3> QED BY <1>1, <1>6, <2>1, <3>1 DEF IInv, KnownInv
    <2>5. StateInv'
      BY <1>1, <2>1 DEF IInv, StateInv
    <2>6. SnapshotInv'
      <3> SUFFICES ASSUME state # "ZOMBIE" PROVE SnapshotInv'
        BY <1>1 DEF SnapshotInv
      <3>1. \A k \in n + 1 .. N : down[k].kind = "snapshot" => down[k].level = known
        BY <1>3 DEF IInv, SnapshotInv
      <3>2. \A k \in held' : down[k].kind = "snapshot" /\ down[k].level = known
        BY <2>1, <2>2 DEF IInv, SnapshotInv
      <3> QED BY <1>1, <2>1, <3>1, <3>2 DEF IInv, SnapshotInv
    <2>7. MoveInv'
      <3> SUFFICES ASSUME state # "ZOMBIE", NEW i \in 1 .. Len(up), up[i].delta
                   PROVE  /\ up[i].ack \in 1 .. n
                          /\ down[up[i].ack].kind = "snapshot"
                          /\ down[up[i].ack].level = up[i].level
                          /\ up[i].level = known => up[i].ack \in held'
        BY <1>1, <2>1 DEF MoveInv
      <3>1. /\ up[i].ack \in 1 .. heard
            /\ down[up[i].ack].kind = "snapshot"
            /\ down[up[i].ack].level = up[i].level
            /\ up[i].level = known => up[i].ack \in held
        BY DEF IInv, MoveInv
      <3>2. up[i].ack \in 1 .. n
        BY <1>2, <1>3, <3>1
      <3> QED BY <2>1, <3>1, <3>2
    <2>8. Readable'
      <3>1. \A k \in n + 1 .. N : down[k].base # None =>
              down[k].base \in held' /\ k - down[k].base < Backup
        BY <1>3, <2>1 DEF IInv, Readable
      <3> QED BY <1>1, <3>1 DEF Readable
    <2> QED BY <1>5, <2>3, <2>4, <2>5, <2>6, <2>7, <2>8 DEF IInv
  <1> QED BY <1>7, <1>8

-----------------------------------------------------------------------------
(* The theorems *)

LEMMA InitHolds ==
  ASSUME Sizes, Init
  PROVE  IInv
  <1>1. /\ level = 1 /\ state = "CONNECTED" /\ down = <<>> /\ deltaMessage = 0
        /\ gamestateMessageNum = -1 /\ up = <<>>
        /\ frames = [s \in 0 .. Backup - 1 |-> NoFrame]
        /\ nextSnapshotEntities = 0 /\ snapshotEntities = Empty(RingSize)
        /\ nextSnapshotClients = 0
        /\ known = 0 /\ heard = 0 /\ held = {}
    BY DEF Init
  <1>2. Len(down) = 0 /\ Len(up) = 0 /\ DOMAIN down = {}
    BY <1>1
  <1>3. TypeInv
    <2>1. frames \in [0 .. Backup - 1 -> Frames]
      BY <1>1 DEF NoFrame, Frames
    <2>2. snapshotEntities \in [0 .. RingSize - 1 -> Nat]
      BY <1>1 DEF Empty, Others
    <2>3. IsSequence(down)
      BY <1>1 DEF IsSequence
    <2>4. up \in Seq(Moves)
      BY <1>1
    <2> QED BY <1>1, <1>2, <2>1, <2>2, <2>3, <2>4 DEF TypeInv
  <1>4. DownInv /\ KnownInv /\ BaseIntact /\ Readable
    BY <1>1, <1>2 DEF DownInv, KnownInv, BaseIntact, Readable
  <1>5. StateInv /\ SnapshotInv /\ MoveInv /\ RingInv
    BY <1>1, <1>2 DEF StateInv, SnapshotInv, MoveInv, RingInv
  <1> QED BY <1>3, <1>4, <1>5 DEF IInv

LEMMA NextKeeps ==
  ASSUME Sizes, IInv, [Next]_vars
  PROVE  IInv'
  <1>1. CASE SendClientSnapshot
    BY <1>1, SendSnapshotKeeps
  <1>2. CASE OthersSnapshot
    BY <1>2, OthersSnapshotKeeps
  <1>3. ASSUME NEW i \in DOMAIN up, PacketEvent(i)
        PROVE  IInv'
    BY <1>3, PacketEventKeeps
  <1>4. CASE SpawnServer
    BY <1>4, SpawnServerKeeps
  <1>5. CASE DropClient
    BY <1>5, DropClientKeeps
  <1>6. ASSUME NEW n \in heard + 1 .. Len(down), ClientReceives(n)
        PROVE  IInv'
    BY <1>6, ClientReceivesKeeps
  <1>7. CASE ClientSends
    BY <1>7, ClientSendsKeeps
  <1>8. CASE UNCHANGED vars
    <2>1. UNCHANGED <<level, state, down, deltaMessage, gamestateMessageNum, frames, up,
                      nextSnapshotEntities, snapshotEntities, nextSnapshotClients,
                      known, heard, held>>
      BY <1>8 DEF vars, rings, client
    <2>2. TypeInv' /\ DownInv' /\ KnownInv' /\ StateInv'
      BY <2>1 DEF IInv, TypeInv, DownInv, KnownInv, StateInv
    <2>3. SnapshotInv' /\ MoveInv' /\ RingInv' /\ BaseIntact' /\ Readable'
      BY <2>1 DEF IInv, SnapshotInv, MoveInv, RingInv, BaseIntact, Readable
    <2> QED BY <2>2, <2>3 DEF IInv
  <1> QED BY <1>1, <1>2, <1>3, <1>4, <1>5, <1>6, <1>7, <1>8 DEF Next

\* The inductive invariant holds for rings of every size.
THEOREM Invariant ==
  ASSUME Sizes
  PROVE  Spec => []IInv
  <1>1. Init => IInv
    BY InitHolds
  <1>2. IInv /\ [Next]_vars => IInv'
    BY NextKeeps
  <1> QED BY <1>1, <1>2, PTL DEF Spec

\* custom_SV_WriteSnapshotToClient takes every difference to the snapshot the
\* client acknowledged as it was when it was sent, for rings of every size,
\* however many snapshots of others were stored and levels loaded between: its
\* three conditions (no world yet, too old, entities overwritten) are enough.
THEOREM BaseSound ==
  ASSUME Sizes
  PROVE  Spec => []BaseIntact
  <1>1. IInv => BaseIntact
    BY DEF IInv
  <1> QED BY <1>1, Invariant, PTL

\* Every snapshot that reaches the client is whole or a difference to one it
\* has and has not overwritten, whichever messages were lost or came late.
THEOREM SnapshotsReadable ==
  ASSUME Sizes
  PROVE  Spec => []Readable
  <1>1. IInv => Readable
    BY DEF IInv
  <1> QED BY <1>1, Invariant, PTL
==============================================================================

---------------------------- MODULE HttpClientProofs ----------------------------
(* WebSocketClient and HttpClient for any number of slots, sockets, requests and *)
(* levels: what scripts hear is in order and of their level, a slot is one live   *)
(* socket, a closed socket stays closed, and a request has one outcome.           *)
(*                                                                               *)
(* Both specifications share the sockets and the event queue, so most invariants  *)
(* are about the events of sockets only and hold of either.                       *)
EXTENDS HttpClient, FiniteSetTheorems, SequenceTheorems, WellFoundedInduction, TLAPS

Kinds == EventKinds \cup ReqKinds
Events == [sock : Nat, kind : Kinds]

-----------------------------------------------------------------------------
(* Counting the members of a sequence *)

Count(s, S) == Cardinality({n \in 1..Len(s) : s[n] \in S})

LEMMA CountType ==
  ASSUME NEW T, NEW s \in Seq(T), NEW S
  PROVE  /\ IsFiniteSet({n \in 1..Len(s) : s[n] \in S})
         /\ Count(s, S) \in Nat
  <1>1. IsFiniteSet(1..Len(s))
    BY LenProperties, FS_Interval
  <1> QED BY <1>1, FS_Subset, FS_CardinalityType DEF Count

LEMMA CountNone ==
  ASSUME NEW T, NEW s \in Seq(T), NEW S
  PROVE  Count(s, S) = 0 <=> \A n \in 1..Len(s) : s[n] \notin S
  <1> DEFINE A == {n \in 1..Len(s) : s[n] \in S}
  <1>1. IsFiniteSet(A)
    BY CountType
  <1>2. A = {} <=> \A n \in 1..Len(s) : s[n] \notin S
    OBVIOUS
  <1>3. Count(s, S) = Cardinality(A)
    BY DEF Count
  <1> HIDE DEF A
  <1> QED BY <1>1, <1>2, <1>3, FS_EmptySet

LEMMA CountEmpty == \A S : Count(<<>>, S) = 0
  BY FS_EmptySet DEF Count

LEMMA CountOne ==
  ASSUME NEW e, NEW S
  PROVE  Count(<<e>>, S) = IF e \in S THEN 1 ELSE 0
  <1>1. {n \in 1..Len(<<e>>) : <<e>>[n] \in S} = IF e \in S THEN {1} ELSE {}
    OBVIOUS
  <1> QED BY <1>1, FS_EmptySet, FS_Singleton DEF Count

\* The indices of the second part, moved behind the first.
LEMMA CountConcat ==
  ASSUME NEW T, NEW s \in Seq(T), NEW t \in Seq(T), NEW S
  PROVE  Count(s \o t, S) = Count(s, S) + Count(t, S)
  <1> DEFINE A == {n \in 1..Len(s) : s[n] \in S}
             B == {n \in 1..Len(t) : t[n] \in S}
             C == {n \in 1..Len(s \o t) : (s \o t)[n] \in S}
             f == [n \in B |-> n + Len(s)]
             D == C \ A
  <1>1. /\ Len(s) \in Nat /\ Len(t) \in Nat /\ Len(s \o t) = Len(s) + Len(t)
        /\ \A n \in 1..Len(s) + Len(t) :
             (s \o t)[n] = IF n <= Len(s) THEN s[n] ELSE t[n - Len(s)]
    BY LenProperties, ConcatProperties
  <1>2. IsFiniteSet(A) /\ IsFiniteSet(B)
    BY CountType
  <1>3. A \subseteq C
    BY <1>1
  <1>4. \A n \in B : f[n] \in D
    BY <1>1
  <1>5. \A m, n \in B : f[m] = f[n] => m = n
    BY <1>1
  <1>6. \A d \in D : d - Len(s) \in B /\ f[d - Len(s)] = d
    BY <1>1
  <1>7. f \in Bijection(B, D)
    BY <1>4, <1>5, <1>6 DEF Bijection, Injection, Surjection, IsInjective
  <1>8. IsFiniteSet(D) /\ Cardinality(D) = Cardinality(B)
    BY <1>2, <1>7, FS_Bijection, ZenonT(40) DEF ExistsBijection
  <1>9. C = A \cup D /\ A \cap D = {}
    BY <1>3
  <1>10. /\ Count(s \o t, S) = Cardinality(C)
         /\ Count(s, S) = Cardinality(A) /\ Count(t, S) = Cardinality(B)
    BY DEF Count
  <1> HIDE DEF A, B, C, D
  <1>11. Cardinality(A \cup D) = Cardinality(A) + Cardinality(D) - Cardinality({})
    BY <1>2, <1>8, <1>9, FS_Union
  <1>12. Cardinality(A) \in Nat /\ Cardinality(D) \in Nat
    BY <1>2, <1>8, FS_CardinalityType
  <1> QED BY <1>8, <1>9, <1>10, <1>11, <1>12, FS_EmptySet

LEMMA CountTail ==
  ASSUME NEW T, NEW s \in Seq(T), s # <<>>, NEW S
  PROVE  Count(s, S) = (IF Head(s) \in S THEN 1 ELSE 0) + Count(Tail(s), S)
  <1>1. /\ Head(s) \in T /\ Tail(s) \in Seq(T) /\ Len(Tail(s)) = Len(s) - 1
        /\ \A i \in 1..Len(Tail(s)) : Tail(s)[i] = s[i + 1]
        /\ Len(s) \in Nat \ {0} /\ Head(s) = s[1]
    BY HeadTailProperties, EmptySeq
  <1>2. <<Head(s)>> \in Seq(T) /\ Len(<<Head(s)>>) = 1 /\ <<Head(s)>>[1] = Head(s)
    BY <1>1
  <1>3. /\ <<Head(s)>> \o Tail(s) \in Seq(T)
        /\ Len(<<Head(s)>> \o Tail(s)) = Len(s)
        /\ \A i \in 1..Len(s) : (<<Head(s)>> \o Tail(s))[i]
                                   = IF i <= 1 THEN <<Head(s)>>[i] ELSE Tail(s)[i - 1]
    BY <1>1, <1>2, ConcatProperties
  <1>4. \A i \in 1..Len(s) : (<<Head(s)>> \o Tail(s))[i] = s[i]
    BY <1>1, <1>2, <1>3
  <1>5. <<Head(s)>> \o Tail(s) = s
    BY <1>3, <1>4, SeqEqual
  <1>6. Count(<<Head(s)>> \o Tail(s), S) = Count(<<Head(s)>>, S) + Count(Tail(s), S)
    BY <1>1, <1>2, CountConcat, ZenonT(40)
  <1> QED BY <1>5, <1>6, CountOne

-----------------------------------------------------------------------------
(* The story of a socket *)

StoryStates == {"new", "open", "failed", "down", "over"}
Told(k, s, e) == IF e.sock = k /\ e.kind \in EventKinds THEN Learns(s, e.kind) ELSE s

\* A script that knows s0 of socket k knows s after these events, never confused.
Chain(k, evs, s0, s) ==
    \E g \in [0..Len(evs) -> StoryStates] :
        /\ g[0] = s0 /\ g[Len(evs)] = s
        /\ \A n \in 1..Len(evs) : g[n] = Told(k, g[n - 1], evs[n])

LEMMA ChainEmpty == \A k : \A s \in StoryStates : Chain(k, <<>>, s, s)
  <1> SUFFICES ASSUME NEW k, NEW s \in StoryStates
               PROVE  Chain(k, <<>>, s, s)
    OBVIOUS
  <1> DEFINE g == [n \in 0..0 |-> s]
  <1>1. Len(<<>>) = 0
    OBVIOUS
  <1>2. g \in [0..Len(<<>>) -> StoryStates] /\ g[0] = s /\ g[Len(<<>>)] = s
    BY <1>1
  <1>3. \A n \in 1..Len(<<>>) : FALSE
    BY <1>1
  <1> QED BY <1>2, <1>3 DEF Chain

LEMMA ChainOne ==
  ASSUME NEW k, NEW s \in StoryStates, NEW e, Told(k, s, e) \in StoryStates
  PROVE  Chain(k, <<e>>, s, Told(k, s, e))
  <1> DEFINE t == Told(k, s, e)
             g == [n \in 0..1 |-> IF n = 0 THEN s ELSE t]
  <1>1. Len(<<e>>) = 1 /\ <<e>>[1] = e
    OBVIOUS
  <1>2. t = Told(k, s, e) /\ t \in StoryStates
    OBVIOUS
  <1> HIDE DEF t
  <1>3. /\ g \in [0..Len(<<e>>) -> StoryStates]
        /\ g[0] = s /\ g[Len(<<e>>)] = t
        /\ \A n \in 1..Len(<<e>>) : g[n] = t /\ g[n - 1] = s /\ <<e>>[n] = e
    BY <1>1, <1>2
  <1>4. \A n \in 1..Len(<<e>>) : g[n] = Told(k, g[n - 1], <<e>>[n])
    BY <1>2, <1>3
  <1>5. Chain(k, <<e>>, s, t)
    BY <1>3, <1>4 DEF Chain
  <1> QED BY <1>5, <1>2

LEMMA ChainConcat ==
  ASSUME NEW k, NEW T, NEW evs \in Seq(T), NEW more \in Seq(T), NEW s, NEW t, NEW u,
         Chain(k, evs, s, t), Chain(k, more, t, u)
  PROVE  Chain(k, evs \o more, s, u)
  <1>1. PICK g \in [0..Len(evs) -> StoryStates] :
          /\ g[0] = s /\ g[Len(evs)] = t
          /\ \A n \in 1..Len(evs) : g[n] = Told(k, g[n - 1], evs[n])
    BY DEF Chain
  <1>2. PICK h \in [0..Len(more) -> StoryStates] :
          /\ h[0] = t /\ h[Len(more)] = u
          /\ \A n \in 1..Len(more) : h[n] = Told(k, h[n - 1], more[n])
    BY DEF Chain
  <1> DEFINE all == evs \o more
             m == Len(evs)
             f == [n \in 0..Len(all) |-> IF n <= m THEN g[n] ELSE h[n - m]]
  <1>3. /\ m \in Nat /\ Len(more) \in Nat /\ Len(all) = m + Len(more)
        /\ \A n \in 1..Len(all) : all[n] = IF n <= m THEN evs[n] ELSE more[n - m]
    BY LenProperties, ConcatProperties
  <1> HIDE DEF all, m
  <1>4. f \in [0..Len(all) -> StoryStates]
    <2>1. \A n \in 0..Len(all) :
            /\ n <= m => n \in 0..m
            /\ ~(n <= m) => n - m \in 0..Len(more)
      BY <1>3
    <2>2. \A n \in 0..m : g[n] \in StoryStates
      BY DEF m
    <2>3. \A n \in 0..Len(more) : h[n] \in StoryStates
      OBVIOUS
    <2> QED BY <2>1, <2>2, <2>3
  <1>5. f[0] = s /\ f[Len(all)] = u
    <2>1. f[0] = g[0]
      BY <1>3
    <2>2. CASE Len(more) = 0
      <3>1. f[Len(all)] = g[m] /\ Len(more) = 0
        BY <2>2, <1>3
      <3> QED BY <2>1, <3>1, <1>1, <1>2 DEF m
    <2>3. CASE Len(more) # 0
      <3>1. f[Len(all)] = h[Len(more)]
        BY <2>3, <1>3
      <3> QED BY <2>1, <3>1, <1>1, <1>2
    <2> QED BY <2>2, <2>3
  <1>6. ASSUME NEW n \in 1..Len(all)
        PROVE  f[n] = Told(k, f[n - 1], all[n])
    <2>1. CASE n <= m
      <3>1. n \in 1..Len(evs) /\ f[n] = g[n] /\ f[n - 1] = g[n - 1] /\ all[n] = evs[n]
        BY <2>1, <1>3 DEF m
      <3> QED BY <3>1, <1>1
    <2>2. CASE n = m + 1
      <3>1. /\ 1 \in 1..Len(more) /\ f[n] = h[1] /\ f[n - 1] = g[m] /\ all[n] = more[1]
            /\ 1 - 1 = 0
        BY <2>2, <1>3
      <3> QED BY <3>1, <1>1, <1>2 DEF m
    <2>3. CASE n > m + 1
      <3>1. /\ n - m \in 1..Len(more) /\ f[n] = h[n - m] /\ f[n - 1] = h[(n - m) - 1]
            /\ all[n] = more[n - m]
        BY <2>3, <1>3
      <3> QED BY <3>1, <1>2
    <2> QED BY <2>1, <2>2, <2>3, <1>3
  <1>7. Chain(k, all, s, u)
    BY <1>4, <1>5, <1>6 DEF Chain
  <1> QED BY <1>7 DEF all

LEMMA ChainTail ==
  ASSUME NEW k, NEW T, NEW evs \in Seq(T), evs # <<>>, NEW s, NEW t,
         Chain(k, evs, s, t)
  PROVE  /\ Told(k, s, Head(evs)) \in StoryStates
         /\ Chain(k, Tail(evs), Told(k, s, Head(evs)), t)
  <1>1. PICK g \in [0..Len(evs) -> StoryStates] :
          /\ g[0] = s /\ g[Len(evs)] = t
          /\ \A n \in 1..Len(evs) : g[n] = Told(k, g[n - 1], evs[n])
    BY DEF Chain
  <1> DEFINE m == Len(Tail(evs))
             f == [n \in 0..m |-> g[n + 1]]
  <1>2. /\ m = Len(evs) - 1 /\ Len(evs) \in Nat \ {0} /\ Head(evs) = evs[1]
        /\ \A i \in 1..m : Tail(evs)[i] = evs[i + 1]
    BY HeadTailProperties, EmptySeq
  <1>3. g[1] = Told(k, s, Head(evs)) /\ g[1] \in StoryStates
    BY <1>1, <1>2
  <1>4. f \in [0..m -> StoryStates] /\ f[0] = g[1] /\ f[m] = t
    BY <1>1, <1>2
  <1>5. ASSUME NEW n \in 1..m
        PROVE  f[n] = Told(k, f[n - 1], Tail(evs)[n])
    <2>1. /\ n + 1 \in 1..Len(evs) /\ f[n] = g[n + 1] /\ f[n - 1] = g[(n + 1) - 1]
          /\ Tail(evs)[n] = evs[n + 1]
      BY <1>2
    <2> QED BY <2>1, <1>1
  <1>6. Chain(k, Tail(evs), g[1], t)
    BY <1>4, <1>5 DEF Chain
  <1> QED BY <1>3, <1>6

\* Events of others tell nothing of a socket.
LEMMA ChainOther ==
  ASSUME NEW k, NEW T, NEW evs \in Seq(T), NEW s \in StoryStates,
         \A n \in 1..Len(evs) : evs[n].sock # k \/ evs[n].kind \notin EventKinds
  PROVE  Chain(k, evs, s, s)
  <1> DEFINE g == [n \in 0..Len(evs) |-> s]
  <1>1. Len(evs) \in Nat
    BY LenProperties
  <1>2. g \in [0..Len(evs) -> StoryStates] /\ g[0] = s /\ g[Len(evs)] = s
    BY <1>1
  <1>3. \A n \in 1..Len(evs) : g[n] = s /\ g[n - 1] = s /\ Told(k, s, evs[n]) = s
    BY <1>1 DEF Told
  <1> QED BY <1>2, <1>3 DEF Chain

-----------------------------------------------------------------------------
(* The invariant of the sockets *)

WsType == [st : {"new", "used", "freed"},
           conn : {"none", "connecting", "connected"},
           killed : BOOLEAN, err : BOOLEAN, closing : BOOLEAN,
           detached : BOOLEAN, finished : BOOLEAN, reconnect : BOOLEAN,
           ping : BOOLEAN, waiting : BOOLEAN, sendq : 0..1, wantClose : BOOLEAN,
           closeDeadline : BOOLEAN, pong : {"no", "want", "wait"},
           born : 0..MaxLevels]

CoreTypes ==
    /\ ws \in [Socks -> WsType]
    /\ slots \in [Slots -> 0..MaxOpens] /\ created \in 0..MaxOpens
    /\ events \in Seq(Events)
    /\ rxCount \in Nat /\ level \in 0..MaxLevels /\ quitting \in BOOLEAN
    /\ heard \in [Socks -> StoryStates]

\* Who is finished has no connection, who is connected is not freed, and who is
\* closing without a connection is finished.
Right(w, lev) ==
    /\ w.finished => w.conn = "none"
    /\ w.conn # "none" => w.st = "used"
    /\ w.st = "used" /\ w.closing /\ w.conn = "none" => w.finished
    /\ w.st = "used" /\ ~w.detached => w.born = lev

\* What a script that hears of the socket knows of it once the queue is delivered.
Expect(w, s) ==
    /\ w.st = "new" => s = "new"
    /\ w.st = "used" /\ ~w.detached /\ w.conn = "connected" => s = "open"
    /\ w.st = "used" /\ ~w.detached /\ w.conn = "connecting" => s \in {"new", "down"}
    /\ w.st = "used" /\ ~w.detached /\ w.conn = "none" /\ ~w.finished
         => s \in {"new", "down"}

SocketsInv == \A k \in Socks : /\ k > created <=> ws[k].st = "new"
                               /\ ws[k].st = "new" => ws[k] = NewWs /\ heard[k] = "new"
                               /\ Right(ws[k], level)
SlotsInv == SlotOwned /\ (quitting => \A i \in Slots : slots[i] = 0)
EventsInv ==
    \A n \in 1..Len(events) :
        events[n].kind \in EventKinds
          => /\ events[n].sock \in Socks /\ events[n].sock <= created
             /\ ws[events[n].sock].born = level
StoryInv ==
    \A k \in Socks : \E s \in StoryStates :
        Chain(k, events, heard[k], s) /\ Expect(ws[k], s)

Core == /\ CoreTypes /\ SocketsInv /\ SlotsInv /\ EventsInv /\ RxAccounted /\ StoryInv

MessageEvents == {e \in Events : e.kind = "message"}

LEMMA MessagesCounted ==
  ASSUME NEW evs \in Seq(Events)
  PROVE  Messages(evs) = Count(evs, MessageEvents)
  <1>1. \A n \in 1..Len(evs) : evs[n] \in Events
    BY ElementOfSeq
  <1>2. {n \in 1..Len(evs) : evs[n].kind = "message"}
          = {n \in 1..Len(evs) : evs[n] \in MessageEvents}
    BY <1>1 DEF MessageEvents
  <1> QED BY <1>2 DEF Messages, Count

LEMMA QueueStep ==
  ASSUME Core, NEW evs \in Seq(Events), Queue(evs), quitting => evs = <<>>
  PROVE  /\ events' = events \o evs /\ events' \in Seq(Events)
         /\ rxCount' = rxCount + Messages(evs) /\ rxCount' \in Nat
         /\ rxCount = Messages(events) => rxCount' = Messages(events \o evs)
         /\ Len(events) \in Nat /\ Len(evs) \in Nat
         /\ Len(events') = Len(events) + Len(evs)
         /\ \A n \in 1..Len(events') :
              events'[n] = IF n <= Len(events) THEN events[n] ELSE evs[n - Len(events)]
  <1>1. events \in Seq(Events) /\ rxCount \in Nat /\ quitting \in BOOLEAN
    BY DEF Core, CoreTypes
  <1>2. Messages(evs) \in Nat
    BY MessagesCounted, CountType
  <1>3. events' = events \o evs /\ rxCount' = rxCount + Messages(evs)
    <2>1. CASE quitting
      <3>1. evs = <<>> /\ events' = events /\ rxCount' = rxCount
        BY <2>1 DEF Queue
      <3>2. Messages(evs) = 0
        BY <3>1, MessagesCounted, CountEmpty
      <3> QED BY <3>1, <3>2, <1>1, ConcatEmptySeq
    <2>2. CASE ~quitting
      BY <2>2 DEF Queue
    <2> QED BY <2>1, <2>2
  <1>4. Messages(events \o evs) = Messages(events) + Messages(evs)
    <2>1. events \o evs \in Seq(Events)
      BY <1>1, ConcatProperties
    <2>2. Count(events \o evs, MessageEvents)
            = Count(events, MessageEvents) + Count(evs, MessageEvents)
      BY <1>1, CountConcat
    <2> QED BY <1>1, <2>1, <2>2, MessagesCounted
  <1>5. /\ Len(events) \in Nat /\ Len(evs) \in Nat
        /\ events \o evs \in Seq(Events)
        /\ Len(events \o evs) = Len(events) + Len(evs)
        /\ \A n \in 1..Len(events) + Len(evs) :
             (events \o evs)[n] = IF n <= Len(events) THEN events[n]
                                  ELSE evs[n - Len(events)]
    BY <1>1, LenProperties, ConcatProperties
  <1> QED BY <1>1, <1>2, <1>3, <1>4, <1>5

\* One socket changes, and tells of it: the sockets, the slots and the stories
\* stay as they should be.
LEMMA OneSocket ==
  ASSUME Core, phase # "gone", phase' # "gone",
         NEW k \in Socks, NEW w \in WsType, NEW evs \in Seq(Events),
         ws[k].st = "used", w.st = "used",
         w.detached = ws[k].detached, w.born = ws[k].born, Right(w, level),
         \A n \in 1..Len(evs) : evs[n].sock = k,
         ws[k].detached => evs = <<>>,
         Queue(evs), ws' = [ws EXCEPT ![k] = w],
         UNCHANGED <<slots, created, level, quitting, heard>>,
         ~ws[k].detached =>
           \A s \in StoryStates : Expect(ws[k], s) =>
             \E t \in StoryStates : Chain(k, evs, s, t) /\ Expect(w, t)
  PROVE  Core' /\ events' = events \o evs
  <1>1. /\ ws \in [Socks -> WsType] /\ events \in Seq(Events)
        /\ level \in 0..MaxLevels /\ created \in 0..MaxOpens
        /\ heard \in [Socks -> StoryStates] /\ quitting \in BOOLEAN
    BY DEF Core, CoreTypes
  <1>2. quitting => evs = <<>>
    <2>1. ASSUME quitting
          PROVE  k \notin Slotted
      BY <2>1 DEF Core, SlotsInv, Slotted, Socks, Slots
    <2>2. quitting => ws[k].detached
      BY <2>1 DEF Core, SlotsInv, SlotOwned, Alive
    <2> QED BY <2>2
  <1>3. /\ events' = events \o evs /\ events' \in Seq(Events) /\ rxCount' \in Nat
        /\ rxCount = Messages(events) => rxCount' = Messages(events \o evs)
        /\ Len(events) \in Nat /\ Len(evs) \in Nat
        /\ Len(events') = Len(events) + Len(evs)
        /\ \A n \in 1..Len(events') :
             events'[n] = IF n <= Len(events) THEN events[n] ELSE evs[n - Len(events)]
    BY <1>2, QueueStep
  <1>4. \A j \in Socks : ws'[j] = IF j = k THEN w ELSE ws[j]
    BY <1>1
  <1>5. CoreTypes'
    BY <1>1, <1>3 DEF Core, CoreTypes
  <1>6. SocketsInv'
    <2> SUFFICES ASSUME NEW j \in Socks
                 PROVE  (/\ j > created <=> ws[j].st = "new"
                         /\ ws[j].st = "new" => ws[j] = NewWs /\ heard[j] = "new"
                         /\ Right(ws[j], level))'
      BY DEF SocketsInv
    <2>1. /\ j > created <=> ws[j].st = "new"
          /\ ws[j].st = "new" => ws[j] = NewWs /\ heard[j] = "new"
          /\ Right(ws[j], level)
      BY DEF Core, SocketsInv
    <2>2. CASE j = k
      <3>1. ws'[j] = w /\ created' = created /\ level' = level /\ ~(j > created)
        BY <2>1, <2>2, <1>4
      <3> QED BY <3>1 DEF Right
    <2>3. CASE j # k
      <3>1. ws'[j] = ws[j] /\ created' = created /\ level' = level
        BY <2>3, <1>4
      <3> QED BY <2>1, <3>1 DEF Right
    <2> QED BY <2>2, <2>3
  <1>7. SlotsInv'
    <2>1. \A j \in Socks : /\ ws'[j].st = ws[j].st /\ ws'[j].detached = ws[j].detached
                           /\ j \in Slotted' <=> j \in Slotted
      BY <1>4 DEF Slotted
    <2> QED BY <2>1 DEF Core, SlotsInv, SlotOwned, Alive
  <1>8. EventsInv'
    <2> SUFFICES ASSUME NEW n \in 1..Len(events'), events'[n].kind \in EventKinds
                 PROVE  /\ events'[n].sock \in Socks /\ events'[n].sock <= created
                        /\ ws'[events'[n].sock].born = level
      BY DEF EventsInv, EventKinds
    <2>1. CASE n <= Len(events)
      <3>1. events'[n] = events[n] /\ n \in 1..Len(events)
        BY <2>1, <1>3
      <3>2. /\ events[n].sock \in Socks /\ events[n].sock <= created
            /\ ws[events[n].sock].born = level
        BY <3>1 DEF Core, EventsInv
      <3> QED BY <3>1, <3>2, <1>4
    <2>2. CASE ~(n <= Len(events))
      <3>1. events'[n] = evs[n - Len(events)] /\ n - Len(events) \in 1..Len(evs)
        BY <2>2, <1>3
      <3>2. events'[n].sock = k
        BY <3>1
      <3>3. ~ws[k].detached
        <4>1. evs = <<>> => Len(evs) = 0
          OBVIOUS
        <4> QED BY <4>1, <3>1
      <3>4. ws[k].born = level /\ ~(k > created)
        BY <3>3 DEF Core, SocketsInv, Right
      <3>5. ws'[k].born = level
        BY <3>4, <1>4
      <3> QED BY <3>2, <3>4, <3>5, <1>1 DEF Socks
    <2> QED BY <2>1, <2>2
  <1>9. RxAccounted'
    BY <1>3 DEF Core, RxAccounted
  <1>10. StoryInv'
    <2> SUFFICES ASSUME NEW j \in Socks
                 PROVE  \E s \in StoryStates :
                          Chain(j, events \o evs, heard[j], s) /\ Expect(ws'[j], s)
      BY <1>3 DEF StoryInv
    <2>1. PICK s \in StoryStates : Chain(j, events, heard[j], s) /\ Expect(ws[j], s)
      BY DEF Core, StoryInv
    <2>2. CASE j # k
      <3>1. Chain(j, evs, s, s)
        BY <2>2, ChainOther
      <3>2. Chain(j, events \o evs, heard[j], s)
        BY <2>1, <3>1, <1>1, ChainConcat
      <3> QED BY <2>1, <2>2, <3>2, <1>4
    <2>3. CASE j = k /\ ws[k].detached
      <3>1. events \o evs = events
        BY <2>3, <1>1, ConcatEmptySeq
      <3>2. Expect(w, s)
        BY <2>3 DEF Expect
      <3> QED BY <2>1, <2>3, <3>1, <3>2, <1>4
    <2>4. CASE j = k /\ ~ws[k].detached
      <3>1. PICK t \in StoryStates : Chain(k, evs, s, t) /\ Expect(w, t)
        BY <2>1, <2>4
      <3>2. Chain(j, events \o evs, heard[j], t)
        BY <2>1, <2>4, <3>1, <1>1, ChainConcat
      <3> QED BY <2>4, <3>1, <3>2, <1>4
    <2> QED BY <2>2, <2>3, <2>4
  <1> QED BY <1>3, <1>5, <1>6, <1>7, <1>8, <1>9, <1>10 DEF Core

-----------------------------------------------------------------------------
(* The end of a connection *)

LEMMA EndedFacts ==
  ASSUME NEW k \in Socks, NEW w \in WsType
  PROVE  /\ EndedWs(w) \in WsType
         /\ EndedWs(w).st = w.st /\ EndedWs(w).detached = w.detached
         /\ EndedWs(w).born = w.born /\ EndedWs(w).conn = "none"
         /\ EndedWs(w).closing = w.closing
         /\ EndedWs(w).finished <=> w.finished \/ ~Reconnects(w)
         /\ EndedEvents(k, w) \in Seq(Events)
         /\ \A n \in 1..Len(EndedEvents(k, w)) :
              /\ EndedEvents(k, w)[n].sock = k
              /\ EndedEvents(k, w)[n].kind \in EventKinds \ {"message"}
         /\ w.detached => EndedEvents(k, w) = <<>>
  <1>1. /\ w.finished \in BOOLEAN /\ w.reconnect \in BOOLEAN /\ w.closing \in BOOLEAN
        /\ Reconnects(w) \in BOOLEAN
    BY DEF WsType, Reconnects
  <1>0. (w.finished \/ ~Reconnects(w)) \in BOOLEAN
    BY <1>1
  <1> DEFINE r == Reconnects(w)
             f == (w.finished \/ ~Reconnects(w))
  <1>11. EndedWs(w) = [w EXCEPT !.conn = "none", !.sendq = 0, !.wantClose = FALSE,
                         !.pong = "no", !.err = FALSE, !.waiting = r, !.finished = f]
    BY DEF EndedWs
  <1>2. /\ EndedWs(w) \in WsType
        /\ EndedWs(w).st = w.st /\ EndedWs(w).detached = w.detached
        /\ EndedWs(w).born = w.born /\ EndedWs(w).conn = "none"
        /\ EndedWs(w).closing = w.closing
        /\ EndedWs(w).finished = f
    <2>1. r \in BOOLEAN /\ f \in BOOLEAN
      BY <1>0, <1>1
    <2> DEFINE v == EndedWs(w)
    <2>2. v = [w EXCEPT !.conn = "none", !.sendq = 0, !.wantClose = FALSE,
                 !.pong = "no", !.err = FALSE, !.waiting = r, !.finished = f]
      BY <1>11
    <2> HIDE DEF r, f, v
    <2>3. v = [st |-> w.st, conn |-> "none", killed |-> w.killed, err |-> FALSE,
               closing |-> w.closing, detached |-> w.detached, finished |-> f,
               reconnect |-> w.reconnect, ping |-> w.ping, waiting |-> r, sendq |-> 0,
               wantClose |-> FALSE, closeDeadline |-> w.closeDeadline, pong |-> "no",
               born |-> w.born]
      BY <2>2 DEF WsType
    <2>4. /\ w.st \in {"new", "used", "freed"} /\ w.killed \in BOOLEAN
          /\ w.closing \in BOOLEAN /\ w.detached \in BOOLEAN
          /\ w.reconnect \in BOOLEAN /\ w.ping \in BOOLEAN
          /\ w.closeDeadline \in BOOLEAN /\ w.born \in 0..MaxLevels
          /\ "none" \in {"none", "connecting", "connected"} /\ 0 \in 0..1
          /\ "no" \in {"no", "want", "wait"} /\ FALSE \in BOOLEAN
      BY DEF WsType
    <2>5. v \in WsType
      BY <2>1, <2>3, <2>4, ZenonT(40) DEF WsType
    <2>6. /\ v.st = w.st /\ v.detached = w.detached /\ v.born = w.born
          /\ v.conn = "none" /\ v.closing = w.closing /\ v.finished = f
      BY <2>3
    <2> QED BY <2>5, <2>6 DEF v
  <1> DEFINE a == IF TellsError(w) THEN <<Ev(k, "error")>> ELSE <<>>
             b == IF w.conn = "connected" THEN <<Ev(k, CloseKind(w))>> ELSE <<>>
             E == [sock : {k}, kind : EventKinds \ {"message"}]
  <1>3. Ev(k, "error") \in E /\ Ev(k, CloseKind(w)) \in E
    <2>1. /\ CloseKind(w) \in EventKinds \ {"message"}
          /\ "error" \in EventKinds \ {"message"}
      BY DEF EventKinds, CloseKind
    <2> QED BY <2>1 DEF Ev
  <1>4. a \in Seq(E) /\ b \in Seq(E)
    <2> HIDE DEF E
    <2>1. <<>> \in Seq(E) /\ \A e \in E : <<e>> \in Seq(E)
      OBVIOUS
    <2> QED BY <1>3, <2>1
  <1>5. a \o b \in Seq(E) /\ <<>> \in Seq(E)
    BY <1>4, ConcatProperties
  <1>6. EndedEvents(k, w) = IF w.detached THEN <<>> ELSE a \o b
    BY DEF EndedEvents
  <1>7. EndedEvents(k, w) \in Seq(E)
    BY <1>5, <1>6
  <1>8. E \subseteq Events
    BY DEF Events, Kinds, Socks
  <1>9. EndedEvents(k, w) \in Seq(Events)
    BY <1>7, <1>8, SeqMonotonic
  <1>10. \A n \in 1..Len(EndedEvents(k, w)) : EndedEvents(k, w)[n] \in E
    BY <1>7, ElementOfSeq
  <1> QED BY <1>2, <1>6, <1>9, <1>10

LEMMA EndedChain ==
  ASSUME NEW k \in Socks, NEW w \in WsType, NEW s \in StoryStates, ~w.detached,
         w.conn = "connected" => s = "open",
         w.conn # "connected" => s \in {"new", "down"}, w.st = "used"
  PROVE  \E t \in StoryStates : /\ Chain(k, EndedEvents(k, w), s, t)
                                /\ Expect(EndedWs(w), t)
  <1> DEFINE e == Ev(k, "error")
             c == Ev(k, CloseKind(w))
             a == IF TellsError(w) THEN <<e>> ELSE <<>>
             b == IF w.conn = "connected" THEN <<c>> ELSE <<>>
             s1 == IF TellsError(w) THEN Told(k, s, e) ELSE s
             s2 == IF w.conn = "connected" THEN Told(k, s1, c) ELSE s1
  <1>1. EndedEvents(k, w) = a \o b
    BY DEF EndedEvents
  <1>2. /\ e.sock = k /\ e.kind = "error" /\ c.sock = k /\ c.kind = CloseKind(w)
        /\ e \in Events /\ c \in Events
    BY DEF Ev, EventKinds, CloseKind, Events, Kinds, Socks
  <1>3. /\ s1 \in StoryStates
        /\ w.conn = "connected" => s1 \in {"open", "failed"}
        /\ w.conn # "connected" => s1 \in {"new", "down"}
    BY <1>2 DEF Told, Learns, EventKinds, StoryStates
  <1>4. /\ s2 \in StoryStates
        /\ Reconnects(w) => s2 \in {"new", "down"}
    <2>1. CASE w.conn = "connected" /\ Reconnects(w)
      <3>1. c.kind = "dropped"
        BY <2>1, <1>2 DEF CloseKind
      <3>2. Told(k, s1, c) = "down"
        BY <3>1, <2>1, <1>2, <1>3 DEF Told, Learns, EventKinds
      <3> QED BY <3>2, <2>1 DEF StoryStates
    <2>2. CASE w.conn = "connected" /\ ~Reconnects(w)
      <3>1. c.kind \in {"closed", "closedByRemote"}
        BY <2>2, <1>2 DEF CloseKind
      <3>2. Told(k, s1, c) = "over"
        BY <3>1, <2>2, <1>2, <1>3 DEF Told, Learns, EventKinds
      <3> QED BY <3>2, <2>2 DEF StoryStates
    <2>3. CASE w.conn # "connected"
      BY <2>3, <1>3
    <2> QED BY <2>1, <2>2, <2>3
  <1>5. Chain(k, a, s, s1)
    BY <1>3, ChainOne, ChainEmpty
  <1>6. Chain(k, b, s1, s2)
    BY <1>3, <1>4, ChainOne, ChainEmpty
  <1>7. a \in Seq(Events) /\ b \in Seq(Events)
    BY <1>2
  <1> HIDE DEF a, b, s1, s2
  <1>8. Chain(k, a \o b, s, s2)
    BY <1>5, <1>6, <1>7, ChainConcat
  <1>9. Expect(EndedWs(w), s2)
    <2>1. /\ EndedWs(w).st = "used" /\ EndedWs(w).conn = "none"
          /\ EndedWs(w).finished <=> w.finished \/ ~Reconnects(w)
      BY EndedFacts
    <2> QED BY <1>4, <2>1 DEF Expect
  <1> QED BY <1>1, <1>4, <1>8, <1>9

\* The socket k is the object w whose connection ends.
LEMMA EndedStep ==
  ASSUME Core, phase # "gone", phase' # "gone",
         NEW k \in Socks, NEW w \in WsType, ws[k].st = "used", w.st = "used",
         w.detached = ws[k].detached, w.born = ws[k].born,
         \A s \in StoryStates : ~w.detached /\ Expect(ws[k], s) =>
            IF w.conn = "connected" THEN s = "open" ELSE s \in {"new", "down"},
         Ended(k, w), UNCHANGED <<slots, created, level, quitting, heard>>
  PROVE  Core' /\ events' = events \o EndedEvents(k, w)
  <1> DEFINE v == EndedWs(w)
             evs == EndedEvents(k, w)
  <1>1. /\ v \in WsType /\ v.st = w.st /\ v.detached = w.detached
        /\ v.born = w.born /\ v.conn = "none" /\ v.closing = w.closing
        /\ v.finished <=> w.finished \/ ~Reconnects(w)
        /\ evs \in Seq(Events)
        /\ \A n \in 1..Len(evs) : evs[n].sock = k
        /\ w.detached => evs = <<>>
    BY EndedFacts
  <1>2. Queue(evs) /\ ws' = [ws EXCEPT ![k] = v]
    BY DEF Ended
  <1>3. Right(v, level)
    <2>1. Right(ws[k], level)
      BY DEF Core, SocketsInv
    <2>2. v.closing => v.finished
      BY <1>1 DEF Reconnects
    <2> QED BY <1>1, <2>1, <2>2 DEF Right
  <1>4. ~ws[k].detached =>
          \A s \in StoryStates : Expect(ws[k], s) =>
            \E t \in StoryStates : Chain(k, evs, s, t) /\ Expect(v, t)
    BY EndedChain
  <1> HIDE DEF v, evs
  <1>5. Core' /\ events' = events \o evs
    BY <1>1, <1>2, <1>3, <1>4, OneSocket, ZenonT(40)
  <1> QED BY <1>5 DEF evs

-----------------------------------------------------------------------------
(* One lemma for each kind of step *)

SocketEvents == [sock : Socks, kind : EventKinds]
\* What a step of the sockets does to the queue.
Effect == \/ /\ level' = level
             /\ \/ \E evs \in Seq(SocketEvents) : events' = events \o evs
                \/ /\ events # <<>> /\ Head(events).kind \in EventKinds
                   /\ events' = Tail(events)
          \/ events' = <<>>

LEMMA NoEffect == ASSUME events \in Seq(Events), UNCHANGED <<events, level>> PROVE Effect
  <1>1. <<>> \in Seq(SocketEvents)
    OBVIOUS
  <1>2. events' = events \o <<>>
    BY ConcatEmptySeq
  <1> QED BY <1>1, <1>2 DEF Effect

\* Only the phase changes, or the turn.
LEMMA Stutter ==
  ASSUME Core, phase # "gone",
         UNCHANGED <<ws, slots, created, events, rxCount, level, quitting, heard>>
  PROVE  Core' /\ Effect
  <1>1. CoreTypes'
    BY DEF Core, CoreTypes
  <1>2. SocketsInv' /\ EventsInv' /\ StoryInv' /\ RxAccounted'
    BY DEF Core, SocketsInv, EventsInv, StoryInv, RxAccounted
  <1>3. SlotsInv'
    BY DEF Core, SlotsInv, SlotOwned, Slotted, Alive
  <1> QED BY <1>1, <1>2, <1>3, NoEffect DEF Core, CoreTypes

\* A socket changes, and nobody hears of it.
LEMMA Quiet ==
  ASSUME Core, phase # "gone", phase' # "gone",
         NEW k \in Socks, NEW w \in WsType,
         ws[k].st = "used", w.st = "used",
         w.detached = ws[k].detached, w.born = ws[k].born, Right(w, level),
         ws' = [ws EXCEPT ![k] = w],
         UNCHANGED <<slots, created, level, quitting, heard, events, rxCount>>,
         \A s \in StoryStates : Expect(ws[k], s) => Expect(w, s)
  PROVE  Core' /\ Effect
  <1>1. events \in Seq(Events) /\ rxCount \in Nat
    BY DEF Core, CoreTypes
  <1>2. /\ <<>> \in Seq(Events) /\ events \o <<>> = events /\ Messages(<<>>) = 0
        /\ \A n \in 1..Len(<<>>) : FALSE
    <2>1. <<>> \in Seq(Events) /\ Len(<<>>) = 0
      BY EmptySeq
    <2>2. Messages(<<>>) = Count(<<>>, MessageEvents)
      BY <2>1, MessagesCounted
    <2> QED BY <1>1, <2>1, <2>2, ConcatEmptySeq, CountEmpty
  <1>3. Queue(<<>>)
    BY <1>1, <1>2 DEF Queue
  <1>4. Core'
    BY <1>2, <1>3, ChainEmpty, OneSocket
  <1> QED BY <1>1, <1>4, NoEffect

LEMMA KilledFacts ==
  ASSUME NEW w \in WsType, NEW why \in BOOLEAN
  PROVE  /\ Killed(w, why) \in WsType
         /\ Killed(w, why).st = w.st /\ Killed(w, why).detached = w.detached
         /\ Killed(w, why).born = w.born /\ Killed(w, why).conn = w.conn
         /\ Killed(w, why).closing = w.closing /\ Killed(w, why).finished = w.finished
  <1>1. CASE w.conn = "none" \/ w.killed
    BY <1>1 DEF Killed
  <1>2. CASE ~(w.conn = "none" \/ w.killed)
    <2> DEFINE e == w.err \/ why
               v == [w EXCEPT !.killed = TRUE, !.err = e]
    <2>1. Killed(w, why) = v
      BY <1>2 DEF Killed
    <2>2. e \in BOOLEAN
      BY DEF WsType
    <2> HIDE DEF e
    <2>3. /\ v \in WsType
          /\ v.st = w.st /\ v.detached = w.detached /\ v.born = w.born
          /\ v.conn = w.conn /\ v.closing = w.closing /\ v.finished = w.finished
      BY <2>2 DEF WsType
    <2> QED BY <2>1, <2>3
  <1> QED BY <1>1, <1>2

LEMMA ShutFacts ==
  ASSUME NEW w \in WsType
  PROVE  /\ Shut(w) \in WsType
         /\ Shut(w).st = w.st /\ Shut(w).detached = w.detached
         /\ Shut(w).born = w.born /\ Shut(w).conn = w.conn
         /\ Shut(w).closing = TRUE /\ Shut(w).finished = (w.finished \/ w.conn = "none")
  <1> DEFINE c == [w EXCEPT !.closing = TRUE]
  <1>1. /\ c \in WsType /\ c.st = w.st /\ c.detached = w.detached /\ c.born = w.born
        /\ c.conn = w.conn /\ c.closing = TRUE /\ c.finished = w.finished
    BY DEF WsType
  <1>2. CASE w.conn = "none"
    <2> DEFINE v == [c EXCEPT !.finished = TRUE]
    <2>1. Shut(w) = v
      BY <1>2 DEF Shut
    <2> HIDE DEF c
    <2>2. /\ v \in WsType /\ v.st = c.st /\ v.detached = c.detached
          /\ v.born = c.born /\ v.conn = c.conn /\ v.closing = c.closing
          /\ v.finished = TRUE
      BY <1>1 DEF WsType
    <2> QED BY <1>1, <1>2, <2>1, <2>2
  <1>3. CASE w.conn = "connected"
    <2> DEFINE v == [c EXCEPT !.wantClose = TRUE, !.closeDeadline = TRUE]
    <2>1. Shut(w) = v
      BY <1>3 DEF Shut
    <2> HIDE DEF c
    <2>2. /\ v \in WsType /\ v.st = c.st /\ v.detached = c.detached
          /\ v.born = c.born /\ v.conn = c.conn /\ v.closing = c.closing
          /\ v.finished = c.finished
      BY <1>1 DEF WsType
    <2>3. w.finished \in BOOLEAN
      BY DEF WsType
    <2> QED BY <1>1, <1>3, <2>1, <2>2, <2>3
  <1>4. CASE w.conn = "connecting"
    <2>1. Shut(w) = Killed(c, FALSE)
      BY <1>4 DEF Shut
    <2>2. w.finished \in BOOLEAN
      BY DEF WsType
    <2> HIDE DEF c
    <2>3. /\ Killed(c, FALSE) \in WsType
          /\ Killed(c, FALSE).st = c.st /\ Killed(c, FALSE).detached = c.detached
          /\ Killed(c, FALSE).born = c.born /\ Killed(c, FALSE).conn = c.conn
          /\ Killed(c, FALSE).closing = c.closing
          /\ Killed(c, FALSE).finished = c.finished
      BY <1>1, KilledFacts
    <2> QED BY <1>1, <1>4, <2>1, <2>2, <2>3
  <1> QED BY <1>2, <1>3, <1>4 DEF WsType

\* A socket that a slot names is in use, and so is one with a connection.
LEMMA Used ==
  ASSUME Core, NEW k \in Socks
  PROVE  /\ ws[k] \in WsType /\ Right(ws[k], level)
         /\ ws[k].conn # "none" => ws[k].st = "used"
         /\ k \in Slotted => ws[k].st = "used" /\ ~ws[k].detached
         /\ k <= created => ws[k].st # "new"
  <1>1. /\ ws \in [Socks -> WsType] /\ Right(ws[k], level) /\ created \in 0..MaxOpens
        /\ k > created <=> ws[k].st = "new"
    BY DEF Core, CoreTypes, SocketsInv
  <1>2. k \in Slotted => ws[k].st = "used" /\ ~ws[k].detached
    BY DEF Core, SlotsInv, SlotOwned, Alive
  <1> QED BY <1>1, <1>2 DEF Right, Socks

LEMMA KilledStep ==
  ASSUME Core, phase # "gone", phase' # "gone", NEW k \in Socks, NEW why \in BOOLEAN,
         ws[k].conn # "none", ws' = [ws EXCEPT ![k] = Killed(@, why)],
         UNCHANGED <<slots, created, level, quitting, heard, events, rxCount>>
  PROVE  Core' /\ Effect
  <1> DEFINE w == Killed(ws[k], why)
  <1>1. /\ ws[k] \in WsType /\ ws[k].st = "used" /\ Right(ws[k], level)
    BY Used
  <1>2. /\ w \in WsType /\ w.st = ws[k].st /\ w.detached = ws[k].detached
        /\ w.born = ws[k].born /\ w.conn = ws[k].conn /\ w.closing = ws[k].closing
        /\ w.finished = ws[k].finished
    BY <1>1, KilledFacts
  <1>3. ws' = [ws EXCEPT ![k] = w]
    OBVIOUS
  <1> HIDE DEF w
  <1>4. Right(w, level) /\ \A s \in StoryStates : Expect(ws[k], s) => Expect(w, s)
    BY <1>1, <1>2 DEF Right, Expect
  <1> QED BY <1>1, <1>2, <1>3, <1>4, Quiet

LEMMA WsSendStep == ASSUME Core, NEW i \in Slots, WsSend(i) PROVE Core' /\ Effect
  <1> DEFINE k == slots[i]
             w == [ws[k] EXCEPT !.sendq = 1]
  <1>1. k \in Socks /\ ws[k].conn = "connected" /\ ws' = [ws EXCEPT ![k] = w]
    <2>1. slots[i] \in 0..MaxOpens
      BY DEF Core, CoreTypes
    <2> QED BY <2>1 DEF WsSend, Socks
  <1>2. ws[k] \in WsType /\ ws[k].st = "used" /\ Right(ws[k], level)
    BY <1>1, Used
  <1>3. /\ w \in WsType /\ w.st = ws[k].st /\ w.detached = ws[k].detached
        /\ w.born = ws[k].born /\ w.conn = ws[k].conn /\ w.closing = ws[k].closing
        /\ w.finished = ws[k].finished
    BY <1>2 DEF WsType
  <1>4. /\ phase # "gone" /\ phase' # "gone"
        /\ UNCHANGED <<slots, created, level, quitting, heard, events, rxCount>>
    BY DEF WsSend, ScriptRuns
  <1> HIDE DEF k, w
  <1>5. Right(w, level) /\ \A s \in StoryStates : Expect(ws[k], s) => Expect(w, s)
    BY <1>2, <1>3 DEF Right, Expect
  <1> QED BY <1>1, <1>2, <1>3, <1>4, <1>5, Quiet

LEMMA WsCloseStep == ASSUME Core, NEW i \in Slots, WsClose(i) PROVE Core' /\ Effect
  <1> DEFINE k == slots[i]
             w == Shut(ws[k])
  <1>1. k \in Slotted /\ k \in Socks /\ ws' = [ws EXCEPT ![k] = w]
    <2>1. slots[i] \in 0..MaxOpens
      BY DEF Core, CoreTypes
    <2> QED BY <2>1 DEF WsClose, Socks, Slotted
  <1>2. ws[k] \in WsType /\ ws[k].st = "used" /\ Right(ws[k], level)
    BY <1>1, Used
  <1>3. /\ w \in WsType /\ w.st = ws[k].st /\ w.detached = ws[k].detached
        /\ w.born = ws[k].born /\ w.conn = ws[k].conn /\ w.closing = TRUE
        /\ w.finished = (ws[k].finished \/ ws[k].conn = "none")
    BY <1>2, ShutFacts
  <1>4. /\ phase # "gone" /\ phase' # "gone"
        /\ UNCHANGED <<slots, created, level, quitting, heard, events, rxCount>>
    BY DEF WsClose, ScriptRuns
  <1> HIDE DEF k, w
  <1>5. Right(w, level) /\ \A s \in StoryStates : Expect(ws[k], s) => Expect(w, s)
    BY <1>2, <1>3 DEF Right, Expect
  <1> QED BY <1>1, <1>2, <1>3, <1>4, <1>5, Quiet

\* The level ends, or the server: every socket is given up.
LEMMA DropAllStep ==
  ASSUME Core, DropAll, phase # "gone", phase' # "gone", UNCHANGED <<created, heard>>,
         level' \in 0..MaxLevels, quitting' \in BOOLEAN
  PROVE  Core' /\ Effect
  <1>1. /\ ws \in [Socks -> WsType] /\ heard \in [Socks -> StoryStates]
        /\ created \in 0..MaxOpens
        /\ MaxOpens \in Nat
    BY BoundsAssumption DEF Core, CoreTypes
  <1>2. /\ events' = <<>> /\ rxCount' = 0 /\ slots' = [j \in Slots |-> 0]
        /\ ws' = [k \in Socks |-> IF k \in Slotted
                                  THEN Shut([ws[k] EXCEPT !.detached = TRUE]) ELSE ws[k]]
    BY DEF DropAll
  <1>3. ASSUME NEW k \in Socks
        PROVE  /\ ws'[k] \in WsType
               /\ ws'[k].st = ws[k].st
               /\ ws'[k].st = "new" => ws'[k] = ws[k]
               /\ Right(ws'[k], level')
               /\ ws'[k].st = "used" => ws'[k].detached
    <2>1. /\ ws[k] \in WsType /\ Right(ws[k], level)
          /\ k \in Slotted <=> ws[k].st = "used" /\ ~ws[k].detached
      BY Used DEF Core, SlotsInv, SlotOwned, Alive
    <2>2. CASE k \in Slotted
      <3> DEFINE d == [ws[k] EXCEPT !.detached = TRUE]
      <3>1. /\ d \in WsType /\ d.st = ws[k].st /\ d.detached /\ d.conn = ws[k].conn
            /\ d.finished = ws[k].finished
        BY <2>1 DEF WsType
      <3>2. ws'[k] = Shut(d)
        BY <1>2, <2>2
      <3> HIDE DEF d
      <3>3. /\ Shut(d) \in WsType /\ Shut(d).st = d.st /\ Shut(d).detached = d.detached
            /\ Shut(d).conn = d.conn /\ Shut(d).finished = (d.finished \/ d.conn = "none")
        BY <3>1, ShutFacts
      <3> QED BY <2>1, <2>2, <3>1, <3>2, <3>3 DEF Right
    <2>3. CASE k \notin Slotted
      <3>1. ws'[k] = ws[k]
        BY <1>2, <2>3
      <3> QED BY <2>1, <2>3, <3>1 DEF Right
    <2> QED BY <2>2, <2>3
  <1>4. CoreTypes'
    <2>1. ws' \in [Socks -> WsType]
      BY <1>2, <1>3
    <2>2. slots' \in [Slots -> 0..MaxOpens]
      BY <1>1, <1>2
    <2>3. events' \in Seq(Events)
      BY <1>2
    <2> QED BY <1>1, <1>2, <2>1, <2>2, <2>3 DEF CoreTypes
  <1>5. SocketsInv'
    BY <1>3 DEF Core, SocketsInv
  <1>6. SlotsInv'
    <2>1. \A j \in Slots : slots'[j] = 0
      BY <1>2
    <2>2. \A k \in Socks : k \notin Slotted'
      BY <2>1 DEF Slotted, Socks
    <2> QED BY <1>3, <2>1, <2>2 DEF SlotsInv, SlotOwned, Alive
  <1>7. Len(events') = 0
    BY <1>2
  <1>8. EventsInv'
    BY <1>7 DEF EventsInv
  <1>9. RxAccounted'
    <2>1. <<>> \in Seq(Events)
      OBVIOUS
    <2>2. Messages(<<>>) = 0
      BY <2>1, MessagesCounted, CountEmpty
    <2> QED BY <1>2, <2>2 DEF RxAccounted
  <1>10. StoryInv'
    <2> SUFFICES ASSUME NEW k \in Socks
                 PROVE  \E s \in StoryStates : Chain(k, <<>>, heard[k], s) /\ Expect(ws'[k], s)
      BY <1>2 DEF StoryInv
    <2>1. Chain(k, <<>>, heard[k], heard[k]) /\ heard[k] \in StoryStates
      BY <1>1, ChainEmpty
    <2>2. Expect(ws'[k], heard[k])
      BY <1>3 DEF Expect, Core, SocketsInv
    <2> QED BY <2>1, <2>2
  <1> QED BY <1>2, <1>4, <1>5, <1>6, <1>8, <1>9, <1>10 DEF Core, Effect

LEMMA LevelChangedStep == ASSUME Core, LevelChanged PROVE Core' /\ Effect
  <1>1. level' \in 0..MaxLevels /\ quitting' \in BOOLEAN
    BY BoundsAssumption DEF Core, CoreTypes, LevelChanged
  <1> QED BY <1>1, DropAllStep DEF LevelChanged, ScriptRuns

LEMMA ShutdownStep == ASSUME Core, Shutdown PROVE Core' /\ Effect
  <1>1. level' \in 0..MaxLevels /\ quitting' \in BOOLEAN
    BY DEF Core, CoreTypes, Shutdown
  <1> QED BY <1>1, DropAllStep DEF Shutdown

LEMMA NewFacts ==
  /\ NewWs \in WsType /\ NewWs.st = "new" /\ NewWs.conn = "none"
  /\ NewWs.finished = FALSE /\ NewWs.detached = FALSE /\ NewWs.closing = FALSE
  /\ NewWs.killed = FALSE
  BY BoundsAssumption DEF NewWs, WsType

LEMMA FreedFacts ==
  ASSUME NEW k, ws[k] \in WsType
  PROVE  /\ Freed(k) \in WsType
         /\ Freed(k).st = "freed" /\ Freed(k).conn = "none" /\ Freed(k).finished = FALSE
         /\ Freed(k).born = ws[k].born
  <1>1. ws[k].born \in 0..MaxLevels
    BY DEF WsType
  <1>2. Freed(k) = [NewWs EXCEPT !.st = "freed", !.born = ws[k].born]
    BY DEF Freed
  <1> QED BY <1>1, <1>2, NewFacts, ZenonT(40) DEF WsType

LEMMA DestroyStep == ASSUME Core, Destroy PROVE Core' /\ Effect
  <1>1. /\ ws \in [Socks -> WsType] /\ heard \in [Socks -> StoryStates]
        /\ ws' = [k \in Socks |-> IF ws[k].st = "used" THEN Freed(k) ELSE ws[k]]
        /\ events' = <<>> /\ phase' = "gone"
        /\ UNCHANGED <<slots, created, rxCount, level, quitting, heard>>
        /\ quitting
    BY DEF Core, CoreTypes, Destroy, Alive
  <1>2. ASSUME NEW k \in Socks
        PROVE  /\ ws'[k] \in WsType
               /\ ws'[k].st # "used" /\ (ws'[k].st = "new" <=> ws[k].st = "new")
               /\ ws'[k].st = "new" => ws'[k] = ws[k]
               /\ Right(ws'[k], level')
    <2>1. ws[k] \in WsType /\ Right(ws[k], level)
      BY Used
    <2>2. CASE ws[k].st = "used"
      <3>1. ws'[k] = Freed(k)
        BY <1>1, <2>2
      <3> QED BY <2>1, <2>2, <3>1, FreedFacts DEF Right
    <2>3. CASE ws[k].st # "used"
      <3>1. ws'[k] = ws[k] /\ level' = level
        BY <1>1, <2>3
      <3> QED BY <2>1, <2>3, <3>1
    <2> QED BY <2>2, <2>3
  <1>3. CoreTypes'
    <2>1. events' \in Seq(Events)
      BY <1>1
    <2>2. ws' \in [Socks -> WsType]
      BY <1>1, <1>2
    <2> QED BY <1>1, <2>1, <2>2 DEF Core, CoreTypes
  <1>4. SocketsInv'
    BY <1>1, <1>2 DEF Core, SocketsInv
  <1>5. SlotsInv'
    <2>1. \A j \in Slots : slots'[j] = 0
      BY <1>1 DEF Core, SlotsInv
    <2>2. \A k \in Socks : k \notin Slotted'
      BY <2>1 DEF Slotted, Socks
    <2> QED BY <1>2, <2>1, <2>2 DEF SlotsInv, SlotOwned, Alive
  <1>6. EventsInv'
    <2>1. Len(events') = 0
      BY <1>1
    <2> QED BY <2>1 DEF EventsInv
  <1>7. StoryInv'
    <2> SUFFICES ASSUME NEW k \in Socks
                 PROVE  \E s \in StoryStates : Chain(k, <<>>, heard[k], s) /\ Expect(ws'[k], s)
      BY <1>1 DEF StoryInv
    <2>1. Chain(k, <<>>, heard[k], heard[k]) /\ heard[k] \in StoryStates
      BY <1>1, ChainEmpty
    <2>2. Expect(ws'[k], heard[k])
      BY <1>2 DEF Expect, Core, SocketsInv
    <2> QED BY <2>1, <2>2
  <1> QED BY <1>1, <1>3, <1>4, <1>5, <1>6, <1>7 DEF Core, Effect, RxAccounted

\* A connection ends, and whoever follows the queue sees only that.
LEMMA EndedEffect ==
  ASSUME Core, NEW k \in Socks, NEW w \in WsType,
         level' = level, events' = events \o EndedEvents(k, w)
  PROVE  Effect
  <1> DEFINE evs == EndedEvents(k, w)
  <1>1. /\ evs \in Seq(Events)
        /\ \A n \in 1..Len(evs) : evs[n].sock = k /\ evs[n].kind \in EventKinds
    BY EndedFacts
  <1> HIDE DEF evs
  <1>2. evs \in Seq(SocketEvents)
    <2>1. \A n \in 1..Len(evs) : evs[n] \in SocketEvents
      <3> SUFFICES ASSUME NEW n \in 1..Len(evs) PROVE evs[n] \in SocketEvents
        OBVIOUS
      <3>1. evs[n] \in Events
        BY <1>1, ElementOfSeq
      <3>2. evs[n].sock \in Socks /\ evs[n].kind \in EventKinds
        BY <1>1
      <3> QED BY <3>1, <3>2 DEF Events, SocketEvents
    <2>2. Len(evs) \in Nat /\ evs = [n \in 1..Len(evs) |-> evs[n]]
      BY <1>1, LenProperties
    <2>3. [n \in 1..Len(evs) |-> evs[n]] \in Seq(SocketEvents)
      BY <2>1, <2>2, IsASeq
    <2> QED BY <2>2, <2>3
  <1> QED BY <1>2 DEF Effect, evs

\* A new socket takes the free slot i; what it tells at once is told to its script.
LEMMA OpenStep ==
  ASSUME Core, phase # "gone", phase' # "gone", ~quitting,
         NEW k \in Socks, k = created + 1, NEW w \in WsType, NEW evs \in Seq(Events),
         w.st = "used", ~w.detached, w.born = level, Right(w, level),
         \A n \in 1..Len(evs) : evs[n].sock = k,
         NEW i \in Slots, slots[i] = 0,
         Queue(evs), ws' = [ws EXCEPT ![k] = w],
         slots' = [slots EXCEPT ![i] = k], created' = k,
         UNCHANGED <<level, quitting, heard>>,
         \E t \in StoryStates : Chain(k, evs, "new", t) /\ Expect(w, t)
  PROVE  Core' /\ events' = events \o evs
  <1>1. /\ ws \in [Socks -> WsType] /\ events \in Seq(Events)
        /\ level \in 0..MaxLevels /\ created \in 0..MaxOpens
        /\ slots \in [Slots -> 0..MaxOpens] /\ MaxOpens \in Nat
        /\ heard \in [Socks -> StoryStates] /\ quitting \in BOOLEAN
    BY BoundsAssumption DEF Core, CoreTypes
  <1>2. /\ events' = events \o evs /\ events' \in Seq(Events) /\ rxCount' \in Nat
        /\ rxCount = Messages(events) => rxCount' = Messages(events \o evs)
        /\ Len(events) \in Nat /\ Len(evs) \in Nat
        /\ Len(events') = Len(events) + Len(evs)
        /\ \A n \in 1..Len(events') :
             events'[n] = IF n <= Len(events) THEN events[n] ELSE evs[n - Len(events)]
    BY QueueStep
  <1>3. \A j \in Socks : ws'[j] = IF j = k THEN w ELSE ws[j]
    BY <1>1
  <1>4. ws[k].st = "new" /\ heard[k] = "new"
    BY <1>1 DEF Core, SocketsInv
  <1>5. CoreTypes'
    <2>1. created' \in 0..MaxOpens /\ slots' \in [Slots -> 0..MaxOpens]
      BY <1>1 DEF Socks
    <2> QED BY <1>1, <1>2, <2>1 DEF Core, CoreTypes
  <1>6. SocketsInv'
    <2> SUFFICES ASSUME NEW j \in Socks
                 PROVE  (/\ j > created <=> ws[j].st = "new"
                         /\ ws[j].st = "new" => ws[j] = NewWs /\ heard[j] = "new"
                         /\ Right(ws[j], level))'
      BY DEF SocketsInv
    <2>1. /\ j > created <=> ws[j].st = "new"
          /\ ws[j].st = "new" => ws[j] = NewWs /\ heard[j] = "new"
          /\ Right(ws[j], level)
      BY DEF Core, SocketsInv
    <2>2. CASE j = k
      <3>1. ws'[j] = w /\ level' = level /\ ~(j > created')
        BY <2>2, <1>1, <1>3 DEF Socks
      <3> QED BY <3>1 DEF Right
    <2>3. CASE j # k
      <3>1. ws'[j] = ws[j] /\ level' = level /\ (j > created' <=> j > created)
        BY <2>3, <1>1, <1>3 DEF Socks
      <3> QED BY <2>1, <3>1 DEF Right
    <2> QED BY <2>2, <2>3
  <1>7. SlotsInv'
    <2>1. \A j \in Slots : slots'[j] = IF j = i THEN k ELSE slots[j]
      BY <1>1
    <2>2. k \notin Slotted
      BY <1>4, Used
    <2>3. \A j \in Slots : slots[j] # k
      BY <2>2 DEF Slotted
    <2>4. \A j \in Socks : j # 0
      BY DEF Socks
    <2>5. \A j \in Socks : j \in Slotted' <=> j \in Slotted \/ j = k
      BY <2>1, <2>4 DEF Slotted
    <2>6. \A j \in Socks : j \in Slotted <=> ws[j].st = "used" /\ ~ws[j].detached
      BY DEF Core, SlotsInv, SlotOwned, Alive
    <2>7. \A j \in Socks : j \in Slotted' <=> ws'[j].st = "used" /\ ~ws'[j].detached
      BY <2>5, <2>6, <1>3
    <2>8. \A m, n \in Slots : slots'[m] # 0 /\ slots'[m] = slots'[n] => m = n
      BY <2>1, <2>3, <2>4 DEF Core, SlotsInv, SlotOwned
    <2> QED BY <2>7, <2>8 DEF SlotsInv, SlotOwned, Alive
  <1>8. EventsInv'
    <2> SUFFICES ASSUME NEW n \in 1..Len(events'), events'[n].kind \in EventKinds
                 PROVE  /\ events'[n].sock \in Socks /\ events'[n].sock <= created'
                        /\ ws'[events'[n].sock].born = level
      BY DEF EventsInv, EventKinds
    <2>1. CASE n <= Len(events)
      <3>1. events'[n] = events[n] /\ n \in 1..Len(events)
        BY <2>1, <1>2
      <3>2. /\ events[n].sock \in Socks /\ events[n].sock <= created
            /\ ws[events[n].sock].born = level
        BY <3>1 DEF Core, EventsInv
      <3>3. events[n].sock # k /\ events[n].sock <= created'
        BY <3>2, <1>1 DEF Socks
      <3> QED BY <3>1, <3>2, <3>3, <1>3
    <2>2. CASE ~(n <= Len(events))
      <3>1. events'[n] = evs[n - Len(events)] /\ n - Len(events) \in 1..Len(evs)
        BY <2>2, <1>2
      <3>2. events'[n].sock = k
        BY <3>1
      <3> QED BY <3>2, <1>1, <1>3 DEF Socks
    <2> QED BY <2>1, <2>2
  <1>9. RxAccounted'
    BY <1>2 DEF Core, RxAccounted
  <1>10. StoryInv'
    <2> SUFFICES ASSUME NEW j \in Socks
                 PROVE  \E s \in StoryStates :
                          Chain(j, events \o evs, heard[j], s) /\ Expect(ws'[j], s)
      BY <1>2 DEF StoryInv
    <2>1. PICK s \in StoryStates : Chain(j, events, heard[j], s) /\ Expect(ws[j], s)
      BY DEF Core, StoryInv
    <2>2. CASE j # k
      <3>1. Chain(j, evs, s, s)
        BY <2>2, ChainOther
      <3>2. Chain(j, events \o evs, heard[j], s)
        BY <2>1, <3>1, <1>1, ChainConcat
      <3> QED BY <2>1, <2>2, <3>2, <1>3
    <2>3. CASE j = k
      <3>1. s = "new"
        BY <2>1, <2>3, <1>4 DEF Expect
      <3>2. PICK t \in StoryStates : Chain(k, evs, "new", t) /\ Expect(w, t)
        OBVIOUS
      <3>3. Chain(j, events \o evs, heard[j], t)
        BY <2>1, <2>3, <3>1, <3>2, <1>1, ChainConcat
      <3> QED BY <2>3, <3>2, <3>3, <1>3
    <2> QED BY <2>2, <2>3
  <1> QED BY <1>2, <1>5, <1>6, <1>7, <1>8, <1>9, <1>10 DEF Core

\* The slot that webSocketConnect chooses is free.
LEMMA LowestFree ==
  ASSUME FreeSlots # {}
  PROVE  LET i == CHOOSE s \in FreeSlots : \A r \in FreeSlots : s <= r
         IN  i \in Slots /\ slots[i] = 0
  <1>1. FreeSlots \subseteq Nat /\ FreeSlots \subseteq Slots
    BY BoundsAssumption DEF FreeSlots, Slots
  <1> DEFINE R == OpToRel(<, Nat)
  <1>2. IsWellFoundedOn(R, Nat)
    BY NatLessThanWellFounded
  <1>3. \A a, b \in Nat : a < b => <<a, b>> \in R
    BY DEF OpToRel
  <1> HIDE DEF R
  <1>4. PICK x \in FreeSlots : \A y \in FreeSlots : ~(<<y, x>> \in R)
    BY <1>1, <1>2, WFMin
  <1>5. \A r \in FreeSlots : x <= r
    <2>1. \A r \in FreeSlots : r \in Nat /\ x \in Nat
      BY <1>1
    <2>2. \A r \in FreeSlots : ~(r < x)
      BY <2>1, <1>3, <1>4
    <2> QED BY <2>1, <2>2
  <1>6. \A s \in FreeSlots : slots[s] = 0
    BY DEF FreeSlots
  <1> QED BY <1>1, <1>5, <1>6

LEMMA WsOpenStep ==
  ASSUME Core, NEW r \in Reconnecting, NEW p \in Pinging, WsOpen(r, p)
  PROVE  Core' /\ Effect
  <1> DEFINE k == created + 1
             i == CHOOSE s \in FreeSlots : \A q \in FreeSlots : s <= q
             w == [NewWs EXCEPT !.st = "used", !.reconnect = r, !.ping = p, !.born = level]
             c == [w EXCEPT !.conn = "connecting", !.killed = FALSE, !.waiting = FALSE]
             ce == [c EXCEPT !.err = TRUE]
             we == [w EXCEPT !.reconnect = FALSE, !.err = TRUE]
  <1>1. /\ r \in BOOLEAN /\ p \in BOOLEAN /\ level \in 0..MaxLevels
        /\ created \in 0..MaxOpens /\ MaxOpens \in Nat /\ quitting \in BOOLEAN
        /\ events \in Seq(Events) /\ rxCount \in Nat
    BY BoundsAssumption DEF Core, CoreTypes
  <1>2. /\ phase # "gone" /\ phase' # "gone" /\ ~quitting /\ k \in Socks
        /\ FreeSlots # {} /\ created' = k /\ slots' = [slots EXCEPT ![i] = k]
        /\ UNCHANGED <<level, quitting, heard>>
        /\ Connect(k, w) \/ Ended(k, we)
    BY <1>1 DEF WsOpen, ScriptRuns, Socks
  <1>3. i \in Slots /\ slots[i] = 0
    BY <1>2, LowestFree
  <1>4. /\ w \in WsType /\ w.st = "used" /\ w.conn = "none" /\ ~w.detached
        /\ w.born = level /\ ~w.finished /\ ~w.closing
    BY <1>1, NewFacts, ZenonT(40) DEF WsType
  <1> HIDE DEF w
  <1>5. /\ c \in WsType /\ c.st = "used" /\ c.conn = "connecting" /\ ~c.detached
        /\ c.born = level /\ ~c.finished /\ ~c.closing
    BY <1>4 DEF WsType
  <1> HIDE DEF c
  <1>6. /\ ce \in WsType /\ ce.st = "used" /\ ce.conn = "connecting" /\ ~ce.detached
        /\ ce.born = level /\ ~ce.finished /\ ~ce.closing
    BY <1>5 DEF WsType
  <1>7. /\ we \in WsType /\ we.st = "used" /\ we.conn = "none" /\ ~we.detached
        /\ we.born = level /\ ~we.finished /\ ~we.closing
    BY <1>4 DEF WsType
  <1> HIDE DEF ce, we, i
  <1>8. ASSUME NEW v \in WsType, v.st = "used", v.conn # "connected", ~v.detached,
               v.born = level, Ended(k, v)
        PROVE  Core' /\ Effect
    <2> DEFINE u == EndedWs(v)
               evs == EndedEvents(k, v)
    <2>1. /\ u \in WsType /\ u.st = "used" /\ ~u.detached /\ u.born = level
          /\ u.conn = "none" /\ u.closing = v.closing
          /\ u.finished <=> v.finished \/ ~Reconnects(v)
          /\ evs \in Seq(Events) /\ \A n \in 1..Len(evs) : evs[n].sock = k
      BY <1>2, <1>8, EndedFacts
    <2>2. Right(u, level)
      BY <2>1 DEF Right, Reconnects
    <2>3. \E t \in StoryStates : Chain(k, evs, "new", t) /\ Expect(u, t)
      <3>1. "new" \in StoryStates
        BY DEF StoryStates
      <3> QED BY <3>1, <1>2, <1>8, EndedChain
    <2>4. Queue(evs) /\ ws' = [ws EXCEPT ![k] = u]
      BY <1>8 DEF Ended
    <2> HIDE DEF u, evs, k
    <2>5. Core' /\ events' = events \o evs
      BY <2>1, <2>2, <2>3, <2>4, <1>2, <1>3, OpenStep DEF k
    <2> QED BY <2>5, <1>2, <1>8, EndedEffect DEF evs
  <1>9. CASE ws' = [ws EXCEPT ![k] = c] /\ UNCHANGED <<events, rxCount>>
    <2>1. Right(c, level) /\ Expect(c, "new")
      BY <1>5 DEF Right, Expect
    <2>2. /\ <<>> \in Seq(Events) /\ events \o <<>> = events /\ Messages(<<>>) = 0
          /\ \A n \in 1..Len(<<>>) : FALSE
      <3>1. <<>> \in Seq(Events) /\ Len(<<>>) = 0
        BY EmptySeq
      <3>2. Messages(<<>>) = Count(<<>>, MessageEvents)
        BY <3>1, MessagesCounted
      <3> QED BY <1>1, <3>1, <3>2, ConcatEmptySeq, CountEmpty
    <2>3. Queue(<<>>)
      BY <1>1, <1>9, <2>2 DEF Queue
    <2>4. "new" \in StoryStates /\ Chain(k, <<>>, "new", "new")
      BY ChainEmpty DEF StoryStates
    <2> HIDE DEF k
    <2>5. Core'
      BY <1>2, <1>3, <1>5, <1>9, <2>1, <2>2, <2>3, <2>4, OpenStep DEF k
    <2> QED BY <2>5, <1>1, <1>2, <1>9, NoEffect
  <1>10. Connect(k, w) => (ws' = [ws EXCEPT ![k] = c] /\ UNCHANGED <<events, rxCount>>)
                          \/ Ended(k, ce)
    BY DEF Connect, c, ce
  <1> QED BY <1>2, <1>6, <1>7, <1>8, <1>9, <1>10

-----------------------------------------------------------------------------
(* lws_service() and timers() *)

LEMMA EstablishedStep == ASSUME Core, NEW k \in Socks, Established(k) PROVE Core' /\ Effect
  <1> DEFINE w == [ws[k] EXCEPT !.conn = "connected"]
             e == Ev(k, "open")
             evs == IF ws[k].detached THEN <<>> ELSE <<e>>
  <1>1. /\ ws[k] \in WsType /\ ws[k].st = "used" /\ Right(ws[k], level)
        /\ ws[k].conn = "connecting" /\ ~ws[k].closing
        /\ ws' = [ws EXCEPT ![k] = w] /\ Queue(evs)
        /\ phase # "gone" /\ phase' # "gone"
        /\ UNCHANGED <<slots, created, level, quitting, heard>>
    BY Used DEF Established, InService, Alive, ServiceUnchanged
  <1>2. /\ w \in WsType /\ w.st = ws[k].st /\ w.detached = ws[k].detached
        /\ w.born = ws[k].born /\ w.conn = "connected" /\ w.closing = ws[k].closing
        /\ w.finished = ws[k].finished
    BY <1>1 DEF WsType
  <1>3. e \in SocketEvents /\ e \in Events /\ e.sock = k /\ e.kind = "open"
    BY DEF Ev, SocketEvents, Events, Kinds, EventKinds, Socks
  <1> HIDE DEF w, e
  <1>4. /\ evs \in Seq(Events) /\ evs \in Seq(SocketEvents)
        /\ \A n \in 1..Len(evs) : evs[n].sock = k
    BY <1>3
  <1>5. Right(w, level)
    BY <1>1, <1>2 DEF Right
  <1>6. ASSUME ~ws[k].detached, NEW s \in StoryStates, Expect(ws[k], s)
        PROVE  \E t \in StoryStates : Chain(k, evs, s, t) /\ Expect(w, t)
    <2>1. s \in {"new", "down"}
      BY <1>1, <1>6 DEF Expect
    <2>2. Told(k, s, e) = "open" /\ "open" \in StoryStates
      BY <1>3, <2>1 DEF Told, Learns, EventKinds, StoryStates
    <2>3. Chain(k, <<e>>, s, "open")
      BY <2>2, ChainOne
    <2>4. Expect(w, "open")
      BY <1>1, <1>2 DEF Expect
    <2> QED BY <1>6, <2>2, <2>3, <2>4
  <1>7. ws[k].detached => evs = <<>>
    OBVIOUS
  <1> HIDE DEF evs
  <1>8. Core' /\ events' = events \o evs
    BY <1>1, <1>2, <1>4, <1>5, <1>6, <1>7, OneSocket
  <1> QED BY <1>1, <1>4, <1>8 DEF Effect

LEMMA ReceiveStep == ASSUME Core, NEW k \in Socks, Receive(k) PROVE Core' /\ Effect
  <1> DEFINE w == IF rxCount' > RxQueueMax THEN Killed(ws[k], TRUE) ELSE ws[k]
             e == Ev(k, "message")
             evs == IF ws[k].detached THEN <<>> ELSE <<e>>
  <1>1. /\ ws[k] \in WsType /\ ws[k].st = "used" /\ Right(ws[k], level)
        /\ ws[k].conn = "connected" /\ Queue(evs)
        /\ phase # "gone" /\ phase' # "gone"
        /\ UNCHANGED <<slots, created, level, quitting, heard>>
    BY Used DEF Receive, InService, Alive, ServiceUnchanged
  <1>2. /\ w \in WsType /\ w.st = ws[k].st /\ w.detached = ws[k].detached
        /\ w.born = ws[k].born /\ w.conn = "connected" /\ w.closing = ws[k].closing
        /\ w.finished = ws[k].finished
    BY <1>1, KilledFacts
  <1>3. e \in SocketEvents /\ e \in Events /\ e.sock = k /\ e.kind = "message"
    BY DEF Ev, SocketEvents, Events, Kinds, EventKinds, Socks
  <1>4. ws' = [ws EXCEPT ![k] = w]
    <2>1. ws \in [Socks -> WsType]
      BY DEF Core, CoreTypes
    <2> QED BY <2>1 DEF Receive
  <1> HIDE DEF w, e
  <1>5. /\ evs \in Seq(Events) /\ evs \in Seq(SocketEvents)
        /\ \A n \in 1..Len(evs) : evs[n].sock = k
    BY <1>3
  <1>6. Right(w, level)
    BY <1>1, <1>2 DEF Right
  <1>7. ASSUME ~ws[k].detached, NEW s \in StoryStates, Expect(ws[k], s)
        PROVE  \E t \in StoryStates : Chain(k, evs, s, t) /\ Expect(w, t)
    <2>1. s = "open"
      BY <1>1, <1>7 DEF Expect
    <2>2. Told(k, s, e) = "open" /\ "open" \in StoryStates
      BY <1>3, <2>1 DEF Told, Learns, EventKinds, StoryStates
    <2>3. Chain(k, <<e>>, s, "open")
      BY <2>2, ChainOne
    <2>4. Expect(w, "open")
      BY <1>1, <1>2 DEF Expect
    <2> QED BY <1>7, <2>2, <2>3, <2>4
  <1>8. ws[k].detached => evs = <<>>
    OBVIOUS
  <1> HIDE DEF evs
  <1>9. Core' /\ events' = events \o evs
    BY <1>1, <1>2, <1>4, <1>5, <1>6, <1>7, <1>8, OneSocket
  <1> QED BY <1>1, <1>5, <1>9 DEF Effect

\* A connected socket's pings, pongs and frames.
LEMMA PongStep == ASSUME Core, NEW k \in Socks, ReceivePong(k) PROVE Core' /\ Effect
  <1> DEFINE w == [ws[k] EXCEPT !.pong = "no"]
  <1>1. /\ ws[k] \in WsType /\ ws[k].st = "used" /\ Right(ws[k], level)
        /\ ws' = [ws EXCEPT ![k] = w] /\ phase # "gone" /\ phase' # "gone"
        /\ UNCHANGED <<slots, created, level, quitting, heard, events, rxCount>>
    BY Used DEF ReceivePong, InService, Alive, ServiceUnchanged
  <1>2. /\ w \in WsType /\ w.st = ws[k].st /\ w.detached = ws[k].detached
        /\ w.born = ws[k].born /\ w.conn = ws[k].conn /\ w.closing = ws[k].closing
        /\ w.finished = ws[k].finished
    BY <1>1 DEF WsType
  <1> HIDE DEF w
  <1>3. Right(w, level) /\ \A s \in StoryStates : Expect(ws[k], s) => Expect(w, s)
    BY <1>1, <1>2 DEF Right, Expect
  <1> QED BY <1>1, <1>2, <1>3, Quiet

LEMMA WriteableStep == ASSUME Core, NEW k \in Socks, Writeable(k) PROVE Core' /\ Effect
  <1>1. /\ ws[k] \in WsType /\ ws[k].st = "used" /\ Right(ws[k], level)
        /\ phase # "gone" /\ phase' # "gone"
        /\ UNCHANGED <<slots, created, level, quitting, heard, events, rxCount>>
    BY Used DEF Writeable, InService, Alive, ServiceUnchanged
  <1>2. PICK w : /\ w \in {[ws[k] EXCEPT !.sendq = 0], [ws[k] EXCEPT !.pong = "wait"],
                           [ws[k] EXCEPT !.wantClose = FALSE]}
                 /\ ws' = [ws EXCEPT ![k] = w]
    BY DEF Writeable
  <1>3. /\ w \in WsType /\ w.st = ws[k].st /\ w.detached = ws[k].detached
        /\ w.born = ws[k].born /\ w.conn = ws[k].conn /\ w.closing = ws[k].closing
        /\ w.finished = ws[k].finished
    <2>1. CASE w = [ws[k] EXCEPT !.sendq = 0]
      BY <1>1, <2>1 DEF WsType
    <2>2. CASE w = [ws[k] EXCEPT !.pong = "wait"]
      BY <1>1, <2>2 DEF WsType
    <2>3. CASE w = [ws[k] EXCEPT !.wantClose = FALSE]
      BY <1>1, <2>3 DEF WsType
    <2> QED BY <1>2, <2>1, <2>2, <2>3
  <1>4. Right(w, level) /\ \A s \in StoryStates : Expect(ws[k], s) => Expect(w, s)
    BY <1>1, <1>3 DEF Right, Expect
  <1> QED BY <1>1, <1>2, <1>3, <1>4, Quiet

\* A connection ends, or an attempt to connect.
LEMMA LostStep ==
  ASSUME Core, phase # "gone", phase' # "gone", NEW k \in Socks, NEW w \in WsType,
         ws[k].st = "used", w.st = "used", w.detached = ws[k].detached,
         w.born = ws[k].born, Ended(k, w),
         \/ w.conn = ws[k].conn /\ w.conn # "none"
         \/ w.conn # "connected" /\ ws[k].conn = "none" /\ ~ws[k].finished,
         UNCHANGED <<slots, created, level, quitting, heard>>
  PROVE  Core' /\ Effect
  <1>1. \A s \in StoryStates : ~w.detached /\ Expect(ws[k], s) =>
            IF w.conn = "connected" THEN s = "open" ELSE s \in {"new", "down"}
    <2> SUFFICES ASSUME NEW s \in StoryStates, ~w.detached, Expect(ws[k], s)
                 PROVE  IF w.conn = "connected" THEN s = "open" ELSE s \in {"new", "down"}
      OBVIOUS
    <2>1. ws[k].conn \in {"none", "connecting", "connected"}
      BY Used DEF WsType
    <2> QED BY <2>1 DEF Expect
  <1>2. Core' /\ events' = events \o EndedEvents(k, w)
    BY <1>1, EndedStep
  <1> QED BY <1>2, EndedEffect

LEMMA ConnectionLostStep ==
  ASSUME Core, NEW k \in Socks, ConnectionLost(k) \/ KillServed(k) PROVE Core' /\ Effect
  <1> DEFINE w == [ws[k] EXCEPT !.err = TRUE]
  <1>1. /\ ws[k] \in WsType /\ ws[k].st = "used" /\ ws[k].conn # "none"
        /\ phase # "gone" /\ phase' # "gone"
        /\ UNCHANGED <<slots, created, level, quitting, heard>>
        /\ \/ Ended(k, ws[k])
           \/ ws[k].conn = "connecting" /\ Ended(k, w)
    BY Used DEF ConnectionLost, KillServed, InService, Alive, ServiceUnchanged
  <1>2. /\ w \in WsType /\ w.st = ws[k].st /\ w.detached = ws[k].detached
        /\ w.born = ws[k].born /\ w.conn = ws[k].conn
    BY <1>1 DEF WsType
  <1> HIDE DEF w
  <1> QED BY <1>1, <1>2, LostStep

LEMMA TimersStep == ASSUME Core, NEW k \in Socks, Timers(k) PROVE Core' /\ Effect
  <1>1. /\ ws[k] \in WsType /\ Right(ws[k], level)
        /\ phase # "gone" /\ phase' # "gone"
        /\ UNCHANGED <<slots, created, level, quitting, heard>>
    BY Used DEF Timers, CloseTimeout, ConnectTimeout, PingTimer, Reconnect, NotDue,
                InTimers, TurnOver
  <1>2. CASE CloseTimeout(k)
    BY <1>1, <1>2, KilledStep DEF CloseTimeout
  <1>3. CASE ConnectTimeout(k)
    BY <1>1, <1>3, KilledStep DEF ConnectTimeout
  <1>4. CASE PingTimer(k)
    <2>1. CASE ws' = [ws EXCEPT ![k] = Killed(@, TRUE)]
      BY <1>1, <1>4, <2>1, KilledStep DEF PingTimer
    <2>2. CASE ws' = [ws EXCEPT ![k].pong = "want"]
      <3> DEFINE w == [ws[k] EXCEPT !.pong = "want"]
      <3>1. /\ w \in WsType /\ w.st = ws[k].st /\ w.detached = ws[k].detached
            /\ w.born = ws[k].born /\ w.conn = ws[k].conn /\ w.closing = ws[k].closing
            /\ w.finished = ws[k].finished
        BY <1>1 DEF WsType
      <3>2. ws' = [ws EXCEPT ![k] = w]
        BY <2>2
      <3>3. ws[k].st = "used" /\ UNCHANGED <<events, rxCount>>
        BY <1>4, Used DEF PingTimer
      <3> HIDE DEF w
      <3>4. Right(w, level) /\ \A s \in StoryStates : Expect(ws[k], s) => Expect(w, s)
        BY <1>1, <3>1 DEF Right, Expect
      <3> QED BY <1>1, <3>1, <3>2, <3>3, <3>4, Quiet
    <2> QED BY <1>4, <2>1, <2>2 DEF PingTimer
  <1>5. CASE Reconnect(k)
    <2> DEFINE c == [ws[k] EXCEPT !.conn = "connecting", !.killed = FALSE,
                                  !.waiting = FALSE]
               ce == [c EXCEPT !.err = TRUE]
    <2>1. /\ ws[k].conn = "none" /\ ws[k].st = "used" /\ ~ws[k].finished
          /\ \/ ws' = [ws EXCEPT ![k] = c] /\ UNCHANGED <<events, rxCount>>
             \/ Ended(k, ce)
      BY <1>5 DEF Reconnect, Connect, Alive
    <2>2. /\ c \in WsType /\ c.st = ws[k].st /\ c.detached = ws[k].detached
          /\ c.born = ws[k].born /\ c.conn = "connecting" /\ c.closing = ws[k].closing
          /\ c.finished = ws[k].finished
      BY <1>1 DEF WsType
    <2> HIDE DEF c
    <2>3. /\ ce \in WsType /\ ce.st = c.st /\ ce.detached = c.detached
          /\ ce.born = c.born /\ ce.conn = c.conn
      BY <2>2 DEF WsType
    <2> HIDE DEF ce
    <2>4. Right(c, level) /\ \A s \in StoryStates : Expect(ws[k], s) => Expect(c, s)
      BY <1>1, <2>1, <2>2 DEF Right, Expect
    <2>5. CASE ws' = [ws EXCEPT ![k] = c] /\ UNCHANGED <<events, rxCount>>
      BY <1>1, <2>1, <2>2, <2>4, <2>5, Quiet
    <2>6. CASE Ended(k, ce)
      BY <1>1, <2>1, <2>2, <2>3, <2>6, LostStep
    <2> QED BY <2>1, <2>5, <2>6
  <1>6. CASE NotDue(k)
    BY <1>1, <1>6, Stutter DEF NotDue
  <1> QED BY <1>2, <1>3, <1>4, <1>5, <1>6 DEF Timers

-----------------------------------------------------------------------------
(* deliver() and reap() *)

LEMMA DeliverStep == ASSUME Core, Deliver PROVE Core' /\ Effect
  <1> DEFINE e == Head(events)
             rest == Tail(events)
  <1>1. /\ ws \in [Socks -> WsType] /\ events \in Seq(Events) /\ rxCount \in Nat
        /\ heard \in [Socks -> StoryStates]
    BY DEF Core, CoreTypes
  <1>2. /\ phase = "deliver" /\ phase' = "callback" /\ events # <<>>
        /\ e.kind \in EventKinds /\ events' = rest
        /\ rxCount' = IF e.kind = "message" THEN rxCount - 1 ELSE rxCount
        /\ heard' = [heard EXCEPT ![e.sock] = Learns(@, e.kind)]
        /\ UNCHANGED <<ws, slots, created, level, quitting>>
    BY DEF Deliver, RxAfter
  <1>3. /\ e \in Events /\ rest \in Seq(Events) /\ Len(rest) = Len(events) - 1
        /\ \A n \in 1..Len(rest) : rest[n] = events[n + 1]
        /\ Len(events) \in Nat \ {0} /\ e = events[1]
    BY <1>1, <1>2, HeadTailProperties, EmptySeq
  <1>4. e.sock \in Socks /\ e.sock <= created
    <2>1. 1 \in 1..Len(events)
      BY <1>3
    <2> QED BY <2>1, <1>2, <1>3 DEF Core, EventsInv
  <1>5. ASSUME NEW k \in Socks
        PROVE  /\ heard'[k] = Told(k, heard[k], e) /\ heard'[k] \in StoryStates
               /\ \E s \in StoryStates : Chain(k, rest, heard'[k], s) /\ Expect(ws[k], s)
    <2>1. PICK s \in StoryStates : Chain(k, events, heard[k], s) /\ Expect(ws[k], s)
      BY DEF Core, StoryInv
    <2>2. heard'[k] = Told(k, heard[k], e)
      BY <1>1, <1>2, <1>4 DEF Told
    <2>3. Told(k, heard[k], e) \in StoryStates /\ Chain(k, rest, Told(k, heard[k], e), s)
      BY <1>1, <1>2, <2>1, ChainTail
    <2> QED BY <2>1, <2>2, <2>3
  <1>6. rxCount' \in Nat /\ rxCount' = Messages(rest)
    <2>1. rxCount = Messages(events)
      BY <1>2 DEF Core, RxAccounted
    <2>2. /\ Messages(events) = Count(events, MessageEvents)
          /\ Messages(rest) = Count(rest, MessageEvents)
          /\ Count(rest, MessageEvents) \in Nat
      BY <1>1, <1>3, MessagesCounted, CountType
    <2>3. e \in MessageEvents <=> e.kind = "message"
      BY <1>3 DEF MessageEvents
    <2>4. Count(events, MessageEvents)
            = (IF e \in MessageEvents THEN 1 ELSE 0) + Count(rest, MessageEvents)
      BY <1>1, <1>2, CountTail
    <2> QED BY <1>2, <2>1, <2>2, <2>3, <2>4
  <1> HIDE DEF e, rest
  <1>7. CoreTypes'
    <2>1. heard' \in [Socks -> StoryStates]
      BY <1>1, <1>2, <1>5
    <2> QED BY <1>2, <1>3, <1>6, <2>1 DEF Core, CoreTypes
  <1>8. SocketsInv'
    <2> SUFFICES ASSUME NEW k \in Socks
                 PROVE  /\ k > created <=> ws[k].st = "new"
                        /\ ws[k].st = "new" => ws[k] = NewWs /\ heard'[k] = "new"
                        /\ Right(ws[k], level)
      BY <1>2 DEF SocketsInv
    <2>1. /\ k > created <=> ws[k].st = "new"
          /\ ws[k].st = "new" => ws[k] = NewWs /\ heard[k] = "new"
          /\ Right(ws[k], level)
      BY DEF Core, SocketsInv
    <2>2. ws[k].st = "new" => k # e.sock
      <3>1. e.sock <= created => ~(e.sock > created)
        BY <1>4 DEF Core, CoreTypes, Socks
      <3> QED BY <1>4, <2>1, <3>1
    <2>3. k # e.sock => heard'[k] = heard[k]
      BY <1>1, <1>2
    <2> QED BY <2>1, <2>2, <2>3
  <1>9. SlotsInv'
    BY <1>2 DEF Core, SlotsInv, SlotOwned, Slotted, Alive
  <1>10. EventsInv'
    <2> SUFFICES ASSUME NEW n \in 1..Len(rest), rest[n].kind \in EventKinds
                 PROVE  /\ rest[n].sock \in Socks /\ rest[n].sock <= created
                        /\ ws[rest[n].sock].born = level
      BY <1>2 DEF EventsInv, EventKinds
    <2>1. rest[n] = events[n + 1] /\ n + 1 \in 1..Len(events)
      BY <1>3
    <2> QED BY <2>1 DEF Core, EventsInv
  <1>11. RxAccounted'
    BY <1>2, <1>6 DEF RxAccounted
  <1>12. StoryInv'
    BY <1>2, <1>5 DEF StoryInv
  <1>13. Effect
    BY <1>2 DEF Effect, e, rest
  <1> QED BY <1>7, <1>8, <1>9, <1>10, <1>11, <1>12, <1>13 DEF Core

LEMMA ReapStep == ASSUME Core, Reap PROVE Core' /\ Effect
  <1>1. /\ ws \in [Socks -> WsType] /\ slots \in [Slots -> 0..MaxOpens]
        /\ MaxOpens \in Nat
        /\ phase = "reap" /\ phase' = "script"
        /\ slots' = [i \in Slots |-> IF slots[i] # 0 /\ Reapable(slots[i]) THEN 0
                                     ELSE slots[i]]
        /\ ws' = [k \in Socks |-> IF Reapable(k) THEN Freed(k) ELSE ws[k]]
        /\ UNCHANGED <<created, events, rxCount, level, quitting, heard>>
    BY BoundsAssumption DEF Core, CoreTypes, Reap
  <1>2. ASSUME NEW k \in Socks
        PROVE  /\ ws'[k] \in WsType /\ ws'[k].born = ws[k].born
               /\ ws'[k].st = "new" <=> ws[k].st = "new"
               /\ ws'[k].st = "new" => ws'[k] = ws[k]
               /\ Right(ws'[k], level)
               /\ \A s \in StoryStates : Expect(ws[k], s) => Expect(ws'[k], s)
               /\ (ws'[k].st = "used" /\ ~ws'[k].detached)
                    <=> (ws[k].st = "used" /\ ~ws[k].detached /\ ~Reapable(k))
    <2>1. ws[k] \in WsType /\ Right(ws[k], level)
      BY Used
    <2>2. CASE Reapable(k)
      <3>1. ws'[k] = Freed(k) /\ ws[k].st = "used"
        BY <1>1, <2>2 DEF Reapable, Alive
      <3> QED BY <2>1, <2>2, <3>1, FreedFacts DEF Right, Expect
    <2>3. CASE ~Reapable(k)
      <3>1. ws'[k] = ws[k]
        BY <1>1, <2>3
      <3> QED BY <2>1, <2>3, <3>1
    <2> QED BY <2>2, <2>3
  <1>3. CoreTypes'
    <2>1. ws' \in [Socks -> WsType]
      BY <1>1, <1>2
    <2>2. slots' \in [Slots -> 0..MaxOpens]
      BY <1>1
    <2> QED BY <1>1, <2>1, <2>2 DEF Core, CoreTypes
  <1>4. SocketsInv'
    BY <1>1, <1>2 DEF Core, SocketsInv
  <1>5. SlotsInv'
    <2>1. \A i \in Slots : slots'[i] = IF slots[i] # 0 /\ Reapable(slots[i]) THEN 0
                                       ELSE slots[i]
      BY <1>1
    <2>2. \A k \in Socks : k # 0
      BY DEF Socks
    <2>3. \A k \in Socks : k \in Slotted' <=> k \in Slotted /\ ~Reapable(k)
      BY <2>1, <2>2 DEF Slotted
    <2>4. \A k \in Socks : k \in Slotted <=> ws[k].st = "used" /\ ~ws[k].detached
      BY DEF Core, SlotsInv, SlotOwned, Alive
    <2>5. \A k \in Socks : k \in Slotted' <=> ws'[k].st = "used" /\ ~ws'[k].detached
      BY <2>3, <2>4, <1>2
    <2>6. \A i, j \in Slots : slots'[i] # 0 /\ slots'[i] = slots'[j] => i = j
      BY <2>1 DEF Core, SlotsInv, SlotOwned
    <2>7. quitting' => \A i \in Slots : slots'[i] = 0
      BY <1>1, <2>1 DEF Core, SlotsInv
    <2> QED BY <2>5, <2>6, <2>7 DEF SlotsInv, SlotOwned, Alive
  <1>6. EventsInv'
    BY <1>1, <1>2 DEF Core, EventsInv
  <1>7. RxAccounted'
    BY <1>1 DEF Core, RxAccounted
  <1>8. StoryInv'
    <2> SUFFICES ASSUME NEW k \in Socks
                 PROVE  \E s \in StoryStates :
                          Chain(k, events, heard[k], s) /\ Expect(ws'[k], s)
      BY <1>1 DEF StoryInv
    <2>1. PICK s \in StoryStates : Chain(k, events, heard[k], s) /\ Expect(ws[k], s)
      BY DEF Core, StoryInv
    <2> QED BY <2>1, <1>2
  <1>9. Effect
    BY <1>1, NoEffect DEF Core, CoreTypes
  <1> QED BY <1>3, <1>4, <1>5, <1>6, <1>7, <1>8, <1>9 DEF Core

-----------------------------------------------------------------------------
(* WebSocketClient *)

PhaseOK == /\ phase \in {"script", "service", "timers", "deliver", "callback", "reap", "gone"}
           /\ turn \in 1..(MaxOpens + 1)

LEMMA InitCore == Init => Core /\ PhaseOK /\ events = <<>>
  <1> SUFFICES ASSUME Init PROVE Core /\ PhaseOK /\ events = <<>>
    OBVIOUS
  <1>1. /\ phase = "script" /\ turn = 1 /\ ws = [k \in Socks |-> NewWs]
        /\ slots = [i \in Slots |-> 0] /\ created = 0 /\ events = <<>> /\ rxCount = 0
        /\ level = 0 /\ quitting = FALSE /\ heard = [k \in Socks |-> "new"]
        /\ MaxOpens \in Nat \ {0} /\ MaxLevels \in Nat
    BY BoundsAssumption DEF Init
  <1>2. CoreTypes
    <2>1. ws \in [Socks -> WsType] /\ heard \in [Socks -> StoryStates]
      BY <1>1, NewFacts DEF StoryStates
    <2>2. slots \in [Slots -> 0..MaxOpens] /\ created \in 0..MaxOpens
      BY <1>1
    <2>3. events \in Seq(Events)
      BY <1>1
    <2>4. rxCount \in Nat /\ level \in 0..MaxLevels
      BY <1>1
    <2>5. quitting \in BOOLEAN
      BY <1>1
    <2> QED BY <2>1, <2>2, <2>3, <2>4, <2>5 DEF CoreTypes
  <1>3. Len(events) = 0
    BY <1>1
  <1>4. \A k \in Socks : /\ ws[k] = NewWs /\ heard[k] = "new" /\ k > created
                         /\ Right(ws[k], level) /\ Expect(ws[k], "new")
    BY <1>1, NewFacts DEF Right, Expect, Socks
  <1>5. SocketsInv
    BY <1>4, NewFacts DEF SocketsInv
  <1>6. SlotsInv
    <2>1. \A i \in Slots : slots[i] = 0
      BY <1>1
    <2>2. \A k \in Socks : k \notin Slotted
      BY <2>1 DEF Slotted, Socks
    <2> QED BY <1>1, <1>4, <2>1, <2>2, NewFacts DEF SlotsInv, SlotOwned, Alive
  <1>7. EventsInv
    BY <1>3 DEF EventsInv
  <1>8. RxAccounted
    <2>1. <<>> \in Seq(Events)
      OBVIOUS
    <2>2. Messages(<<>>) = 0
      BY <2>1, MessagesCounted, CountEmpty
    <2> QED BY <1>1, <2>2 DEF RxAccounted
  <1>9. StoryInv
    <2>1. "new" \in StoryStates
      BY DEF StoryStates
    <2> QED BY <1>1, <1>4, <2>1, ChainEmpty DEF StoryInv
  <1> QED BY <1>1, <1>2, <1>5, <1>6, <1>7, <1>8, <1>9 DEF Core, PhaseOK

LEMMA NextCore == ASSUME Core, Next PROVE Core' /\ Effect
  <1>1. CASE Script
    <2>1. ASSUME NEW r \in Reconnecting, NEW p \in Pinging, WsOpen(r, p)
          PROVE  Core' /\ Effect
      BY <2>1, WsOpenStep
    <2>2. ASSUME NEW i \in Slots, WsSend(i) \/ WsClose(i)
          PROVE  Core' /\ Effect
      BY <2>2, WsSendStep, WsCloseStep
    <2> QED BY <1>1, <2>1, <2>2, LevelChangedStep, ShutdownStep DEF Script
  <1>2. CASE Destroy
    BY <1>2, DestroyStep
  <1>3. CASE Frame
    <2>1. CASE Poll \/ Serviced \/ TimersDone \/ CallbackDone \/ DeliverDone
      <3>1. /\ phase # "gone"
            /\ UNCHANGED <<ws, slots, created, events, rxCount, level, quitting, heard>>
        BY <2>1 DEF Poll, Serviced, TimersDone, CallbackDone, DeliverDone
      <3> QED BY <3>1, Stutter
    <2> QED BY <1>3, <2>1, DeliverStep, ReapStep DEF Frame
  <1>4. ASSUME NEW k \in Socks, Lws(k) \/ Timers(k)
        PROVE  Core' /\ Effect
    BY <1>4, EstablishedStep, ReceiveStep, PongStep, WriteableStep, ConnectionLostStep,
       TimersStep DEF Lws
  <1> QED BY <1>1, <1>2, <1>3, <1>4 DEF Next

LEMMA NextPhase == ASSUME Core, PhaseOK, Next PROVE PhaseOK'
  <1>1. created \in 0..MaxOpens /\ MaxOpens \in Nat
    BY BoundsAssumption DEF Core, CoreTypes
  <1>2. CASE Script \/ Destroy
    <2>1. /\ turn' = turn
          /\ phase' \in {phase, "gone"}
      BY <1>2 DEF Script, Destroy, WsOpen, WsSend, WsClose, LevelChanged, Shutdown
    <2> QED BY <2>1 DEF PhaseOK
  <1>3. CASE Frame
    BY <1>1, <1>3 DEF Frame, Poll, Serviced, TimersDone, Deliver, CallbackDone, DeliverDone,
                 Reap, PhaseOK
  <1>4. ASSUME NEW k \in Socks, Lws(k) \/ Timers(k)
        PROVE  PhaseOK'
    <2>1. CASE Lws(k)
      BY <2>1 DEF Lws, Established, Receive, ReceivePong, Writeable, ConnectionLost,
                  KillServed, ServiceUnchanged, PhaseOK
    <2>2. CASE Timers(k)
      <3>1. phase' = phase /\ turn' = turn + 1 /\ turn = k /\ k <= created
        BY <2>2 DEF Timers, CloseTimeout, ConnectTimeout, PingTimer, Reconnect, NotDue,
                    InTimers, TurnOver
      <3> QED BY <1>1, <3>1 DEF PhaseOK
    <2> QED BY <1>4, <2>1, <2>2
  <1> QED BY <1>2, <1>3, <1>4 DEF Next

\* Without requests the queue holds events of sockets only.
Inv == Core /\ PhaseOK /\ events \in Seq(SocketEvents)

LEMMA EffectSockets ==
  ASSUME events \in Seq(SocketEvents), Effect
  PROVE  events' \in Seq(SocketEvents)
  <1>1. ASSUME NEW evs \in Seq(SocketEvents), events' = events \o evs
        PROVE  events' \in Seq(SocketEvents)
    BY <1>1, ConcatProperties
  <1>2. CASE events # <<>> /\ events' = Tail(events)
    BY <1>2, HeadTailProperties
  <1>3. CASE events' = <<>>
    BY <1>3
  <1> QED BY <1>1, <1>2, <1>3 DEF Effect

\* The inductive invariant of WebSocketClient.
THEOREM Invariant == Spec => []Inv
  <1>1. Init => Inv
    <2>1. <<>> \in Seq(SocketEvents)
      OBVIOUS
    <2> QED BY <2>1, InitCore DEF Inv
  <1>2. Inv /\ [Next]_vars => Inv'
    <2>1. ASSUME Inv, Next
          PROVE  Inv'
      BY <2>1, NextCore, NextPhase, EffectSockets DEF Inv
    <2>2. ASSUME Inv, UNCHANGED vars
          PROVE  Inv'
      <3>1. /\ CoreTypes' /\ SocketsInv' /\ EventsInv' /\ StoryInv' /\ RxAccounted'
            /\ PhaseOK' /\ (events \in Seq(SocketEvents))'
        BY <2>2 DEF vars, Inv, Core, CoreTypes, SocketsInv, EventsInv, StoryInv, RxAccounted,
                    PhaseOK
      <3>2. SlotsInv'
        BY <2>2 DEF vars, Inv, Core, SlotsInv, SlotOwned, Slotted, Alive
      <3> QED BY <3>1, <3>2 DEF Inv, Core
    <2> QED BY <2>1, <2>2
  <1> QED BY <1>1, <1>2, PTL DEF Spec

LEMMA CoreSound ==
  ASSUME Core
  PROVE  /\ RxAccounted /\ SlotOwned /\ FinishedIsDead /\ HeardInOrder /\ OldLevelSilent
  <1>1. FinishedIsDead
    BY DEF Core, SocketsInv, Right, FinishedIsDead
  <1>2. HeardInOrder
    BY DEF Core, CoreTypes, HeardInOrder, StoryStates
  <1>3. OldLevelSilent
    BY DEF Core, EventsInv, OldLevelSilent
  <1> QED BY <1>1, <1>2, <1>3 DEF Core, SlotsInv

\* The bookkeeping of the sockets: ws_rx_bytes counts the queued messages, a slot is
\* one live socket of this level, and reap() frees none that lws may call about.
THEOREM Bookkeeping == Spec => []SocketsSound
  <1>1. Inv => SocketsSound
    <2> SUFFICES ASSUME Inv PROVE SocketsSound
      OBVIOUS
    <2>1. TypeOK
      <3>1. heard \in [Socks -> {"new", "open", "failed", "down", "over", "confused"}]
        BY DEF Inv, Core, CoreTypes, StoryStates
      <3> QED BY <3>1 DEF Inv, Core, CoreTypes, WsType, PhaseOK, SocketEvents, TypeOK
    <2> QED BY <2>1, CoreSound DEF Inv, SocketsSound
  <1> QED BY <1>1, Invariant, PTL

\* However callbacks, level changes and reconnects interleave, a script hears of
\* its socket in the documented order, and of none of an earlier level.
THEOREM Stories == Spec => []StoryInOrder
  <1>1. Inv => StoryInOrder
    BY CoreSound DEF Inv, StoryInOrder
  <1> QED BY <1>1, Invariant, PTL

\* Only connect() gives a socket a connection, and never to one that is closing.
LEMMA ClosedStays ==
  ASSUME Core, Next, NEW k \in Socks, ws[k].closing, ws[k].conn = "none"
  PROVE  ws'[k].conn = "none"
  <1>1. /\ ws \in [Socks -> WsType] /\ ws[k] \in WsType /\ Right(ws[k], level)
        /\ created \in 0..MaxOpens
        /\ k > created <=> ws[k].st = "new"
        /\ ws[k].st = "new" => ws[k] = NewWs
    BY Used DEF Core, CoreTypes, SocketsInv
  <1>2. k <= created
    <2>1. ws[k].st # "new"
      BY <1>1, NewFacts
    <2> QED BY <1>1, <2>1 DEF Socks
  <1>3. ws[k].st = "used" => ws[k].finished
    BY <1>1 DEF Right
  <1>4. ASSUME NEW j \in Socks, NEW w, ws' = [ws EXCEPT ![j] = w],
               j = k => w.conn = "none"
        PROVE  ws'[k].conn = "none"
    BY <1>1, <1>4
  <1>5. ASSUME NEW j \in Socks, NEW w, Ended(j, w)
        PROVE  ws'[k].conn = "none"
    <2>1. j = k => EndedWs(w).conn = "none" \/ w \notin WsType
      BY EndedFacts
    <2>2. ws' = [ws EXCEPT ![j] = EndedWs(w)]
      BY <1>5 DEF Ended
    <2> QED BY <2>2, <1>1 DEF EndedWs
  <1>6. CASE Script
    <2>1. ASSUME NEW r \in Reconnecting, NEW p \in Pinging, WsOpen(r, p)
          PROVE  ws'[k].conn = "none"
      <3>1. created + 1 \in Socks /\ created + 1 # k
        BY <2>1, <1>1, <1>2, BoundsAssumption DEF WsOpen, Socks
      <3>2. PICK w : ws' = [ws EXCEPT ![created + 1] = w]
        BY <2>1 DEF WsOpen, Connect, Ended
      <3> QED BY <3>1, <3>2, <1>4
    <2>2. ASSUME NEW i \in Slots, WsSend(i)
          PROVE  ws'[k].conn = "none"
      <3>1. slots[i] \in Socks /\ slots[i] # k
        BY <2>2 DEF WsSend, Core, CoreTypes, Socks
      <3>2. PICK w : ws' = [ws EXCEPT ![slots[i]] = w]
        BY <2>2 DEF WsSend
      <3> QED BY <3>1, <3>2, <1>4
    <2>3. ASSUME NEW i \in Slots, WsClose(i)
          PROVE  ws'[k].conn = "none"
      <3>1. slots[i] \in Socks /\ ws' = [ws EXCEPT ![slots[i]] = Shut(ws[slots[i]])]
        BY <2>3 DEF WsClose, Core, CoreTypes, Socks
      <3>2. Shut(ws[k]).conn = "none"
        BY <1>1, ShutFacts
      <3> QED BY <3>1, <3>2, <1>4
    <2>4. ASSUME DropAll
          PROVE  ws'[k].conn = "none"
      <3> DEFINE d == [ws[k] EXCEPT !.detached = TRUE]
      <3>1. d \in WsType /\ d.conn = "none"
        BY <1>1 DEF WsType
      <3>2. ws'[k] \in {Shut(d), ws[k]}
        BY <2>4 DEF DropAll
      <3> HIDE DEF d
      <3> QED BY <3>1, <3>2, ShutFacts, ZenonT(40)
    <2> QED BY <1>6, <2>1, <2>2, <2>3, <2>4 DEF Script, LevelChanged, Shutdown
  <1>7. CASE Destroy
    <2>1. ws'[k] \in {Freed(k), ws[k]}
      BY <1>7 DEF Destroy
    <2> QED BY <1>1, <2>1, FreedFacts
  <1>8. CASE Frame
    <2>1. ws'[k] \in {Freed(k), ws[k]}
      BY <1>1, <1>8 DEF Frame, Poll, Serviced, TimersDone, Deliver, CallbackDone, DeliverDone,
                        Reap
    <2> QED BY <1>1, <2>1, FreedFacts
  <1>9. ASSUME NEW j \in Socks, Lws(j)
        PROVE  ws'[k].conn = "none"
    <2>1. CASE ConnectionLost(j) \/ KillServed(j)
      BY <2>1, <1>5 DEF ConnectionLost, KillServed
    <2>2. CASE Established(j) \/ ReceivePong(j) \/ Writeable(j)
      <3>1. j # k /\ \E w : ws' = [ws EXCEPT ![j] = w]
        BY <2>2 DEF Established, ReceivePong, Writeable
      <3> QED BY <3>1, <1>4
    <2>3. CASE Receive(j)
      <3>1. j # k /\ (ws' = ws \/ \E w : ws' = [ws EXCEPT ![j] = w])
        BY <2>3 DEF Receive
      <3> QED BY <3>1, <1>4
    <2> QED BY <1>9, <2>1, <2>2, <2>3 DEF Lws
  <1>10. ASSUME NEW j \in Socks, Timers(j)
         PROVE  ws'[k].conn = "none"
    <2>1. CASE Reconnect(j)
      <3>1. j # k
        BY <2>1, <1>3 DEF Reconnect, Alive
      <3>2. PICK w : ws' = [ws EXCEPT ![j] = w]
        BY <2>1 DEF Reconnect, Connect, Ended
      <3> QED BY <3>1, <3>2, <1>4
    <2>2. CASE CloseTimeout(j) \/ ConnectTimeout(j) \/ PingTimer(j)
      <3>1. j # k /\ \E w : ws' = [ws EXCEPT ![j] = w]
        BY <2>2 DEF CloseTimeout, ConnectTimeout, PingTimer
      <3> QED BY <3>1, <1>4
    <2>3. CASE NotDue(j)
      BY <2>3 DEF NotDue
    <2> QED BY <1>10, <2>1, <2>2, <2>3 DEF Timers
  <1> QED BY <1>6, <1>7, <1>8, <1>9, <1>10 DEF Next

\* A socket that was closed while it waited to reconnect is not connected again.
THEOREM ClosedForGood == Spec => ClosedNeverReconnects
  <1>1. Inv /\ [Next]_vars =>
          [\A k \in Socks : ws[k].closing /\ ws[k].conn = "none" => ws'[k].conn = "none"]_vars
    BY ClosedStays DEF Inv
  <1> QED BY <1>1, Invariant, PTL DEF Spec, ClosedNeverReconnects

-----------------------------------------------------------------------------
(* HttpClient: the requests share the queue *)

ReqType == [st : {"new", "used", "freed"}, live : BOOLEAN, killed : BOOLEAN,
            err : BOOLEAN, reported : BOOLEAN, timed : BOOLEAN, gen : 0..MaxLevels]
OfReq(r) == {e \in Events : e.sock = r /\ e.kind \in ReqKinds}
Outcomes(r) == answered[r] + Queued(r)
Made(r) == IF r <= made THEN req[r].st # "new" ELSE req[r] = NewReq

\* A request that may still be reported was not, and its event was not heard.
ReqsInv ==
    /\ req \in [Reqs -> ReqType] /\ made \in 0..MaxReqs /\ answered \in [Reqs -> Nat]
    /\ \A r \in Reqs :
         /\ Made(r)
         /\ Outcomes(r) <= 1
         /\ req[r].st # "freed" /\ ~req[r].reported => Outcomes(r) = 0
         /\ phase # "gone" /\ req[r].st = "freed" => ~req[r].live
    /\ \A n \in 1..Len(events) :
         events[n].kind \in ReqKinds
           => /\ events[n].sock \in Reqs /\ events[n].sock <= made
              /\ req[events[n].sock].gen = level

LEMMA QueuedCounted ==
  ASSUME events \in Seq(Events), NEW r
  PROVE  Queued(r) = Count(events, OfReq(r)) /\ Queued(r) \in Nat
  <1>1. \A n \in 1..Len(events) : events[n] \in Events
    BY ElementOfSeq
  <1>2. {n \in 1..Len(events) : events[n].sock = r /\ events[n].kind \in ReqKinds}
          = {n \in 1..Len(events) : events[n] \in OfReq(r)}
    BY <1>1 DEF OfReq
  <1>3. Count(events, OfReq(r)) \in Nat
    BY CountType
  <1> QED BY <1>2, <1>3 DEF Queued, Count

LEMMA LaterCounted ==
  ASSUME events' \in Seq(Events), NEW r
  PROVE  Queued(r)' = Count(events', OfReq(r)) /\ Queued(r)' \in Nat
  <1>1. Queued(r)' = Cardinality({n \in 1..Len(events') :
                         events'[n].sock = r /\ events'[n].kind \in ReqKinds})
    BY DEF Queued
  <1>2. {n \in 1..Len(events') : events'[n].sock = r /\ events'[n].kind \in ReqKinds}
          = {n \in 1..Len(events') : events'[n] \in OfReq(r)}
    <2>1. \A n \in 1..Len(events') : events'[n] \in Events
      BY ElementOfSeq
    <2> QED BY <2>1 DEF OfReq
  <1>3. Count(events', OfReq(r)) \in Nat
    BY CountType
  <1> QED BY <1>1, <1>2, <1>3 DEF Count

\* Nothing is queued for a request: what is left of the queue was there before.
Kept == /\ events' = <<>> \/ level' = level
        /\ \A r \in Reqs : Queued(r)' <= Queued(r)
        /\ \A n \in 1..Len(events') :
             events'[n].kind \in ReqKinds
               => \E m \in 1..Len(events) : events[m] = events'[n]

LEMMA NothingKept ==
  ASSUME events \in Seq(Events), events' = <<>>
  PROVE  Kept
  <1>1. \A r \in Reqs : Queued(r)' = 0 /\ Queued(r) \in Nat
    <2> TAKE r \in Reqs
    <2>1. events' \in Seq(Events) /\ Count(events', OfReq(r)) = 0
      BY CountEmpty
    <2>2. Queued(r)' = Count(events', OfReq(r))
      BY <2>1, LaterCounted
    <2> QED BY <2>1, <2>2, QueuedCounted
  <1>2. Len(events') = 0
    OBVIOUS
  <1> QED BY <1>1, <1>2 DEF Kept

LEMMA AllKept ==
  ASSUME events \in Seq(Events), UNCHANGED <<events, level>>
  PROVE  Kept
  <1>1. \A r \in Reqs : Queued(r)' = Queued(r) /\ Queued(r) \in Nat
    <2>1. \A r \in Reqs : Queued(r)' = Queued(r)
      BY DEF Queued
    <2> QED BY <2>1, QueuedCounted
  <1> QED BY <1>1 DEF Kept

LEMMA SocketsKeep ==
  ASSUME events \in Seq(Events), events' \in Seq(Events), Effect
  PROVE  Kept
  <1>1. \A r : /\ Queued(r) = Count(events, OfReq(r)) /\ Queued(r) \in Nat
               /\ Queued(r)' = Count(events', OfReq(r)) /\ Queued(r)' \in Nat
    BY QueuedCounted, LaterCounted
  <1>2. ASSUME level' = level, NEW evs \in Seq(SocketEvents), events' = events \o evs
        PROVE  Kept
    <2>1. \A n \in 1..Len(evs) : evs[n] \in SocketEvents
      BY ElementOfSeq
    <2>2. Seq(SocketEvents) \subseteq Seq(Events)
      <3>1. SocketEvents \subseteq Events
        BY BoundsAssumption DEF SocketEvents, Events, Kinds, Socks
      <3> QED BY <3>1
    <2>3. ASSUME NEW r \in Reqs
          PROVE  Queued(r)' <= Queued(r)
      <3>1. Count(evs, OfReq(r)) = 0
        <4>1. \A n \in 1..Len(evs) : evs[n] \notin OfReq(r)
          BY <2>1 DEF OfReq, SocketEvents, EventKinds, ReqKinds
        <4> QED BY <4>1, CountNone
      <3>2. Count(events \o evs, OfReq(r)) = Count(events, OfReq(r)) + Count(evs, OfReq(r))
        BY <2>2, CountConcat
      <3> QED BY <3>1, <3>2, <1>1, <1>2
    <2>4. ASSUME NEW n \in 1..Len(events'), events'[n].kind \in ReqKinds
          PROVE  \E m \in 1..Len(events) : events[m] = events'[n]
      <3>1. /\ Len(events) \in Nat /\ Len(evs) \in Nat
            /\ Len(events') = Len(events) + Len(evs)
            /\ events'[n] = IF n <= Len(events) THEN events[n] ELSE evs[n - Len(events)]
        BY <1>2, <2>2, LenProperties, ConcatProperties
      <3>2. CASE n <= Len(events)
        BY <3>1, <3>2
      <3>3. CASE ~(n <= Len(events))
        <4>1. n - Len(events) \in 1..Len(evs) /\ events'[n] = evs[n - Len(events)]
          BY <3>1, <3>3
        <4>2. events'[n].kind \in EventKinds
          BY <4>1, <2>1 DEF SocketEvents
        <4> QED BY <4>2, <2>4 DEF EventKinds, ReqKinds
      <3> QED BY <3>2, <3>3
    <2> QED BY <1>2, <2>3, <2>4 DEF Kept
  <1>3. CASE level' = level /\ events # <<>> /\ events' = Tail(events)
    <2>1. ASSUME NEW r \in Reqs
          PROVE  Queued(r)' <= Queued(r)
      <3>1. Count(events, OfReq(r))
              = (IF Head(events) \in OfReq(r) THEN 1 ELSE 0) + Count(events', OfReq(r))
        BY <1>3, CountTail
      <3> QED BY <3>1, <1>1
    <2>2. /\ Len(events') = Len(events) - 1
          /\ \A n \in 1..Len(events') : events'[n] = events[n + 1]
          /\ Len(events) \in Nat
      BY <1>3, HeadTailProperties
    <2>3. \A n \in 1..Len(events') : \E m \in 1..Len(events) : events[m] = events'[n]
      <3> TAKE n \in 1..Len(events')
      <3>1. n + 1 \in 1..Len(events)
        BY <2>2
      <3> QED BY <2>2, <3>1
    <2> QED BY <1>3, <2>1, <2>3 DEF Kept
  <1>4. CASE events' = <<>>
    BY <1>4, NothingKept
  <1> QED BY <1>2, <1>3, <1>4 DEF Effect

\* The requests change, and nothing is said of them.
LEMMA SilentStep ==
  ASSUME ReqsInv, events \in Seq(Events), events' \in Seq(Events), Kept, phase # "gone",
         req' \in [Reqs -> ReqType], made' \in 0..MaxReqs, made' >= made,
         answered' = answered,
         \A r \in Reqs :
           /\ Made(r)'
           /\ r <= made => req'[r].gen = req[r].gen
           /\ req'[r].st # "freed" /\ ~req'[r].reported
                => req[r].st # "freed" /\ ~req[r].reported
           /\ phase' # "gone" /\ req'[r].st = "freed" => ~req'[r].live
  PROVE  ReqsInv'
  <1>1. /\ req \in [Reqs -> ReqType] /\ made \in 0..MaxReqs
        /\ answered \in [Reqs -> Nat] /\ MaxReqs \in Nat
    BY ReqsAssumption DEF ReqsInv
  <1>2. ASSUME NEW r \in Reqs
        PROVE  /\ Outcomes(r)' <= 1
               /\ req'[r].st # "freed" /\ ~req'[r].reported => Outcomes(r)' = 0
    <2>1. /\ Outcomes(r) <= 1
          /\ req[r].st # "freed" /\ ~req[r].reported => Outcomes(r) = 0
      BY DEF ReqsInv
    <2>2. Queued(r)' <= Queued(r) /\ Queued(r) \in Nat /\ Queued(r)' \in Nat
      BY QueuedCounted, LaterCounted DEF Kept
    <2>3. Outcomes(r) = answered[r] + Queued(r) /\ Outcomes(r)' = answered[r] + Queued(r)'
      BY DEF Outcomes
    <2>4. answered[r] \in Nat
      BY <1>1
    <2>5. Outcomes(r)' \in Nat /\ Outcomes(r)' <= Outcomes(r)
      BY <2>2, <2>3, <2>4
    <2>6. Outcomes(r) \in Nat
      BY <2>2, <2>3, <2>4
    <2> QED BY <2>1, <2>5, <2>6
  <1>3. ASSUME NEW n \in 1..Len(events'), events'[n].kind \in ReqKinds
        PROVE  /\ events'[n].sock \in Reqs /\ events'[n].sock <= made'
               /\ req'[events'[n].sock].gen = level'
    <2>1. PICK m \in 1..Len(events) : events[m] = events'[n]
      BY <1>3 DEF Kept
    <2>2. /\ events[m].sock \in Reqs /\ events[m].sock <= made
          /\ req[events[m].sock].gen = level
      BY <2>1, <1>3 DEF ReqsInv
    <2>3. level' = level
      <3>1. events' # <<>>
        BY <1>3
      <3> QED BY <3>1 DEF Kept
    <2> DEFINE j == events'[n].sock
    <2>4. j \in Reqs /\ j <= made /\ req[j].gen = level
      BY <2>1, <2>2
    <2> HIDE DEF j
    <2>5. j <= made' /\ req'[j].gen = level'
      BY <1>1, <2>3, <2>4 DEF Reqs
    <2> QED BY <2>4, <2>5 DEF j
  <1> QED BY <1>1, <1>2, <1>3 DEF ReqsInv

\* What is queued for a request is no news of a socket.
LEMMA CoreReported ==
  ASSUME Core, phase # "gone", UNCHANGED <<ws, slots, created, level, quitting, heard>>,
         NEW e \in Events, e.kind \in ReqKinds,
         events' = events \o <<e>>, rxCount' = rxCount + Messages(<<e>>)
  PROVE  Core'
  <1>1. /\ events \in Seq(Events) /\ rxCount \in Nat
        /\ heard \in [Socks -> StoryStates]
    BY DEF Core, CoreTypes
  <1>2. <<e>> \in Seq(Events) /\ Len(<<e>>) = 1 /\ <<e>>[1] = e
    OBVIOUS
  <1>3. /\ Messages(<<e>>) = 0 /\ Messages(events \o <<e>>) = Messages(events)
        /\ events \o <<e>> \in Seq(Events)
    <2>1. events \o <<e>> \in Seq(Events)
      BY <1>1, <1>2, ConcatProperties
    <2>2. Count(<<e>>, MessageEvents) = 0
      <3>1. e \notin MessageEvents
        BY DEF MessageEvents, ReqKinds
      <3> QED BY <3>1, CountOne
    <2>3. Count(events \o <<e>>, MessageEvents)
            = Count(events, MessageEvents) + Count(<<e>>, MessageEvents)
      BY <1>1, <1>2, CountConcat
    <2>4. Count(events, MessageEvents) \in Nat
      BY <1>1, CountType
    <2>5. /\ Messages(<<e>>) = Count(<<e>>, MessageEvents)
          /\ Messages(events) = Count(events, MessageEvents)
          /\ Messages(events \o <<e>>) = Count(events \o <<e>>, MessageEvents)
      BY <1>1, <1>2, <2>1, MessagesCounted
    <2> QED BY <2>1, <2>2, <2>3, <2>4, <2>5
  <1>4. CoreTypes'
    BY <1>1, <1>3 DEF Core, CoreTypes
  <1>5. SocketsInv'
    BY DEF Core, SocketsInv
  <1>6. SlotsInv'
    BY DEF Core, SlotsInv, SlotOwned, Slotted, Alive
  <1>7. EventsInv'
    <2>1. /\ Len(events') = Len(events) + 1 /\ Len(events) \in Nat
          /\ \A n \in 1..Len(events') :
               events'[n] = IF n <= Len(events) THEN events[n] ELSE e
      BY <1>1, <1>2, LenProperties, ConcatProperties, SMTT(60)
    <2>2. ASSUME NEW n \in 1..Len(events'), events'[n].kind \in EventKinds
          PROVE  n \in 1..Len(events) /\ events'[n] = events[n]
      BY <2>1, <2>2 DEF EventKinds, ReqKinds
    <2> QED BY <2>2 DEF Core, EventsInv
  <1>8. RxAccounted'
    BY <1>1, <1>3 DEF Core, RxAccounted
  <1>9. StoryInv'
    <2> SUFFICES ASSUME NEW k \in Socks
                 PROVE  \E s \in StoryStates :
                          Chain(k, events', heard[k], s) /\ Expect(ws[k], s)
      BY DEF StoryInv
    <2>1. PICK s \in StoryStates : Chain(k, events, heard[k], s) /\ Expect(ws[k], s)
      BY DEF Core, StoryInv
    <2>2. \A n \in 1..Len(<<e>>) : <<e>>[n].kind \notin EventKinds
      BY <1>2 DEF EventKinds, ReqKinds
    <2>3. Chain(k, <<e>>, s, s)
      BY <1>2, <2>2, ChainOther
    <2>4. Chain(k, events \o <<e>>, heard[k], s)
      BY <1>1, <1>2, <2>1, <2>3, ChainConcat
    <2> QED BY <2>1, <2>4
  <1> QED BY <1>4, <1>5, <1>6, <1>7, <1>8, <1>9 DEF Core

\* A request is reported: it was not before, and it will not be again.
LEMMA ReportStep ==
  ASSUME Core, ReqsInv, NEW r \in Reqs, NEW q \in ReqType, NEW kind \in ReqKinds,
         req[r].st # "freed", ~req[r].reported, q.st # "new",
         q.st = "freed" \/ q.reported, q.st = "freed" => ~q.live, q.gen = level,
         req' = [req EXCEPT ![r] = q],
         made' \in 0..MaxReqs, r <= made', made <= made',
         \A j \in Reqs : j # r => (j <= made' <=> j <= made),
         UNCHANGED <<answered, level, phase>>, events' = events \o <<Ev(r, kind)>>
  PROVE  ReqsInv'
  <1> DEFINE e == Ev(r, kind)
  <1>1. /\ req \in [Reqs -> ReqType] /\ made \in 0..MaxReqs
        /\ answered \in [Reqs -> Nat] /\ MaxReqs \in Nat /\ events \in Seq(Events)
    BY ReqsAssumption DEF ReqsInv, Core, CoreTypes
  <1>2. e \in Events /\ e.sock = r /\ e.kind = kind
    BY <1>1 DEF Ev, Events, Reqs, Kinds
  <1> HIDE DEF e
  <1>3. /\ <<e>> \in Seq(Events) /\ Len(<<e>>) = 1 /\ <<e>>[1] = e
        /\ events' = events \o <<e>> /\ events' \in Seq(Events)
        /\ Len(events) \in Nat /\ Len(events') = Len(events) + 1
        /\ \A n \in 1..Len(events') : events'[n] = IF n <= Len(events) THEN events[n] ELSE e
    <2>1. <<e>> \in Seq(Events) /\ Len(<<e>>) = 1 /\ <<e>>[1] = e
      BY <1>2
    <2>2. events' = events \o <<e>>
      BY DEF e
    <2> QED BY <1>1, <2>1, <2>2, LenProperties, ConcatProperties
  <1>4. ASSUME NEW j \in Reqs
        PROVE  /\ Outcomes(j)' = Outcomes(j) + (IF j = r THEN 1 ELSE 0)
               /\ Outcomes(j) \in Nat
    <2>1. Count(events', OfReq(j)) = Count(events, OfReq(j)) + Count(<<e>>, OfReq(j))
      <3>1. Count(events \o <<e>>, OfReq(j))
              = Count(events, OfReq(j)) + Count(<<e>>, OfReq(j))
        BY <1>1, <1>3, CountConcat, ZenonT(40)
      <3> QED BY <3>1, <1>3
    <2>2. e \in OfReq(j) <=> j = r
      BY <1>2 DEF OfReq
    <2>3. Count(<<e>>, OfReq(j)) = IF j = r THEN 1 ELSE 0
      BY <2>2, CountOne
    <2>4. /\ Queued(j) = Count(events, OfReq(j)) /\ Queued(j) \in Nat
          /\ Queued(j)' = Count(events', OfReq(j))
      BY <1>1, <1>3, QueuedCounted, LaterCounted
    <2>5. Outcomes(j) = answered[j] + Queued(j) /\ Outcomes(j)' = answered[j] + Queued(j)'
      BY DEF Outcomes
    <2>6. answered[j] \in Nat
      BY <1>1
    <2> QED BY <2>1, <2>3, <2>4, <2>5, <2>6
  <1>5. \A j \in Reqs : req'[j] = IF j = r THEN q ELSE req[j]
    BY <1>1
  <1>6. req' \in [Reqs -> ReqType]
    BY <1>1
  <1>7. ASSUME NEW j \in Reqs
        PROVE  /\ Made(j)'
               /\ Outcomes(j)' <= 1
               /\ req'[j].st # "freed" /\ ~req'[j].reported => Outcomes(j)' = 0
               /\ phase' # "gone" /\ req'[j].st = "freed" => ~req'[j].live
    <2>1. /\ Made(j)
          /\ Outcomes(j) <= 1
          /\ req[j].st # "freed" /\ ~req[j].reported => Outcomes(j) = 0
          /\ phase # "gone" /\ req[j].st = "freed" => ~req[j].live
      BY DEF ReqsInv
    <2>2. CASE j = r
      <3>1. Outcomes(j)' = 1
        BY <2>1, <2>2, <1>4
      <3>2. req'[j] = q /\ Made(j)'
        BY <2>2, <1>5 DEF Made
      <3> QED BY <3>1, <3>2
    <2>3. CASE j # r
      <3>1. Outcomes(j)' = Outcomes(j)
        BY <2>3, <1>4
      <3>2. req'[j] = req[j] /\ (j <= made' <=> j <= made)
        BY <2>3, <1>5
      <3>3. Made(j)' <=> Made(j)
        BY <3>2 DEF Made
      <3> QED BY <2>1, <3>1, <3>2, <3>3
    <2> QED BY <2>2, <2>3
  <1>8. ASSUME NEW n \in 1..Len(events'), events'[n].kind \in ReqKinds
        PROVE  /\ events'[n].sock \in Reqs /\ events'[n].sock <= made'
               /\ req'[events'[n].sock].gen = level'
    <2>1. CASE n <= Len(events)
      <3> DEFINE j == events'[n].sock
      <3>1. n \in 1..Len(events) /\ events'[n] = events[n]
        BY <2>1, <1>3
      <3>2. j \in Reqs /\ j <= made /\ req[j].gen = level
        BY <3>1, <1>8 DEF ReqsInv
      <3> HIDE DEF j
      <3>3. j <= made' /\ req'[j].gen = level
        BY <3>2, <1>1, <1>5 DEF Reqs
      <3> QED BY <3>2, <3>3 DEF j
    <2>2. CASE ~(n <= Len(events))
      <3>1. events'[n].sock = r
        BY <2>2, <1>2, <1>3
      <3>2. req'[r].gen = level
        BY <1>5
      <3> QED BY <3>1, <3>2
    <2> QED BY <2>1, <2>2
  <1> QED BY <1>6, <1>7, <1>8, <1>1 DEF ReqsInv

\* finish() and ended(): reported now, or before, or in another level.
LEMMA FinishStep ==
  ASSUME Core, ReqsInv, phase # "gone", UNCHANGED <<phase, answered>>,
         UNCHANGED <<ws, slots, created, level, quitting, heard>>,
         NEW r \in Reqs, NEW p, NEW q \in ReqType,
         p.reported = req[r].reported, req[r].st # "freed", p.gen = q.gen,
         r <= made => q.gen = req[r].gen, q.st # "new",
         q.st = "freed" \/ q.reported, q.st = "freed" => ~q.live,
         req' = [req EXCEPT ![r] = q], Queue(Outcome(r, p)),
         made' \in 0..MaxReqs, r <= made', made <= made',
         \A j \in Reqs : j # r => (j <= made' <=> j <= made)
  PROVE  Core' /\ ReqsInv'
  <1>1. /\ req \in [Reqs -> ReqType] /\ made \in 0..MaxReqs
        /\ answered \in [Reqs -> Nat] /\ MaxReqs \in Nat /\ events \in Seq(Events)
        /\ rxCount \in Nat
    BY ReqsAssumption DEF ReqsInv, Core, CoreTypes
  <1>2. CASE ~quitting /\ ~req[r].reported /\ p.gen = level
    <2> DEFINE kind == IF p.err THEN "failed" ELSE "done"
    <2>1. kind \in ReqKinds /\ Outcome(r, p) = <<Ev(r, kind)>>
      BY <1>2 DEF Outcome, Reports, OfThisLevel, ReqKinds
    <2> HIDE DEF kind
    <2>2. Ev(r, kind) \in Events /\ Ev(r, kind).kind \in ReqKinds
      BY <1>1, <2>1 DEF Ev, Events, Reqs, Kinds
    <2>3. events' = events \o <<Ev(r, kind)>> /\ rxCount' = rxCount + Messages(<<Ev(r, kind)>>)
      BY <1>2, <2>1 DEF Queue
    <2>4. Core'
      BY <2>2, <2>3, CoreReported
    <2>5. q.gen = level /\ ~req[r].reported
      BY <1>2
    <2>6. ReqsInv'
      BY <2>1, <2>3, <2>5, ReportStep
    <2> QED BY <2>4, <2>6
  <1>3. CASE quitting \/ req[r].reported \/ p.gen # level
    <2>1. events' = events /\ rxCount' = rxCount
      <3>1. CASE quitting
        BY <3>1 DEF Queue
      <3>2. CASE ~quitting
        <4>1. Outcome(r, p) = <<>>
          BY <1>3, <3>2 DEF Outcome, Reports, OfThisLevel
        <4>2. Messages(<<>>) = 0
          <5>1. <<>> \in Seq(Events)
            OBVIOUS
          <5> QED BY <5>1, MessagesCounted, CountEmpty
        <4>3. events' = events \o <<>> /\ rxCount' = rxCount + 0
          BY <3>2, <4>1, <4>2 DEF Queue
        <4> QED BY <4>3, <1>1, ConcatEmptySeq
      <3> QED BY <3>1, <3>2
    <2>2. Core'
      BY <2>1, Stutter
    <2>3. Kept /\ events' \in Seq(Events)
      BY <1>1, <2>1, AllKept
    <2>4. \A j \in Reqs : req'[j] = IF j = r THEN q ELSE req[j]
      BY <1>1
    <2>5. req' \in [Reqs -> ReqType]
      BY <1>1
    <2>6. ASSUME NEW j \in Reqs
          PROVE  /\ Made(j)'
                 /\ j <= made => req'[j].gen = req[j].gen
                 /\ req'[j].st # "freed" /\ ~req'[j].reported
                      => req[j].st # "freed" /\ ~req[j].reported
                 /\ phase' # "gone" /\ req'[j].st = "freed" => ~req'[j].live
      <3>1. /\ Made(j)
            /\ phase # "gone" /\ req[j].st = "freed" => ~req[j].live
        BY DEF ReqsInv
      <3>2. CASE j = r
        <4>1. req'[j] = q /\ Made(j)'
          BY <3>2, <2>4 DEF Made
        <4> QED BY <3>2, <4>1
      <3>3. CASE j # r
        <4>1. req'[j] = req[j] /\ (j <= made' <=> j <= made)
          BY <3>3, <2>4
        <4>2. Made(j)' <=> Made(j)
          BY <4>1 DEF Made
        <4> QED BY <3>1, <4>1, <4>2
      <3> QED BY <3>2, <3>3
    <2>7. made' >= made /\ answered' = answered
      BY <1>1
    <2>8. ReqsInv'
      BY <1>1, <2>3, <2>5, <2>6, <2>7, SilentStep
    <2> QED BY <2>2, <2>8
  <1>4. quitting \in BOOLEAN
    BY DEF Core, CoreTypes
  <1> QED BY <1>2, <1>3, <1>4

LEMMA NewReqFacts ==
  NewReq \in ReqType /\ NewReq.st = "new" /\ NewReq.reported = FALSE /\ NewReq.live = FALSE
  BY BoundsAssumption DEF NewReq, ReqType

LEMMA FreedReqFacts ==
  ASSUME NEW q \in ReqType
  PROVE  /\ FreedReq(q) \in ReqType /\ FreedReq(q).st = "freed"
         /\ FreedReq(q).gen = q.gen /\ FreedReq(q).live = q.live
  <1>1. q.gen \in 0..MaxLevels /\ q.live \in BOOLEAN
    BY DEF ReqType
  <1>2. FreedReq(q) = [NewReq EXCEPT !.st = "freed", !.gen = q.gen, !.live = q.live]
    BY DEF FreedReq
  <1> DEFINE l == q.live
  <1> HIDE DEF l
  <1>3. FreedReq(q) = [NewReq EXCEPT !.st = "freed", !.gen = q.gen, !.live = l]
    BY <1>2 DEF l
  <1>4. l \in BOOLEAN
    BY <1>1 DEF l
  <1>5. /\ FreedReq(q) \in ReqType /\ FreedReq(q).st = "freed"
        /\ FreedReq(q).gen = q.gen /\ FreedReq(q).live = l
    BY <1>1, <1>3, <1>4, NewReqFacts DEF ReqType
  <1> QED BY <1>5 DEF l

LEMMA FetchStep ==
  ASSUME Core, ReqsInv, NEW timed \in BOOLEAN, Fetch(timed)
  PROVE  Core' /\ ReqsInv'
  <1> DEFINE r == made + 1
             q == [NewReq EXCEPT !.st = "used", !.gen = level, !.timed = timed]
             n == [q EXCEPT !.live = TRUE]
             p == [q EXCEPT !.err = TRUE]
             d == [q EXCEPT !.live = FALSE, !.err = TRUE]
  <1>1. /\ req \in [Reqs -> ReqType] /\ made \in 0..MaxReqs /\ MaxReqs \in Nat
        /\ level \in 0..MaxLevels /\ MaxLevels \in Nat /\ events \in Seq(Events)
    BY ReqsAssumption, BoundsAssumption DEF ReqsInv, Core, CoreTypes
  <1>2. /\ phase # "gone" /\ made' = r /\ made < MaxReqs
        /\ UNCHANGED <<phase, ws, slots, created, level, quitting, heard, answered>>
        /\ \/ req' = [req EXCEPT ![r] = FreedReq(q)] /\ Queue(Outcome(r, p))
           \/ req' = [req EXCEPT ![r] = n] /\ UNCHANGED <<events, rxCount>>
           \/ req' = [req EXCEPT ![r] = Finished(d)] /\ Queue(Outcome(r, d))
    BY DEF Fetch, ScriptRuns, ReqStays, EndedReq, Finish
  <1>3. /\ r \in Reqs /\ made' \in 0..MaxReqs /\ r <= made' /\ made <= made' /\ ~(r <= made)
        /\ \A j \in Reqs : j # r => (j <= made' <=> j <= made)
    BY <1>1, <1>2 DEF Reqs
  <1>4. /\ q \in ReqType /\ q.st = "used" /\ q.reported = FALSE /\ q.gen = level
        /\ q.live = FALSE
    BY <1>1, NewReqFacts DEF ReqType
  <1> HIDE DEF q
  <1>5. /\ n \in ReqType /\ n.st = "used"
        /\ p.reported = FALSE /\ p.gen = level
        /\ d \in ReqType /\ d.st = "used" /\ d.reported = FALSE /\ d.gen = level
    BY <1>4 DEF ReqType
  <1> HIDE DEF n, p, d
  <1>6. /\ Finished(d) \in ReqType /\ Finished(d).st = "used" /\ Finished(d).reported
        /\ Finished(d).gen = level
    BY <1>5 DEF ReqType, Finished
  <1>7. /\ FreedReq(q) \in ReqType /\ FreedReq(q).st = "freed" /\ ~FreedReq(q).live
        /\ FreedReq(q).gen = level
    BY <1>4, FreedReqFacts
  <1>8. n \in ReqType /\ n.st = "used"
    BY <1>5
  <1>9. req[r].st = "new" /\ req[r].reported = FALSE
    BY <1>3 DEF ReqsInv, Made, NewReq
  <1> HIDE DEF r
  <1>10. CASE req' = [req EXCEPT ![r] = FreedReq(q)] /\ Queue(Outcome(r, p))
    BY <1>2, <1>3, <1>5, <1>7, <1>9, <1>10, FinishStep
  <1>11. CASE req' = [req EXCEPT ![r] = Finished(d)] /\ Queue(Outcome(r, d))
    BY <1>2, <1>3, <1>5, <1>6, <1>9, <1>11, FinishStep
  <1>12. CASE req' = [req EXCEPT ![r] = n] /\ UNCHANGED <<events, rxCount>>
    <2>1. req' \in [Reqs -> ReqType] /\ \A j \in Reqs : req'[j] = IF j = r THEN n ELSE req[j]
      BY <1>1, <1>8, <1>12
    <2>2. Core'
      BY <1>2, <1>12, Stutter
    <2>3. Kept /\ events' \in Seq(Events)
      BY <1>1, <1>2, <1>12, AllKept
    <2>4. ASSUME NEW j \in Reqs
          PROVE  /\ Made(j)'
                 /\ j <= made => req'[j].gen = req[j].gen
                 /\ req'[j].st # "freed" /\ ~req'[j].reported
                      => req[j].st # "freed" /\ ~req[j].reported
                 /\ phase' # "gone" /\ req'[j].st = "freed" => ~req'[j].live
      <3>1. Made(j) /\ (phase # "gone" /\ req[j].st = "freed" => ~req[j].live)
        BY DEF ReqsInv
      <3>2. CASE j = r
        <4>1. req'[j] = n /\ Made(j)' /\ ~(j <= made)
          BY <3>2, <2>1, <1>3, <1>8 DEF Made
        <4> QED BY <3>2, <4>1, <1>8, <1>9
      <3>3. CASE j # r
        <4>1. req'[j] = req[j] /\ Made(j)'
          BY <3>1, <3>3, <2>1, <1>3 DEF Made
        <4> QED BY <1>2, <3>1, <4>1
      <3> QED BY <3>2, <3>3
    <2>5. made' >= made /\ answered' = answered
      BY <1>1, <1>2, <1>3
    <2>6. ReqsInv'
      BY <1>1, <1>2, <1>3, <2>1, <2>3, <2>4, <2>5, SilentStep
    <2> QED BY <2>2, <2>6
  <1> QED BY <1>2, <1>10, <1>11, <1>12

\* The reply, or the end of the connection.
LEMMA EndOfReqStep ==
  ASSUME Core, ReqsInv, NEW r \in Reqs, Completed(r) \/ Destroyed(r)
  PROVE  Core' /\ ReqsInv'
  <1> DEFINE p == IF Completed(r) THEN req[r] ELSE [req[r] EXCEPT !.live = FALSE, !.err = TRUE]
             q == Finished(p)
  <1>1. /\ req \in [Reqs -> ReqType] /\ req[r] \in ReqType /\ made \in 0..MaxReqs
        /\ Made(r) /\ MaxReqs \in Nat
    BY ReqsAssumption DEF ReqsInv
  <1>2. /\ phase # "gone" /\ req[r].st = "used" /\ Queue(Outcome(r, p))
        /\ UNCHANGED <<phase, ws, slots, created, level, quitting, heard, answered, made>>
        /\ req' = [req EXCEPT ![r] = q]
    BY DEF Completed, Destroyed, LiveReq, ReqStays, EndedReq, Finish
  <1>3. /\ [req[r] EXCEPT !.live = FALSE, !.err = TRUE] \in ReqType
        /\ [req[r] EXCEPT !.live = FALSE, !.err = TRUE].reported = req[r].reported
        /\ [req[r] EXCEPT !.live = FALSE, !.err = TRUE].st = req[r].st
        /\ [req[r] EXCEPT !.live = FALSE, !.err = TRUE].gen = req[r].gen
    BY <1>1 DEF ReqType
  <1>4. p \in ReqType /\ p.reported = req[r].reported /\ p.st = "used" /\ p.gen = req[r].gen
    BY <1>1, <1>2, <1>3
  <1> HIDE DEF p
  <1>5. q \in ReqType /\ q.reported /\ q.st = "used" /\ q.gen = p.gen
    BY <1>4 DEF Finished, ReqType
  <1> HIDE DEF q
  <1>6. r <= made
    <2>1. req[r] # NewReq
      BY <1>2 DEF NewReq
    <2> QED BY <1>1, <2>1 DEF Made
  <1>7. made' \in 0..MaxReqs /\ r <= made' /\ made <= made'
    BY <1>1, <1>2, <1>6
  <1> QED BY <1>2, <1>4, <1>5, <1>7, FinishStep

\* A step of requests that says nothing of them, and one of the sockets beside it.
LEMMA BesideStep ==
  ASSUME Core, Core', Effect, ReqsInv, phase # "gone", UNCHANGED <<made, answered>>,
         req' \in [Reqs -> ReqType],
         \A r \in Reqs : /\ req[r].st = "new" => req'[r] = req[r]
                         /\ req[r].st # "new" => req'[r].st # "new"
                         /\ req'[r].gen = req[r].gen
                         /\ req'[r].st # "freed" /\ ~req'[r].reported
                              => req[r].st # "freed" /\ ~req[r].reported
                         /\ phase' # "gone" /\ req'[r].st = "freed" => ~req'[r].live
  PROVE  ReqsInv'
  <1>1. events \in Seq(Events) /\ events' \in Seq(Events)
    BY DEF Core, CoreTypes
  <1>2. Kept
    BY <1>1, SocketsKeep
  <1>3. made' \in 0..MaxReqs /\ made' >= made
    BY ReqsAssumption DEF ReqsInv
  <1>4. \A r \in Reqs : Made(r)'
    <2> TAKE r \in Reqs
    <2>1. Made(r) /\ made' = made /\ NewReq.st = "new"
      BY DEF ReqsInv, NewReq
    <2> QED BY <2>1 DEF Made
  <1> QED BY <1>1, <1>2, <1>3, <1>4, SilentStep

LEMMA ReqTimeoutStep ==
  ASSUME Core, ReqsInv, NEW r \in Reqs, ReqTimeout(r)
  PROVE  Core' /\ ReqsInv'
  <1> DEFINE q == [req[r] EXCEPT !.killed = TRUE, !.err = TRUE]
  <1>1. /\ req \in [Reqs -> ReqType] /\ req[r] \in ReqType
    BY DEF ReqsInv
  <1>2. /\ phase # "gone" /\ req[r].st = "used" /\ req' = [req EXCEPT ![r] = q]
        /\ UNCHANGED <<ws, slots, created, events, rxCount, level, quitting, heard>>
        /\ UNCHANGED <<phase, made, answered>>
    <2>1. req' = [req EXCEPT ![r].killed = TRUE, ![r].err = TRUE]
      BY DEF ReqTimeout
    <2>2. [req EXCEPT ![r].killed = TRUE, ![r].err = TRUE] = [req EXCEPT ![r] = q]
      BY <1>1
    <2> QED BY <2>1, <2>2 DEF ReqTimeout, LiveReq, ReqStays
  <1>3. /\ q \in ReqType /\ q.st = req[r].st /\ q.gen = req[r].gen
        /\ q.reported = req[r].reported
    BY <1>1 DEF ReqType
  <1> HIDE DEF q
  <1>4. req' \in [Reqs -> ReqType] /\ \A j \in Reqs : req'[j] = IF j = r THEN q ELSE req[j]
    BY <1>1, <1>2, <1>3
  <1>5. Core' /\ Effect
    BY <1>2, Stutter
  <1>6. ASSUME NEW j \in Reqs
        PROVE  /\ req[j].st = "new" => req'[j] = req[j]
               /\ req[j].st # "new" => req'[j].st # "new"
               /\ req'[j].gen = req[j].gen
               /\ req'[j].st # "freed" /\ ~req'[j].reported
                    => req[j].st # "freed" /\ ~req[j].reported
               /\ phase' # "gone" /\ req'[j].st = "freed" => ~req'[j].live
    <2>1. phase # "gone" /\ req[j].st = "freed" => ~req[j].live
      BY DEF ReqsInv
    <2>2. CASE j = r
      BY <1>2, <1>3, <1>4, <2>2
    <2>3. CASE j # r
      BY <1>2, <1>4, <2>1, <2>3
    <2> QED BY <2>2, <2>3
  <1>7. ReqsInv'
    BY <1>2, <1>4, <1>5, <1>6, BesideStep
  <1> QED BY <1>5, <1>7

\* reap() and destroy() free requests beside the sockets.
LEMMA FreeStep ==
  ASSUME Core, ReqsInv, (Reap /\ ReapReqs) \/ (Destroy /\ DestroyReqs)
  PROVE  Core' /\ ReqsInv'
  <1>1. req \in [Reqs -> ReqType]
    BY DEF ReqsInv
  <1>2. Core' /\ Effect
    BY ReapStep, DestroyStep
  <1>3. /\ phase # "gone" /\ UNCHANGED <<made, answered>>
        /\ \A j \in Reqs :
             \/ req'[j] = req[j]
             \/ /\ req'[j] = FreedReq(req[j]) /\ req[j].st = "used"
                /\ phase' = "gone" \/ ~req[j].live
    <2>1. CASE Reap /\ ReapReqs
      <3>1. phase # "gone" /\ UNCHANGED <<made, answered>>
        BY <2>1 DEF Reap, ReapReqs
      <3>2. ASSUME NEW j \in Reqs
            PROVE  \/ req'[j] = req[j]
                   \/ req'[j] = FreedReq(req[j]) /\ req[j].st = "used" /\ ~req[j].live
        <4>1. req' = [r \in Reqs |-> IF req[r].st = "used" /\ ReapableReq(req[r])
                                     THEN FreedReq(req[r]) ELSE req[r]]
          BY <2>1 DEF ReapReqs
        <4>2. req'[j] = IF req[j].st = "used" /\ ReapableReq(req[j])
                        THEN FreedReq(req[j]) ELSE req[j]
          BY <4>1
        <4> QED BY <4>2 DEF ReapableReq
      <3> QED BY <3>1, <3>2
    <2>2. CASE Destroy /\ DestroyReqs
      <3>1. phase # "gone" /\ phase' = "gone" /\ UNCHANGED <<made, answered>>
        BY <2>2 DEF Destroy, DestroyReqs
      <3>2. req' = [r \in Reqs |-> IF req[r].st = "used" THEN FreedReq(req[r]) ELSE req[r]]
        BY <2>2 DEF DestroyReqs
      <3> QED BY <3>1, <3>2
    <2> QED BY <2>1, <2>2
  <1>4. req' \in [Reqs -> ReqType]
    <2>1. \A j \in Reqs : FreedReq(req[j]) \in ReqType /\ req[j] \in ReqType
      BY <1>1, FreedReqFacts
    <2> QED BY <2>1 DEF ReapReqs, DestroyReqs
  <1>5. ASSUME NEW j \in Reqs
        PROVE  /\ req[j].st = "new" => req'[j] = req[j]
               /\ req[j].st # "new" => req'[j].st # "new"
               /\ req'[j].gen = req[j].gen
               /\ req'[j].st # "freed" /\ ~req'[j].reported
                    => req[j].st # "freed" /\ ~req[j].reported
               /\ phase' # "gone" /\ req'[j].st = "freed" => ~req'[j].live
    <2>1. phase # "gone" /\ req[j].st = "freed" => ~req[j].live
      BY DEF ReqsInv
    <2>2. /\ FreedReq(req[j]).st = "freed" /\ FreedReq(req[j]).gen = req[j].gen
          /\ FreedReq(req[j]).live = req[j].live
      BY <1>1, FreedReqFacts
    <2> QED BY <1>3, <2>1, <2>2
  <1>6. ReqsInv'
    BY <1>2, <1>3, <1>4, <1>5, BesideStep
  <1> QED BY <1>2, <1>6

LEMMA DeliverReqStep == ASSUME Core, ReqsInv, DeliverReq PROVE Core' /\ ReqsInv'
  <1> DEFINE e == Head(events)
             rest == Tail(events)
  <1>1. /\ req \in [Reqs -> ReqType] /\ made \in 0..MaxReqs
        /\ answered \in [Reqs -> Nat] /\ events \in Seq(Events) /\ rxCount \in Nat
    BY DEF ReqsInv, Core, CoreTypes
  <1>2. /\ phase = "deliver" /\ phase' = "callback" /\ events # <<>>
        /\ e.kind \in ReqKinds /\ events' = rest
        /\ answered' = [answered EXCEPT ![e.sock] = @ + 1]
        /\ UNCHANGED <<ws, slots, created, rxCount, level, quitting, heard, req, made>>
    BY DEF DeliverReq
  <1>3. /\ e \in Events /\ rest \in Seq(Events) /\ Len(rest) = Len(events) - 1
        /\ \A n \in 1..Len(rest) : rest[n] = events[n + 1] /\ n + 1 \in 1..Len(events)
        /\ Len(events) \in Nat \ {0} /\ e = events[1]
    BY <1>1, <1>2, HeadTailProperties, EmptySeq
  <1>4. e.sock \in Reqs
    <2>1. 1 \in 1..Len(events)
      BY <1>3
    <2> QED BY <2>1, <1>2, <1>3 DEF ReqsInv
  <1> HIDE DEF e, rest
  <1>5. Core'
    <2>1. CoreTypes'
      BY <1>2, <1>3 DEF Core, CoreTypes
    <2>2. SocketsInv'
      BY <1>2 DEF Core, SocketsInv
    <2>3. SlotsInv'
      BY <1>2 DEF Core, SlotsInv, SlotOwned, Slotted, Alive
    <2>4. EventsInv'
      <3> SUFFICES ASSUME NEW n \in 1..Len(rest), rest[n].kind \in EventKinds
                   PROVE  /\ rest[n].sock \in Socks /\ rest[n].sock <= created
                          /\ ws[rest[n].sock].born = level
        BY <1>2 DEF EventsInv
      <3> QED BY <1>3 DEF Core, EventsInv
    <2>5. RxAccounted'
      <3>1. rxCount = Messages(events)
        BY <1>2 DEF Core, RxAccounted
      <3>2. /\ Messages(events) = Count(events, MessageEvents)
            /\ Messages(rest) = Count(rest, MessageEvents)
            /\ Count(rest, MessageEvents) \in Nat
        BY <1>1, <1>3, MessagesCounted, CountType
      <3>3. e \notin MessageEvents
        BY <1>2 DEF MessageEvents, ReqKinds
      <3>4. Count(events, MessageEvents)
              = (IF e \in MessageEvents THEN 1 ELSE 0) + Count(rest, MessageEvents)
        BY <1>1, <1>2, CountTail DEF e, rest
      <3> QED BY <1>2, <3>1, <3>2, <3>3, <3>4 DEF RxAccounted
    <2>6. StoryInv'
      <3> SUFFICES ASSUME NEW k \in Socks
                   PROVE  \E s \in StoryStates : Chain(k, rest, heard[k], s) /\ Expect(ws[k], s)
        BY <1>2 DEF StoryInv
      <3>1. PICK s \in StoryStates : Chain(k, events, heard[k], s) /\ Expect(ws[k], s)
        BY DEF Core, StoryInv
      <3>2. Told(k, heard[k], e) = heard[k]
        BY <1>2 DEF Told, EventKinds, ReqKinds
      <3>3. Chain(k, rest, Told(k, heard[k], e), s)
        BY <1>1, <1>2, <3>1, ChainTail DEF e, rest
      <3> QED BY <3>1, <3>2, <3>3
    <2> QED BY <2>1, <2>2, <2>3, <2>4, <2>5, <2>6 DEF Core
  <1>6. ASSUME NEW j \in Reqs
        PROVE  Outcomes(j)' = Outcomes(j)
    <2>1. Count(events, OfReq(j))
            = (IF e \in OfReq(j) THEN 1 ELSE 0) + Count(rest, OfReq(j))
      BY <1>1, <1>2, CountTail DEF e, rest
    <2>2. e \in OfReq(j) <=> j = e.sock
      BY <1>2, <1>3 DEF OfReq
    <2>3. /\ Queued(j) = Count(events, OfReq(j)) /\ Queued(j) \in Nat
          /\ Queued(j)' = Count(rest, OfReq(j)) /\ Queued(j)' \in Nat
      BY <1>1, <1>2, <1>3, QueuedCounted, LaterCounted
    <2>4. /\ answered[j] \in Nat
          /\ answered'[j] = answered[j] + (IF j = e.sock THEN 1 ELSE 0)
      BY <1>1, <1>2, <1>4
    <2>5. Outcomes(j) = answered[j] + Queued(j) /\ Outcomes(j)' = answered'[j] + Queued(j)'
      BY DEF Outcomes
    <2> QED BY <2>1, <2>2, <2>3, <2>4, <2>5
  <1>7. ReqsInv'
    <2>1. answered' \in [Reqs -> Nat]
      BY <1>1, <1>2, <1>4
    <2>2. \A j \in Reqs : /\ Made(j)'
                          /\ Outcomes(j)' <= 1
                          /\ req[j].st # "freed" /\ ~req[j].reported => Outcomes(j)' = 0
                          /\ req[j].st = "freed" => ~req[j].live
      <3> TAKE j \in Reqs
      <3>1. Made(j)' <=> Made(j)
        BY <1>2 DEF Made
      <3> QED BY <1>2, <1>6, <3>1 DEF ReqsInv
    <2>3. \A n \in 1..Len(rest) :
            rest[n].kind \in ReqKinds
              => /\ rest[n].sock \in Reqs /\ rest[n].sock <= made
                 /\ req[rest[n].sock].gen = level
      BY <1>3 DEF ReqsInv
    <2> QED BY <1>1, <1>2, <2>1, <2>2, <2>3 DEF ReqsInv
  <1> QED BY <1>5, <1>7

\* The steps of WebSocketClient leave the requests alone.
LEMMA SocketStep ==
  ASSUME Core, ReqsInv, Core', Effect, phase # "gone", UNCHANGED reqVars
  PROVE  ReqsInv'
  <1>1. UNCHANGED <<req, made, answered>>
    BY DEF reqVars
  <1>2. /\ req' \in [Reqs -> ReqType]
        /\ \A r \in Reqs : phase # "gone" /\ req[r].st = "freed" => ~req[r].live
    BY <1>1 DEF ReqsInv
  <1> QED BY <1>1, <1>2, BesideStep

HttpInv == Core /\ ReqsInv

LEMMA HttpNextInv == ASSUME HttpInv, HttpNext PROVE HttpInv'
  <1>1. Core /\ ReqsInv
    BY DEF HttpInv
  <1>2. CASE (Poll \/ Serviced \/ TimersDone \/ Deliver \/ CallbackDone \/ DeliverDone)
             /\ UNCHANGED reqVars
    <2>1. phase # "gone" /\ Next
      BY <1>2 DEF Poll, Serviced, TimersDone, Deliver, CallbackDone, DeliverDone, Next, Frame
    <2> QED BY <1>1, <1>2, <2>1, NextCore, SocketStep DEF HttpInv
  <1>3. CASE (Script \/ \E k \in Socks : Lws(k) \/ Timers(k)) /\ UNCHANGED reqVars
    <2>1. Script => phase # "gone"
      BY DEF Script, WsOpen, WsSend, WsClose, LevelChanged, Shutdown, ScriptRuns
    <2>2. ASSUME NEW k \in Socks, Lws(k) \/ Timers(k)
          PROVE  phase # "gone"
      BY <2>2 DEF Lws, Established, Receive, ReceivePong, Writeable, ConnectionLost, KillServed,
                  InService, Timers, CloseTimeout, ConnectTimeout, PingTimer, Reconnect, NotDue,
                  InTimers
    <2>3. phase # "gone" /\ Next
      BY <1>3, <2>1, <2>2 DEF Next
    <2> QED BY <1>1, <1>3, <2>3, NextCore, SocketStep DEF HttpInv
  <1>4. CASE (Reap /\ ReapReqs) \/ (Destroy /\ DestroyReqs)
    BY <1>1, <1>4, FreeStep DEF HttpInv
  <1>5. CASE DeliverReq
    BY <1>1, <1>5, DeliverReqStep DEF HttpInv
  <1>6. CASE \E timed \in BOOLEAN : Fetch(timed)
    BY <1>1, <1>6, FetchStep DEF HttpInv
  <1>7. ASSUME NEW r \in Reqs, Completed(r) \/ Destroyed(r) \/ ReqTimeout(r)
        PROVE  HttpInv'
    BY <1>1, <1>7, EndOfReqStep, ReqTimeoutStep DEF HttpInv
  <1>8. CASE HttpFrame
    BY <1>2, <1>4, <1>5, <1>8 DEF HttpFrame
  <1>9. CASE \E r \in Reqs : Completed(r) \/ Destroyed(r) \/ ReqTimeout(r)
    BY <1>7, <1>9
  <1> QED BY <1>3, <1>4, <1>6, <1>8, <1>9 DEF HttpNext

\* The inductive invariant of HttpClient: that of the sockets, and that a request
\* not yet reported has no event and no answer.
THEOREM HttpInvariant == HttpSpec => []HttpInv
  <1>1. HttpInit => HttpInv
    <2> SUFFICES ASSUME HttpInit PROVE HttpInv
      OBVIOUS
    <2>1. /\ Core /\ events = <<>> /\ req = [r \in Reqs |-> NewReq] /\ made = 0
          /\ answered = [r \in Reqs |-> 0]
      BY InitCore DEF HttpInit
    <2>2. \A r \in Reqs : Queued(r) = 0
      BY <2>1, QueuedCounted, CountEmpty DEF Core, CoreTypes
    <2>3. ASSUME NEW r \in Reqs
          PROVE  /\ req[r] = NewReq /\ Made(r) /\ Outcomes(r) = 0
      BY <2>1, <2>2 DEF Made, Outcomes, Reqs
    <2>4. Len(events) = 0
      BY <2>1
    <2> QED BY <2>1, <2>3, <2>4, NewReqFacts, ReqsAssumption DEF HttpInv, ReqsInv
  <1>2. HttpInv /\ [HttpNext]_allVars => HttpInv'
    <2>1. ASSUME HttpInv, HttpNext
          PROVE  HttpInv'
      BY <2>1, HttpNextInv
    <2>2. ASSUME HttpInv, UNCHANGED allVars
          PROVE  HttpInv'
      <3>1. UNCHANGED vars /\ UNCHANGED reqVars
        BY <2>2 DEF allVars
      <3>2. CoreTypes' /\ SocketsInv' /\ EventsInv' /\ StoryInv' /\ RxAccounted'
        BY <2>2, <3>1 DEF vars, HttpInv, Core, CoreTypes, SocketsInv, EventsInv, StoryInv,
                          RxAccounted
      <3>3. SlotsInv'
        BY <2>2, <3>1 DEF vars, HttpInv, Core, SlotsInv, SlotOwned, Slotted, Alive
      <3>4. ReqsInv'
        BY <2>2, <3>1 DEF vars, reqVars, HttpInv, ReqsInv, Made, Outcomes, Queued
      <3> QED BY <3>2, <3>3, <3>4 DEF HttpInv, Core
    <2> QED BY <2>1, <2>2
  <1> QED BY <1>1, <1>2, PTL DEF HttpSpec

\* A request is reported once, however its reply, its timeout, the loss of its
\* connection and the change of the level interleave; never to a later level; and
\* it is not freed while lws may call back about it.
THEOREM OneAnswer == HttpSpec => []RequestsSound
  <1>1. HttpInv => RequestsSound
    <2> SUFFICES ASSUME HttpInv PROVE RequestsSound
      OBVIOUS
    <2>1. Core /\ ReqsInv
      BY DEF HttpInv
    <2>2. events \in Seq(Events)
      BY <2>1 DEF Core, CoreTypes
    <2>3. \A r \in Reqs : /\ answered[r] \in Nat /\ Queued(r) \in Nat
                          /\ answered[r] + Queued(r) <= 1
      BY <2>1, <2>2, QueuedCounted DEF ReqsInv, Outcomes
    <2>4. answered \in [Reqs -> 0..1]
      <3>1. \A r \in Reqs : answered[r] \in 0..1
        BY <2>3
      <3> QED BY <2>1, <3>1 DEF ReqsInv
    <2>5. \A n \in 1..Len(events) : events[n].kind \in EventKinds \cup ReqKinds
      <3>1. \A n \in 1..Len(events) : events[n] \in Events
        BY <2>2, ElementOfSeq
      <3> QED BY <3>1 DEF Events, Kinds
    <2>6. ReqTypeOK
      BY <2>1, <2>4, <2>5 DEF ReqsInv, ReqType, ReqTypeOK
    <2>7. OldRequestsSilent /\ FreedIsDead
      BY <2>1 DEF ReqsInv, OldRequestsSilent, FreedIsDead
    <2> QED BY <2>3, <2>6, <2>7 DEF RequestsSound, OneOutcome
  <1> QED BY <1>1, HttpInvariant, PTL

\* Requests in the same queue disturb neither the stories of the sockets nor their
\* bookkeeping.
THEOREM SocketsBeside ==
  HttpSpec => [](StoryInOrder /\ RxAccounted /\ SlotOwned /\ FinishedIsDead)
  <1>1. HttpInv => StoryInOrder /\ RxAccounted /\ SlotOwned /\ FinishedIsDead
    BY CoreSound DEF HttpInv, StoryInOrder
  <1> QED BY <1>1, HttpInvariant, PTL

=============================================================================

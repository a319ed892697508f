--------------------------- MODULE ClientSlotsProofs ---------------------------
(***************************************************************************)
(* Safety of ClientSlots, for any number of slots and peers and any        *)
(* timeouts and limits.                                                    *)
(*                                                                         *)
(* The two loops of custom_SV_DirectConnect and the one of                 *)
(* custom_SV_PacketEvent agree because a peer's slots are in one order:    *)
(* no slot it holds has the port or the qport of a slot before it, and one *)
(* with a newer port has no older qport.                                   *)
(***************************************************************************)
EXTENDS ClientSlots, WellFoundedInduction, TLAPS

\* A slot somebody holds, a zombie included; whose its addresses are or were.
Held(s) == slot[s].state # "FREE"
Peer(s) == slot[s].port[1]
PortOf(s) == slot[s].port[2]
QportOf(s) == slot[s].qport[2]
\* A copy of p's connect is under way.
Alive(p) == copy[p] # NoCopy

States == {"FREE", "ZOMBIE", "CONNECTED"}
Someone == Peers \cup {Nobody}
Addresses == Someone \X Nat
Clients == [state : States, port : Addresses, qport : Addresses,
            lastPacket : 0 .. OldPacket, lastConnect : 0 .. ReconnectLimit,
            timeoutCount : 0 .. Grace, real : Someone, owner : Someone,
            latest : BOOLEAN, silent : 0 .. Grace + 1]
Copies == [port : Addresses, qport : Addresses, age : Nat]

\* The types of all parts, the histories' included.
TypeInv == /\ slot \in [Slots -> Clients]
           /\ port \in [Peers -> Addresses]
           /\ qport \in [Peers -> Addresses]
           /\ talking \in [Peers -> BOOLEAN]
           /\ copy \in [Peers -> Copies]

\* A slot's port and qport are ones that its owner has or had, and a private slot has
\* an owner with the password; only a connected slot has a real address, its owner's.
OwnerInv ==
    /\ \A p \in Peers : port[p][1] = p /\ qport[p][1] = p
    /\ \A s \in Slots :
         /\ slot[s].qport[1] = Peer(s)
         /\ Held(s) => Peer(s) \in Peers /\ slot[s].owner = Peer(s)
         /\ slot[s].latest => Held(s)
         /\ Peer(s) \in Peers => /\ s >= StartIndex(Peer(s))
                                 /\ PortOf(s) <= port[Peer(s)][2]
                                 /\ QportOf(s) <= qport[Peer(s)][2]
         /\ slot[s].state = "CONNECTED" => slot[s].real = slot[s].owner
         /\ slot[s].state # "CONNECTED" => slot[s].real = Nobody

\* A slot that is held shares neither its port nor its qport with one before it, even
\* if that one is free: a free slot keeps the addresses it had.
Apart == \A t, s \in Slots :
    t < s /\ Held(s) /\ Peer(t) = Peer(s) => PortOf(t) # PortOf(s) /\ QportOf(t) # QportOf(s)

\* The newer of two ports of one peer came with no older qport.
Ordered == \A s, t \in Slots :
    Peer(s) = Peer(t) /\ PortOf(s) < PortOf(t) => QportOf(s) <= QportOf(t)

\* What p's slots have become since its last connect was accepted: the copy is in
\* the order of the slots, none that is held is newer, and the slot it was given is
\* the first one it matches.
Copied(p) == LET c == copy[p] IN
    /\ c.port[1] = p /\ c.qport[1] = p /\ c.age < ReconnectLimit
    /\ c.port[2] <= port[p][2] /\ c.qport[2] <= qport[p][2]
    /\ \A s \in Slots : Peer(s) = p =>
         /\ PortOf(s) < c.port[2] => QportOf(s) <= c.qport[2]
         /\ c.port[2] < PortOf(s) => c.qport[2] <= QportOf(s)
         /\ Held(s) => /\ QportOf(s) <= c.qport[2]
                       /\ PortOf(s) = c.port[2] => QportOf(s) = c.qport[2]
                       /\ QportOf(s) = c.qport[2] =>
                            /\ PortOf(s) >= c.port[2]
                            /\ \A t \in Slots : t < s /\ Peer(t) = p => PortOf(t) # c.port[2]
         /\ slot[s].latest => QportOf(s) = c.qport[2] /\ slot[s].lastConnect <= c.age

CopyInv == \A p \in Peers : Alive(p) => Copied(p)

\* A client that is overdue was silent in each frame that counted, and one before.
SilenceInv == \A s \in Slots :
    slot[s].lastPacket = 0 \/ slot[s].timeoutCount < slot[s].silent \/ ~Connects(s)

\* The inductive invariant.
SlotsInv == TypeInv /\ OwnerInv /\ Apart /\ Ordered /\ CopyInv /\ SilenceInv

\* A connect of p's that its slots allow: whichever slot it is given, no other one
\* that is held, and none before it, has its port or its qport.
Fits(p, c) ==
    /\ c.port[1] = p /\ c.qport[1] = p
    /\ c.port[2] <= port[p][2] /\ c.qport[2] <= qport[p][2]
    /\ \A s \in Slots : Peer(s) = p =>
         /\ PortOf(s) < c.port[2] => QportOf(s) <= c.qport[2]
         /\ c.port[2] < PortOf(s) => c.qport[2] <= QportOf(s)
    /\ \A t, s \in Slots : t < s /\ Held(s) /\ Matches(s, c) => ~Matches(t, c)

\* The slot s is one that p's connect c may be given: no slot before it and no other
\* held one has its addresses.
Clear(s, p, c) ==
    /\ s \in Slots /\ s >= StartIndex(p)
    /\ Held(s) => Peer(s) = p
    /\ \A t \in Slots : t # s /\ (t < s \/ Held(t)) => ~Matches(t, c)

-----------------------------------------------------------------------------
(* Numbers *)

\* A set of numbers that is not empty has a least one.
LEMMA MinOf ==
  ASSUME NEW S, S \subseteq Nat, S # {}
  PROVE  Min(S) \in S /\ \A y \in S : Min(S) <= y
  <1> DEFINE R == OpToRel(<, Nat)
  <1>1. IsWellFoundedOn(R, Nat)
    BY NatLessThanWellFounded
  <1>2. \A a, b \in Nat : a < b => <<a, b>> \in R
    BY DEF OpToRel
  <1> HIDE DEF R
  <1>3. PICK m \in S : \A y \in S : ~(<<y, m>> \in R)
    BY <1>1, WFMin
  <1>4. ASSUME NEW y \in S PROVE m <= y
    <2>1. m \in Nat /\ y \in Nat /\ ~(y < m)
      BY <1>2, <1>3
    <2> QED BY <2>1
  <1> QED BY <1>3, <1>4 DEF Min

\* The least member is the only one of its kind.
LEMMA LeastIs ==
  ASSUME NEW S, S \subseteq Nat, NEW m \in S, \A y \in S : m <= y
  PROVE  Min(S) = m
  <1>1. Min(S) \in S /\ Min(S) <= m
    BY MinOf
  <1>2. m <= Min(S) /\ m \in Nat /\ Min(S) \in Nat
    BY <1>1
  <1> QED BY <1>1, <1>2

\* What the assumption says of each constant.
LEMMA Numbers ==
  /\ Timeout \in Nat /\ ZombieTime \in Nat /\ Grace \in Nat /\ Private \in Nat
  /\ MaxClients \in Nat \ {0} /\ Hitch \in Nat \ {0} /\ ReconnectLimit \in Nat \ {0}
  /\ Hitch <= Timeout /\ Private < MaxClients
  /\ OldPacket \in Nat \ {0} /\ Slots \subseteq Nat
  /\ \A p \in Peers : p \in Nat /\ p # Nobody /\ StartIndex(p) \in Nat
  <1>1. /\ Timeout \in Nat /\ ZombieTime \in Nat /\ Grace \in Nat /\ Private \in Nat
        /\ MaxClients \in Nat \ {0} /\ Hitch \in Nat \ {0} /\ ReconnectLimit \in Nat \ {0}
        /\ Hitch <= Timeout /\ Private < MaxClients
    BY SlotsAssumption
  <1>2. \E m \in {Timeout, ZombieTime} : \A y \in {Timeout, ZombieTime} : m >= y
    BY <1>1
  <1>3. Max({Timeout, ZombieTime}) \in {Timeout, ZombieTime}
    BY <1>2 DEF Max
  <1>4. OldPacket \in Nat \ {0}
    BY <1>1, <1>3 DEF OldPacket
  <1>5. Slots \subseteq Nat
    BY <1>1 DEF Slots
  <1>6. \A p \in Peers : p \in Nat /\ p # Nobody /\ StartIndex(p) \in Nat
    BY <1>1, SlotsAssumption DEF StartIndex, Nobody
  <1> QED BY <1>1, <1>4, <1>5, <1>6

\* An address is its two parts.
LEMMA SamePair ==
  ASSUME NEW a \in Addresses, NEW b \in Addresses, a[1] = b[1], a[2] = b[2]
  PROVE  a = b
  BY DEF Addresses

\* The types of one slot.
LEMMA OfSlot ==
  ASSUME TypeInv, NEW s \in Slots
  PROVE  /\ slot[s] \in Clients
         /\ slot[s].port \in Addresses /\ slot[s].qport \in Addresses
         /\ PortOf(s) \in Nat /\ QportOf(s) \in Nat
         /\ slot[s].lastConnect \in Nat
  <1>1. slot[s] \in Clients
    BY DEF TypeInv
  <1>2. slot[s].port \in Addresses /\ slot[s].qport \in Addresses
    BY <1>1 DEF Clients
  <1>3. slot[s].lastConnect \in Nat
    BY <1>1, Numbers DEF Clients
  <1> QED BY <1>1, <1>2, <1>3 DEF Addresses, PortOf, QportOf

\* The types of one peer.
LEMMA OfPeer ==
  ASSUME TypeInv, NEW p \in Peers
  PROVE  /\ port[p] \in Addresses /\ qport[p] \in Addresses
         /\ port[p][2] \in Nat /\ qport[p][2] \in Nat
         /\ copy[p] \in Copies
  BY DEF TypeInv, Addresses

\* The types of one connect.
LEMMA OfCopy ==
  ASSUME NEW c \in Copies
  PROVE  /\ c.port \in Addresses /\ c.qport \in Addresses
         /\ c.port[2] \in Nat /\ c.qport[2] \in Nat /\ c.age \in Nat
  BY DEF Copies, Addresses

\* A connect matches only slots of its own peer, by the port or by the qport.
LEMMA MatchMeans ==
  ASSUME TypeInv, OwnerInv, NEW p, NEW c \in Copies, c.port[1] = p, c.qport[1] = p,
         NEW s \in Slots
  PROVE  Matches(s, c) <=> /\ Peer(s) = p
                           /\ QportOf(s) = c.qport[2] \/ PortOf(s) = c.port[2]
  <1>1. slot[s].port \in Addresses /\ slot[s].qport \in Addresses
    BY OfSlot
  <1>2. c.port \in Addresses /\ c.qport \in Addresses
    BY OfCopy
  <1>3. slot[s].qport[1] = Peer(s) /\ slot[s].port[1] = Peer(s)
    BY DEF OwnerInv, Peer
  <1>4. Matches(s, c) => /\ Peer(s) = p
                         /\ QportOf(s) = c.qport[2] \/ PortOf(s) = c.port[2]
    BY <1>3 DEF Matches, PortOf, QportOf
  <1>5. Peer(s) = p /\ QportOf(s) = c.qport[2] => slot[s].qport = c.qport
    BY <1>1, <1>2, <1>3, SamePair DEF QportOf
  <1>6. Peer(s) = p /\ PortOf(s) = c.port[2] => slot[s].port = c.port
    BY <1>1, <1>2, <1>3, SamePair DEF PortOf
  <1> QED BY <1>4, <1>5, <1>6 DEF Matches

-----------------------------------------------------------------------------
(* The slot of a connect *)

Current(p) == [port |-> port[p], qport |-> qport[p], age |-> 0]

\* The slots allow a connect with the addresses that the peer has now.
LEMMA CurrentFits ==
  ASSUME TypeInv, OwnerInv, Apart, Ordered, NEW p \in Peers
  PROVE  Current(p) \in Copies /\ Fits(p, Current(p))
  <1> DEFINE c == Current(p)
  <1>1. c \in Copies /\ c.port = port[p] /\ c.qport = qport[p]
    BY OfPeer DEF Current, Copies
  <1>2. c.port[1] = p /\ c.qport[1] = p
    BY <1>1 DEF OwnerInv
  <1>3. port[p][2] \in Nat /\ qport[p][2] \in Nat
    BY OfPeer
  <1> HIDE DEF c
  <1>4. \A s \in Slots : Peer(s) = p => PortOf(s) <= c.port[2] /\ QportOf(s) <= c.qport[2]
    BY <1>1 DEF OwnerInv
  <1>5. ASSUME NEW t \in Slots, NEW s \in Slots, t < s, Held(s), Matches(s, c), Matches(t, c)
        PROVE  FALSE
    <2>1. Peer(s) = p /\ (QportOf(s) = c.qport[2] \/ PortOf(s) = c.port[2])
      BY <1>1, <1>2, <1>5, MatchMeans
    <2>2. Peer(t) = p /\ (QportOf(t) = c.qport[2] \/ PortOf(t) = c.port[2])
      BY <1>1, <1>2, <1>5, MatchMeans
    <2>3. PortOf(t) # PortOf(s) /\ QportOf(t) # QportOf(s)
      BY <1>5, <2>1, <2>2 DEF Apart
    <2>4. /\ PortOf(s) < PortOf(t) => QportOf(s) <= QportOf(t)
          /\ PortOf(t) < PortOf(s) => QportOf(t) <= QportOf(s)
      BY <2>1, <2>2 DEF Ordered
    <2>5. /\ PortOf(s) <= c.port[2] /\ QportOf(s) <= c.qport[2]
          /\ PortOf(t) <= c.port[2] /\ QportOf(t) <= c.qport[2]
      BY <1>4, <2>1, <2>2
    <2>6. /\ PortOf(s) \in Nat /\ QportOf(s) \in Nat /\ PortOf(t) \in Nat /\ QportOf(t) \in Nat
          /\ c.port[2] \in Nat /\ c.qport[2] \in Nat
      BY <1>1, <1>3, OfSlot
    <2> QED BY <2>1, <2>2, <2>3, <2>4, <2>5, <2>6
  <1>6. \A s \in Slots : Peer(s) = p =>
         /\ PortOf(s) < c.port[2] => QportOf(s) <= c.qport[2]
         /\ c.port[2] < PortOf(s) => c.qport[2] <= QportOf(s)
    <2> TAKE s \in Slots
    <2>1. PortOf(s) \in Nat /\ QportOf(s) \in Nat /\ c.port[2] \in Nat /\ c.qport[2] \in Nat
      BY <1>1, <1>3, OfSlot
    <2> QED BY <1>4, <2>1
  <1>7. c.port[2] <= port[p][2] /\ c.qport[2] <= qport[p][2]
    BY <1>1, <1>3
  <1>8. Fits(p, c)
    BY <1>2, <1>5, <1>6, <1>7 DEF Fits
  <1> QED BY <1>1, <1>8 DEF c

\* And the late copy of one.
LEMMA CopyFits ==
  ASSUME TypeInv, OwnerInv, Apart, CopyInv, NEW p \in Peers, Alive(p)
  PROVE  copy[p] \in Copies /\ Fits(p, copy[p])
  <1> DEFINE c == copy[p]
  <1>1. Copied(p)
    BY DEF CopyInv
  <1>2. c \in Copies
    BY OfPeer
  <1>3. c.port[1] = p /\ c.qport[1] = p
    BY <1>1 DEF Copied
  <1> HIDE DEF c
  <1>5. ASSUME NEW t \in Slots, NEW s \in Slots, t < s, Held(s), Matches(s, c), Matches(t, c)
        PROVE  FALSE
    <2>1. Peer(s) = p /\ (QportOf(s) = c.qport[2] \/ PortOf(s) = c.port[2])
      BY <1>2, <1>3, <1>5, MatchMeans
    <2>2. Peer(t) = p /\ (QportOf(t) = c.qport[2] \/ PortOf(t) = c.port[2])
      BY <1>2, <1>3, <1>5, MatchMeans
    <2>3. QportOf(s) = c.qport[2]
      BY <1>1, <1>5, <2>1 DEF Copied, c
    <2>4. PortOf(t) # c.port[2]
      BY <1>1, <1>5, <2>1, <2>2, <2>3 DEF Copied, c
    <2>5. QportOf(t) # QportOf(s)
      BY <1>5, <2>1, <2>2 DEF Apart
    <2> QED BY <2>2, <2>3, <2>4, <2>5
  <1>6. /\ c.port[2] <= port[p][2] /\ c.qport[2] <= qport[p][2]
        /\ \A s \in Slots : Peer(s) = p =>
             /\ PortOf(s) < c.port[2] => QportOf(s) <= c.qport[2]
             /\ c.port[2] < PortOf(s) => c.qport[2] <= QportOf(s)
    BY <1>1 DEF Copied, c
  <1>7. Fits(p, c)
    BY <1>3, <1>5, <1>6 DEF Fits
  <1> QED BY <1>2, <1>7 DEF c

\* The slot a connect is given: no other one would do.
LEMMA NewSlotIsClear ==
  ASSUME TypeInv, OwnerInv, NEW p \in Peers, NEW c \in Copies, Fits(p, c),
         NEW s \in NewSlot(p, c)
  PROVE  Clear(s, p, c)
  <1> DEFINE same == {t \in Slots : slot[t].state # "FREE" /\ Matches(t, c)}
             free == {t \in StartIndex(p) .. MaxClients - 1 : slot[t].state = "FREE"}
  <1>0. /\ Slots \subseteq Nat /\ StartIndex(p) \in Nat /\ MaxClients \in Nat \ {0}
        /\ p \in Peers /\ p # Nobody
    BY Numbers
  <1>1. c.port[1] = p /\ c.qport[1] = p
    BY DEF Fits
  <1>2. \A t \in Slots : Matches(t, c) => Peer(t) = p
    BY <1>1, MatchMeans
  <1>3. CASE same # {}
    <2>1. s = Min(same)
      BY <1>3 DEF NewSlot
    <2>2. s \in same /\ \A t \in same : s <= t
      BY <1>0, <1>3, <2>1, MinOf
    <2>3. s \in Slots /\ Held(s) /\ Matches(s, c) /\ Peer(s) = p
      BY <1>2, <2>2 DEF Held
    <2>4. s >= StartIndex(p)
      BY <2>3 DEF OwnerInv
    <2>5. ASSUME NEW t \in Slots, t # s, t < s \/ Held(t), Matches(t, c)
          PROVE  FALSE
      <3>1. CASE t < s
        BY <2>3, <2>5, <3>1 DEF Fits
      <3>2. CASE Held(t)
        <4>1. t \in same
          BY <2>5, <3>2 DEF Held
        <4>2. s < t
          BY <1>0, <2>2, <2>3, <2>5, <4>1
        <4> QED BY <2>3, <2>5, <3>2, <4>2 DEF Fits
      <3> QED BY <2>5, <3>1, <3>2
    <2> QED BY <2>3, <2>4, <2>5 DEF Clear
  <1>4. CASE same = {}
    <2>1. free # {} /\ s = Min(free)
      BY <1>4 DEF NewSlot
    <2>2. s \in free /\ \A t \in free : s <= t
      BY <1>0, <2>1, MinOf
    <2>3. s \in Slots /\ s >= StartIndex(p) /\ ~Held(s)
      BY <1>0, <2>2 DEF Slots, Held
    <2>4. ASSUME NEW t \in Slots, t # s, t < s \/ Held(t), Matches(t, c)
          PROVE  FALSE
      <3>1. ~Held(t) /\ Peer(t) = p
        BY <1>2, <1>4, <2>4 DEF Held
      <3>2. t >= StartIndex(p) /\ t < s
        BY <1>0, <2>4, <3>1 DEF OwnerInv
      <3>3. t \in free
        BY <1>0, <3>1, <3>2 DEF Held, Slots
      <3> QED BY <1>0, <2>2, <2>3, <3>2, <3>3
    <2> QED BY <2>3, <2>4 DEF Clear
  <1> QED BY <1>3, <1>4

-----------------------------------------------------------------------------
(* A connect is given its slot *)

\* The fields of a slot after a connect that was denied.
LEMMA DeniedIs ==
  ASSUME NEW s, NEW p, NEW c \in Copies
  PROVE  /\ Denied(s, p, c) \in Clients
         /\ Denied(s, p, c).state = "FREE" /\ ~Denied(s, p, c).latest
         /\ Denied(s, p, c).port = c.port /\ Denied(s, p, c).qport = c.qport
         /\ Denied(s, p, c).real = Nobody
  <1>1. c.port \in Addresses /\ c.qport \in Addresses
    BY OfCopy
  <1>2. 0 \in 0 .. OldPacket /\ ReconnectLimit \in 0 .. ReconnectLimit /\ 0 \in 0 .. Grace
        /\ 0 \in 0 .. Grace + 1
    BY Numbers
  <1> QED BY <1>1, <1>2 DEF Denied, NoClient, Clients, States, Someone, Nobody

\* And after one that was accepted.
LEMMA ConnectedIs ==
  ASSUME NEW s, NEW p \in Peers, NEW c \in Copies, RealAddress(s, p) = p
  PROVE  /\ Connected(s, p, c) \in Clients
         /\ Connected(s, p, c).state = "CONNECTED" /\ Connected(s, p, c).latest
         /\ Connected(s, p, c).port = c.port /\ Connected(s, p, c).qport = c.qport
         /\ Connected(s, p, c).real = p /\ Connected(s, p, c).owner = p
         /\ Connected(s, p, c).lastConnect = 0 /\ Connected(s, p, c).lastPacket = 0
  <1>1. c.port \in Addresses /\ c.qport \in Addresses
    BY OfCopy
  <1>2. 0 \in 0 .. OldPacket /\ 0 \in 0 .. ReconnectLimit /\ 0 \in 0 .. Grace
        /\ 0 \in 0 .. Grace + 1
    BY Numbers
  <1> QED BY <1>1, <1>2 DEF Connected, NoClient, Clients, States, Someone, Nobody

\* The real address that a new session finds in its slot, or brings, is its peer's.
LEMMA RealIsOwn ==
  ASSUME TypeInv, OwnerInv, NEW p \in Peers, NEW c, NEW s, Clear(s, p, c)
  PROVE  RealAddress(s, p) = p
  <1>1. s \in Slots /\ (Held(s) => Peer(s) = p)
    BY DEF Clear
  <1>2. slot[s].state = "CONNECTED" => slot[s].real = p
    BY <1>1 DEF OwnerInv, Held
  <1>3. slot[s].state # "CONNECTED" => slot[s].real = Nobody
    BY <1>1 DEF OwnerInv
  <1> QED BY <1>2, <1>3 DEF RealAddress

\* What a connect that was given slot s leaves behind, denied or not.
Placed(s, p, c) ==
    /\ slot' \in [Slots -> Clients]
    /\ slot'[s].port = c.port /\ slot'[s].qport = c.qport
    /\ \A t \in Slots \ {s} :
         /\ slot'[t].port = slot[t].port /\ slot'[t].qport = slot[t].qport
         /\ slot'[t].state = slot[t].state /\ slot'[t].owner = slot[t].owner
         /\ slot'[t].real = slot[t].real /\ slot'[t].lastConnect = slot[t].lastConnect
         /\ slot'[t].lastPacket = slot[t].lastPacket
         /\ slot'[t].timeoutCount = slot[t].timeoutCount /\ slot'[t].silent = slot[t].silent
         /\ slot'[t].latest => slot[t].latest
    /\ UNCHANGED <<port, qport>>

\* A connect gives one slot its addresses and leaves those of the others.
LEMMA PlacedIs ==
  ASSUME TypeInv, OwnerInv, NEW p \in Peers, NEW c \in Copies, c.port[1] = p, c.qport[1] = p,
         NEW s \in Slots, Placed(s, p, c)
  PROVE  /\ Peer(s)' = p /\ PortOf(s)' = c.port[2] /\ QportOf(s)' = c.qport[2]
         /\ \A t \in Slots \ {s} :
              /\ Peer(t)' = Peer(t) /\ PortOf(t)' = PortOf(t) /\ QportOf(t)' = QportOf(t)
              /\ Held(t)' = Held(t)
  BY DEF Placed, Peer, PortOf, QportOf, Held

\* The slots stay apart and in order.
LEMMA PlacedApart ==
  ASSUME TypeInv, OwnerInv, Apart, Ordered, NEW p \in Peers, NEW c \in Copies, Fits(p, c),
         NEW s \in Slots, Clear(s, p, c), Placed(s, p, c)
  PROVE  Apart' /\ Ordered'
  <1>1. c.port[1] = p /\ c.qport[1] = p
    BY DEF Fits
  <1>2. /\ Peer(s)' = p /\ PortOf(s)' = c.port[2] /\ QportOf(s)' = c.qport[2]
        /\ \A t \in Slots \ {s} :
             /\ Peer(t)' = Peer(t) /\ PortOf(t)' = PortOf(t) /\ QportOf(t)' = QportOf(t)
             /\ Held(t)' = Held(t)
    BY <1>1, PlacedIs
  <1>3. \A t \in Slots : t # s /\ (t < s \/ Held(t)) /\ Peer(t) = p =>
          QportOf(t) # c.qport[2] /\ PortOf(t) # c.port[2]
    BY <1>1, MatchMeans DEF Clear
  <1>4. Slots \subseteq Nat
    BY Numbers
  <1>5. ASSUME NEW t \in Slots, NEW u \in Slots, t < u, Held(u)', Peer(t)' = Peer(u)'
        PROVE  PortOf(t)' # PortOf(u)' /\ QportOf(t)' # QportOf(u)'
    <2>0. t # u
      BY <1>4, <1>5
    <2>1. CASE t # s /\ u # s
      BY <1>2, <1>5, <2>1 DEF Apart
    <2>2. CASE u = s
      BY <1>2, <1>3, <1>5, <2>0, <2>2
    <2>3. CASE t = s
      BY <1>2, <1>3, <1>5, <2>0, <2>3
    <2> QED BY <2>1, <2>2, <2>3
  <1>6. ASSUME NEW t \in Slots, NEW u \in Slots, Peer(t)' = Peer(u)', PortOf(t)' < PortOf(u)'
        PROVE  QportOf(t)' <= QportOf(u)'
    <2>1. CASE t # s /\ u # s
      BY <1>2, <1>6, <2>1 DEF Ordered
    <2>2. CASE u = s /\ t # s
      BY <1>2, <1>6, <2>2 DEF Fits
    <2>3. CASE t = s /\ u # s
      BY <1>2, <1>6, <2>3 DEF Fits
    <2>4. CASE t = s /\ u = s
      BY <1>2, <1>6, <2>4, OfCopy
    <2> QED BY <2>1, <2>2, <2>3, <2>4
  <1> QED BY <1>5, <1>6 DEF Apart, Ordered

\* The copies of the other peers.
LEMMA PlacedElsewhere ==
  ASSUME TypeInv, OwnerInv, NEW p \in Peers, NEW c \in Copies, Fits(p, c),
         NEW s \in Slots, Clear(s, p, c), Placed(s, p, c),
         NEW q \in Peers, q # p, Copied(q), copy'[q] = copy[q]
  PROVE  Copied(q)'
  <1>1. c.port[1] = p /\ c.qport[1] = p
    BY DEF Fits
  <1>2. /\ Peer(s)' = p
        /\ \A t \in Slots \ {s} :
             /\ Peer(t)' = Peer(t) /\ PortOf(t)' = PortOf(t) /\ QportOf(t)' = QportOf(t)
             /\ Held(t)' = Held(t)
    BY <1>1, PlacedIs
  <1>3. /\ copy'[q].port[1] = q /\ copy'[q].qport[1] = q /\ copy'[q].age < ReconnectLimit
        /\ copy'[q].port[2] <= port'[q][2] /\ copy'[q].qport[2] <= qport'[q][2]
    BY DEF Copied, Placed
  <1>4. ASSUME NEW u \in Slots, Peer(u)' = q
        PROVE  /\ PortOf(u)' < copy[q].port[2] => QportOf(u)' <= copy[q].qport[2]
               /\ copy[q].port[2] < PortOf(u)' => copy[q].qport[2] <= QportOf(u)'
               /\ Held(u)' => /\ QportOf(u)' <= copy[q].qport[2]
                              /\ PortOf(u)' = copy[q].port[2] => QportOf(u)' = copy[q].qport[2]
                              /\ QportOf(u)' = copy[q].qport[2] =>
                                   /\ PortOf(u)' >= copy[q].port[2]
                                   /\ \A t \in Slots : t < u /\ Peer(t)' = q =>
                                        PortOf(t)' # copy[q].port[2]
               /\ slot'[u].latest => /\ QportOf(u)' = copy[q].qport[2]
                                     /\ slot'[u].lastConnect <= copy[q].age
    <2>1. u # s /\ Peer(u) = q
      BY <1>2, <1>4
    <2>2. /\ Peer(u)' = Peer(u) /\ PortOf(u)' = PortOf(u) /\ QportOf(u)' = QportOf(u)
          /\ Held(u)' = Held(u)
      BY <1>2, <2>1
    <2>3. slot'[u].latest => slot[u].latest /\ slot'[u].lastConnect = slot[u].lastConnect
      BY <2>1 DEF Placed
    <2>4. ASSUME Held(u), QportOf(u) = copy[q].qport[2], NEW t \in Slots, t < u, Peer(t)' = q
          PROVE  PortOf(t)' # copy[q].port[2]
      <3>1. t # s /\ Peer(t) = q /\ PortOf(t)' = PortOf(t)
        BY <1>2, <2>4
      <3> QED BY <2>1, <2>4, <3>1 DEF Copied
    <2> QED BY <2>1, <2>2, <2>3, <2>4 DEF Copied
  <1> QED BY <1>3, <1>4 DEF Copied

\* The copy of a peer whose connect was denied.
LEMMA PlacedKeepsCopy ==
  ASSUME TypeInv, OwnerInv, NEW p \in Peers, NEW c \in Copies, Fits(p, c),
         c = Current(p) \/ c = copy[p],
         NEW s \in Slots, Clear(s, p, c), Placed(s, p, c), ~Held(s)', ~slot'[s].latest,
         Copied(p), copy'[p] = copy[p]
  PROVE  Copied(p)'
  <1>1. c.port[1] = p /\ c.qport[1] = p
    BY DEF Fits
  <1>2. /\ Peer(s)' = p /\ PortOf(s)' = c.port[2] /\ QportOf(s)' = c.qport[2]
        /\ \A t \in Slots \ {s} :
             /\ Peer(t)' = Peer(t) /\ PortOf(t)' = PortOf(t) /\ QportOf(t)' = QportOf(t)
             /\ Held(t)' = Held(t)
    BY <1>1, PlacedIs
  <1>3. /\ copy'[p].port[1] = p /\ copy'[p].qport[1] = p /\ copy'[p].age < ReconnectLimit
        /\ copy'[p].port[2] <= port'[p][2] /\ copy'[p].qport[2] <= qport'[p][2]
    BY DEF Copied, Placed
  <1>5. /\ copy[p].port[2] \in Nat /\ copy[p].qport[2] \in Nat
        /\ c.port[2] \in Nat /\ c.qport[2] \in Nat
    BY OfPeer, OfCopy
  <1>6. /\ c.port[2] < copy[p].port[2] => c.qport[2] <= copy[p].qport[2]
        /\ copy[p].port[2] < c.port[2] => copy[p].qport[2] <= c.qport[2]
    <2>1. CASE c = copy[p]
      BY <1>5, <2>1
    <2>2. CASE c = Current(p)
      <3>1. c.port = port[p] /\ c.qport = qport[p]
        BY <2>2 DEF Current
      <3> QED BY <1>5, <3>1 DEF Copied
    <2> QED BY <2>1, <2>2
  <1>7. ASSUME NEW u \in Slots, Held(u), Peer(u) = p, QportOf(u) = copy[p].qport[2], s < u,
               c.port[2] = copy[p].port[2]
        PROVE  FALSE
    <2>0. u # s /\ PortOf(u) \in Nat
      BY <1>7, Numbers, OfSlot
    <2>1. QportOf(u) # c.qport[2] /\ PortOf(u) # c.port[2]
      BY <1>1, <1>7, <2>0, MatchMeans DEF Clear
    <2>2. CASE c = copy[p]
      BY <1>7, <2>1, <2>2
    <2>3. CASE c = Current(p)
      <3>1. c.port = port[p]
        BY <2>3 DEF Current
      <3>2. PortOf(u) <= c.port[2]
        BY <1>7, <3>1 DEF OwnerInv
      <3>3. PortOf(u) >= c.port[2]
        BY <1>7 DEF Copied
      <3> QED BY <1>5, <2>0, <2>1, <3>2, <3>3
    <2> QED BY <2>2, <2>3
  <1>4. ASSUME NEW u \in Slots, Peer(u)' = p
        PROVE  /\ PortOf(u)' < copy[p].port[2] => QportOf(u)' <= copy[p].qport[2]
               /\ copy[p].port[2] < PortOf(u)' => copy[p].qport[2] <= QportOf(u)'
               /\ Held(u)' => /\ QportOf(u)' <= copy[p].qport[2]
                              /\ PortOf(u)' = copy[p].port[2] => QportOf(u)' = copy[p].qport[2]
                              /\ QportOf(u)' = copy[p].qport[2] =>
                                   /\ PortOf(u)' >= copy[p].port[2]
                                   /\ \A t \in Slots : t < u /\ Peer(t)' = p =>
                                        PortOf(t)' # copy[p].port[2]
               /\ slot'[u].latest => /\ QportOf(u)' = copy[p].qport[2]
                                     /\ slot'[u].lastConnect <= copy[p].age
    <2>1. CASE u = s
      BY <1>2, <1>6, <2>1
    <2>2. CASE u # s
      <3>2. /\ Peer(u)' = Peer(u) /\ PortOf(u)' = PortOf(u) /\ QportOf(u)' = QportOf(u)
            /\ Held(u)' = Held(u) /\ Peer(u) = p
        BY <1>2, <1>4, <2>2
      <3>3. slot'[u].latest => slot[u].latest /\ slot'[u].lastConnect = slot[u].lastConnect
        BY <2>2 DEF Placed
      <3>4. ASSUME Held(u), QportOf(u) = copy[p].qport[2], NEW t \in Slots, t < u, Peer(t)' = p
            PROVE  PortOf(t)' # copy[p].port[2]
        <4>1. CASE t = s
          BY <1>2, <1>7, <3>2, <3>4, <4>1
        <4>2. CASE t # s
          <5>1. Peer(t) = p /\ PortOf(t)' = PortOf(t)
            BY <1>2, <3>4, <4>2
          <5> QED BY <3>2, <3>4, <5>1 DEF Copied
        <4> QED BY <4>1, <4>2
      <3> QED BY <3>2, <3>3, <3>4 DEF Copied
    <2> QED BY <2>1, <2>2
  <1> QED BY <1>3, <1>4 DEF Copied

\* The copy of a peer whose connect was accepted.
LEMMA PlacedMakesCopy ==
  ASSUME TypeInv, OwnerInv, NEW p \in Peers, NEW c \in Copies, Fits(p, c),
         c.age < ReconnectLimit,
         \A u \in Slots : Held(u) /\ Peer(u) = p => QportOf(u) <= c.qport[2],
         NEW s \in Slots, Clear(s, p, c), Placed(s, p, c), slot'[s].lastConnect = 0,
         \A t \in Slots \ {s} : slot[t].owner = p => ~slot'[t].latest,
         copy'[p] = c
  PROVE  Copied(p)'
  <1>1. c.port[1] = p /\ c.qport[1] = p
    BY DEF Fits
  <1>2. /\ Peer(s)' = p /\ PortOf(s)' = c.port[2] /\ QportOf(s)' = c.qport[2]
        /\ \A t \in Slots \ {s} :
             /\ Peer(t)' = Peer(t) /\ PortOf(t)' = PortOf(t) /\ QportOf(t)' = QportOf(t)
             /\ Held(t)' = Held(t)
    BY <1>1, PlacedIs
  <1>3. /\ copy'[p].port[1] = p /\ copy'[p].qport[1] = p /\ copy'[p].age < ReconnectLimit
        /\ copy'[p].port[2] <= port'[p][2] /\ copy'[p].qport[2] <= qport'[p][2]
    BY <1>1 DEF Fits, Placed
  <1>5. c.port[2] \in Nat /\ c.qport[2] \in Nat /\ c.age \in Nat
    BY OfCopy
  <1>6. \A t \in Slots : t # s /\ (t < s \/ Held(t)) /\ Peer(t) = p =>
          QportOf(t) # c.qport[2] /\ PortOf(t) # c.port[2]
    BY <1>1, MatchMeans DEF Clear
  <1>7. Slots \subseteq Nat
    BY Numbers
  <1>4. ASSUME NEW u \in Slots, Peer(u)' = p
        PROVE  /\ PortOf(u)' < c.port[2] => QportOf(u)' <= c.qport[2]
               /\ c.port[2] < PortOf(u)' => c.qport[2] <= QportOf(u)'
               /\ Held(u)' => /\ QportOf(u)' <= c.qport[2]
                              /\ PortOf(u)' = c.port[2] => QportOf(u)' = c.qport[2]
                              /\ QportOf(u)' = c.qport[2] =>
                                   /\ PortOf(u)' >= c.port[2]
                                   /\ \A t \in Slots : t < u /\ Peer(t)' = p =>
                                        PortOf(t)' # c.port[2]
               /\ slot'[u].latest => /\ QportOf(u)' = c.qport[2]
                                     /\ slot'[u].lastConnect <= c.age
    <2>1. CASE u = s
      <3>1. ASSUME NEW t \in Slots, t < s, Peer(t)' = p
            PROVE  PortOf(t)' # c.port[2]
        <4>1. t # s
          BY <1>7, <3>1
        <4> QED BY <1>2, <1>6, <3>1, <4>1
      <3> QED BY <1>2, <1>5, <2>1, <3>1
    <2>2. CASE u # s
      <3>2. /\ Peer(u)' = Peer(u) /\ PortOf(u)' = PortOf(u) /\ QportOf(u)' = QportOf(u)
            /\ Held(u)' = Held(u) /\ Peer(u) = p
        BY <1>2, <1>4, <2>2
      <3>3. Held(u) => /\ QportOf(u) # c.qport[2] /\ PortOf(u) # c.port[2]
                       /\ QportOf(u) <= c.qport[2]
        BY <1>6, <2>2, <3>2
      <3>4. ~slot'[u].latest
        <4>1. SUFFICES ASSUME slot'[u].latest PROVE FALSE
          OBVIOUS
        <4>2. slot[u].latest /\ Held(u)
          BY <2>2, <4>1 DEF Placed, OwnerInv
        <4>3. slot[u].owner = p
          BY <3>2, <4>2 DEF OwnerInv
        <4> QED BY <2>2, <4>1, <4>3
      <3>5. /\ PortOf(u) < c.port[2] => QportOf(u) <= c.qport[2]
            /\ c.port[2] < PortOf(u) => c.qport[2] <= QportOf(u)
        BY <3>2 DEF Fits
      <3> QED BY <3>2, <3>3, <3>4, <3>5
    <2> QED BY <2>1, <2>2
  <1> QED BY <1>3, <1>4 DEF Copied

\* The slot a connect is given has that peer for its owner.
LEMMA PlacedOwners ==
  ASSUME TypeInv, OwnerInv, NEW p \in Peers, NEW c \in Copies, Fits(p, c),
         NEW s \in Slots, Clear(s, p, c), Placed(s, p, c),
         \/ slot'[s].state = "FREE" /\ ~slot'[s].latest /\ slot'[s].real = Nobody
         \/ slot'[s].state = "CONNECTED" /\ slot'[s].owner = p /\ slot'[s].real = p
  PROVE  OwnerInv'
  <1>1. c.port[1] = p /\ c.qport[1] = p /\ c.port[2] <= port[p][2] /\ c.qport[2] <= qport[p][2]
    BY DEF Fits
  <1>2. /\ Peer(s)' = p /\ PortOf(s)' = c.port[2] /\ QportOf(s)' = c.qport[2]
        /\ \A t \in Slots \ {s} :
             /\ Peer(t)' = Peer(t) /\ PortOf(t)' = PortOf(t) /\ QportOf(t)' = QportOf(t)
             /\ Held(t)' = Held(t)
    BY <1>1, PlacedIs
  <1>3. \A q \in Peers : port'[q][1] = q /\ qport'[q][1] = q
    BY DEF Placed, OwnerInv
  <1>4. port' = port /\ qport' = qport
    BY DEF Placed
  <1>5. s >= StartIndex(p)
    BY DEF Clear
  <1>6. ASSUME NEW u \in Slots
        PROVE  /\ slot'[u].qport[1] = Peer(u)'
               /\ Held(u)' => Peer(u)' \in Peers /\ slot'[u].owner = Peer(u)'
               /\ slot'[u].latest => Held(u)'
               /\ Peer(u)' \in Peers => /\ u >= StartIndex(Peer(u)')
                                        /\ PortOf(u)' <= port'[Peer(u)'][2]
                                        /\ QportOf(u)' <= qport'[Peer(u)'][2]
               /\ slot'[u].state = "CONNECTED" => slot'[u].real = slot'[u].owner
               /\ slot'[u].state # "CONNECTED" => slot'[u].real = Nobody
    <2>1. CASE u = s
      <3>1. slot'[s].qport[1] = p
        BY <1>1 DEF Placed
      <3>2. Held(s)' <=> slot'[s].state # "FREE"
        BY DEF Held
      <3> QED BY <1>1, <1>2, <1>4, <1>5, <2>1, <3>1, <3>2
    <2>2. CASE u # s
      <3>1. /\ slot'[u].qport = slot[u].qport /\ slot'[u].state = slot[u].state
            /\ slot'[u].owner = slot[u].owner /\ slot'[u].real = slot[u].real
            /\ slot'[u].latest => slot[u].latest
        BY <2>2 DEF Placed
      <3>2. /\ Peer(u)' = Peer(u) /\ PortOf(u)' = PortOf(u) /\ QportOf(u)' = QportOf(u)
            /\ Held(u)' = Held(u)
        BY <1>2, <2>2
      <3> QED BY <1>4, <3>1, <3>2 DEF OwnerInv
    <2> QED BY <2>1, <2>2
  <1> QED BY <1>3, <1>6 DEF OwnerInv

\* A connect, in time or late, keeps the invariant.
LEMMA DirectConnectKeeps ==
  ASSUME SlotsInv, NEW p \in Peers, NEW c \in Copies, Fits(p, c), c.age < ReconnectLimit,
         c = Current(p) \/ (c = copy[p] /\ Alive(p)), DirectConnect(p, c)
  PROVE  SlotsInv'
  <1>0. TypeInv /\ OwnerInv /\ Apart /\ Ordered /\ CopyInv /\ SilenceInv
    BY DEF SlotsInv
  <1>1. c.port[1] = p /\ c.qport[1] = p /\ p # Nobody
    BY Numbers DEF Fits
  <1>2. PICK s \in NewSlot(p, c) :
         \/ /\ slot' = [slot EXCEPT ![s] = Denied(s, p, c)]
            /\ UNCHANGED <<talking, copy>>
         \/ /\ slot' = [t \in Slots |->
                         IF t = s THEN Connected(s, p, c)
                         ELSE [slot[t] EXCEPT !.latest = @ /\ slot[t].owner # p]]
            /\ copy' = [copy EXCEPT ![p] = c]
            /\ talking' \in {talking, [talking EXCEPT ![p] = @ \/ c.qport = qport[p]]}
    BY DEF DirectConnect
  <1>3. UNCHANGED <<port, qport>>
    BY DEF DirectConnect
  <1>4. Clear(s, p, c) /\ s \in Slots
    BY <1>0, <1>2, NewSlotIsClear DEF Clear
  <1>5. slot \in [Slots -> Clients]
    BY <1>0 DEF TypeInv
  <1>6. CASE /\ slot' = [slot EXCEPT ![s] = Denied(s, p, c)]
             /\ UNCHANGED <<talking, copy>>
    <2>1. /\ slot'[s] = Denied(s, p, c) /\ \A t \in Slots \ {s} : slot'[t] = slot[t]
          /\ slot' \in [Slots -> Clients]
      BY <1>4, <1>5, <1>6, DeniedIs
    <2>2. /\ slot'[s].state = "FREE" /\ ~slot'[s].latest /\ slot'[s].real = Nobody
          /\ slot'[s].port = c.port /\ slot'[s].qport = c.qport
      BY <2>1, DeniedIs
    <2>3. Placed(s, p, c)
      BY <1>3, <2>1, <2>2 DEF Placed
    <2>4. OwnerInv'
      BY <1>0, <1>4, <2>2, <2>3, PlacedOwners
    <2>5. Apart' /\ Ordered'
      BY <1>0, <1>4, <2>3, PlacedApart
    <2>6. ASSUME NEW q \in Peers, Alive(q)'
          PROVE  Copied(q)'
      <3>1. copy'[q] = copy[q] /\ Copied(q)
        BY <1>0, <1>6, <2>6 DEF Alive, CopyInv
      <3>2. CASE q = p
        <4>1. ~Held(s)'
          BY <2>2 DEF Held
        <4>2. Copied(p) /\ copy'[p] = copy[p]
          BY <3>1, <3>2
        <4>3. c = Current(p) \/ c = copy[p]
          OBVIOUS
        <4>4. Copied(p)'
          BY <1>0, <1>4, <2>2, <2>3, <4>1, <4>2, <4>3, PlacedKeepsCopy
        <4> QED BY <3>2, <4>4
      <3>3. CASE q # p
        BY <1>0, <1>4, <2>3, <3>1, <3>3, PlacedElsewhere
      <3> QED BY <3>2, <3>3
    <2>7. SilenceInv'
      BY <1>0, <2>1, <2>2 DEF SilenceInv, Connects
    <2>8. TypeInv'
      BY <1>0, <1>3, <1>6, <2>1 DEF TypeInv
    <2> QED BY <2>4, <2>5, <2>6, <2>7, <2>8 DEF SlotsInv, CopyInv
  <1>7. CASE /\ slot' = [t \in Slots |->
                         IF t = s THEN Connected(s, p, c)
                         ELSE [slot[t] EXCEPT !.latest = @ /\ slot[t].owner # p]]
             /\ copy' = [copy EXCEPT ![p] = c]
             /\ talking' \in {talking, [talking EXCEPT ![p] = @ \/ c.qport = qport[p]]}
    <2>0. RealAddress(s, p) = p
      BY <1>0, <1>4, RealIsOwn
    <2>1. slot'[s] = Connected(s, p, c)
      BY <1>4, <1>7
    <2>2. /\ slot'[s] \in Clients
          /\ slot'[s].state = "CONNECTED" /\ slot'[s].owner = p /\ slot'[s].real = p
          /\ slot'[s].port = c.port /\ slot'[s].qport = c.qport
          /\ slot'[s].lastConnect = 0 /\ slot'[s].lastPacket = 0
      BY <2>0, <2>1, ConnectedIs
    <2>3. ASSUME NEW t \in Slots \ {s}
          PROVE  /\ slot'[t] \in Clients
                 /\ slot'[t].port = slot[t].port /\ slot'[t].qport = slot[t].qport
                 /\ slot'[t].state = slot[t].state /\ slot'[t].owner = slot[t].owner
                 /\ slot'[t].real = slot[t].real /\ slot'[t].lastConnect = slot[t].lastConnect
                 /\ slot'[t].lastPacket = slot[t].lastPacket
                 /\ slot'[t].timeoutCount = slot[t].timeoutCount
                 /\ slot'[t].silent = slot[t].silent
                 /\ slot'[t].latest => slot[t].latest
                 /\ slot[t].owner = p => ~slot'[t].latest
      <3>1. slot'[t] = [slot[t] EXCEPT !.latest = @ /\ slot[t].owner # p]
        BY <1>7
      <3>2. slot[t] \in Clients
        BY <1>5
      <3>3. slot'[t].latest = (slot[t].latest /\ slot[t].owner # p)
        BY <3>1, <3>2 DEF Clients
      <3>4. (slot[t].latest /\ slot[t].owner # p) \in BOOLEAN
        OBVIOUS
      <3>5. slot'[t] \in Clients
        BY <3>1, <3>2, <3>4 DEF Clients
      <3> QED BY <3>1, <3>2, <3>3, <3>5 DEF Clients
    <2>4. slot' \in [Slots -> Clients]
      <3>1. \A t \in Slots : slot'[t] \in Clients
        BY <2>2, <2>3
      <3>2. slot' = [t \in Slots |-> slot'[t]]
        BY <1>7
      <3> QED BY <3>1, <3>2
    <2>5. Placed(s, p, c)
      BY <1>3, <2>2, <2>3, <2>4 DEF Placed
    <2>6. OwnerInv'
      BY <1>0, <1>4, <2>2, <2>5, PlacedOwners
    <2>7. Apart' /\ Ordered'
      BY <1>0, <1>4, <2>5, PlacedApart
    <2>8. copy \in [Peers -> Copies] /\ copy'[p] = c /\ copy' \in [Peers -> Copies]
          /\ \A q \in Peers \ {p} : copy'[q] = copy[q]
      BY <1>0, <1>7 DEF TypeInv
    <2>9. ASSUME NEW q \in Peers, Alive(q)'
          PROVE  Copied(q)'
      <3>2. CASE q = p
        <4>1. ASSUME NEW u \in Slots, Held(u), Peer(u) = p
              PROVE  QportOf(u) <= c.qport[2]
          <5>1. CASE c = Current(p)
            <6>1. c.qport = qport[p]
              BY <5>1 DEF Current
            <6> QED BY <1>0, <4>1, <6>1 DEF OwnerInv
          <5>2. CASE c = copy[p] /\ Alive(p)
            BY <1>0, <4>1, <5>2 DEF CopyInv, Copied
          <5> QED BY <5>1, <5>2
        <4>2. Copied(p)'
          BY <1>0, <1>4, <2>2, <2>3, <2>5, <2>8, <4>1, PlacedMakesCopy
        <4> QED BY <3>2, <4>2
      <3>3. CASE q # p
        <4>1. copy'[q] = copy[q] /\ Copied(q)
          BY <1>0, <2>8, <2>9, <3>3 DEF Alive, CopyInv
        <4> QED BY <1>0, <1>4, <2>5, <3>3, <4>1, PlacedElsewhere
      <3> QED BY <3>2, <3>3
    <2>10. SilenceInv'
      BY <1>0, <2>2, <2>3 DEF SilenceInv, Connects
    <2>11. TypeInv'
      <3>1. talking' \in [Peers -> BOOLEAN]
        <4>1. talking \in [Peers -> BOOLEAN]
          BY <1>0 DEF TypeInv
        <4>2. (talking[p] \/ c.qport = qport[p]) \in BOOLEAN
          OBVIOUS
        <4>3. [talking EXCEPT ![p] = @ \/ c.qport = qport[p]] \in [Peers -> BOOLEAN]
          BY <4>1, <4>2
        <4> QED BY <1>7, <4>1, <4>3
      <3> QED BY <1>0, <1>3, <2>4, <2>8, <3>1 DEF TypeInv
    <2> QED BY <2>6, <2>7, <2>9, <2>10, <2>11 DEF SlotsInv, CopyInv
  <1> QED BY <1>2, <1>6, <1>7

\* A step of each kind keeps the invariant.
LEMMA ConnectKeeps ==
  ASSUME SlotsInv, NEW p \in Peers, Connect(p)
  PROVE  SlotsInv'
  <1>1. Current(p) \in Copies /\ Fits(p, Current(p))
    BY CurrentFits DEF SlotsInv
  <1>2. DirectConnect(p, Current(p))
    BY DEF Connect, Current
  <1>3. Current(p).age < ReconnectLimit
    BY Numbers DEF Current
  <1> QED BY <1>1, <1>2, <1>3, DirectConnectKeeps

LEMMA LateConnectKeeps ==
  ASSUME SlotsInv, NEW p \in Peers, LateConnect(p)
  PROVE  SlotsInv'
  <1>0. TypeInv /\ OwnerInv /\ Apart /\ Ordered /\ CopyInv /\ SilenceInv
    BY DEF SlotsInv
  <1>1. Alive(p)
    BY DEF LateConnect, Alive
  <1>2. copy[p] \in Copies /\ Fits(p, copy[p]) /\ copy[p].age < ReconnectLimit
    BY <1>0, <1>1, CopyFits DEF CopyInv, Copied
  <1>3. CASE ~TooSoon(copy[p])
    <2>1. DirectConnect(p, copy[p])
      BY <1>3 DEF LateConnect
    <2> QED BY <1>1, <1>2, <2>1, DirectConnectKeeps
  <1>4. CASE TooSoon(copy[p])
    <2>1. copy' = [copy EXCEPT ![p] = NoCopy] /\ UNCHANGED <<slot, port, qport, talking>>
      BY <1>4 DEF LateConnect
    <2>2. NoCopy \in Copies
      BY DEF NoCopy, Copies, NoPort, Addresses, Someone, Nobody
    <2>3. copy \in [Peers -> Copies]
      BY <1>0 DEF TypeInv
    <2>4. TypeInv'
      BY <1>0, <2>1, <2>2, <2>3 DEF TypeInv
    <2>5. ASSUME NEW q \in Peers, Alive(q)'
          PROVE  Copied(q)'
      <3>1. q # p /\ copy'[q] = copy[q]
        BY <2>1, <2>3, <2>5 DEF Alive
      <3>2. Copied(q)
        BY <1>0, <2>5, <3>1 DEF Alive, CopyInv
      <3> QED BY <2>1, <3>1, <3>2 DEF Copied, Peer, PortOf, QportOf, Held
    <2>6. OwnerInv' /\ Apart' /\ Ordered' /\ SilenceInv'
      BY <1>0, <2>1 DEF OwnerInv, Apart, Ordered, SilenceInv, Peer, PortOf, QportOf, Held,
                        Connects, StartIndex
    <2> QED BY <2>4, <2>5, <2>6 DEF SlotsInv, CopyInv
  <1> QED BY <1>3, <1>4

-----------------------------------------------------------------------------
(* Packets and drops *)

\* A packet is routed to a slot that is held and has the packet's qport.
LEMMA RoutedIs ==
  ASSUME TypeInv, NEW p \in Peers, NEW s \in Routed(p)
  PROVE  s \in Slots /\ Held(s) /\ slot[s].qport = qport[p]
  <1> DEFINE found == {t \in Slots : slot[t].state # "FREE" /\ slot[t].qport = qport[p]}
  <1>1. found # {} /\ s = Min(found)
    BY DEF Routed
  <1>2. found \subseteq Nat
    BY Numbers
  <1>3. s \in found
    BY <1>1, <1>2, MinOf
  <1> QED BY <1>3 DEF Held

\* A packet changes the port of its slot, not whose it is.
LEMMA HeardIs ==
  ASSUME NEW c \in Clients, NEW from \in Addresses
  PROVE  /\ Heard(c, from) \in Clients /\ Heard(c, from).port = from
         /\ Heard(c, from).qport = c.qport /\ Heard(c, from).state = c.state
         /\ Heard(c, from).owner = c.owner /\ Heard(c, from).latest = c.latest
         /\ Heard(c, from).real = c.real /\ Heard(c, from).lastConnect = c.lastConnect
         /\ c.state # "ZOMBIE" => Heard(c, from).lastPacket = 0
  <1>1. 0 \in 0 .. OldPacket /\ 0 \in 0 .. Grace + 1
    BY Numbers
  <1> QED BY <1>1 DEF Heard, Clients

\* A drop makes a zombie with the same addresses.
LEMMA DroppedIs ==
  ASSUME NEW c \in Clients
  PROVE  /\ Dropped(c) \in Clients /\ Dropped(c).port = c.port
         /\ Dropped(c).qport = c.qport /\ Dropped(c).state = "ZOMBIE"
         /\ Dropped(c).owner = c.owner /\ Dropped(c).latest = c.latest
         /\ Dropped(c).real = Nobody /\ Dropped(c).lastConnect = c.lastConnect
  BY DEF Dropped, Clients, States, Someone

\* Slots keep their addresses, and are held by whom they were, or free.
Steady ==
    /\ slot' \in [Slots -> Clients]
    /\ \A s \in Slots :
         /\ slot'[s].port = slot[s].port /\ slot'[s].qport = slot[s].qport
         /\ slot'[s].state # "FREE" => slot[s].state # "FREE" /\ slot'[s].owner = slot[s].owner
         /\ slot'[s].latest => slot[s].latest /\ slot'[s].state # "FREE"
         /\ slot'[s].state = "CONNECTED" => slot'[s].real = slot'[s].owner
         /\ slot'[s].state # "CONNECTED" => slot'[s].real = Nobody

\* Peers keep their numbers, and their ports and qports only go up.
Grown == /\ port' \in [Peers -> Addresses] /\ qport' \in [Peers -> Addresses]
         /\ \A p \in Peers : /\ port'[p][1] = port[p][1] /\ qport'[p][1] = qport[p][1]
                             /\ port[p][2] <= port'[p][2] /\ qport[p][2] <= qport'[p][2]

\* What a step leaves that moves no addresses.
LEMMA SteadyIs ==
  ASSUME Steady, NEW s \in Slots
  PROVE  /\ Peer(s)' = Peer(s) /\ PortOf(s)' = PortOf(s) /\ QportOf(s)' = QportOf(s)
         /\ Held(s)' => Held(s)
  BY DEF Steady, Peer, PortOf, QportOf, Held

\* Where no addresses move, nobody gains a slot and peers only move on, the order stays.
LEMMA SteadyKeeps ==
  ASSUME TypeInv, OwnerInv, Apart, Ordered, Steady, Grown
  PROVE  OwnerInv' /\ Apart' /\ Ordered'
  <1>1. \A s \in Slots :
          /\ Peer(s)' = Peer(s) /\ PortOf(s)' = PortOf(s) /\ QportOf(s)' = QportOf(s)
          /\ Held(s)' => Held(s)
    BY SteadyIs
  <1>2. Apart' /\ Ordered'
    BY <1>1 DEF Apart, Ordered
  <1>3. \A p \in Peers : port'[p][1] = p /\ qport'[p][1] = p
    BY DEF OwnerInv, Grown
  <1>4. ASSUME NEW s \in Slots
        PROVE  /\ slot'[s].qport[1] = Peer(s)'
               /\ Held(s)' => Peer(s)' \in Peers /\ slot'[s].owner = Peer(s)'
               /\ slot'[s].latest => Held(s)'
               /\ Peer(s)' \in Peers => /\ s >= StartIndex(Peer(s)')
                                        /\ PortOf(s)' <= port'[Peer(s)'][2]
                                        /\ QportOf(s)' <= qport'[Peer(s)'][2]
               /\ slot'[s].state = "CONNECTED" => slot'[s].real = slot'[s].owner
               /\ slot'[s].state # "CONNECTED" => slot'[s].real = Nobody
    <2>1. /\ Peer(s)' = Peer(s) /\ PortOf(s)' = PortOf(s) /\ QportOf(s)' = QportOf(s)
          /\ Held(s)' => Held(s)
      BY <1>1
    <2>2. ASSUME Peer(s) \in Peers
          PROVE  PortOf(s) <= port'[Peer(s)][2] /\ QportOf(s) <= qport'[Peer(s)][2]
      <3>1. /\ PortOf(s) <= port[Peer(s)][2] /\ QportOf(s) <= qport[Peer(s)][2]
            /\ port[Peer(s)][2] <= port'[Peer(s)][2] /\ qport[Peer(s)][2] <= qport'[Peer(s)][2]
        BY <2>2 DEF OwnerInv, Grown
      <3>2. PortOf(s) \in Nat /\ QportOf(s) \in Nat
        BY OfSlot
      <3>3. port[Peer(s)][2] \in Nat /\ qport[Peer(s)][2] \in Nat
        BY <2>2, OfPeer
      <3>4. port'[Peer(s)][2] \in Nat /\ qport'[Peer(s)][2] \in Nat
        BY <2>2 DEF Grown, Addresses
      <3> QED BY <3>1, <3>2, <3>3, <3>4
    <2>3. /\ slot'[s].qport = slot[s].qport
          /\ Held(s)' => slot'[s].owner = slot[s].owner
          /\ slot'[s].latest => Held(s)'
          /\ slot'[s].state = "CONNECTED" => slot'[s].real = slot'[s].owner
          /\ slot'[s].state # "CONNECTED" => slot'[s].real = Nobody
      BY DEF Steady, Held
    <2>4. /\ slot[s].qport[1] = Peer(s)
          /\ Held(s) => Peer(s) \in Peers /\ slot[s].owner = Peer(s)
          /\ Peer(s) \in Peers => s >= StartIndex(Peer(s))
      BY DEF OwnerInv
    <2> QED BY <2>1, <2>2, <2>3, <2>4
  <1> QED BY <1>2, <1>3, <1>4 DEF OwnerInv

\* A copy ages no faster than the slot its connect was given.
LEMMA SteadyCopy ==
  ASSUME TypeInv, Steady, Grown, NEW p \in Peers, Copied(p),
         copy'[p].port = copy[p].port, copy'[p].qport = copy[p].qport,
         copy'[p].age < ReconnectLimit,
         \A s \in Slots : slot[s].lastConnect <= copy[p].age =>
                            slot'[s].lastConnect <= copy'[p].age
  PROVE  Copied(p)'
  <1>1. \A s \in Slots :
          /\ Peer(s)' = Peer(s) /\ PortOf(s)' = PortOf(s) /\ QportOf(s)' = QportOf(s)
          /\ Held(s)' => Held(s)
    BY SteadyIs
  <1>2. \A s \in Slots : slot'[s].latest => slot[s].latest
    BY DEF Steady
  <1>3. copy'[p].port[2] <= port'[p][2] /\ copy'[p].qport[2] <= qport'[p][2]
    <2>1. /\ copy[p].port[2] \in Nat /\ copy[p].qport[2] \in Nat
          /\ port[p][2] \in Nat /\ qport[p][2] \in Nat
      BY OfPeer, OfCopy
    <2>2. port'[p][2] \in Nat /\ qport'[p][2] \in Nat
      BY DEF Grown, Addresses
    <2>3. /\ copy[p].port[2] <= port[p][2] /\ copy[p].qport[2] <= qport[p][2]
          /\ port[p][2] <= port'[p][2] /\ qport[p][2] <= qport'[p][2]
      BY DEF Copied, Grown
    <2> QED BY <2>1, <2>2, <2>3
  <1>4. copy'[p].port[1] = p /\ copy'[p].qport[1] = p
    BY DEF Copied
  <1>5. ASSUME NEW s \in Slots, Peer(s)' = p
        PROVE  /\ PortOf(s)' < copy'[p].port[2] => QportOf(s)' <= copy'[p].qport[2]
               /\ copy'[p].port[2] < PortOf(s)' => copy'[p].qport[2] <= QportOf(s)'
               /\ Held(s)' => /\ QportOf(s)' <= copy'[p].qport[2]
                              /\ PortOf(s)' = copy'[p].port[2] => QportOf(s)' = copy'[p].qport[2]
                              /\ QportOf(s)' = copy'[p].qport[2] =>
                                   /\ PortOf(s)' >= copy'[p].port[2]
                                   /\ \A t \in Slots : t < s /\ Peer(t)' = p =>
                                        PortOf(t)' # copy'[p].port[2]
               /\ slot'[s].latest => /\ QportOf(s)' = copy'[p].qport[2]
                                     /\ slot'[s].lastConnect <= copy'[p].age
    BY <1>1, <1>2, <1>5 DEF Copied
  <1> QED BY <1>3, <1>4, <1>5 DEF Copied

\* Nothing that the invariant is about grows old.
LEMMA QuietKeeps ==
  ASSUME SlotsInv, Steady, Grown, UNCHANGED copy, talking' \in [Peers -> BOOLEAN],
         \A s \in Slots : slot'[s].lastConnect = slot[s].lastConnect,
         SilenceInv'
  PROVE  SlotsInv'
  <1>0. TypeInv /\ OwnerInv /\ Apart /\ Ordered /\ CopyInv
    BY DEF SlotsInv
  <1>1. TypeInv'
    BY <1>0 DEF TypeInv, Steady, Grown
  <1>2. OwnerInv' /\ Apart' /\ Ordered'
    BY <1>0, SteadyKeeps
  <1>3. ASSUME NEW p \in Peers, Alive(p)'
        PROVE  Copied(p)'
    <2>1. Copied(p) /\ copy'[p] = copy[p]
      BY <1>0, <1>3 DEF CopyInv, Alive
    <2>2. copy'[p].age < ReconnectLimit
      BY <2>1 DEF Copied
    <2> QED BY <1>0, <2>1, <2>2, SteadyCopy
  <1> QED BY <1>1, <1>2, <1>3 DEF SlotsInv, CopyInv

\* A step that leaves the slots is such a step.
LEMMA SameSteady ==
  ASSUME TypeInv, OwnerInv, slot' = slot
  PROVE  Steady
  BY DEF TypeInv, OwnerInv, Steady, Held

\* And the addresses of the peers that stay have not gone back.
LEMMA SameGrown ==
  ASSUME TypeInv, UNCHANGED <<port, qport>>
  PROVE  Grown
  <1>1. \A p \in Peers : port[p][2] \in Nat /\ qport[p][2] \in Nat
    BY OfPeer
  <1> QED BY <1>1 DEF TypeInv, Grown

LEMMA ToldKeeps ==
  ASSUME SlotsInv, NEW p \in Peers, Told(p)
  PROVE  SlotsInv'
  <1>1. TypeInv /\ OwnerInv /\ SilenceInv
    BY DEF SlotsInv
  <1>2. UNCHANGED <<slot, port, qport, copy>> /\ talking' = [talking EXCEPT ![p] = FALSE]
    BY DEF Told
  <1>3. Steady /\ Grown
    BY <1>1, <1>2, SameSteady, SameGrown
  <1>4. talking' \in [Peers -> BOOLEAN] /\ SilenceInv'
    BY <1>1, <1>2 DEF TypeInv, SilenceInv, Connects
  <1> QED BY <1>2, <1>3, <1>4, QuietKeeps

\* A drop moves no addresses.
LEMMA DropIsSteady ==
  ASSUME TypeInv, OwnerInv, NEW s \in Slots, slot[s].state = "CONNECTED",
         slot' = [slot EXCEPT ![s] = Dropped(slot[s])]
  PROVE  /\ Steady
         /\ \A t \in Slots : slot'[t].lastConnect = slot[t].lastConnect
  <1>1. slot \in [Slots -> Clients]
    BY DEF TypeInv
  <1>2. slot'[s] = Dropped(slot[s]) /\ \A t \in Slots \ {s} : slot'[t] = slot[t]
    BY <1>1
  <1>3. Dropped(slot[s]) \in Clients
    BY <1>1, DroppedIs
  <1>4. slot' \in [Slots -> Clients]
    BY <1>1, <1>3
  <1>5. ASSUME NEW t \in Slots
        PROVE  /\ slot'[t].port = slot[t].port /\ slot'[t].qport = slot[t].qport
               /\ slot'[t].state # "FREE" => /\ slot[t].state # "FREE"
                                             /\ slot'[t].owner = slot[t].owner
               /\ slot'[t].latest => slot[t].latest /\ slot'[t].state # "FREE"
               /\ slot'[t].state = "CONNECTED" => slot'[t].real = slot'[t].owner
               /\ slot'[t].state # "CONNECTED" => slot'[t].real = Nobody
               /\ slot'[t].lastConnect = slot[t].lastConnect
    <2>1. CASE t = s
      BY <1>1, <1>2, <2>1, DroppedIs
    <2>2. CASE t # s
      BY <1>2, <2>2 DEF OwnerInv, Held
    <2> QED BY <2>1, <2>2
  <1> QED BY <1>4, <1>5 DEF Steady

LEMMA KickKeeps ==
  ASSUME SlotsInv, NEW s \in Slots, Kick(s)
  PROVE  SlotsInv'
  <1>1. TypeInv /\ OwnerInv /\ SilenceInv
    BY DEF SlotsInv
  <1>2. /\ slot[s].state = "CONNECTED" /\ slot' = [slot EXCEPT ![s] = Dropped(slot[s])]
        /\ UNCHANGED <<port, qport, talking, copy>>
    BY DEF Kick
  <1>3. Steady /\ \A t \in Slots : slot'[t].lastConnect = slot[t].lastConnect
    BY <1>1, <1>2, DropIsSteady
  <1>4. Grown
    BY <1>1, <1>2, SameGrown
  <1>5. talking' \in [Peers -> BOOLEAN]
    BY <1>1, <1>2 DEF TypeInv
  <1>6. slot \in [Slots -> Clients]
    BY <1>1 DEF TypeInv
  <1>7. slot'[s].state = "ZOMBIE" /\ \A t \in Slots \ {s} : slot'[t] = slot[t]
    BY <1>2, <1>6, DroppedIs
  <1>8. SilenceInv'
    BY <1>1, <1>7 DEF SilenceInv, Connects
  <1> QED BY <1>2, <1>3, <1>4, <1>5, <1>8, QuietKeeps

\* A packet of p's reaches slot s, and moves it to p's port.
Moved(p, s) ==
    /\ slot' \in [Slots -> Clients]
    /\ slot'[s].port = port[p] /\ slot'[s].qport = slot[s].qport
    /\ slot'[s].state # "FREE" /\ slot'[s].owner = slot[s].owner
    /\ slot'[s].latest = slot[s].latest /\ slot'[s].lastConnect = slot[s].lastConnect
    /\ slot'[s].state = "CONNECTED" => slot'[s].real = slot[s].owner
    /\ slot'[s].state # "CONNECTED" => slot'[s].real = Nobody
    /\ \A t \in Slots \ {s} : slot'[t] = slot[t]
    /\ UNCHANGED <<port, qport, copy>>

\* A packet gives its slot the newest port of its peer.
LEMMA MovedIs ==
  ASSUME TypeInv, OwnerInv, NEW p \in Peers, NEW s \in Slots, Held(s),
         slot[s].qport = qport[p], Moved(p, s)
  PROVE  /\ Peer(s) = p /\ Peer(s)' = p /\ QportOf(s) = qport[p][2] /\ QportOf(s)' = qport[p][2]
         /\ PortOf(s)' = port[p][2] /\ Held(s)'
         /\ \A t \in Slots \ {s} :
              /\ Peer(t)' = Peer(t) /\ PortOf(t)' = PortOf(t) /\ QportOf(t)' = QportOf(t)
              /\ Held(t)' = Held(t)
         /\ \A t \in Slots : Peer(t) = p =>
              PortOf(t) <= port[p][2] /\ QportOf(t) <= qport[p][2]
  BY DEF Moved, OwnerInv, Peer, PortOf, QportOf, Held

\* That port is in no slot before, and in no other that is held.
LEMMA MovedApart ==
  ASSUME TypeInv, OwnerInv, Apart, Ordered, NEW p \in Peers, NEW s \in Slots, Held(s),
         slot[s].qport = qport[p], Moved(p, s)
  PROVE  /\ Apart' /\ Ordered'
         /\ \A t \in Slots : t # s /\ Peer(t) = p /\ (t < s \/ Held(t)) => PortOf(t) # port[p][2]
  <1>1. /\ Peer(s) = p /\ Peer(s)' = p /\ QportOf(s) = qport[p][2] /\ QportOf(s)' = qport[p][2]
        /\ PortOf(s)' = port[p][2] /\ Held(s)'
        /\ \A t \in Slots \ {s} :
             /\ Peer(t)' = Peer(t) /\ PortOf(t)' = PortOf(t) /\ QportOf(t)' = QportOf(t)
             /\ Held(t)' = Held(t)
        /\ \A t \in Slots : Peer(t) = p =>
             PortOf(t) <= port[p][2] /\ QportOf(t) <= qport[p][2]
    BY MovedIs
  <1>2. Slots \subseteq Nat /\ port[p][2] \in Nat /\ qport[p][2] \in Nat
    BY Numbers, OfPeer
  <1>3. \A t \in Slots : PortOf(t) \in Nat /\ QportOf(t) \in Nat
    BY OfSlot
  <1>4. ASSUME NEW t \in Slots, t # s, Peer(t) = p, t < s \/ Held(t)
        PROVE  PortOf(t) # port[p][2] /\ QportOf(t) # qport[p][2]
    <2>1. PortOf(t) # PortOf(s) /\ QportOf(t) # QportOf(s)
      <3>1. t < s \/ (s < t /\ Held(t))
        BY <1>2, <1>4
      <3> QED BY <1>1, <1>4, <3>1 DEF Apart
    <2>2. PortOf(s) < PortOf(t) => QportOf(s) <= QportOf(t)
      BY <1>1, <1>4 DEF Ordered
    <2>3. QportOf(t) <= qport[p][2] /\ PortOf(s) <= port[p][2] /\ PortOf(t) <= port[p][2]
      BY <1>1, <1>4
    <2> QED BY <1>1, <1>2, <1>3, <2>1, <2>2, <2>3
  <1>5. ASSUME NEW t \in Slots, NEW u \in Slots, t < u, Held(u)', Peer(t)' = Peer(u)'
        PROVE  PortOf(t)' # PortOf(u)' /\ QportOf(t)' # QportOf(u)'
    <2>0. t # u
      BY <1>2, <1>5
    <2>1. CASE t # s /\ u # s
      BY <1>1, <1>5, <2>1 DEF Apart
    <2>2. CASE u = s
      BY <1>1, <1>4, <1>5, <2>0, <2>2
    <2>3. CASE t = s
      BY <1>1, <1>4, <1>5, <2>0, <2>3
    <2> QED BY <2>1, <2>2, <2>3
  <1>6. ASSUME NEW t \in Slots, NEW u \in Slots, Peer(t)' = Peer(u)', PortOf(t)' < PortOf(u)'
        PROVE  QportOf(t)' <= QportOf(u)'
    <2>1. CASE t # s /\ u # s
      BY <1>1, <1>6, <2>1 DEF Ordered
    <2>2. CASE u = s
      BY <1>1, <1>2, <1>6, <2>2
    <2>3. CASE t = s /\ u # s
      <3>1. port[p][2] < PortOf(u) /\ PortOf(u) <= port[p][2]
        BY <1>1, <1>6, <2>3
      <3> QED BY <1>2, <1>3, <3>1
    <2> QED BY <2>1, <2>2, <2>3
  <1> QED BY <1>4, <1>5, <1>6 DEF Apart, Ordered

\* The copy of a connect still finds first the slot that connect was given.
LEMMA MovedCopy ==
  ASSUME TypeInv, OwnerInv, Apart, Ordered, NEW p \in Peers, NEW s \in Slots, Held(s),
         slot[s].qport = qport[p], Moved(p, s), NEW q \in Peers, Copied(q)
  PROVE  Copied(q)'
  <1>1. /\ Peer(s) = p /\ Peer(s)' = p /\ QportOf(s) = qport[p][2] /\ QportOf(s)' = qport[p][2]
        /\ PortOf(s)' = port[p][2] /\ Held(s)'
        /\ \A t \in Slots \ {s} :
             /\ Peer(t)' = Peer(t) /\ PortOf(t)' = PortOf(t) /\ QportOf(t)' = QportOf(t)
             /\ Held(t)' = Held(t)
        /\ \A t \in Slots : Peer(t) = p =>
             PortOf(t) <= port[p][2] /\ QportOf(t) <= qport[p][2]
    BY MovedIs
  <1>2. Slots \subseteq Nat /\ port[p][2] \in Nat /\ qport[p][2] \in Nat
        /\ copy[q].port[2] \in Nat /\ copy[q].qport[2] \in Nat
    BY Numbers, OfPeer, OfCopy
  <1>3. copy' = copy /\ port' = port /\ qport' = qport
    BY DEF Moved
  <1>4. /\ copy[q].port[1] = q /\ copy[q].qport[1] = q /\ copy[q].age < ReconnectLimit
        /\ copy[q].port[2] <= port[q][2] /\ copy[q].qport[2] <= qport[q][2]
    BY DEF Copied
  <1>5. \A t \in Slots : t # s /\ Peer(t) = p /\ (t < s \/ Held(t)) => PortOf(t) # port[p][2]
    BY MovedApart
  <1>6. ASSUME NEW u \in Slots, Peer(u)' = q
        PROVE  /\ PortOf(u)' < copy[q].port[2] => QportOf(u)' <= copy[q].qport[2]
               /\ copy[q].port[2] < PortOf(u)' => copy[q].qport[2] <= QportOf(u)'
               /\ Held(u)' => /\ QportOf(u)' <= copy[q].qport[2]
                              /\ PortOf(u)' = copy[q].port[2] => QportOf(u)' = copy[q].qport[2]
                              /\ QportOf(u)' = copy[q].qport[2] =>
                                   /\ PortOf(u)' >= copy[q].port[2]
                                   /\ \A t \in Slots : t < u /\ Peer(t)' = q =>
                                        PortOf(t)' # copy[q].port[2]
               /\ slot'[u].latest => /\ QportOf(u)' = copy[q].qport[2]
                                     /\ slot'[u].lastConnect <= copy[q].age
    <2>1. CASE u = s
      <3>1. q = p
        BY <1>1, <1>6, <2>1
      <3>2. QportOf(s) <= copy[p].qport[2]
        BY <1>1, <3>1 DEF Copied
      <3>3. QportOf(s)' = copy[p].qport[2]
        BY <1>1, <1>2, <1>4, <3>1, <3>2
      <3>4. ASSUME NEW t \in Slots, t < s, Peer(t)' = p
            PROVE  PortOf(t)' # copy[p].port[2]
        <4>1. t # s /\ Peer(t) = p /\ PortOf(t)' = PortOf(t)
          BY <1>1, <1>2, <3>4
        <4>2. Held(s) /\ QportOf(s) = copy[p].qport[2]
          BY <1>1, <3>3
        <4> QED BY <1>1, <3>1, <3>4, <4>1, <4>2 DEF Copied
      <3>5. slot'[s].latest => slot'[s].lastConnect <= copy[p].age
        <4>1. slot'[s].latest = slot[s].latest /\ slot'[s].lastConnect = slot[s].lastConnect
          BY DEF Moved
        <4> QED BY <1>1, <3>1, <4>1 DEF Copied
      <3> QED BY <1>1, <1>2, <1>4, <2>1, <3>1, <3>3, <3>4, <3>5
    <2>2. CASE u # s
      <3>1. /\ Peer(u)' = Peer(u) /\ PortOf(u)' = PortOf(u) /\ QportOf(u)' = QportOf(u)
            /\ Held(u)' = Held(u) /\ slot'[u] = slot[u] /\ Peer(u) = q
        BY <1>1, <1>6, <2>2 DEF Moved
      <3>2. ASSUME Held(u), QportOf(u) = copy[q].qport[2], NEW t \in Slots, t < u, Peer(t)' = q
            PROVE  PortOf(t)' # copy[q].port[2]
        <4>1. CASE t # s
          <5>1. Peer(t) = q /\ PortOf(t)' = PortOf(t)
            BY <1>1, <3>2, <4>1
          <5> QED BY <3>1, <3>2, <5>1 DEF Copied
        <4>2. CASE t = s
          <5>1. q = p
            BY <1>1, <3>2, <4>2
          <5>2. QportOf(s) <= copy[p].qport[2] /\ copy[p].qport[2] <= qport[p][2]
            BY <1>1, <1>4, <5>1 DEF Copied
          <5>3. QportOf(s) = QportOf(u)
            BY <1>1, <1>2, <3>2, <5>1, <5>2
          <5>4. s < u /\ Held(u) /\ Peer(s) = Peer(u)
            BY <1>1, <3>1, <3>2, <4>2, <5>1
          <5> QED BY <5>3, <5>4 DEF Apart
        <4> QED BY <4>1, <4>2
      <3> QED BY <3>1, <3>2 DEF Copied
    <2> QED BY <2>1, <2>2
  <1> QED BY <1>3, <1>4, <1>6 DEF Copied

\* A packet keeps the invariant.
LEMMA MovedKeeps ==
  ASSUME SlotsInv, NEW p \in Peers, NEW s \in Slots, Held(s),
         slot[s].qport = qport[p], Moved(p, s), talking' \in [Peers -> BOOLEAN],
         slot'[s].state = "CONNECTED" => slot'[s].lastPacket = 0
  PROVE  SlotsInv'
  <1>0. TypeInv /\ OwnerInv /\ Apart /\ Ordered /\ CopyInv /\ SilenceInv
    BY DEF SlotsInv
  <1>1. /\ Peer(s) = p /\ Peer(s)' = p /\ QportOf(s) = qport[p][2] /\ QportOf(s)' = qport[p][2]
        /\ PortOf(s)' = port[p][2] /\ Held(s)'
        /\ \A t \in Slots \ {s} :
             /\ Peer(t)' = Peer(t) /\ PortOf(t)' = PortOf(t) /\ QportOf(t)' = QportOf(t)
             /\ Held(t)' = Held(t)
        /\ \A t \in Slots : Peer(t) = p =>
             PortOf(t) <= port[p][2] /\ QportOf(t) <= qport[p][2]
    BY <1>0, MovedIs
  <1>2. Apart' /\ Ordered'
    BY <1>0, MovedApart
  <1>3. UNCHANGED <<port, qport, copy>>
    BY DEF Moved
  <1>4. TypeInv'
    BY <1>0, <1>3 DEF TypeInv, Moved
  <1>5. CopyInv'
    <2> SUFFICES ASSUME NEW q \in Peers, Alive(q)' PROVE Copied(q)'
      BY DEF CopyInv
    <2>1. Copied(q)
      BY <1>0, <1>3 DEF CopyInv, Alive
    <2> QED BY <1>0, <2>1, MovedCopy
  <1>6. SilenceInv'
    BY <1>0 DEF SilenceInv, Connects, Moved
  <1>7. ASSUME NEW u \in Slots
        PROVE  /\ slot'[u].qport[1] = Peer(u)'
               /\ Held(u)' => Peer(u)' \in Peers /\ slot'[u].owner = Peer(u)'
               /\ slot'[u].latest => Held(u)'
               /\ Peer(u)' \in Peers => /\ u >= StartIndex(Peer(u)')
                                        /\ PortOf(u)' <= port'[Peer(u)'][2]
                                        /\ QportOf(u)' <= qport'[Peer(u)'][2]
               /\ slot'[u].state = "CONNECTED" => slot'[u].real = slot'[u].owner
               /\ slot'[u].state # "CONNECTED" => slot'[u].real = Nobody
    <2>1. CASE u = s
      <3>1. slot'[s].qport = slot[s].qport /\ slot'[s].owner = slot[s].owner
            /\ (slot'[s].state = "CONNECTED" => slot'[s].real = slot[s].owner)
            /\ (slot'[s].state # "CONNECTED" => slot'[s].real = Nobody)
        BY DEF Moved
      <3>2. slot[s].qport[1] = p /\ slot[s].owner = p /\ s >= StartIndex(p)
        BY <1>0, <1>1 DEF OwnerInv
      <3>3. port[p][2] \in Nat /\ qport[p][2] \in Nat
        BY <1>0, OfPeer
      <3> QED BY <1>1, <1>3, <2>1, <3>1, <3>2, <3>3
    <2>2. CASE u # s
      <3>1. /\ Peer(u)' = Peer(u) /\ PortOf(u)' = PortOf(u) /\ QportOf(u)' = QportOf(u)
            /\ Held(u)' = Held(u) /\ slot'[u] = slot[u]
        BY <1>1, <2>2 DEF Moved
      <3> QED BY <1>0, <1>3, <3>1 DEF OwnerInv
    <2> QED BY <2>1, <2>2
  <1>8. OwnerInv'
    BY <1>0, <1>3, <1>7 DEF OwnerInv
  <1> QED BY <1>2, <1>4, <1>5, <1>6, <1>8 DEF SlotsInv

LEMMA PacketEventKeeps ==
  ASSUME SlotsInv, NEW p \in Peers, PacketEvent(p)
  PROVE  SlotsInv'
  <1>0. TypeInv /\ OwnerInv
    BY DEF SlotsInv
  <1>1. PICK s \in Routed(p) : slot' = [slot EXCEPT ![s] = Heard(slot[s], port[p])]
    BY DEF PacketEvent
  <1>2. s \in Slots /\ Held(s) /\ slot[s].qport = qport[p]
    BY <1>0, RoutedIs
  <1>3. UNCHANGED <<port, qport, talking, copy>>
    BY DEF PacketEvent
  <1>4. slot \in [Slots -> Clients] /\ port[p] \in Addresses /\ talking \in [Peers -> BOOLEAN]
    BY <1>0, OfPeer DEF TypeInv
  <1>5. slot'[s] = Heard(slot[s], port[p]) /\ \A t \in Slots \ {s} : slot'[t] = slot[t]
    BY <1>1, <1>2, <1>4
  <1>6. slot[s] \in Clients /\ Heard(slot[s], port[p]) \in Clients
    BY <1>2, <1>4, HeardIs
  <1>7. slot' \in [Slots -> Clients]
    BY <1>1, <1>2, <1>4, <1>6
  <1>8. /\ slot'[s].port = port[p] /\ slot'[s].qport = slot[s].qport
        /\ slot'[s].state = slot[s].state /\ slot'[s].owner = slot[s].owner
        /\ slot'[s].latest = slot[s].latest /\ slot'[s].lastConnect = slot[s].lastConnect
        /\ slot'[s].real = slot[s].real
        /\ slot[s].state # "ZOMBIE" => slot'[s].lastPacket = 0
    BY <1>4, <1>5, <1>6, HeardIs
  <1>9. Moved(p, s)
    BY <1>0, <1>2, <1>3, <1>5, <1>7, <1>8 DEF Moved, OwnerInv, Held
  <1>10. slot'[s].state = "CONNECTED" => slot'[s].lastPacket = 0
    BY <1>8
  <1> QED BY <1>2, <1>3, <1>4, <1>9, <1>10, MovedKeeps

LEMMA LeaveKeeps ==
  ASSUME SlotsInv, NEW p \in Peers, Leave(p)
  PROVE  SlotsInv'
  <1>0. TypeInv /\ OwnerInv /\ SilenceInv
    BY DEF SlotsInv
  <1>1. talking' = [talking EXCEPT ![p] = FALSE] /\ UNCHANGED <<port, qport, copy>>
    BY DEF Leave
  <1>2. talking' \in [Peers -> BOOLEAN]
    BY <1>0, <1>1 DEF TypeInv
  <1>3. CASE UNCHANGED slot
    <2>1. Steady /\ Grown
      BY <1>0, <1>1, <1>3, SameSteady, SameGrown
    <2>2. SilenceInv'
      BY <1>0, <1>3 DEF SilenceInv, Connects
    <2> QED BY <1>1, <1>2, <1>3, <2>1, <2>2, QuietKeeps
  <1>4. CASE \E s \in Routed(p) :
               /\ slot[s].state = "CONNECTED"
               /\ slot' = [slot EXCEPT ![s] = Dropped(Heard(slot[s], port[p]))]
    <2>1. PICK s \in Routed(p) : slot' = [slot EXCEPT ![s] = Dropped(Heard(slot[s], port[p]))]
      BY <1>4
    <2>2. s \in Slots /\ Held(s) /\ slot[s].qport = qport[p]
      BY <1>0, RoutedIs
    <2>3. slot \in [Slots -> Clients] /\ port[p] \in Addresses
      BY <1>0, OfPeer DEF TypeInv
    <2> DEFINE h == Heard(slot[s], port[p])
    <2>4. slot'[s] = Dropped(h) /\ \A t \in Slots \ {s} : slot'[t] = slot[t]
      BY <2>1, <2>2, <2>3
    <2>5. /\ h \in Clients /\ h.port = port[p] /\ h.qport = slot[s].qport
          /\ h.owner = slot[s].owner /\ h.latest = slot[s].latest
          /\ h.lastConnect = slot[s].lastConnect
      BY <2>2, <2>3, HeardIs
    <2>6. slot' \in [Slots -> Clients]
      BY <2>1, <2>2, <2>3, <2>5, DroppedIs
    <2> HIDE DEF h
    <2>7. /\ slot'[s].port = port[p] /\ slot'[s].qport = slot[s].qport
          /\ slot'[s].state = "ZOMBIE" /\ slot'[s].owner = slot[s].owner
          /\ slot'[s].latest = slot[s].latest /\ slot'[s].lastConnect = slot[s].lastConnect
          /\ slot'[s].real = Nobody
      BY <2>4, <2>5, DroppedIs
    <2>8. Moved(p, s)
      BY <1>1, <2>4, <2>6, <2>7 DEF Moved
    <2>9. slot'[s].state = "CONNECTED" => slot'[s].lastPacket = 0
      BY <2>7
    <2> QED BY <1>2, <2>2, <2>8, <2>9, MovedKeeps
  <1> QED BY <1>3, <1>4 DEF Leave

-----------------------------------------------------------------------------
(* The peers' programs, and the frames *)

LEMMA RebindKeeps ==
  ASSUME SlotsInv, NEW p \in Peers, Rebind(p)
  PROVE  SlotsInv'
  <1>0. TypeInv /\ OwnerInv /\ SilenceInv
    BY DEF SlotsInv
  <1>1. /\ port' = [port EXCEPT ![p] = [port[p] EXCEPT ![2] = port[p][2] + 1]]
        /\ UNCHANGED <<slot, qport, talking, copy>>
    BY DEF Rebind
  <1>2. /\ port \in [Peers -> Addresses] /\ qport \in [Peers -> Addresses]
        /\ talking \in [Peers -> BOOLEAN]
    BY <1>0 DEF TypeInv
  <1>3. port[p] = <<port[p][1], port[p][2]>> /\ port[p][1] \in Someone /\ port[p][2] \in Nat
    BY <1>2 DEF Addresses
  <1>4. [port[p] EXCEPT ![2] = port[p][2] + 1] = <<port[p][1], port[p][2] + 1>>
    BY <1>3
  <1>5. port'[p] = <<port[p][1], port[p][2] + 1>> /\ \A q \in Peers \ {p} : port'[q] = port[q]
    BY <1>1, <1>2, <1>4
  <1>6. port'[p] \in Addresses /\ port'[p][1] = port[p][1] /\ port'[p][2] = port[p][2] + 1
    BY <1>3, <1>5 DEF Addresses
  <1>7. port' \in [Peers -> Addresses]
    BY <1>1, <1>2, <1>4, <1>5, <1>6
  <1>8. \A q \in Peers : port[q][2] \in Nat /\ qport[q][2] \in Nat
    BY <1>0, OfPeer
  <1>9. Grown
    BY <1>1, <1>2, <1>5, <1>6, <1>7, <1>8 DEF Grown
  <1>10. Steady
    BY <1>0, <1>1, SameSteady
  <1>11. SilenceInv'
    BY <1>0, <1>1 DEF SilenceInv, Connects
  <1> QED BY <1>1, <1>2, <1>9, <1>10, <1>11, QuietKeeps

LEMMA RestartKeeps ==
  ASSUME SlotsInv, NEW p \in Peers, Restart(p)
  PROVE  SlotsInv'
  <1>0. TypeInv /\ OwnerInv /\ SilenceInv
    BY DEF SlotsInv
  <1>1. /\ qport' = [qport EXCEPT ![p] = [qport[p] EXCEPT ![2] = qport[p][2] + 1]]
        /\ talking' = [talking EXCEPT ![p] = FALSE]
        /\ UNCHANGED <<slot, port, copy>>
    BY DEF Restart
  <1>2. /\ port \in [Peers -> Addresses] /\ qport \in [Peers -> Addresses]
        /\ talking' \in [Peers -> BOOLEAN]
    BY <1>0, <1>1 DEF TypeInv
  <1>3. qport[p] = <<qport[p][1], qport[p][2]>> /\ qport[p][1] \in Someone /\ qport[p][2] \in Nat
    BY <1>2 DEF Addresses
  <1>4. [qport[p] EXCEPT ![2] = qport[p][2] + 1] = <<qport[p][1], qport[p][2] + 1>>
    BY <1>3
  <1>5. qport'[p] = <<qport[p][1], qport[p][2] + 1>> /\ \A q \in Peers \ {p} : qport'[q] = qport[q]
    BY <1>1, <1>2, <1>4
  <1>6. qport'[p] \in Addresses /\ qport'[p][1] = qport[p][1] /\ qport'[p][2] = qport[p][2] + 1
    BY <1>3, <1>5 DEF Addresses
  <1>7. qport' \in [Peers -> Addresses]
    BY <1>1, <1>2, <1>4, <1>5, <1>6
  <1>8. \A q \in Peers : port[q][2] \in Nat /\ qport[q][2] \in Nat
    BY <1>0, OfPeer
  <1>9. Grown
    BY <1>1, <1>2, <1>5, <1>6, <1>7, <1>8 DEF Grown
  <1>10. Steady
    BY <1>0, <1>1, SameSteady
  <1>11. SilenceInv'
    BY <1>0, <1>1 DEF SilenceInv, Connects
  <1> QED BY <1>1, <1>2, <1>9, <1>10, <1>11, QuietKeeps

\* An age stays within its bound.
LEMMA AgingIs ==
  ASSUME NEW most \in Nat, NEW age \in 0 .. most, NEW d \in Nat
  PROVE  Aging(age, d, most) \in 0 .. most /\ Aging(age, d, most) <= age + d
  BY DEF Aging

Quieter(c) == c.lastPacket = 0 \/ c.timeoutCount < c.silent

\* Nobody is timed out who was heard in one of the last frames.
LEMMA TimesOutLate ==
  ASSUME NEW c \in Clients, NEW d \in {1, Hitch}, Quieter(c), TimesOut(c, d)
  PROVE  c.silent > Grace /\ c.state = "CONNECTED"
  <1>1. Overdue(c, d) /\ c.timeoutCount + 1 > Grace
    BY DEF TimesOut, NextCount
  <1>2. /\ d \in Nat \ {0} /\ d <= Timeout /\ Timeout \in Nat /\ Grace \in Nat
        /\ c.lastPacket \in Nat /\ c.timeoutCount \in Nat /\ c.silent \in Nat
    BY Numbers DEF Clients
  <1>3. c.lastPacket + d > Timeout /\ c.state = "CONNECTED"
    BY <1>1 DEF Overdue
  <1>4. c.timeoutCount < c.silent
    BY <1>2, <1>3 DEF Quieter
  <1> QED BY <1>1, <1>2, <1>3, <1>4

\* A frame that does not time a client out counts less than it was silent.
LEMMA CountIs ==
  ASSUME NEW c \in Clients, NEW d \in {1, Hitch}, ~TimesOut(c, d), Quieter(c)
  PROVE  /\ NextCount(c, d) \in 0 .. Grace
         /\ c.state = "CONNECTED" => NextCount(c, d) < Aging(c.silent, 1, Grace + 1)
  <1>1. /\ d \in Nat \ {0} /\ d <= Timeout /\ Timeout \in Nat /\ Grace \in Nat
        /\ c.lastPacket \in Nat /\ c.timeoutCount \in 0 .. Grace /\ c.silent \in 0 .. Grace + 1
    BY Numbers DEF Clients
  <1>2. CASE Overdue(c, d)
    <2>1. NextCount(c, d) = c.timeoutCount + 1 /\ NextCount(c, d) <= Grace
      BY <1>1, <1>2 DEF TimesOut, NextCount
    <2>2. c.lastPacket # 0
      BY <1>1, <1>2 DEF Overdue
    <2>3. c.timeoutCount < c.silent
      BY <2>2 DEF Quieter
    <2> QED BY <1>1, <2>1, <2>3 DEF Aging
  <1>3. CASE ~Overdue(c, d)
    <2>1. NextCount(c, d) = 0
      BY <1>3 DEF NextCount
    <2> QED BY <1>1, <2>1 DEF Aging
  <1> QED BY <1>2, <1>3

\* What a frame makes of a slot.
LEMMA AgedIs ==
  ASSUME NEW c \in Clients, NEW d \in {1, Hitch}, c.state = "CONNECTED" => Quieter(c),
         c.state # "CONNECTED" => c.real = Nobody
  PROVE  /\ Aged(c, d) \in Clients
         /\ Aged(c, d).port = c.port /\ Aged(c, d).qport = c.qport
         /\ Aged(c, d).state # "FREE" => Aged(c, d).state = c.state /\ Aged(c, d).owner = c.owner
         /\ Aged(c, d).latest => c.latest
         /\ Aged(c, d).latest /\ c.state # "FREE" => Aged(c, d).state # "FREE"
         /\ Aged(c, d).state = "CONNECTED" => Aged(c, d).real = c.real
         /\ Aged(c, d).state # "CONNECTED" => Aged(c, d).real = Nobody
         /\ Aged(c, d).lastConnect <= c.lastConnect + d
         /\ Aged(c, d).state = "CONNECTED" => Quieter(Aged(c, d))
  <1>1. /\ d \in Nat \ {0} /\ ReconnectLimit \in Nat /\ OldPacket \in Nat /\ Grace \in Nat
        /\ c.lastConnect \in 0 .. ReconnectLimit /\ c.lastPacket \in 0 .. OldPacket
        /\ c.silent \in 0 .. Grace + 1
    BY Numbers DEF Clients
  <1>2. /\ Aging(c.lastConnect, d, ReconnectLimit) \in 0 .. ReconnectLimit
        /\ Aging(c.lastConnect, d, ReconnectLimit) <= c.lastConnect + d
        /\ Aging(c.lastPacket, d, OldPacket) \in 0 .. OldPacket
        /\ Aging(c.silent, 1, Grace + 1) \in 0 .. Grace + 1
    <2>1. 1 \in Nat /\ Grace + 1 \in Nat /\ d \in Nat
      BY <1>1
    <2>2. Aging(c.silent, 1, Grace + 1) \in 0 .. Grace + 1
      BY <1>1, <2>1, AgingIs
    <2> QED BY <1>1, <2>1, <2>2, AgingIs
  <1>3. CASE TimesOut(c, d) \/ Expires(c, d)
    <2> DEFINE real == IF TimesOut(c, d) THEN Dropped(c).real ELSE c.real
    <2>1. real = Nobody
      <3>1. Dropped(c).real = Nobody
        BY DroppedIs
      <3>2. ~TimesOut(c, d) => c.state = "ZOMBIE"
        BY <1>3 DEF Expires
      <3> QED BY <3>1, <3>2
    <2>2. Aged(c, d) = [NoClient EXCEPT !.port = c.port, !.qport = c.qport,
                          !.lastConnect = Aging(c.lastConnect, d, ReconnectLimit),
                          !.real = real]
      BY <1>3 DEF Aged
    <2> HIDE DEF real
    <2>3. 0 \in 0 .. OldPacket /\ 0 \in 0 .. Grace /\ 0 \in 0 .. Grace + 1
      BY <1>1
    <2>4. /\ Aged(c, d).port = c.port /\ Aged(c, d).qport = c.qport
          /\ Aged(c, d).state = "FREE" /\ ~Aged(c, d).latest /\ Aged(c, d).real = Nobody
          /\ Aged(c, d).lastConnect = Aging(c.lastConnect, d, ReconnectLimit)
      BY <2>1, <2>2 DEF NoClient
    <2>5. Aged(c, d) \in Clients
      BY <1>2, <2>1, <2>2, <2>3, ZenonT(40) DEF NoClient, Clients, States, Someone, Nobody
    <2> QED BY <1>2, <2>4, <2>5
  <1>4. CASE ~(TimesOut(c, d) \/ Expires(c, d))
    <2> DEFINE packet == IF c.state = "FREE" THEN 0 ELSE Aging(c.lastPacket, d, OldPacket)
               count == NextCount(c, d)
               silent == IF c.state = "CONNECTED" THEN Aging(c.silent, 1, Grace + 1) ELSE 0
    <2>1. Aged(c, d) = [c EXCEPT !.lastPacket = packet,
                          !.lastConnect = Aging(c.lastConnect, d, ReconnectLimit),
                          !.timeoutCount = count, !.silent = silent]
      BY <1>4 DEF Aged
    <2>2. packet \in 0 .. OldPacket /\ silent \in 0 .. Grace + 1
      BY <1>1, <1>2
    <2>3. count \in 0 .. Grace /\ (c.state = "CONNECTED" => count < silent)
      <3>1. CASE c.state = "CONNECTED"
        BY <1>4, <3>1, CountIs
      <3>2. CASE c.state # "CONNECTED"
        <4>1. count = 0
          BY <3>2 DEF NextCount, Overdue
        <4> QED BY <1>1, <3>2, <4>1
      <3> QED BY <3>1, <3>2
    <2> HIDE DEF packet, count, silent
    <2>4. /\ Aged(c, d).port = c.port /\ Aged(c, d).qport = c.qport
          /\ Aged(c, d).state = c.state /\ Aged(c, d).latest = c.latest
          /\ Aged(c, d).real = c.real /\ Aged(c, d).owner = c.owner
          /\ Aged(c, d).lastConnect = Aging(c.lastConnect, d, ReconnectLimit)
          /\ Aged(c, d).timeoutCount = count /\ Aged(c, d).silent = silent
      BY <2>1 DEF Clients
    <2>5. Aged(c, d) \in Clients
      BY <1>2, <2>1, <2>2, <2>3 DEF Clients
    <2> QED BY <1>2, <2>3, <2>4, <2>5 DEF Quieter
  <1> QED BY <1>3, <1>4

LEMMA FrameKeeps ==
  ASSUME SlotsInv, Frame
  PROVE  SlotsInv'
  <1>0. TypeInv /\ OwnerInv /\ Apart /\ Ordered /\ CopyInv /\ SilenceInv
    BY DEF SlotsInv
  <1>1. PICK d \in {1, Hitch} :
          /\ slot' = [s \in Slots |-> Aged(slot[s], d)]
          /\ copy' = [p \in Peers |-> IF copy[p] = NoCopy \/ copy[p].age + d >= ReconnectLimit
                                      THEN NoCopy ELSE [copy[p] EXCEPT !.age = @ + d]]
    BY DEF Frame
  <1>2. UNCHANGED <<port, qport, talking>>
    BY DEF Frame
  <1>3. d \in Nat /\ ReconnectLimit \in Nat
    BY Numbers
  <1>4. ASSUME NEW s \in Slots
        PROVE  /\ slot'[s] \in Clients
               /\ slot'[s].port = slot[s].port /\ slot'[s].qport = slot[s].qport
               /\ slot'[s].state # "FREE" => /\ slot'[s].state = slot[s].state
                                             /\ slot'[s].owner = slot[s].owner
               /\ slot'[s].latest => slot[s].latest /\ slot'[s].state # "FREE"
               /\ slot'[s].state = "CONNECTED" => slot'[s].real = slot'[s].owner
               /\ slot'[s].state # "CONNECTED" => slot'[s].real = Nobody
               /\ slot'[s].lastConnect <= slot[s].lastConnect + d
               /\ slot'[s].state = "CONNECTED" => Quieter(slot'[s])
    <2>1. slot[s] \in Clients /\ slot'[s] = Aged(slot[s], d)
      BY <1>0, <1>1, OfSlot
    <2>2. slot[s].state = "CONNECTED" => Quieter(slot[s])
      BY <1>0 DEF SilenceInv, Quieter, Connects
    <2>3. /\ slot[s].state # "CONNECTED" => slot[s].real = Nobody
          /\ slot[s].state = "CONNECTED" => slot[s].real = slot[s].owner
          /\ slot[s].latest => slot[s].state # "FREE"
      BY <1>0 DEF OwnerInv, Held
    <2> QED BY <2>1, <2>2, <2>3, AgedIs
  <1>5. slot' \in [Slots -> Clients]
    BY <1>1, <1>4
  <1>6. Steady
    <2> SUFFICES ASSUME NEW s \in Slots
                 PROVE  /\ slot'[s].port = slot[s].port /\ slot'[s].qport = slot[s].qport
                        /\ slot'[s].state # "FREE" => /\ slot[s].state # "FREE"
                                                      /\ slot'[s].owner = slot[s].owner
                        /\ slot'[s].latest => slot[s].latest /\ slot'[s].state # "FREE"
                        /\ slot'[s].state = "CONNECTED" => slot'[s].real = slot'[s].owner
                        /\ slot'[s].state # "CONNECTED" => slot'[s].real = Nobody
      BY <1>5 DEF Steady
    <2> QED BY <1>4
  <1>7. Grown
    BY <1>0, <1>2, SameGrown
  <1>8. OwnerInv' /\ Apart' /\ Ordered'
    BY <1>0, <1>6, <1>7, SteadyKeeps
  <1>9. ASSUME NEW p \in Peers
        PROVE  copy'[p] \in Copies /\ (Alive(p)' => Copied(p)')
    <2>1. copy[p] \in Copies /\ copy[p].age \in Nat
      BY <1>0, OfPeer, OfCopy
    <2>2. CASE copy[p] = NoCopy \/ copy[p].age + d >= ReconnectLimit
      <3>1. copy'[p] = NoCopy
        BY <1>1, <2>2
      <3>2. NoCopy \in Copies
        BY DEF NoCopy, Copies, NoPort, Addresses, Someone, Nobody
      <3> QED BY <3>1, <3>2 DEF Alive
    <2>3. CASE ~(copy[p] = NoCopy \/ copy[p].age + d >= ReconnectLimit)
      <3>1. copy'[p] = [copy[p] EXCEPT !.age = copy[p].age + d]
        BY <1>1, <2>3
      <3>2. /\ copy'[p].port = copy[p].port /\ copy'[p].qport = copy[p].qport
            /\ copy'[p].age = copy[p].age + d /\ copy'[p] \in Copies
        BY <1>3, <2>1, <3>1 DEF Copies
      <3>3. Copied(p)
        BY <1>0, <2>3 DEF CopyInv, Alive
      <3>4. copy'[p].age < ReconnectLimit
        BY <1>3, <2>1, <2>3, <3>2
      <3>5. ASSUME NEW s \in Slots, slot[s].lastConnect <= copy[p].age
            PROVE  slot'[s].lastConnect <= copy'[p].age
        <4>1. slot'[s].lastConnect <= slot[s].lastConnect + d
          BY <1>4
        <4>2. slot[s].lastConnect \in Nat
          BY <1>0, OfSlot
        <4>3. slot'[s].lastConnect \in Nat
          BY <1>4, Numbers DEF Clients
        <4> QED BY <1>3, <2>1, <3>2, <3>5, <4>1, <4>2, <4>3
      <3>6. Copied(p)'
        BY <1>0, <1>6, <1>7, <3>2, <3>3, <3>4, <3>5, SteadyCopy
      <3> QED BY <3>2, <3>6
    <2> QED BY <2>2, <2>3
  <1>10. copy' \in [Peers -> Copies]
    <2>1. \A p \in Peers : copy'[p] \in Copies
      BY <1>9
    <2>2. copy' = [p \in Peers |-> copy'[p]]
      BY <1>1
    <2> QED BY <2>1, <2>2
  <1>11. TypeInv'
    BY <1>0, <1>2, <1>5, <1>10 DEF TypeInv
  <1>12. SilenceInv'
    BY <1>4 DEF SilenceInv, Quieter, Connects
  <1> QED BY <1>8, <1>9, <1>11, <1>12 DEF SlotsInv, CopyInv

-----------------------------------------------------------------------------
(* The theorems *)

\* At first all slots are free.
LEMMA InitHolds ==
  ASSUME Init
  PROVE  SlotsInv
  <1>1. /\ slot = [s \in Slots |-> NoClient]
        /\ port = [p \in Peers |-> <<p, 1>>] /\ qport = [p \in Peers |-> <<p, 0>>]
        /\ talking = [p \in Peers |-> FALSE] /\ copy = [p \in Peers |-> NoCopy]
    BY DEF Init
  <1>2. NoPort \in Addresses
    BY DEF NoPort, Addresses, Someone
  <1>3. 0 \in 0 .. OldPacket /\ ReconnectLimit \in 0 .. ReconnectLimit /\ 0 \in 0 .. Grace
        /\ 0 \in 0 .. Grace + 1
    BY Numbers
  <1>4. NoClient \in Clients
    BY <1>2, <1>3 DEF NoClient, Clients, States, Someone
  <1>5. NoCopy \in Copies
    BY <1>2 DEF NoCopy, Copies
  <1>6. \A p \in Peers : <<p, 1>> \in Addresses /\ <<p, 0>> \in Addresses
    BY DEF Addresses, Someone
  <1>7. TypeInv
    BY <1>1, <1>4, <1>5, <1>6 DEF TypeInv
  <1>8. \A s \in Slots : slot[s] = NoClient
    BY <1>1
  <1>9. /\ NoClient.state = "FREE" /\ ~NoClient.latest /\ NoClient.real = Nobody
        /\ NoClient.port = NoPort /\ NoClient.qport = NoPort /\ NoClient.lastPacket = 0
    BY DEF NoClient
  <1>10. NoPort[1] = Nobody /\ NoPort[2] = 0
    BY DEF NoPort
  <1>11. \A s \in Slots : ~Held(s) /\ Peer(s) = Nobody /\ PortOf(s) = 0 /\ QportOf(s) = 0
    BY <1>8, <1>9, <1>10 DEF Held, Peer, PortOf, QportOf
  <1>12. Nobody \notin Peers
    BY Numbers
  <1>13. \A p \in Peers : port[p][1] = p /\ qport[p][1] = p
    BY <1>1
  <1>14. OwnerInv
    BY <1>8, <1>9, <1>10, <1>11, <1>12, <1>13 DEF OwnerInv
  <1>15. Apart /\ Ordered
    BY <1>11 DEF Apart, Ordered
  <1>16. CopyInv
    BY <1>1 DEF CopyInv, Alive
  <1>17. SilenceInv
    BY <1>8, <1>9 DEF SilenceInv
  <1> QED BY <1>7, <1>14, <1>15, <1>16, <1>17 DEF SlotsInv

\* Every step keeps the invariant.
LEMMA NextKeeps ==
  ASSUME SlotsInv, [Next]_vars
  PROVE  SlotsInv'
  <1>1. CASE UNCHANGED vars
    <2>1. UNCHANGED <<slot, port, qport, talking, copy>>
      BY <1>1 DEF vars
    <2>2. TypeInv /\ OwnerInv /\ SilenceInv
      BY DEF SlotsInv
    <2>3. Steady /\ Grown
      BY <2>1, <2>2, SameSteady, SameGrown
    <2>4. talking' \in [Peers -> BOOLEAN] /\ SilenceInv'
      BY <2>1, <2>2 DEF TypeInv, SilenceInv, Connects
    <2> QED BY <2>1, <2>3, <2>4, QuietKeeps
  <1>2. ASSUME NEW p \in Peers, Connect(p) PROVE SlotsInv'
    BY <1>2, ConnectKeeps
  <1>3. ASSUME NEW p \in Peers, LateConnect(p) PROVE SlotsInv'
    BY <1>3, LateConnectKeeps
  <1>4. ASSUME NEW p \in Peers, PacketEvent(p) PROVE SlotsInv'
    BY <1>4, PacketEventKeeps
  <1>5. ASSUME NEW p \in Peers, Told(p) PROVE SlotsInv'
    BY <1>5, ToldKeeps
  <1>6. ASSUME NEW p \in Peers, Leave(p) PROVE SlotsInv'
    BY <1>6, LeaveKeeps
  <1>7. ASSUME NEW p \in Peers, Rebind(p) PROVE SlotsInv'
    BY <1>7, RebindKeeps
  <1>8. ASSUME NEW p \in Peers, Restart(p) PROVE SlotsInv'
    BY <1>8, RestartKeeps
  <1>9. ASSUME NEW s \in Slots, Kick(s) PROVE SlotsInv'
    BY <1>9, KickKeeps
  <1>10. CASE Frame
    BY <1>10, FrameKeeps
  <1> QED BY <1>1, <1>2, <1>3, <1>4, <1>5, <1>6, <1>7, <1>8, <1>9, <1>10 DEF Next

\* The inductive invariant of the slots.
THEOREM SlotsInvariant == Spec => []SlotsInv
  <1>1. Init => SlotsInv
    BY InitHolds
  <1>2. SlotsInv /\ [Next]_vars => SlotsInv'
    BY NextKeeps
  <1> QED BY <1>1, <1>2, PTL DEF Spec

\* The slot of the last session is the first with its qport.
LEMMA SessionIsFirst ==
  ASSUME SlotsInv
  PROVE  RoutedToSession
  <1>0. TypeInv /\ OwnerInv /\ Apart
    BY DEF SlotsInv
  <1> SUFFICES ASSUME NEW s \in Slots, slot[s].latest, slot[s].qport = qport[slot[s].owner]
               PROVE  Routed(slot[s].owner) = {s}
    BY DEF RoutedToSession
  <1> DEFINE found == {t \in Slots : slot[t].state # "FREE"
                                     /\ slot[t].qport = qport[slot[s].owner]}
  <1>1. Held(s) /\ Peer(s) \in Peers
    BY <1>0 DEF OwnerInv
  <1>2. s \in found /\ found \subseteq Nat
    BY <1>1, Numbers DEF Held
  <1>3. ASSUME NEW t \in found
        PROVE  s <= t
    <2>1. t \in Slots /\ slot[t].qport = slot[s].qport
      OBVIOUS
    <2>2. Peer(t) = Peer(s) /\ QportOf(t) = QportOf(s)
      BY <1>0, <2>1 DEF OwnerInv, QportOf
    <2>3. ~(t < s)
      BY <1>0, <1>1, <2>1, <2>2 DEF Apart
    <2> QED BY <1>2, <2>3
  <1>4. Min(found) = s
    BY <1>2, <1>3, LeastIs
  <1> QED BY <1>2, <1>4 DEF Routed

\* A peer's packets reach the slot of its last session, for any number of peers and
\* slots, and whatever translated ports, restarts, late copies and drops came before.
THEOREM SessionsAreReached == Spec => []RoutedToSession
  <1>1. SlotsInv => RoutedToSession
    BY SessionIsFirst
  <1> QED BY <1>1, SlotsInvariant, PTL

\* The invariant contains the types and the real addresses.
LEMMA SoundFollows ==
  ASSUME SlotsInv
  PROVE  SlotSound
  <1>0. TypeInv /\ OwnerInv
    BY DEF SlotsInv
  <1>1. \A s \in Slots :
          /\ slot[s].state \in {"FREE", "ZOMBIE", "CONNECTED"}
          /\ slot[s].owner \in Peers \cup {Nobody} /\ slot[s].real \in Peers \cup {Nobody}
          /\ slot[s].lastPacket \in 0 .. OldPacket
          /\ slot[s].lastConnect \in 0 .. ReconnectLimit
          /\ slot[s].timeoutCount \in 0 .. Grace /\ slot[s].silent \in 0 .. Grace + 1
    BY <1>0, OfSlot DEF Clients, States, Someone
  <1>2. talking \in [Peers -> BOOLEAN]
    BY <1>0 DEF TypeInv
  <1>3. TypeOK
    BY <1>1, <1>2 DEF TypeOK
  <1>4. OwnAddress
    BY <1>0 DEF OwnerInv, OwnAddress
  <1> QED BY <1>3, <1>4 DEF SlotSound

\* A session has the real address of the peer that connected, whoever had the slot.
THEOREM AddressesAreOwn == Spec => []SlotSound
  <1>1. SlotsInv => SlotSound
    BY SoundFollows
  <1> QED BY <1>1, SlotsInvariant, PTL

\* A copy whose slot is still its own finds that slot first, and comes too soon for it.
LEMMA LateIsTooSoon ==
  ASSUME SlotsInv, NEW p \in Peers, Alive(p), NEW s \in Slots, slot[s].latest,
         slot[s].owner = p
  PROVE  TooSoon(copy[p])
  <1> DEFINE c == copy[p]
             found == {t \in Slots : slot[t].port # NoPort /\ Matches(t, c)}
  <1>0. TypeInv /\ OwnerInv /\ Apart /\ Copied(p) /\ c \in Copies
    BY OfPeer DEF SlotsInv, CopyInv
  <1>1. Held(s) /\ Peer(s) = p
    BY <1>0 DEF OwnerInv
  <1>2. /\ c.port[1] = p /\ c.qport[1] = p /\ c.age < ReconnectLimit
        /\ QportOf(s) = c.qport[2] /\ slot[s].lastConnect <= c.age
        /\ \A t \in Slots : t < s /\ Peer(t) = p => PortOf(t) # c.port[2]
    BY <1>0, <1>1 DEF Copied
  <1>3. Matches(s, c)
    BY <1>0, <1>1, <1>2, MatchMeans
  <1>4. slot[s].port # NoPort
    BY <1>1, Numbers DEF Peer, NoPort
  <1>5. s \in found /\ found \subseteq Nat
    BY <1>3, <1>4, Numbers
  <1>6. ASSUME NEW t \in found
        PROVE  s <= t
    <2>1. t \in Slots /\ Matches(t, c)
      OBVIOUS
    <2>2. Peer(t) = p /\ (QportOf(t) = c.qport[2] \/ PortOf(t) = c.port[2])
      BY <1>0, <1>2, <2>1, MatchMeans
    <2>3. ~(t < s)
      <3>1. SUFFICES ASSUME t < s PROVE FALSE
        OBVIOUS
      <3>2. PortOf(t) # c.port[2]
        BY <1>2, <2>1, <2>2, <3>1
      <3>3. QportOf(t) # QportOf(s)
        BY <1>0, <1>1, <2>1, <2>2, <3>1 DEF Apart
      <3> QED BY <1>2, <2>2, <3>2, <3>3
    <2> QED BY <1>5, <2>3
  <1>7. Min(found) = s
    BY <1>5, <1>6, LeastIs
  <1>8. slot[s].lastConnect < ReconnectLimit
    <2>1. slot[s].lastConnect \in Nat /\ c.age \in Nat /\ ReconnectLimit \in Nat
      BY <1>0, OfSlot, OfCopy, Numbers
    <2> QED BY <1>2, <2>1
  <1> QED BY <1>5, <1>7, <1>8 DEF TooSoon

\* As long as the slot of a peer's last connect is its own, no late copy of this
\* connect changes any slot.
THEOREM CopiesAreRefused == Spec => NoReplay
  <1>1. ASSUME SlotsInv, NEW p \in Peers, LateConnect(p),
               \E s \in Slots : slot[s].latest /\ slot[s].owner = p
        PROVE  UNCHANGED slot
    <2>1. Alive(p)
      BY <1>1 DEF LateConnect, Alive
    <2>2. TooSoon(copy[p])
      BY <1>1, <2>1, LateIsTooSoon
    <2> QED BY <1>1, <2>2 DEF LateConnect
  <1>2. SlotsInv /\ [Next]_vars =>
          [\A p \in Peers :
             (LateConnect(p) /\ \E s \in Slots : slot[s].latest /\ slot[s].owner = p)
             => UNCHANGED slot]_vars
    BY <1>1
  <1> QED BY <1>2, SlotsInvariant, PTL DEF Spec, NoReplay

\* Whoever is timed out was silent for more frames than the grace, however long a
\* frame takes.
THEOREM NobodyDroppedInHaste == Spec => NoHastyTimeout
  <1>1. ASSUME SlotsInv, NEW s \in Slots, Connects(s), slot'[s].state = "FREE", Frame
        PROVE  slot[s].silent > Grace
    <2>1. PICK d \in {1, Hitch} : slot' = [t \in Slots |-> Aged(slot[t], d)]
      BY <1>1 DEF Frame
    <2>2. slot'[s] = Aged(slot[s], d) /\ slot[s] \in Clients
      BY <1>1, <2>1, OfSlot DEF SlotsInv
    <2>3. slot[s].state = "CONNECTED"
      BY <1>1 DEF Connects
    <2>4. Quieter(slot[s])
      BY <1>1 DEF SlotsInv, SilenceInv, Quieter
    <2>5. TimesOut(slot[s], d)
      <3>1. SUFFICES ASSUME ~TimesOut(slot[s], d) PROVE FALSE
        OBVIOUS
      <3>2. ~Expires(slot[s], d)
        BY <2>3 DEF Expires
      <3>3. Aged(slot[s], d).state = slot[s].state
        BY <2>2, <3>1, <3>2 DEF Aged, Clients
      <3> QED BY <1>1, <2>2, <2>3, <3>3
    <2> QED BY <2>2, <2>4, <2>5, TimesOutLate
  <1>2. SlotsInv /\ [Next]_vars =>
          [\A s \in Slots : (Connects(s) /\ slot'[s].state = "FREE" /\ Frame)
                            => slot[s].silent > Grace]_vars
    BY <1>1
  <1> QED BY <1>2, SlotsInvariant, PTL DEF Spec, NoHastyTimeout
================================================================================

------------------------ MODULE GwSocketServerProofs ------------------------
(***************************************************************************)
(* Proofs about GwSocketServer, for every number of slots, peers and       *)
(* messages and all buffer sizes, whatever the peers do: the sockets the   *)
(* server has open are those in its slots, each in one slot; the state has *)
(* its type; and what a slot hands out is its present client's.            *)
(***************************************************************************)
EXTENDS GwSocketServer, GwSocketConnectionProofs, FiniteSetTheorems

(* A connection with a socket of a peer, or none. *)
OfPeer(c) == "fd" \in DOMAIN c /\ c.fd \in Peer \cup {NoClient}

SlotsInv ==
  /\ DOMAIN clients = Slot /\ DOMAIN link = Peer
  /\ \A i \in Slot : OfPeer(clients[i])
  /\ \A i, j \in Slot : hasClient(clients[i]) /\ clients[i].fd = clients[j].fd => i = j
  /\ Held(clients) = Open

-----------------------------------------------------------------------------
(* The operations on a connection keep its socket or let it go. *)
Keeps(c, d) == "fd" \in DOMAIN d /\ d.fd = c.fd
KeepsOrStops(c, d) == "fd" \in DOMAIN d /\ d.fd \in {c.fd, NoClient}

LEMMA StopStops == ASSUME NEW c, OfPeer(c) PROVE KeepsOrStops(c, stop(c))
BY DEF OfPeer, KeepsOrStops, stop

LEMMA EnqueueKeeps == ASSUME NEW c, OfPeer(c), NEW m PROVE Keeps(c, enqueue(c, m))
BY DEF OfPeer, Keeps, enqueue

LEMMA WithoutFirstKeeps == ASSUME NEW c, OfPeer(c) PROVE Keeps(c, withoutFirst(c))
BY DEF OfPeer, Keeps, withoutFirst

LEMMA AgedKeeps == ASSUME NEW c, OfPeer(c) PROVE Keeps(c, aged(c))
BY DEF OfPeer, Keeps, aged

LEMMA ReadKeeps ==
  ASSUME NEW c, OfPeer(c), NEW res, NEW data
  PROVE  KeepsOrStops(c, read(c, res, data))
BY StopStops DEF OfPeer, KeepsOrStops, read

LEMMA WriteKeeps ==
  ASSUME NEW c, OfPeer(c), NEW n \in Int, NEW res \in {Again, Failed} \cup (Nat \ {0})
  PROVE  KeepsOrStops(c, writeOrClose(c, n, res))
<1>1. KeepsOrStops(c, SendResult(c, n, res))
  BY StopStops DEF OfPeer, KeepsOrStops, SendResult, Again, Failed
<1> DEFINE w == SendResult(c, n, res)
<1>2. KeepsOrStops(c, stop(w))
  BY <1>1 DEF KeepsOrStops, stop
<1>3. KeepsOrStops(c, [c EXCEPT !.pendingWrite = FALSE])
  BY DEF OfPeer, KeepsOrStops
<1> QED
  BY <1>1, <1>2, <1>3 DEF writeOrClose

-----------------------------------------------------------------------------
(* A pass over the slots closes what the slots have let go of. *)
LEMMA PassKeepsInv ==
  ASSUME SlotsInv, DOMAIN clients' = Slot, link' = LinksAfter(clients'),
         \A i \in Slot : KeepsOrStops(clients[i], clients'[i])
  PROVE  SlotsInv'
<1>1. \A i \in Slot : OfPeer(clients[i])'
  BY DEF SlotsInv, OfPeer, KeepsOrStops
<1>2. \A i \in Slot : hasClient(clients[i])' => clients'[i].fd = clients[i].fd /\ hasClient(clients[i])
  BY DEF KeepsOrStops, hasClient
<1>3. \A i, j \in Slot : hasClient(clients[i])' /\ clients'[i].fd = clients'[j].fd => i = j
  <2> SUFFICES ASSUME NEW i \in Slot, NEW j \in Slot, hasClient(clients[i])', clients'[i].fd = clients'[j].fd
               PROVE  i = j
    OBVIOUS
  <2>1. hasClient(clients[j])'
    BY DEF hasClient
  <2> QED
    BY <2>1, <1>2 DEF SlotsInv
<1>4. Held(clients') \subseteq Held(clients)
  BY DEF Held, KeepsOrStops
<1>5. \A p \in Peer : link'[p] = IF p \in Held(clients) \ Held(clients') THEN "closed" ELSE link[p]
  BY DEF LinksAfter
<1>6. Open' = Open \ (Held(clients) \ Held(clients'))
  BY <1>5 DEF Open
<1>7. Held(clients') = Open'
  BY <1>4, <1>6 DEF SlotsInv
<1>8. DOMAIN link' = Peer
  BY DEF LinksAfter
<1> QED
  BY <1>1, <1>3, <1>7, <1>8 DEF SlotsInv, Held

(* A step that moves no socket. *)
LEMMA StillKeepsInv ==
  ASSUME SlotsInv, DOMAIN clients' = Slot, DOMAIN link' = Peer, Open' = Open,
         \A i \in Slot : Keeps(clients[i], clients'[i])
  PROVE  SlotsInv'
<1>1. \A i \in Slot : OfPeer(clients[i])' /\ clients'[i].fd = clients[i].fd
  BY DEF SlotsInv, OfPeer, Keeps
<1>2. Held(clients') = Held(clients)
  BY <1>1 DEF Held
<1>3. \A i, j \in Slot : hasClient(clients[i])' /\ clients'[i].fd = clients'[j].fd => i = j
  BY <1>1 DEF SlotsInv, hasClient
<1> QED
  BY <1>1, <1>2, <1>3 DEF SlotsInv, Held

(* If a slot is free there is a first one. *)
LEMMA FirstFreeSlot ==
  ASSUME NEW i \in Slot, ~hasClient(clients[i])
  PROVE  \E k \in Slot : ~hasClient(clients[k]) /\ \A j \in Slot : j < k => hasClient(clients[j])
<1> DEFINE T == {k \in Slot : ~hasClient(clients[k])}
           R == {ss \in Nat \X Nat : ss[1] < ss[2]}
<1>1. IsWellFoundedOn(R, Nat)
  BY NatLessThanWellFounded DEF OpToRel
<1>2. T \subseteq Nat /\ T # {}
  BY ServerAssumption DEF Slot
<1>3. \A m, n \in Nat : m < n => <<m, n>> \in R
  OBVIOUS
<1> HIDE DEF R
<1>4. PICK k \in T : \A j \in T : <<j, k>> \notin R
  BY <1>1, <1>2, WFMin
<1>5. \A j \in Slot : j < k => hasClient(clients[j])
  BY <1>2, <1>3, <1>4, ServerAssumption DEF Slot
<1> QED
  BY <1>4, <1>5

(* A new socket takes a free slot, or is closed. *)
LEMMA AcceptKeepsInv ==
  ASSUME SlotsInv, NEW p \in Peer, link[p] = "backlog", AcceptInto(p)
  PROVE  SlotsInv'
<1>1. p \notin Open /\ p # NoClient
  BY ServerAssumption DEF Open
<1>2. CASE \E i \in Slot : ~hasClient(clients[i])
  <2> DEFINE i == CHOOSE i \in Slot :
                    ~hasClient(clients[i]) /\ \A j \in Slot : j < i => hasClient(clients[j])
  <2>1. clients' = [clients EXCEPT ![i] = setClient(p)] /\ link' = [link EXCEPT ![p] = "up"]
    BY <1>2 DEF AcceptInto
  <2>3. i \in Slot /\ ~hasClient(clients[i])
    BY <1>2, FirstFreeSlot
  <2> HIDE DEF i
  <2>2. CASE i \in Slot /\ ~hasClient(clients[i])
    <3>1. /\ DOMAIN clients' = Slot /\ DOMAIN link' = Peer
          /\ clients'[i] = setClient(p) /\ \A j \in Slot \ {i} : clients'[j] = clients[j]
      BY <2>1, <2>2 DEF SlotsInv
    <3>2. setClient(p).fd = p /\ OfPeer(setClient(p))
      BY DEF setClient, OfPeer
    <3>3. \A j \in Slot : OfPeer(clients[j])'
      BY <3>1, <3>2 DEF SlotsInv, OfPeer
    <3>4. \A j \in Slot : clients[j].fd # p
      BY <1>1 DEF SlotsInv, Held
    <3>5. \A j, k \in Slot : hasClient(clients[j])' /\ clients'[j].fd = clients'[k].fd => j = k
      BY <3>1, <3>2, <3>4 DEF SlotsInv, hasClient
    <3>6. Held(clients') = Held(clients) \cup {p}
      BY <3>1, <3>2, <1>1, <2>2 DEF Held, hasClient
    <3>7. Open' = Open \cup {p}
      BY <2>1 DEF Open, SlotsInv
    <3> QED
      BY <3>1, <3>3, <3>5, <3>6, <3>7 DEF SlotsInv, Held
  <2> QED
    BY <2>2, <2>3
<1>3. CASE ~\E i \in Slot : ~hasClient(clients[i])
  <2>1. link' = [link EXCEPT ![p] = "closed"] /\ UNCHANGED clients
    BY <1>3 DEF AcceptInto
  <2>2. DOMAIN link' = Peer /\ Open' = Open
    BY <1>1, <2>1 DEF SlotsInv, Open
  <2>3. \A i \in Slot : Keeps(clients[i], clients'[i])
    BY <2>1 DEF SlotsInv, OfPeer, Keeps
  <2> QED
    BY <2>1, <2>2, <2>3, StillKeepsInv DEF SlotsInv
<1> QED
  BY <1>2, <1>3

LEMMA AcceptStep ==
  ASSUME SlotsInv, Accept("acceptRead", "read") \/ Accept("acceptWrite", "write")
  PROVE  SlotsInv'
<1>1. \/ UNCHANGED <<clients, link>>
      \/ \E p \in Peer : /\ link[p] = "backlog"
                         /\ \/ link' = [link EXCEPT ![p] = "closed"] /\ UNCHANGED clients
                            \/ AcceptInto(p)
  BY DEF Accept
<1>2. \A i \in Slot : Keeps(clients[i], clients[i])
  BY DEF SlotsInv, OfPeer, Keeps
<1>3. CASE UNCHANGED <<clients, link>>
  BY <1>2, <1>3, StillKeepsInv DEF SlotsInv, Open
<1>4. ASSUME NEW p \in Peer, link[p] = "backlog", link' = [link EXCEPT ![p] = "closed"], UNCHANGED clients
      PROVE  SlotsInv'
  <2>1. DOMAIN link' = Peer /\ Open' = Open
    BY <1>4 DEF SlotsInv, Open
  <2> QED
    BY <2>1, <1>2, <1>4, StillKeepsInv DEF SlotsInv
<1> QED
  BY <1>1, <1>3, <1>4, AcceptKeepsInv

LEMMA PeersStep ==
  ASSUME SlotsInv, PeerStep
  PROVE  SlotsInv'
<1>1. UNCHANGED clients /\ DOMAIN link' = Peer /\ Open' = Open
  BY DEF PeerStep, Connect, PeerSends, PeerReads, PeerEnds, SlotsInv, Open
<1>2. \A i \in Slot : Keeps(clients[i], clients'[i])
  BY <1>1 DEF SlotsInv, OfPeer, Keeps
<1> QED
  BY <1>1, <1>2, StillKeepsInv DEF SlotsInv

-----------------------------------------------------------------------------
(* The passes of the main loop. *)
LEMMA ReadStep ==
  ASSUME SlotsInv, ReadAll
  PROVE  SlotsInv'
<1>1. PICK most \in [Slot -> 1 .. RxSize], stale \in Stale :
        clients' = [i \in Slot |-> ReadOne(i, most[i], stale)]
  BY DEF ReadAll
<1>2. \A i \in Slot : KeepsOrStops(clients[i], ReadOne(i, most[i], stale))
  <2> SUFFICES ASSUME NEW i \in Slot
               PROVE  KeepsOrStops(clients[i], ReadOne(i, most[i], stale))
    OBVIOUS
  <2>1. OfPeer(clients[i])
    BY DEF SlotsInv
  <2>2. KeepsOrStops(clients[i], clients[i])
    BY <2>1 DEF OfPeer, KeepsOrStops
  <2> QED
    BY <2>1, <2>2, StopStops, ReadKeeps DEF ReadOne
<1> QED
  BY <1>1, <1>2, PassKeepsInv DEF ReadAll

LEMMA WriteStep ==
  ASSUME SlotsInv, room \in [Peer -> Nat], WriteAll
  PROVE  SlotsInv'
<1>1. PICK part \in [Slot -> 1 .. TxSize] : clients' = [i \in Slot |-> WriteOne(i, part[i])]
  BY DEF WriteAll
<1>2. \A i \in Slot : KeepsOrStops(clients[i], WriteOne(i, part[i]))
  <2> SUFFICES ASSUME NEW i \in Slot
               PROVE  KeepsOrStops(clients[i], WriteOne(i, part[i]))
    OBVIOUS
  <2>1. OfPeer(clients[i]) /\ KeepsOrStops(clients[i], clients[i])
    BY DEF SlotsInv, OfPeer, KeepsOrStops
  <2>2. CASE hasClient(clients[i])
    <3> DEFINE n == part[i]
               res == Sendable(clients[i].fd, n)
    <3>1. n \in Nat \ {0} /\ room[clients[i].fd] \in Nat
      BY <2>1, <2>2 DEF OfPeer, hasClient
    <3>2. res \in {Again, Failed} \cup (Nat \ {0})
      BY <3>1 DEF Sendable
    <3> HIDE DEF n, res
    <3>3. KeepsOrStops(clients[i], writeOrClose(clients[i], n, res))
      BY <2>1, <3>1, <3>2, WriteKeeps
    <3> QED
      BY <2>2, <3>3 DEF WriteOne, n, res
  <2> QED
    BY <2>1, <2>2 DEF WriteOne
<1> QED
  BY <1>1, <1>2, PassKeepsInv DEF WriteAll

LEMMA CheckStep ==
  ASSUME SlotsInv, CheckAll
  PROVE  SlotsInv'
<1>1. PICK stale \in Stale :
        clients' = [i \in Slot |-> IF connected(i, stale) THEN clients[i] ELSE stop(clients[i])]
  BY DEF CheckAll
<1>2. \A i \in Slot : KeepsOrStops(clients[i], clients'[i])
  BY <1>1, StopStops DEF SlotsInv, OfPeer, KeepsOrStops
<1> QED
  BY <1>1, <1>2, PassKeepsInv DEF CheckAll

(* Sending to the clients moves no socket. *)
LEMMA SendToKeeps ==
  ASSUME SlotsInv, NEW m, NEW source, NEW stale, NEW i \in Slot
  PROVE  Keeps(clients[i], SendTo(m, source, stale)[i])
BY EnqueueKeeps DEF SlotsInv, SendTo, OfPeer, Keeps

LEMMA RestStep ==
  ASSUME SlotsInv, OtherChannel \/ OthersDone \/ readMessages \/ SameTick \/ NextTick
  PROVE  SlotsInv'
<1>1. UNCHANGED link
  BY DEF OtherChannel, OthersDone, readMessages, SameTick, NextTick, Repeat, net
<1>2. \A i \in Slot : Keeps(clients[i], clients[i])
  BY DEF SlotsInv, OfPeer, Keeps
<1>3. DOMAIN clients' = Slot /\ \A i \in Slot : Keeps(clients[i], clients'[i])
  <2>1. CASE OtherChannel
    <3>1. PICK m, stale : clients' = SendTo(m, minId - 1, stale)
      BY <2>1 DEF OtherChannel
    <3> QED
      BY <3>1, SendToKeeps DEF SendTo
  <2>2. CASE OthersDone \/ SameTick \/ UNCHANGED clients
    BY <2>2, <1>2 DEF OthersDone, SameTick, Repeat, SlotsInv
  <2>3. CASE readMessages /\ ~UNCHANGED clients
    <3>1. PICK stale : clients' = [SendTo(FirstMessage(clients[slot]), minId + slot, stale)
                                     EXCEPT ![slot] = withoutFirst(@)]
      BY <2>3 DEF readMessages
    <3> DEFINE sentTo == SendTo(FirstMessage(clients[slot]), minId + slot, stale)
    <3>2. DOMAIN sentTo = Slot /\ \A i \in Slot : Keeps(clients[i], sentTo[i])
      BY SendToKeeps DEF SendTo
    <3>3. \A i \in Slot : OfPeer(sentTo[i])
      BY <3>2 DEF SlotsInv, OfPeer, Keeps
    <3>4. \A i \in Slot : Keeps(sentTo[i], withoutFirst(sentTo[i]))
      BY <3>3, WithoutFirstKeeps
    <3>5. clients' = [sentTo EXCEPT ![slot] = withoutFirst(sentTo[slot])]
      BY <3>1
    <3> HIDE DEF sentTo
    <3> QED
      BY <3>2, <3>4, <3>5 DEF Keeps
  <2>4. CASE NextTick
    BY <2>4, AgedKeeps DEF NextTick, Repeat, SlotsInv
  <2> QED
    BY <2>1, <2>2, <2>3, <2>4
<1> QED
  BY <1>1, <1>3, StillKeepsInv DEF SlotsInv, Open

-----------------------------------------------------------------------------
(* Type correctness, with the facts it rests on. *)
OutPiece == (Peer \cup {Bus}) \X Nat
InPiece == Peer \X Nat
IsConnection(c) == IsConnectionOf(c, Peer, OutPiece, InPiece)
LinkState == {"new", "backlog", "up", "eof", "reset", "closed"}

Clients == [Slot -> ConnectionOf(Peer, OutPiece, InPiece)]
ClientsOK == clients \in Clients /\ \A i \in Slot : IsConnection(clients[i])
LinkOK == link \in [Peer -> LinkState]
ArrivingOK == arriving \in [Peer -> Seq(InPiece)]
GotOK == got \in [Peer -> Seq(OutPiece)]
RoomOK == room \in [Peer -> 0 .. Window]

(* The bus produces two pieces at once. *)
ProducedOK ==
  /\ DOMAIN produced = Peer \cup {Bus}
  /\ \A s \in Peer \cup {Bus} : produced[s] \in 0 .. 2 * Lines[s]
  /\ \E k \in Nat : produced[Bus] = 2 * k

(* Messages are read, and other channels served, only at the slots where   *)
(* readMessages has something left to do.                                  *)
PlaceOK ==
  /\ at \in {"acceptRead", "read", "acceptWrite", "write", "check",
              "send", "messages", "rest"}
  /\ slot \in 0 .. maxClients
  /\ at = "messages" => slot < maxClients
  /\ at = "send" => slot = 0

TypeInv ==
  ClientsOK /\ LinkOK /\ ArrivingOK /\ GotOK /\ RoomOK /\ ProducedOK /\ PlaceOK

IInv == TypeInv /\ SlotsInv

LEMMA TypeInvIsTyped == ASSUME TypeInv PROVE TypeOK
<1>1. \A i \in Slot : clients[i] \in Connections /\ Len(clients[i].out) <= TxSize /\ Len(clients[i].in) <= RxSize
  BY DEF TypeInv, ClientsOK, IsConnection, IsConnectionOf, ConnectionOf, Connections, OutPiece, InPiece
<1>2. /\ \A s \in Peer \cup {Bus} : produced[s] \in 0 .. 2 * Lines[s]
      /\ at \in {"acceptRead", "read", "acceptWrite", "write", "check", "send", "messages", "rest"}
      /\ slot \in 0 .. maxClients
  BY DEF TypeInv, ProducedOK, PlaceOK
<1>3. clients \in [Slot -> Connections]
  BY DEF TypeInv, ClientsOK, Clients, ConnectionOf, Connections, OutPiece, InPiece
<1> QED
  BY <1>1, <1>2, <1>3 DEF TypeInv, LinkOK, LinkState, ArrivingOK, GotOK, RoomOK, TypeOK, OutPiece, InPiece

(* Connections of the right type in every slot make clients well typed. *)
LEMMA SlotwiseTyped ==
  ASSUME clients' = [i \in Slot |-> clients'[i]], \A i \in Slot : IsConnection(clients'[i])
  PROVE  ClientsOK'
BY DEF ClientsOK, Clients, IsConnection, IsConnectionOf

LEMMA OneSlotTyped ==
  ASSUME ClientsOK, NEW i \in Slot, NEW c, IsConnection(c), clients' = [clients EXCEPT ![i] = c]
  PROVE  ClientsOK'
BY DEF ClientsOK, Clients, IsConnection, IsConnectionOf

LEMMA InitTyped == ASSUME Init PROVE IInv
<1>1. << >> \in Seq(OutPiece) /\ << >> \in Seq(InPiece)
  BY EmptySeq
<1>2. IsConnection(setClient(NoClient)) /\ setClient(NoClient).fd = NoClient
  BY SetClientTyped DEF IsConnection
<1>3. ClientsOK
  BY <1>2 DEF Init, ClientsOK, Clients, IsConnection, IsConnectionOf
<1>4. LinkOK /\ ArrivingOK /\ GotOK
  BY <1>1 DEF Init, LinkOK, LinkState, ArrivingOK, GotOK
<1>5. RoomOK
  BY ServerAssumption DEF Init, RoomOK
<1>6. ProducedOK
  <2>1. \A s \in Peer \cup {Bus} : produced[s] = 0 /\ 0 \in 0 .. 2 * Lines[s]
    BY ServerAssumption DEF Init
  <2>2. produced[Bus] = 2 * 0 /\ 0 \in Nat
    BY <2>1
  <2> QED
    BY <2>1, <2>2 DEF ProducedOK, Init
<1>7. PlaceOK
  BY ServerAssumption DEF Init, PlaceOK
<1>8. SlotsInv
  <2>1. \A i \in Slot : clients[i] = setClient(NoClient)
    BY DEF Init
  <2>2. DOMAIN clients = Slot /\ DOMAIN link = Peer /\ Open = {}
    BY DEF Init, Open
  <2>3. \A i \in Slot : OfPeer(clients[i]) /\ clients[i].fd = NoClient
    BY <1>2, <2>1 DEF OfPeer, setClient
  <2> QED
    BY <2>2, <2>3 DEF SlotsInv, Held, hasClient
<1> QED
  BY <1>3, <1>4, <1>5, <1>6, <1>7, <1>8 DEF IInv, TypeInv

(* A message of the bus keeps its count even and in bounds. *)
LEMMA ProducedByBus ==
  ASSUME ProducedOK, produced[Bus] < 2 * Lines[Bus], produced' = [produced EXCEPT ![Bus] = @ + 2]
  PROVE  ProducedOK'
<1>1. PICK k \in Nat : produced[Bus] = 2 * k
  BY DEF ProducedOK
<1>2. Lines[Bus] \in Nat
  BY ServerAssumption
<1>3. produced'[Bus] = 2 * (k + 1) /\ k + 1 \in Nat /\ 2 * (k + 1) <= 2 * Lines[Bus]
  BY <1>1, <1>2 DEF ProducedOK
<1>4. \A s \in Peer : produced'[s] = produced[s]
  BY ServerAssumption DEF ProducedOK
<1> QED
  BY <1>2, <1>3, <1>4 DEF ProducedOK

(* What the steps do to the types. *)
LEMMA AcceptTyped ==
  ASSUME TypeInv, Accept("acceptRead", "read") \/ Accept("acceptWrite", "write")
  PROVE  TypeInv'
<1>1. UNCHANGED <<arriving, got, room, produced, slot>> /\ at' \in {"read", "write"}
  BY DEF Accept
<1>2. ClientsOK' /\ LinkOK'
  <2>1. CASE UNCHANGED <<clients, link>>
    BY <2>1 DEF TypeInv, ClientsOK, LinkOK
  <2>2. CASE \E p \in Peer : link' = [link EXCEPT ![p] = "closed"] /\ UNCHANGED clients
    BY <2>2 DEF TypeInv, ClientsOK, LinkOK, LinkState
  <2>3. ASSUME NEW p \in Peer, AcceptInto(p), \E i \in Slot : ~hasClient(clients[i])
        PROVE  ClientsOK' /\ LinkOK'
    <3> DEFINE i == CHOOSE i \in Slot :
                      ~hasClient(clients[i]) /\ \A j \in Slot : j < i => hasClient(clients[j])
    <3>1. clients' = [clients EXCEPT ![i] = setClient(p)] /\ link' = [link EXCEPT ![p] = "up"]
      BY <2>3 DEF AcceptInto
    <3>2. i \in Slot
      BY <2>3, FirstFreeSlot
    <3>3. IsConnection(setClient(p))
      BY SetClientTyped DEF IsConnection
    <3> HIDE DEF i
    <3> QED
      BY <3>1, <3>2, <3>3, OneSlotTyped DEF TypeInv, LinkOK, LinkState
  <2> QED
    BY <2>1, <2>2, <2>3 DEF Accept, AcceptInto
<1> QED
  BY <1>1, <1>2 DEF TypeInv, ArrivingOK, GotOK, RoomOK, ProducedOK, PlaceOK

LEMMA PeersTyped == ASSUME TypeInv, PeerStep PROVE TypeInv'
<1>1. UNCHANGED <<clients, got, at, slot>>
  BY DEF PeerStep, Connect, PeerSends, PeerReads, PeerEnds
<1>2. LinkOK'
  BY DEF PeerStep, Connect, PeerSends, PeerReads, PeerEnds, TypeInv, LinkOK, LinkState
<1>3. RoomOK'
  BY ServerAssumption DEF PeerStep, Connect, PeerSends, PeerReads, PeerEnds, TypeInv, RoomOK
<1>4. ArrivingOK' /\ ProducedOK'
  <2>1. CASE \E p \in Peer : Connect(p) \/ PeerReads(p)
    BY <2>1 DEF Connect, PeerReads, TypeInv, ArrivingOK, ProducedOK
  <2>2. ASSUME NEW p \in Peer, PeerSends(p) PROVE ArrivingOK' /\ ProducedOK'
    <3>1. Lines[p] \in Nat /\ produced[p] \in 0 .. 2 * Lines[p] /\ produced[p] < 2 * Lines[p]
      BY <2>2, ServerAssumption DEF PeerSends, TypeInv, ProducedOK
    <3>2. <<p, produced[p] + 1>> \in InPiece
      BY <3>1 DEF InPiece
    <3>3. arriving' = [arriving EXCEPT ![p] = Append(arriving[p], <<p, produced[p] + 1>>)]
      BY <2>2 DEF PeerSends
    <3>4. Append(arriving[p], <<p, produced[p] + 1>>) \in Seq(InPiece)
      BY <3>2, AppendProperties DEF TypeInv, ArrivingOK
    <3>5. ArrivingOK'
      BY <3>3, <3>4 DEF TypeInv, ArrivingOK
    <3>6. produced' = [produced EXCEPT ![p] = produced[p] + 1] /\ p # Bus
      BY <2>2, ServerAssumption DEF PeerSends
    <3>7. produced[p] + 1 \in 0 .. 2 * Lines[p]
      BY <3>1
    <3>8. ProducedOK'
      BY <3>6, <3>7 DEF TypeInv, ProducedOK
    <3> QED
      BY <3>5, <3>8
  <2>3. CASE \E p \in Peer, how \in {"eof", "reset"} : PeerEnds(p, how)
    <3>1. << >> \in Seq(InPiece)
      BY EmptySeq
    <3>2. UNCHANGED produced /\ \E p \in Peer : arriving' \in {arriving, [arriving EXCEPT ![p] = << >>]}
      BY <2>3 DEF PeerEnds
    <3> QED
      BY <3>1, <3>2 DEF TypeInv, ArrivingOK, ProducedOK
  <2> QED
    BY <2>1, <2>2, <2>3 DEF PeerStep
<1> QED
  BY <1>1, <1>2, <1>3, <1>4 DEF TypeInv, ClientsOK, GotOK, PlaceOK

LEMMA LinksTyped == ASSUME LinkOK, link' = LinksAfter(clients') PROVE LinkOK'
BY DEF LinkOK, LinkState, LinksAfter

(* One slot of the read pass: typed, and it takes at most what arrives. *)
LEMMA ReadOneTyped ==
  ASSUME TypeInv, SlotsInv, NEW i \in Slot, NEW most \in 1 .. RxSize, NEW stale,
         most <= RxSize - Len(clients[i].in) \/ most = 1
  PROVE  /\ IsConnection(ReadOne(i, most, stale))
         /\ Len(ReadOne(i, most, stale).in) - Len(clients[i].in) \in Nat
<1> DEFINE c == clients[i]
           p == c.fd
           n == IF most < Len(arriving[p]) THEN most ELSE Len(arriving[p])
           d == ReadOne(i, most, stale)
<1>1. /\ IsConnection(c) /\ Len(c.in) \in Nat /\ Len(c.in) <= RxSize
      /\ c.in \in Seq(InPiece) /\ p \in Peer \cup {NoClient}
      /\ c = [fd |-> c.fd, out |-> c.out, in |-> c.in, pendingWrite |-> c.pendingWrite,
              writeError |-> c.writeError, age |-> c.age]
  BY LenProperties DEF TypeInv, ClientsOK, IsConnection, IsConnectionOf, ConnectionOf
<1>2. IsConnection(stop(c)) /\ stop(c).in = c.in
  BY <1>1, StopTyped DEF stop, IsConnection
<1>3. CASE d \in {c, stop(c)}
  BY <1>1, <1>2, <1>3
<1>4. CASE d \notin {c, stop(c)}
  <2>1. hasClient(c) /\ n > 0 /\ d = read(c, n, SubSeq(arriving[p], 1, n))
    BY <1>4 DEF ReadOne, read
  <2>2. p \in Peer /\ arriving[p] \in Seq(InPiece) /\ Len(arriving[p]) \in Nat
    BY <1>1, <2>1, LenProperties DEF hasClient, TypeInv, ArrivingOK
  <2>3. n \in 1 .. Len(arriving[p]) /\ n <= most /\ n \in Nat \ {0}
    BY <2>1, <2>2
  <2> HIDE DEF n
  <2> DEFINE data == SubSeq(arriving[p], 1, n)
  <2>4. data \in Seq(InPiece) /\ Len(data) = n
    BY <2>2, <2>3, FrontOfSequence
  <2>5. Len(c.in) < RxSize /\ d = [c EXCEPT !.in = @ \o data]
    <3>1. n # Again /\ n # Failed /\ n # Shutdown
      BY <2>3 DEF Again, Failed, Shutdown
    <3>2. ~(Len(c.in) >= RxSize) /\ d = [c EXCEPT !.in = @ \o data]
      BY <1>4, <2>1, <3>1 DEF read
    <3> QED
      BY <3>2, <1>1, ConnectionAssumption
  <2>6. n <= RxSize - Len(c.in)
    BY <1>1, <2>3, <2>5, ConnectionAssumption
  <2> HIDE DEF c, p, data, d
  <2>7. IsConnection(read(c, n, data))
    BY <1>1, <2>3, <2>4, <2>6, ReadTyped DEF IsConnection
  <2>8. d.in = c.in \o data
    BY <1>1, <2>5
  <2>9. Len(d.in) = Len(c.in) + n
    BY <1>1, <2>4, <2>8, ConcatProperties
  <2> QED
    BY <1>1, <2>1, <2>3, <2>7, <2>9 DEF data, d, c
<1> QED
  BY <1>3, <1>4

LEMMA ReadAllTyped == ASSUME TypeInv, SlotsInv, ReadAll PROVE TypeInv'
<1>1. PICK most \in [Slot -> 1 .. RxSize], stale \in Stale :
        /\ \A i \in Slot : most[i] <= RxSize - Len(clients[i].in) \/ most[i] = 1
        /\ clients' = [i \in Slot |-> ReadOne(i, most[i], stale)]
  BY DEF ReadAll
<1>2. \A i \in Slot : /\ IsConnection(clients'[i])
                      /\ Len(clients'[i].in) - Len(clients[i].in) \in Nat
  <2> SUFFICES ASSUME NEW i \in Slot
               PROVE  /\ IsConnection(clients'[i])
                      /\ Len(clients'[i].in) - Len(clients[i].in) \in Nat
    OBVIOUS
  <2>1. clients'[i] = ReadOne(i, most[i], stale) /\ most[i] \in 1 .. RxSize
    BY <1>1
  <2> QED
    BY <1>1, <2>1, ReadOneTyped
<1>3. ClientsOK'
  BY <1>1, <1>2, SlotwiseTyped
<1>4. LinkOK'
  BY LinksTyped DEF TypeInv, ReadAll
<1>5. ArrivingOK'
  <2> DEFINE After(p) ==
        IF \E i \in Slot : clients[i].fd = p
        THEN LET i == CHOOSE i \in Slot : clients[i].fd = p
             IN  SubSeq(arriving[p], Len(clients'[i].in) - Len(clients[i].in) + 1, Len(arriving[p]))
        ELSE arriving[p]
  <2>1. arriving' = [p \in Peer |-> After(p)]
    BY DEF ReadAll
  <2>2. \A p \in Peer : After(p) \in Seq(InPiece)
    <3> SUFFICES ASSUME NEW p \in Peer PROVE After(p) \in Seq(InPiece)
      OBVIOUS
    <3>1. arriving[p] \in Seq(InPiece)
      BY DEF TypeInv, ArrivingOK
    <3>2. CASE \E i \in Slot : clients[i].fd = p
      <4>1. PICK i \in Slot : i = CHOOSE k \in Slot : clients[k].fd = p
        BY <3>2
      <4> DEFINE k == Len(clients'[i].in) - Len(clients[i].in)
      <4>2. k \in Nat
        BY <1>2
      <4>3. After(p) = SubSeq(arriving[p], k + 1, Len(arriving[p]))
        BY <3>2, <4>1
      <4> HIDE DEF k, After
      <4> QED
        BY <3>1, <4>2, <4>3, RestOfSequence
    <3> QED
      BY <3>1, <3>2
  <2> QED
    BY <2>1, <2>2 DEF ArrivingOK
<1> QED
  BY <1>3, <1>4, <1>5 DEF ReadAll, TypeInv, GotOK, RoomOK, ProducedOK, PlaceOK

(* One slot of the write pass: what send accepts fits into the socket. *)
LEMMA WriteOneTyped ==
  ASSUME TypeInv, NEW i \in Slot, NEW n \in 1 .. TxSize, n <= Len(clients[i].out) \/ n = 1
  PROVE  /\ IsConnection(WriteOne(i, n)) /\ Accepted(i, n) \in Seq(OutPiece)
         /\ clients[i].fd \in Peer => Len(Accepted(i, n)) \in 0 .. room[clients[i].fd]
<1> DEFINE c == clients[i]
           res == Sendable(c.fd, n)
<1>1. IsConnection(c) /\ c.fd \in Peer \cup {NoClient} /\ c.out \in Seq(OutPiece) /\ Len(c.out) \in Nat
  BY LenProperties DEF TypeInv, ClientsOK, IsConnection, IsConnectionOf, ConnectionOf
<1>2. << >> \in Seq(OutPiece) /\ Len(<< >>) = 0
  BY EmptySeq
<1>3. c.fd \in Peer => room[c.fd] \in Nat
  BY DEF TypeInv, RoomOK
<1>4. CASE ~hasClient(c)
  BY <1>1, <1>2, <1>3, <1>4 DEF WriteOne, Accepted
<1>5. CASE hasClient(c) /\ c.out = << >>
  <2>1. WriteOne(i, n) = [c EXCEPT !.pendingWrite = FALSE] /\ Accepted(i, n) = << >>
    BY <1>5 DEF WriteOne, writeOrClose, Accepted
  <2> HIDE DEF c
  <2>2. IsConnection(WriteOne(i, n))
    BY <1>1, <2>1, NothingPendingTyped DEF IsConnection
  <2> QED
    BY <1>2, <1>3, <2>1, <2>2 DEF c
<1>6. CASE hasClient(c) /\ c.out # << >>
  <2>1. n \in 1 .. Len(c.out) /\ c.fd \in Peer /\ room[c.fd] \in Nat
    BY <1>1, <1>3, <1>6, EmptySeq DEF hasClient
  <2>2. res \in (1 .. n) \cup {Again, Failed} /\ (res \notin {Again, Failed} => res <= room[c.fd])
    BY <2>1 DEF Sendable
  <2>3. WriteOne(i, n) = writeOrClose(c, n, res)
        /\ Accepted(i, n) = IF res \in {Again, Failed} THEN << >> ELSE SubSeq(c.out, 1, res)
    BY <1>6 DEF WriteOne, Accepted
  <2>4. Accepted(i, n) \in Seq(OutPiece) /\ Len(Accepted(i, n)) \in 0 .. room[c.fd]
    <3>1. CASE res \in {Again, Failed}
      BY <1>2, <2>1, <2>3, <3>1
    <3>2. CASE res \in 1 .. n /\ res \notin {Again, Failed}
      <4>1. res \in 1 .. Len(c.out)
        BY <1>1, <2>1, <3>2
      <4> HIDE DEF res, c
      <4> QED
        BY <1>1, <2>1, <2>2, <2>3, <3>2, <4>1, FrontOfSequence
    <3> QED
      BY <2>2, <3>1, <3>2
  <2> HIDE DEF res, c
  <2>5. IsConnection(WriteOne(i, n))
    BY <1>1, <2>1, <2>2, <2>3, WriteTyped DEF IsConnection
  <2> QED
    BY <2>4, <2>5 DEF c
<1> QED
  BY <1>4, <1>5, <1>6

LEMMA WriteAllTyped == ASSUME TypeInv, WriteAll PROVE TypeInv'
<1>1. PICK part \in [Slot -> 1 .. TxSize] :
        /\ \A i \in Slot : part[i] <= Len(clients[i].out) \/ part[i] = 1
        /\ clients' = [i \in Slot |-> WriteOne(i, part[i])]
        /\ got' = [p \in Peer |->
             IF \E i \in Slot : clients[i].fd = p
             THEN LET i == CHOOSE i \in Slot : clients[i].fd = p
                  IN  got[p] \o Accepted(i, part[i])
             ELSE got[p]]
  BY DEF WriteAll
<1>2. \A i \in Slot : /\ IsConnection(clients'[i]) /\ Accepted(i, part[i]) \in Seq(OutPiece)
                      /\ clients[i].fd \in Peer => Len(Accepted(i, part[i])) \in 0 .. room[clients[i].fd]
  <2> SUFFICES ASSUME NEW i \in Slot
               PROVE  /\ IsConnection(clients'[i]) /\ Accepted(i, part[i]) \in Seq(OutPiece)
                      /\ clients[i].fd \in Peer => Len(Accepted(i, part[i])) \in 0 .. room[clients[i].fd]
    OBVIOUS
  <2>1. clients'[i] = WriteOne(i, part[i]) /\ part[i] \in 1 .. TxSize
    BY <1>1
  <2> QED
    BY <1>1, <2>1, WriteOneTyped
<1>3. ClientsOK'
  BY <1>1, <1>2, SlotwiseTyped
<1>4. LinkOK'
  BY LinksTyped DEF TypeInv, WriteAll
<1>5. \A p \in Peer : got'[p] \in Seq(OutPiece) /\ Len(got'[p]) - Len(got[p]) \in 0 .. room[p]
  <2> SUFFICES ASSUME NEW p \in Peer
               PROVE  got'[p] \in Seq(OutPiece) /\ Len(got'[p]) - Len(got[p]) \in 0 .. room[p]
    OBVIOUS
  <2>1. got[p] \in Seq(OutPiece) /\ Len(got[p]) \in Nat /\ room[p] \in Nat
    BY LenProperties DEF TypeInv, GotOK, RoomOK
  <2>2. CASE ~\E i \in Slot : clients[i].fd = p
    BY <1>1, <2>1, <2>2
  <2>3. CASE \E i \in Slot : clients[i].fd = p
    <3>1. PICK i \in Slot : clients[i].fd = p /\ i = CHOOSE k \in Slot : clients[k].fd = p
      BY <2>3
    <3>2. got'[p] = got[p] \o Accepted(i, part[i])
      BY <1>1, <2>3, <3>1
    <3>3. Accepted(i, part[i]) \in Seq(OutPiece) /\ Len(Accepted(i, part[i])) \in 0 .. room[p]
      BY <1>2, <3>1
    <3> QED
      BY <2>1, <3>2, <3>3, ConcatProperties
  <2> QED
    BY <2>2, <2>3
<1>6. GotOK'
  BY <1>1, <1>5 DEF GotOK
<1>7. RoomOK'
  <2>1. room' = [p \in Peer |-> room[p] - (Len(got'[p]) - Len(got[p]))]
    BY DEF WriteAll
  <2>2. \A p \in Peer : room[p] \in 0 .. Window
    BY DEF TypeInv, RoomOK
  <2>3. ASSUME NEW p \in Peer PROVE room[p] - (Len(got'[p]) - Len(got[p])) \in 0 .. Window
    <3>1. /\ Len(got'[p]) - Len(got[p]) \in 0 .. room[p]
          /\ room[p] \in 0 .. Window /\ Window \in Nat
      BY <1>5, <2>2, ServerAssumption
    <3> DEFINE d == Len(got'[p]) - Len(got[p])
    <3> HIDE DEF d
    <3>2. d \in 0 .. room[p] => room[p] - d \in 0 .. Window
      BY <3>1
    <3> QED
      BY <3>1, <3>2 DEF d
  <2> QED
    BY <2>1, <2>3 DEF RoomOK
<1> QED
  BY <1>3, <1>4, <1>6, <1>7 DEF WriteAll, TypeInv, ArrivingOK, ProducedOK, PlaceOK

LEMMA CheckAllTyped == ASSUME TypeInv, CheckAll PROVE TypeInv'
<1>1. PICK stale \in Stale :
        clients' = [i \in Slot |-> IF connected(i, stale) THEN clients[i] ELSE stop(clients[i])]
  BY DEF CheckAll
<1>2. \A i \in Slot : IsConnection(clients[i]) /\ IsConnection(stop(clients[i]))
  BY StopTyped DEF TypeInv, ClientsOK, IsConnection
<1>3. ClientsOK'
  <2>1. \A i \in Slot : clients'[i] \in {clients[i], stop(clients[i])}
    BY <1>1
  <2> QED
    BY <1>1, <1>2, <2>1, SlotwiseTyped
<1>4. LinkOK'
  BY LinksTyped DEF TypeInv, CheckAll
<1>5. PlaceOK'
  BY ServerAssumption DEF CheckAll, Resume, TypeInv, PlaceOK
<1> QED
  BY <1>3, <1>4, <1>5 DEF CheckAll, TypeInv, ArrivingOK, GotOK, RoomOK, ProducedOK

(* Sending a message to the clients keeps the slots typed. *)
LEMMA SendToTyped ==
  ASSUME TypeInv, NEW m \in Seq(OutPiece), NEW source, NEW stale
  PROVE  /\ SendTo(m, source, stale) = [i \in Slot |-> SendTo(m, source, stale)[i]]
         /\ \A i \in Slot : /\ IsConnection(SendTo(m, source, stale)[i])
                            /\ SendTo(m, source, stale)[i].in = clients[i].in
<1>1. \A i \in Slot : IsConnection(clients[i]) /\ IsConnection(enqueue(clients[i], m))
  BY EnqueueTyped DEF TypeInv, ClientsOK, IsConnection
<1>2. \A i \in Slot : enqueue(clients[i], m).in = clients[i].in
  BY DEF TypeInv, ClientsOK, Clients, ConnectionOf, enqueue
<1>3. \A i \in Slot : SendTo(m, source, stale)[i] \in {clients[i], enqueue(clients[i], m)}
  BY DEF SendTo
<1> QED
  BY <1>1, <1>2, <1>3 DEF SendTo

LEMMA FirstMessageTyped ==
  ASSUME NEW c, IsConnection(c), HasMessage(c)
  PROVE  FirstMessage(c) \in Seq(OutPiece)
<1> DEFINE k == CHOOSE j \in 1 .. Len(c.in) : EndOfMessage(c, j)
<1>1. c.in \in Seq(InPiece) /\ k \in 1 .. Len(c.in)
  BY DEF HasMessage, IsConnection, IsConnectionOf, ConnectionOf
<1> HIDE DEF k
<1>2. SubSeq(c.in, 1, k) \in Seq(InPiece)
  BY <1>1, FrontOfSequence
<1>3. InPiece \subseteq OutPiece
  BY DEF InPiece, OutPiece
<1>4. SubSeq(c.in, 1, k) \in Seq(OutPiece)
  BY <1>2, <1>3
<1> QED
  BY <1>4 DEF FirstMessage, k

LEMMA OtherChannelTyped == ASSUME TypeInv, OtherChannel PROVE TypeInv'
<1>1. produced[Bus] \in Nat
  BY ServerAssumption DEF TypeInv, ProducedOK
<1> DEFINE m == <<<<Bus, produced[Bus] + 1>>, <<Bus, produced[Bus] + 2>>>>
<1>2. m \in Seq(OutPiece)
  <2>1. <<Bus, produced[Bus] + 1>> \in OutPiece /\ <<Bus, produced[Bus] + 2>> \in OutPiece
    BY <1>1 DEF OutPiece
  <2> QED
    BY <2>1
<1>3. PICK stale \in Stale : clients' = SendTo(m, minId - 1, stale)
  BY DEF OtherChannel
<1> HIDE DEF m
<1>4. ClientsOK'
  BY <1>2, <1>3, SendToTyped, SlotwiseTyped
<1>5. ProducedOK'
  BY ProducedByBus DEF OtherChannel, TypeInv
<1>6. PlaceOK'
  BY DEF OtherChannel, TypeInv, PlaceOK
<1> QED
  BY <1>4, <1>5, <1>6 DEF OtherChannel, TypeInv, LinkOK, ArrivingOK, GotOK, RoomOK

LEMMA readMessagesTyped == ASSUME TypeInv, readMessages PROVE TypeInv'
<1>1. slot \in Slot /\ slot \in Nat
  BY ServerAssumption DEF readMessages, TypeInv, PlaceOK, Slot
<1>2. ClientsOK'
  <2>1. CASE UNCHANGED clients
    BY <2>1 DEF TypeInv, ClientsOK
  <2>2. CASE ~UNCHANGED clients
    <3>1. PICK stale \in Stale :
            /\ clients' = [SendTo(FirstMessage(clients[slot]), minId + slot, stale)
                             EXCEPT ![slot] = withoutFirst(@)]
            /\ HasMessage(clients[slot])
      BY <2>2 DEF readMessages
    <3> DEFINE m == FirstMessage(clients[slot])
               sentTo == SendTo(m, minId + slot, stale)
    <3>2. m \in Seq(OutPiece)
      BY <1>1, <3>1, FirstMessageTyped DEF TypeInv, ClientsOK
    <3>3. HasMessage(clients[slot]) <=> HasMessage(sentTo[slot])
      <4> HIDE DEF m
      <4>1. sentTo[slot].in = clients[slot].in
        BY <1>1, <3>2, SendToTyped
      <4> HIDE DEF sentTo
      <4> QED
        BY <4>1 DEF HasMessage, EndOfMessage
    <3>4. clients' = [sentTo EXCEPT ![slot] = withoutFirst(sentTo[slot])]
      BY <3>1
    <3> HIDE DEF m
    <3>5. sentTo = [i \in Slot |-> sentTo[i]] /\ \A i \in Slot : IsConnection(sentTo[i])
      BY <3>2, SendToTyped
    <3> HIDE DEF sentTo
    <3>6. IsConnection(withoutFirst(sentTo[slot]))
      BY <1>1, <3>1, <3>3, <3>5, WithoutFirstTyped DEF IsConnection
    <3>7. clients' = [i \in Slot |-> IF i = slot THEN withoutFirst(sentTo[slot]) ELSE sentTo[i]]
      BY <1>1, <3>4, <3>5
    <3>8. clients' = [i \in Slot |-> clients'[i]] /\ \A i \in Slot : IsConnection(clients'[i])
      BY <3>5, <3>6, <3>7
    <3> QED
      BY <3>8, SlotwiseTyped
  <2> QED
    BY <2>1, <2>2
<1>3. PlaceOK'
  BY <1>1, ServerAssumption DEF readMessages, TypeInv, PlaceOK, Slot
<1> QED
  BY <1>2, <1>3 DEF readMessages, net, TypeInv, LinkOK, ArrivingOK, GotOK, RoomOK, ProducedOK

LEMMA LoopTyped == ASSUME TypeInv, OthersDone \/ SameTick \/ NextTick PROVE TypeInv'
<1>1. UNCHANGED net /\ PlaceOK'
  BY ServerAssumption DEF OthersDone, SameTick, NextTick, Repeat, TypeInv, PlaceOK
<1>2. CASE UNCHANGED clients
  BY <1>1, <1>2 DEF net, TypeInv, ClientsOK, LinkOK, ArrivingOK, GotOK, RoomOK, ProducedOK
<1>3. CASE clients' = [i \in Slot |-> aged(clients[i])]
  <2>1. \A i \in Slot : IsConnection(aged(clients[i]))
    BY AgedTyped DEF TypeInv, ClientsOK, IsConnection
  <2>2. ClientsOK'
    BY <1>3, <2>1, SlotwiseTyped
  <2> QED
    BY <1>1, <2>2 DEF net, TypeInv, LinkOK, ArrivingOK, GotOK, RoomOK, ProducedOK
<1> QED
  BY <1>2, <1>3 DEF OthersDone, SameTick, NextTick, Repeat

-----------------------------------------------------------------------------
(* A free slot has no socket in common with another one, so the slots with *)
(* a client and the open sockets are equally many.                         *)
LEMMA AsManySlots ==
  ASSUME SlotsInv
  PROVE  Cardinality(Open) = Cardinality({i \in Slot : hasClient(clients[i])})
<1> DEFINE Busy == {i \in Slot : hasClient(clients[i])}
           f == [i \in Busy |-> clients[i].fd]
<1>1. IsFiniteSet(Busy)
  <2>1. IsFiniteSet(Slot)
    BY FS_Interval, ServerAssumption DEF Slot
  <2> QED
    BY <2>1, FS_Subset
<1>2. f \in Bijection(Busy, Open)
  <2>1. f \in [Busy -> Open] /\ \A p \in Open : \E i \in Busy : f[i] = p
    BY DEF SlotsInv, Held, OfPeer, hasClient
  <2>2. \A i, j \in Busy : f[i] = f[j] => i = j
    BY DEF SlotsInv
  <2> QED
    BY <2>1, <2>2 DEF Bijection, Injection, Surjection, IsInjective
<1> HIDE DEF f, Busy
<1>3. Cardinality(Open) = Cardinality(Busy)
  BY <1>1, <1>2, FS_Bijection DEF ExistsBijection
<1> QED
  BY <1>3 DEF Busy

LEMMA StutterKeeps == ASSUME IInv, UNCHANGED vars PROVE IInv'
<1>1. TypeInv'
  BY DEF IInv, vars, TypeInv, ClientsOK, LinkOK, ArrivingOK, GotOK, RoomOK, ProducedOK, PlaceOK
<1>2. SlotsInv'
  BY DEF IInv, vars, SlotsInv, Held, Open
<1> QED
  BY <1>1, <1>2 DEF IInv

LEMMA NextKeeps == ASSUME IInv, [Next]_vars PROVE IInv'
<1>1. TypeInv /\ SlotsInv /\ room \in [Peer -> Nat]
  BY DEF IInv, TypeInv, RoomOK
<1>2. CASE PeerStep
  BY <1>1, <1>2, PeersStep, PeersTyped DEF IInv
<1>3. CASE Accept("acceptRead", "read") \/ Accept("acceptWrite", "write")
  BY <1>1, <1>3, AcceptStep, AcceptTyped DEF IInv
<1>4. CASE ReadAll
  BY <1>1, <1>4, ReadStep, ReadAllTyped DEF IInv
<1>5. CASE WriteAll
  BY <1>1, <1>5, WriteStep, WriteAllTyped DEF IInv
<1>6. CASE CheckAll
  BY <1>1, <1>6, CheckStep, CheckAllTyped DEF IInv
<1>7. CASE OtherChannel \/ readMessages \/ OthersDone \/ SameTick \/ NextTick
  BY <1>1, <1>7, RestStep, OtherChannelTyped, readMessagesTyped, LoopTyped DEF IInv
<1> QED
  BY <1>2, <1>3, <1>4, <1>5, <1>6, <1>7, StutterKeeps DEF Next, MainLoop

(* Whatever the peers do and however sends and receptions are cut, the     *)
(* state of the server keeps its type: the buffers their sizes, the clocks *)
(* and the sockets their bounds.                                           *)
THEOREM ServerTypeCorrect == Spec => []TypeOK
<1>1. Init => IInv
  BY InitTyped
<1>2. IInv /\ [Next]_vars => IInv'
  BY NextKeeps
<1>3. IInv => TypeOK
  BY TypeInvIsTyped DEF IInv
<1> QED
  BY <1>1, <1>2, <1>3, PTL DEF Spec

(* The sockets the server has open are those in its slots, each in one     *)
(* slot: available and stop leak none and share none.                      *)
THEOREM ServerSocketsInSlots == Spec => []SocketsInSlots
<1>1. Init => IInv
  BY InitTyped
<1>2. IInv /\ [Next]_vars => IInv'
  BY NextKeeps
<1>3. IInv => SocketsInSlots
  BY AsManySlots DEF IInv, SlotsInv, SocketsInSlots
<1> QED
  BY <1>1, <1>2, <1>3, PTL DEF Spec

-----------------------------------------------------------------------------
(* What a slot has received.  The pieces that a peer sends are numbered    *)
(* without a gap, so that those not yet processed are the ones after the   *)
(* h[p] that have been handed out, whole messages and so an even number.   *)
HandedOut == [Peer \cup {Bus} -> Nat]

Follows(s, p, b) ==
  b % 2 = 0 /\ Numbered(s, p, b) /\ (link[p] # "reset" => b + Len(s) = produced[p])

WaitingOK(h) ==
  \A p \in Peer : link[p] \in {"new", "backlog"} =>
    h[p] = 0 /\ Len(arriving[p]) = produced[p] /\ Numbered(arriving[p], p, 0)

SlotsFollow(h) ==
  \A i \in Slot : hasClient(clients[i]) =>
    Follows(clients[i].in \o arriving[clients[i].fd], clients[i].fd, h[clients[i].fd])

InputOf(h) == WaitingOK(h) /\ SlotsFollow(h)

(* What the types say about one slot. *)
LEMMA SlotTyped ==
  ASSUME TypeInv, NEW i \in Slot, hasClient(clients[i])
  PROVE  /\ IsConnection(clients[i]) /\ clients[i].fd \in Peer
         /\ clients[i].in \in Seq(InPiece) /\ arriving[clients[i].fd] \in Seq(InPiece)
<1>1. IsConnection(clients[i])
  BY DEF TypeInv, ClientsOK
<1>2. clients[i].fd \in Peer /\ clients[i].in \in Seq(InPiece)
  BY <1>1 DEF IsConnection, IsConnectionOf, ConnectionOf, hasClient
<1> QED
  BY <1>1, <1>2 DEF TypeInv, ArrivingOK

(* Numbered pieces are whole messages. *)
LEMMA FollowsIsFramed ==
  ASSUME NEW p \in Peer, NEW s \in Seq(InPiece), NEW b \in Nat, Follows(s, p, b), produced[p] \in Nat
  PROVE  /\ IsMessageStream(s)
         /\ link[p] # "reset" => \A k \in 1 .. Len(s) : s[k] = <<p, produced[p] - Len(s) + k>>
<1>1. Len(s) \in Nat /\ b % 2 = 0 /\ \A k \in 1 .. Len(s) : s[k] = <<p, b + k>>
  BY LenProperties DEF Follows, Numbered
<1>2. IsMessageStream(s)
  BY NumberedIsFramed DEF Follows
<1>3. ASSUME link[p] # "reset", NEW k \in 1 .. Len(s)
      PROVE  s[k] = <<p, produced[p] - Len(s) + k>>
  <2>1. b + Len(s) = produced[p] /\ s[k] = <<p, b + k>>
    BY <1>1, <1>3 DEF Follows
  <2>2. b = produced[p] - Len(s)
    BY <1>1, <2>1
  <2> QED
    BY <2>1, <2>2
<1> QED
  BY <1>2, <1>3

LEMMA InputOfIsFramed == ASSUME TypeInv, NEW h \in HandedOut, InputOf(h) PROVE InputFramed
<1> SUFFICES ASSUME NEW i \in Slot, hasClient(clients[i])
             PROVE  LET p == clients[i].fd
                        s == clients[i].in \o arriving[p]
                        n == Len(s)
                    IN  /\ IsMessageStream(s)
                        /\ link[p] # "reset" => \A k \in 1 .. n : s[k] = <<p, produced[p] - n + k>>
  BY DEF InputFramed
<1> DEFINE p == clients[i].fd
           s == clients[i].in \o arriving[p]
<1>1. p \in Peer /\ s \in Seq(InPiece)
  BY SlotTyped, ConcatProperties
<1>2. produced[p] \in Nat
  BY <1>1, ServerAssumption DEF TypeInv, ProducedOK
<1>3. PICK b \in Nat : b = h[p] /\ Follows(s, p, b)
  BY <1>1 DEF InputOf, SlotsFollow, HandedOut
<1> HIDE DEF p, s
<1>4. /\ IsMessageStream(s)
      /\ link[p] # "reset" => \A k \in 1 .. Len(s) : s[k] = <<p, produced[p] - Len(s) + k>>
  BY <1>1, <1>2, <1>3, FollowsIsFramed
<1> QED
  BY <1>4 DEF p, s

(* A step that leaves the peers alone: a slot keeps its client and what is *)
(* still to be processed of it, or loses its client.                       *)
LEMMA SlotStepKeepsInput ==
  ASSUME TypeInv, SlotsInv, NEW h \in HandedOut, InputOf(h),
         \A p \in Peer : link'[p] = link[p] \/ link'[p] = "closed",
         \A p \in Peer : link[p] \in {"new", "backlog"} => arriving'[p] = arriving[p],
         \A p \in Peer : produced'[p] = produced[p],
         \A i \in Slot : hasClient(clients'[i]) =>
            LET p == clients[i].fd IN
            /\ clients'[i].fd = p /\ link'[p] = link[p]
            /\ clients'[i].in \o arriving'[p] = clients[i].in \o arriving[p]
  PROVE  InputOf(h)'
<1>1. WaitingOK(h)'
  BY DEF InputOf, WaitingOK, Numbered
<1>2. SlotsFollow(h)'
  <2> SUFFICES ASSUME NEW i \in Slot, hasClient(clients'[i])
               PROVE  Follows(clients[i].in \o arriving[clients[i].fd], clients[i].fd, h[clients[i].fd])'
    BY DEF SlotsFollow
  <2> DEFINE p == clients[i].fd
             s == clients[i].in \o arriving[p]
  <2>1. /\ clients'[i].fd = p /\ link'[p] = link[p] /\ hasClient(clients[i])
        /\ clients'[i].in \o arriving'[p] = s
    BY DEF hasClient
  <2>2. p \in Peer
    BY <2>1, SlotTyped
  <2>3. PICK b \in Nat : b = h[p] /\ Follows(s, p, b)
    BY <2>1, <2>2 DEF InputOf, SlotsFollow, HandedOut
  <2>4. clients'[i].in \o arriving'[clients'[i].fd] = s /\ clients'[i].fd = p
    BY <2>1
  <2> HIDE DEF s, p
  <2>5. Follows(s, p, b) => (link'[p] # "reset" => b + Len(s) = produced'[p])
    BY <2>1, <2>2 DEF Follows
  <2> QED
    BY <2>3, <2>4, <2>5 DEF Follows
<1> QED
  BY <1>1, <1>2 DEF InputOf

LEMMA SendsKeepsInput ==
  ASSUME TypeInv, SlotsInv, NEW h \in HandedOut, InputOf(h), NEW p \in Peer, PeerSends(p)
  PROVE  InputOf(h)'
<1> DEFINE x == <<p, produced[p] + 1>>
<1>1. produced[p] \in Nat /\ x \in InPiece /\ arriving[p] \in Seq(InPiece)
  BY ServerAssumption DEF TypeInv, ProducedOK, ArrivingOK, InPiece
<1>2. /\ UNCHANGED <<link, clients>> /\ link[p] \in {"backlog", "up"}
      /\ arriving'[p] = Append(arriving[p], x) /\ produced'[p] = produced[p] + 1
      /\ \A q \in Peer \ {p} : arriving'[q] = arriving[q] /\ produced'[q] = produced[q]
  BY DEF PeerSends, TypeInv, ArrivingOK, ProducedOK
<1> HIDE DEF x
<1>3. WaitingOK(h)'
  <2> SUFFICES ASSUME NEW q \in Peer, link'[q] \in {"new", "backlog"}
               PROVE  h[q] = 0 /\ Len(arriving'[q]) = produced'[q] /\ Numbered(arriving'[q], q, 0)
    BY DEF WaitingOK, Numbered
  <2>1. h[q] = 0 /\ Len(arriving[q]) = produced[q] /\ Numbered(arriving[q], q, 0)
    BY <1>2 DEF InputOf, WaitingOK
  <2>2. CASE q = p
    <3>1. x = <<p, 0 + Len(arriving[p]) + 1>>
      BY <1>1, <2>1, <2>2 DEF x
    <3>2. Numbered(Append(arriving[p], x), p, 0) /\ Len(Append(arriving[p], x)) = Len(arriving[p]) + 1
      BY <1>1, <2>1, <2>2, <3>1, NumberedAppend
    <3> QED
      BY <1>2, <2>1, <2>2, <3>2
  <2> QED
    BY <1>2, <2>1, <2>2
<1>4. SlotsFollow(h)'
  <2> SUFFICES ASSUME NEW i \in Slot, hasClient(clients[i])
               PROVE  Follows(clients[i].in \o arriving[clients[i].fd], clients[i].fd, h[clients[i].fd])'
    BY <1>2 DEF SlotsFollow
  <2> DEFINE q == clients[i].fd
             s == clients[i].in \o arriving[q]
  <2>1. q \in Peer /\ clients[i].in \in Seq(InPiece) /\ arriving[q] \in Seq(InPiece)
    BY SlotTyped
  <2>2. PICK b \in Nat : b = h[q] /\ Follows(s, q, b)
    BY <2>1 DEF InputOf, SlotsFollow, HandedOut
  <2>3. CASE q # p
    BY <1>2, <2>1, <2>2, <2>3 DEF Follows
  <2>4. CASE q = p
    <3>1. link[p] # "reset" /\ s \in Seq(InPiece) /\ Len(s) \in Nat
      BY <1>2, <2>1, ConcatProperties, LenProperties
    <3>2. clients[i].in \o Append(arriving[p], x) = Append(s, x)
      <4> DEFINE u == clients[i].in
                 v == arriving[p]
      <4>2. u \in Seq(InPiece) /\ v \in Seq(InPiece) /\ x \in InPiece
        BY <1>1, <2>1
      <4> HIDE DEF u, v
      <4>3. u \o Append(v, x) = Append(u \o v, x)
        BY <4>2, ConcatAppend
      <4>1. clients[i].in \o Append(arriving[p], x) = Append(clients[i].in \o arriving[p], x)
        BY <4>3 DEF u, v
      <4> QED
        BY <2>4, <4>1
    <3> HIDE DEF s
    <3>3. b + Len(s) = produced[p] /\ Numbered(s, p, b) /\ b % 2 = 0
      BY <2>2, <2>4, <3>1 DEF Follows
    <3>4. x = <<p, b + Len(s) + 1>>
      BY <3>3 DEF x
    <3>5. Numbered(Append(s, x), p, b) /\ Len(Append(s, x)) = Len(s) + 1
      <4>1. s \in Seq(InPiece) /\ x \in InPiece
        BY <1>1, <3>1
      <4>2. Numbered(s, p, b) /\ x = <<p, b + Len(s) + 1>>
        BY <3>3, <3>4
      <4> HIDE DEF x
      <4> QED
        BY <4>1, <4>2, NumberedAppend
    <3>6. b + Len(Append(s, x)) = produced[p] + 1
      BY <3>1, <3>3, <3>5
    <3>7. (clients[i].in \o arriving[q])' = Append(s, x) /\ q' = p
      BY <1>2, <2>4, <3>2
    <3>8. h[p] = b
      BY <2>2, <2>4
    <3> QED
      BY <1>2, <3>3, <3>5, <3>6, <3>7, <3>8 DEF Follows
  <2> QED
    BY <2>3, <2>4
<1> QED
  BY <1>3, <1>4 DEF InputOf

LEMMA EndsKeepsInput ==
  ASSUME TypeInv, SlotsInv, NEW h \in HandedOut, InputOf(h), NEW p \in Peer, NEW how \in {"eof", "reset"}, PeerEnds(p, how)
  PROVE  InputOf(h)'
<1>1. /\ UNCHANGED <<clients, produced>> /\ link[p] = "up" /\ link'[p] = how
      /\ \A q \in Peer \ {p} : link'[q] = link[q] /\ arriving'[q] = arriving[q]
      /\ arriving'[p] = IF how = "reset" THEN << >> ELSE arriving[p]
  BY DEF PeerEnds, TypeInv, ArrivingOK, LinkOK
<1>2. WaitingOK(h)'
  BY <1>1 DEF InputOf, WaitingOK, Numbered
<1>3. SlotsFollow(h)'
  <2> SUFFICES ASSUME NEW i \in Slot, hasClient(clients[i])
               PROVE  Follows(clients[i].in \o arriving[clients[i].fd], clients[i].fd, h[clients[i].fd])'
    BY <1>1 DEF SlotsFollow
  <2> DEFINE q == clients[i].fd
  <2>1. q \in Peer /\ clients[i].in \in Seq(InPiece) /\ arriving[q] \in Seq(InPiece)
    BY SlotTyped
  <2>2. PICK b \in Nat : b = h[q] /\ Follows(clients[i].in \o arriving[q], q, b)
    BY <2>1 DEF InputOf, SlotsFollow, HandedOut
  <2>3. CASE q # p \/ how = "eof"
    <3>1. arriving'[q] = arriving[q] /\ produced'[q] = produced[q] /\ (link[q] = "reset" => link'[q] = "reset")
      BY <1>1, <2>1, <2>3
    <3> QED
      BY <1>1, <2>2, <3>1 DEF Follows
  <2>4. CASE q = p /\ how = "reset"
    <3>1. Numbered(clients[i].in, p, b) /\ b % 2 = 0
      BY <2>1, <2>2, <2>4, NumberedFront DEF Follows
    <3>2. (clients[i].in \o arriving[q])' = clients[i].in /\ link'[p] = "reset"
      BY <1>1, <2>1, <2>4, ConcatEmptySeq
    <3> QED
      BY <1>1, <2>2, <2>4, <3>1, <3>2 DEF Follows
  <2> QED
    BY <2>3, <2>4
<1> QED
  BY <1>2, <1>3 DEF InputOf

LEMMA PeersInput == ASSUME TypeInv, SlotsInv, NEW h \in HandedOut, InputOf(h), PeerStep PROVE InputOf(h)'
<1>1. ASSUME NEW p \in Peer, Connect(p) PROVE InputOf(h)'
  <2>1. /\ UNCHANGED <<clients, arriving, produced>> /\ link[p] = "new"
        /\ link' = [link EXCEPT ![p] = "backlog"]
    BY <1>1 DEF Connect
  <2>2. WaitingOK(h)'
    BY <2>1 DEF InputOf, WaitingOK, Numbered, TypeInv, LinkOK
  <2>3. SlotsFollow(h)'
    <3> SUFFICES ASSUME NEW i \in Slot, hasClient(clients[i])
                 PROVE  Follows(clients[i].in \o arriving[clients[i].fd], clients[i].fd, h[clients[i].fd])'
      BY <2>1 DEF SlotsFollow
    <3>1. clients[i].fd \in Peer
      BY SlotTyped
    <3>2. link'[clients[i].fd] = "reset" <=> link[clients[i].fd] = "reset"
      BY <2>1, <3>1 DEF TypeInv, LinkOK
    <3> QED
      BY <2>1, <3>2 DEF InputOf, SlotsFollow, Follows
  <2> QED
    BY <2>2, <2>3 DEF InputOf
<1>2. ASSUME NEW p \in Peer, PeerReads(p) PROVE InputOf(h)'
  BY <1>2 DEF PeerReads, InputOf, WaitingOK, SlotsFollow, Follows
<1> QED
  BY <1>1, <1>2, SendsKeepsInput, EndsKeepsInput DEF PeerStep

LEMMA AcceptInput ==
  ASSUME TypeInv, SlotsInv, NEW h \in HandedOut, InputOf(h), Accept("acceptRead", "read") \/ Accept("acceptWrite", "write")
  PROVE  InputOf(h)'
<1>1. UNCHANGED <<arriving, produced>>
  BY DEF Accept
<1>2. CASE UNCHANGED <<clients, link>>
  BY <1>1, <1>2 DEF InputOf, WaitingOK, SlotsFollow, Follows
<1>3. ASSUME NEW p \in Peer, link[p] = "backlog", link' = [link EXCEPT ![p] = "closed"], UNCHANGED clients
      PROVE  InputOf(h)'
  <2>1. \A q \in Peer : link'[q] = link[q] \/ link'[q] = "closed"
    BY <1>3 DEF TypeInv, LinkOK
  <2>2. \A i \in Slot : hasClient(clients[i]) => link'[clients[i].fd] = link[clients[i].fd]
    <3> SUFFICES ASSUME NEW i \in Slot, hasClient(clients[i])
                 PROVE  link'[clients[i].fd] = link[clients[i].fd]
      OBVIOUS
    <3>1. clients[i].fd \in Held(clients)
      BY DEF Held, hasClient
    <3>2. clients[i].fd \in Open
      BY <3>1 DEF SlotsInv
    <3> QED
      BY <1>3, <3>2 DEF TypeInv, LinkOK, Open
  <2> QED
    BY <1>1, <1>3, <2>1, <2>2, SlotStepKeepsInput
<1>4. ASSUME NEW p \in Peer, link[p] = "backlog", AcceptInto(p), \E i \in Slot : ~hasClient(clients[i])
      PROVE  InputOf(h)'
  <2> DEFINE i == CHOOSE i \in Slot :
                    ~hasClient(clients[i]) /\ \A j \in Slot : j < i => hasClient(clients[j])
  <2>1. clients' = [clients EXCEPT ![i] = setClient(p)] /\ link' = [link EXCEPT ![p] = "up"]
    BY <1>4 DEF AcceptInto
  <2>2. i \in Slot
    BY <1>4, FirstFreeSlot
  <2> HIDE DEF i
  <2>3. /\ clients'[i] = setClient(p) /\ \A j \in Slot \ {i} : clients'[j] = clients[j]
        /\ link'[p] = "up" /\ \A q \in Peer \ {p} : link'[q] = link[q]
    BY <2>1, <2>2 DEF TypeInv, ClientsOK, Clients, LinkOK
  <2>4. WaitingOK(h)'
    BY <1>1, <2>3 DEF InputOf, WaitingOK, Numbered
  <2>5. ASSUME NEW j \in Slot, hasClient(clients'[j])
        PROVE  Follows(clients[j].in \o arriving[clients[j].fd], clients[j].fd, h[clients[j].fd])'
    <3>1. CASE j = i
      <4>1. clients'[j].fd = p /\ clients'[j].in = << >> /\ arriving[p] \in Seq(InPiece)
        BY <2>3, <3>1 DEF setClient, TypeInv, ArrivingOK
      <4>2. (clients[j].in \o arriving[clients[j].fd])' = arriving[p]
        BY <1>1, <4>1, ConcatEmptySeq
      <4>3. /\ Len(arriving[p]) \in Nat /\ Len(arriving[p]) = produced[p] /\ Numbered(arriving[p], p, 0)
            /\ h[p] = 0
        BY <1>4, <4>1, LenProperties DEF InputOf, WaitingOK
      <4>4. Follows(arriving[p], p, 0)'
        BY <1>1, <4>3 DEF Follows, Numbered
      <4>5. Follows((clients[j].in \o arriving[clients[j].fd]), clients[j].fd, h[clients[j].fd])'
        BY <1>1, <4>1, <4>2, <4>3, <4>4
      <4> QED
        BY <4>5
    <3>2. CASE j # i
      <4>1. clients'[j] = clients[j] /\ hasClient(clients[j])
        BY <2>3, <2>5, <3>2
      <4>2. clients[j].fd \in Held(clients)
        BY <4>1 DEF Held, hasClient
      <4>3. clients[j].fd \in Open
        BY <4>2 DEF SlotsInv
      <4>4. clients[j].fd \in Peer \ {p}
        BY <1>4, <4>3 DEF Open
      <4>5. PICK b \in Nat : b = h[clients[j].fd] /\ Follows(clients[j].in \o arriving[clients[j].fd], clients[j].fd, b)
        BY <4>1, <4>4 DEF InputOf, SlotsFollow, HandedOut
      <4> QED
        BY <1>1, <2>3, <4>1, <4>4, <4>5 DEF Follows
    <3> QED
      BY <3>1, <3>2
  <2>6. SlotsFollow(h)'
    BY <2>5 DEF SlotsFollow
  <2> QED
    BY <2>4, <2>6 DEF InputOf
<1> QED
  BY <1>2, <1>3, <1>4 DEF Accept, AcceptInto

(* A pass that closes sockets changes the links of no other. *)
LEMMA PassLinks ==
  ASSUME TypeInv, SlotsInv, link' = LinksAfter(clients')
  PROVE  /\ \A p \in Peer : link'[p] = link[p] \/ link'[p] = "closed"
         /\ \A p \in Peer : p \in Held(clients') => link'[p] = link[p]
         /\ \A p \in Peer : link[p] \in {"new", "backlog"} => \A i \in Slot : clients[i].fd # p
<1>1. \A p \in Peer : link'[p] = IF p \in Held(clients) \ Held(clients') THEN "closed" ELSE link[p]
  BY DEF LinksAfter
<1>2. ASSUME NEW p \in Peer, link[p] \in {"new", "backlog"}, NEW i \in Slot PROVE clients[i].fd # p
  <2>1. p \notin Held(clients)
    BY <1>2 DEF SlotsInv, Open
  <2> QED
    BY <2>1, ServerAssumption DEF Held
<1> QED
  BY <1>1, <1>2

(* A pass in which each slot keeps what it has received or stops. *)
LEMMA PassInput ==
  ASSUME TypeInv, SlotsInv, NEW h \in HandedOut, InputOf(h), link' = LinksAfter(clients'), UNCHANGED <<arriving, produced>>,
         \A i \in Slot : hasClient(clients'[i]) =>
            clients'[i].fd = clients[i].fd /\ clients'[i].in = clients[i].in
  PROVE  InputOf(h)'
<1>1. ASSUME NEW i \in Slot, hasClient(clients'[i])
      PROVE  link'[clients[i].fd] = link[clients[i].fd]
  <2>1. hasClient(clients[i]) /\ clients'[i].fd = clients[i].fd
    BY <1>1 DEF hasClient
  <2>2. clients[i].fd \in Peer
    BY <2>1, SlotTyped
  <2>3. clients[i].fd \in Held(clients')
    BY <1>1, <2>1 DEF Held, hasClient
  <2> QED
    BY <2>2, <2>3, PassLinks
<1>2. \A p \in Peer : link'[p] = link[p] \/ link'[p] = "closed"
  BY PassLinks
<1> QED
  BY <1>1, <1>2, SlotStepKeepsInput

(* What a slot has when it is read: pieces go over from the socket. *)
LEMMA ReadOneInput ==
  ASSUME TypeInv, NEW i \in Slot, NEW most \in Nat, NEW stale,
         hasClient(ReadOne(i, most, stale))
  PROVE  /\ hasClient(clients[i]) /\ ReadOne(i, most, stale).fd = clients[i].fd
         /\ \E k \in 0 .. Len(arriving[clients[i].fd]) :
              ReadOne(i, most, stale).in = clients[i].in \o SubSeq(arriving[clients[i].fd], 1, k)
<1> DEFINE c == clients[i]
           a == arriving[c.fd]
           n == IF most < Len(a) THEN most ELSE Len(a)
           d == ReadOne(i, most, stale)
<1>1. ~hasClient(stop(c))
  <2>1. c \in ConnectionOf(Peer, OutPiece, InPiece)
    BY DEF TypeInv, ClientsOK, Clients
  <2> QED
    BY <2>1, StopStops DEF stop, hasClient, ConnectionOf
<1>2. hasClient(c) /\ (d = c \/ (d = read(c, n, SubSeq(a, 1, n)) /\ n > 0))
  <2>1. hasClient(c)
    BY DEF ReadOne
  <2>2. read(c, Again, << >>) = c
    BY DEF read
  <2>3. read(c, Shutdown, << >>) \in {c, stop(c)}
    BY DEF read, Shutdown, Again, Failed
  <2> QED
    BY <1>1, <2>1, <2>2, <2>3 DEF ReadOne
<1>3. c.in \in Seq(InPiece) /\ a \in Seq(InPiece) /\ Len(a) \in Nat /\ n \in 0 .. Len(a)
  <2>1. c.in \in Seq(InPiece) /\ a \in Seq(InPiece)
    BY <1>2, SlotTyped
  <2>2. Len(a) \in Nat
    BY <2>1, LenProperties
  <2> QED
    BY <2>1, <2>2
<1>4. CASE d = c
  <2>1. SubSeq(a, 1, 0) = << >> /\ 0 \in 0 .. Len(a)
    BY <1>3, SubSeqEmpty
  <2>2. d.in = c.in \o SubSeq(a, 1, 0)
    BY <1>3, <1>4, <2>1, ConcatEmptySeq
  <2> QED
    BY <1>2, <1>4, <2>1, <2>2
<1>5. CASE d # c
  <2> DEFINE data == SubSeq(a, 1, n)
  <2>1. n \in Nat /\ n # Again /\ n # Failed /\ n # Shutdown /\ d = read(c, n, data)
    BY <1>2, <1>3, <1>5 DEF Again, Failed, Shutdown
  <2>2. c \in ConnectionOf(Peer, OutPiece, InPiece)
    BY DEF TypeInv, ClientsOK, Clients
  <2> HIDE DEF n, a, data, d, c
  <2>3. d = [c EXCEPT !.in = @ \o data]
    BY <1>5, <2>1 DEF read
  <2>4. d.in = c.in \o data /\ d.fd = c.fd
    BY <2>2, <2>3 DEF ConnectionOf
  <2> QED
    BY <1>2, <1>3, <2>4 DEF n, a, data, d, c
<1> QED
  BY <1>4, <1>5

LEMMA ReadAllInput == ASSUME TypeInv, SlotsInv, NEW h \in HandedOut, InputOf(h), ReadAll PROVE InputOf(h)'
<1>1. PICK most \in [Slot -> 1 .. RxSize], stale \in Stale :
        clients' = [i \in Slot |-> ReadOne(i, most[i], stale)]
  BY DEF ReadAll
<1>2. /\ UNCHANGED produced /\ link' = LinksAfter(clients')
      /\ \A p \in Peer : arriving'[p] =
           IF \E i \in Slot : clients[i].fd = p
           THEN LET i == CHOOSE i \in Slot : clients[i].fd = p
                IN  SubSeq(arriving[p], Len(clients'[i].in) - Len(clients[i].in) + 1, Len(arriving[p]))
           ELSE arriving[p]
  BY DEF ReadAll
<1>3. ASSUME NEW i \in Slot, hasClient(clients'[i])
      PROVE  LET p == clients[i].fd IN
             /\ clients'[i].fd = p /\ link'[p] = link[p]
             /\ clients'[i].in \o arriving'[p] = clients[i].in \o arriving[p]
  <2> DEFINE p == clients[i].fd
             u == clients[i].in
             a == arriving[p]
  <2> DEFINE m == most[i]
  <2>1. m \in Nat /\ clients'[i] = ReadOne(i, m, stale) /\ hasClient(ReadOne(i, m, stale))
    BY <1>1, <1>3
  <2> HIDE DEF m
  <2>10. /\ hasClient(clients[i]) /\ ReadOne(i, m, stale).fd = clients[i].fd
         /\ \E k \in 0 .. Len(arriving[clients[i].fd]) :
              ReadOne(i, m, stale).in = clients[i].in \o SubSeq(arriving[clients[i].fd], 1, k)
    BY <2>1, ReadOneInput
  <2>2. PICK k \in 0 .. Len(a) :
          hasClient(clients[i]) /\ clients'[i].fd = p /\ clients'[i].in = u \o SubSeq(a, 1, k)
    BY <2>1, <2>10
  <2>3. p \in Peer /\ u \in Seq(InPiece) /\ a \in Seq(InPiece)
    BY <2>2, SlotTyped
  <2>4. p \in Held(clients')
    BY <1>3, <2>2 DEF Held, hasClient
  <2>5. \A j \in Slot : clients[j].fd = p => j = i
    BY <2>2 DEF SlotsInv
  <2>6. arriving'[p] = SubSeq(a, Len(clients'[i].in) - Len(u) + 1, Len(a))
    <3>1. (CHOOSE j \in Slot : clients[j].fd = p) = i
      BY <2>5
    <3> QED
      BY <1>2, <2>3, <3>1
  <2>7. link'[p] = link[p]
    BY <1>2, <2>3, <2>4, PassLinks
  <2> HIDE DEF p, u, a
  <2>8. /\ Len(u \o SubSeq(a, 1, k)) - Len(u) = k
        /\ (u \o SubSeq(a, 1, k)) \o SubSeq(a, k + 1, Len(a)) = u \o a
    BY <2>3, PiecesMoved
  <2>9. clients'[i].in \o arriving'[p] = u \o a
    BY <2>2, <2>6, <2>8
  <2> QED
    BY <2>2, <2>7, <2>9 DEF p, u, a
<1>4. \A p \in Peer : link'[p] = link[p] \/ link'[p] = "closed"
  BY <1>2, PassLinks
<1>5. \A p \in Peer : link[p] \in {"new", "backlog"} => arriving'[p] = arriving[p]
  BY <1>2, PassLinks
<1> QED
  BY <1>2, <1>3, <1>4, <1>5, SlotStepKeepsInput

(* Sending and stopping leave alone what a slot has received. *)
LEMMA WriteAllInput == ASSUME TypeInv, SlotsInv, NEW h \in HandedOut, InputOf(h), WriteAll PROVE InputOf(h)'
<1>1. PICK part \in [Slot -> 1 .. TxSize] : clients' = [i \in Slot |-> WriteOne(i, part[i])]
  BY DEF WriteAll
<1>2. ASSUME NEW i \in Slot, hasClient(clients'[i])
      PROVE  clients'[i].fd = clients[i].fd /\ clients'[i].in = clients[i].in
  <2> DEFINE n == part[i]
             c == clients[i]
             res == Sendable(c.fd, n)
  <2>1. c \in ConnectionOf(Peer, OutPiece, InPiece)
    BY DEF TypeInv, ClientsOK, Clients
  <2>2. clients'[i] = WriteOne(i, n)
    BY <1>1
  <2>3. CASE ~hasClient(c)
    BY <2>2, <2>3 DEF WriteOne
  <2>4. CASE hasClient(c)
    <3>1. n \in Nat \ {0} /\ room[c.fd] \in Nat
      BY <2>1, <2>4 DEF hasClient, ConnectionOf, TypeInv, RoomOK
    <3>2. res \in {Again, Failed} \cup (Nat \ {0})
      BY <3>1 DEF Sendable
    <3>3. clients'[i] = writeOrClose(c, n, res)
      BY <2>2, <2>4 DEF WriteOne
    <3> DEFINE w == SendResult(c, n, res)
    <3> HIDE DEF c, res, n
    <3>4. w.in = c.in /\ w.fd \in {c.fd, NoClient} /\ "fd" \in DOMAIN w /\ "in" \in DOMAIN w
      BY <2>1, <3>1, <3>2 DEF SendResult, ConnectionOf, stop, Again, Failed
    <3> HIDE DEF w
    <3>5. stop(w).in = c.in /\ stop(w).fd = NoClient
      BY <3>4 DEF stop
    <3>6. [c EXCEPT !.pendingWrite = FALSE].in = c.in /\ [c EXCEPT !.pendingWrite = FALSE].fd = c.fd
      BY <2>1 DEF ConnectionOf
    <3>7. writeOrClose(c, n, res) \in {[c EXCEPT !.pendingWrite = FALSE], w, stop(w)}
      BY DEF writeOrClose, w
    <3>8. clients'[i].in = c.in /\ clients'[i].fd \in {c.fd, NoClient}
      BY <3>3, <3>4, <3>5, <3>6, <3>7
    <3>9. clients'[i].fd # NoClient
      BY <1>2 DEF hasClient
    <3> QED
      BY <3>8, <3>9 DEF c
  <2> QED
    BY <2>3, <2>4
<1> QED
  BY <1>2, PassInput DEF WriteAll

LEMMA CheckAllInput == ASSUME TypeInv, SlotsInv, NEW h \in HandedOut, InputOf(h), CheckAll PROVE InputOf(h)'
<1>1. PICK stale \in Stale :
        clients' = [i \in Slot |-> IF connected(i, stale) THEN clients[i] ELSE stop(clients[i])]
  BY DEF CheckAll
<1>2. ASSUME NEW i \in Slot, hasClient(clients'[i])
      PROVE  clients'[i].fd = clients[i].fd /\ clients'[i].in = clients[i].in
  <2>1. clients[i] \in ConnectionOf(Peer, OutPiece, InPiece)
    BY DEF TypeInv, ClientsOK, Clients
  <2>2. stop(clients[i]).fd = NoClient
    BY <2>1 DEF stop, ConnectionOf
  <2>3. clients'[i] = clients[i]
    BY <1>1, <1>2, <2>2 DEF hasClient
  <2> QED
    BY <2>3
<1> QED
  BY <1>2, PassInput DEF CheckAll

(* A step in which no socket is opened or closed. *)
LEMMA StillInput ==
  ASSUME TypeInv, SlotsInv, NEW h \in HandedOut, InputOf(h), UNCHANGED <<link, arriving>>,
         \A p \in Peer : produced'[p] = produced[p],
         \A i \in Slot : clients'[i].fd = clients[i].fd /\ clients'[i].in = clients[i].in
  PROVE  InputOf(h)'
BY SlotStepKeepsInput DEF hasClient

LEMMA OtherChannelInput == ASSUME TypeInv, SlotsInv, NEW h \in HandedOut, InputOf(h), OtherChannel PROVE InputOf(h)'
<1>1. produced[Bus] \in Nat
  BY ServerAssumption DEF TypeInv, ProducedOK
<1> DEFINE m == <<<<Bus, produced[Bus] + 1>>, <<Bus, produced[Bus] + 2>>>>
<1>2. m \in Seq(OutPiece)
  <2>1. <<Bus, produced[Bus] + 1>> \in OutPiece /\ <<Bus, produced[Bus] + 2>> \in OutPiece
    BY <1>1 DEF OutPiece
  <2> QED
    BY <2>1
<1>3. PICK stale \in Stale : clients' = SendTo(m, minId - 1, stale)
  BY DEF OtherChannel
<1> HIDE DEF m
<1>4. \A i \in Slot : clients'[i].in = clients[i].in
  BY <1>2, <1>3, SendToTyped
<1>5. \A i \in Slot : clients'[i].fd = clients[i].fd
  BY <1>3, SendToKeeps DEF Keeps
<1>6. \A p \in Peer : produced'[p] = produced[p]
  BY ServerAssumption DEF OtherChannel, TypeInv, ProducedOK
<1> QED
  BY <1>4, <1>5, <1>6, StillInput DEF OtherChannel

LEMMA LoopInput ==
  ASSUME TypeInv, SlotsInv, NEW h \in HandedOut, InputOf(h), OthersDone \/ SameTick \/ NextTick
  PROVE  InputOf(h)'
<1>1. UNCHANGED net
  BY DEF OthersDone, SameTick, NextTick, Repeat
<1>2. \A i \in Slot : clients'[i].fd = clients[i].fd /\ clients'[i].in = clients[i].in
  <2>1. CASE UNCHANGED clients
    BY <2>1
  <2>2. CASE clients' = [i \in Slot |-> aged(clients[i])]
    BY <2>2 DEF aged, TypeInv, ClientsOK, Clients, ConnectionOf
  <2> QED
    BY <2>1, <2>2 DEF OthersDone, SameTick, NextTick, Repeat
<1> QED
  BY <1>1, <1>2, StillInput DEF net

(* readMessages hands out the two pieces of a message of p. *)
HandOut(h, p) == [h EXCEPT ![p] = @ + 2]

(* Without its first message a slot still follows its client. *)
LEMMA FollowsWithoutFirst ==
  ASSUME NEW p \in Peer, NEW c, IsConnection(c), HasMessage(c), NEW a \in Seq(InPiece),
         NEW b \in Nat, Follows(c.in \o a, p, b)
  PROVE  /\ FirstMessage(c) = <<<<p, b + 1>>, <<p, b + 2>>>>
         /\ Follows(withoutFirst(c).in \o a, p, b + 2)
<1>1. b % 2 = 0 /\ Numbered(c.in \o a, p, b) /\ (link[p] # "reset" => b + Len(c.in \o a) = produced[p])
  BY DEF Follows
<1>2. /\ FirstMessage(c) = <<<<p, b + 1>>, <<p, b + 2>>>>
      /\ Numbered(withoutFirst(c).in \o a, p, b + 2)
      /\ b + 2 + Len(withoutFirst(c).in \o a) = b + Len(c.in \o a)
  <2>1. "in" \in DOMAIN c /\ c.in \in Seq(InPiece)
    BY DEF IsConnection, IsConnectionOf, ConnectionOf
  <2>2. b % 2 = 0 /\ Numbered(c.in \o a, p, b)
    BY <1>1
  <2> QED
    BY <2>1, <2>2, FirstOfNumbered, ZenonT(30)
<1>3. (b + 2) % 2 = 0
  BY <1>1, OddThenEven
<1> QED
  BY <1>1, <1>2, <1>3 DEF Follows

(* A message that is read: it is forwarded to the other slots and leaves   *)
(* its own.                                                                *)
LEMMA MessageRead ==
  ASSUME TypeInv, SlotsInv, readMessages, ~UNCHANGED clients
  PROVE  /\ slot \in Slot /\ hasClient(clients[slot]) /\ HasMessage(clients[slot]) /\ UNCHANGED net
         /\ \E stale :
              LET sentTo == SendTo(FirstMessage(clients[slot]), minId + slot, stale)
              IN  /\ clients'[slot] = withoutFirst(sentTo[slot])
                  /\ \A i \in Slot \ {slot} : clients'[i] = sentTo[i]
                  /\ \A i \in Slot : /\ IsConnection(sentTo[i]) /\ sentTo[i].in = clients[i].in
                                     /\ sentTo[i].fd = clients[i].fd
         /\ \A i \in Slot : clients'[i].fd = clients[i].fd
<1>1. slot \in Slot /\ UNCHANGED net
  BY ServerAssumption DEF readMessages, TypeInv, PlaceOK, Slot
<1>2. PICK stale \in Stale :
        /\ clients' = [SendTo(FirstMessage(clients[slot]), minId + slot, stale)
                         EXCEPT ![slot] = withoutFirst(@)]
        /\ hasClient(clients[slot]) /\ HasMessage(clients[slot])
  BY DEF readMessages
<1> DEFINE m == FirstMessage(clients[slot])
           sentTo == SendTo(m, minId + slot, stale)
           c == sentTo[slot]
<1>3. m \in Seq(OutPiece)
  BY <1>1, <1>2, FirstMessageTyped DEF TypeInv, ClientsOK
<1>4. clients' = [sentTo EXCEPT ![slot] = withoutFirst(c)]
  BY <1>2
<1> HIDE DEF m
<1>5. /\ DOMAIN sentTo = Slot
      /\ \A i \in Slot : /\ IsConnection(sentTo[i]) /\ sentTo[i].in = clients[i].in
                         /\ sentTo[i].fd = clients[i].fd
  <2>1. DOMAIN sentTo = Slot
    BY DEF SendTo
  <2>2. \A i \in Slot : IsConnection(sentTo[i]) /\ sentTo[i].in = clients[i].in
    BY <1>3, SendToTyped
  <2>3. \A i \in Slot : sentTo[i].fd = clients[i].fd
    BY SendToKeeps DEF Keeps
  <2> QED
    BY <2>1, <2>2, <2>3
<1> HIDE DEF sentTo
<1>6. HasMessage(c)
  <2>1. c.in = clients[slot].in
    BY <1>1, <1>5
  <2> HIDE DEF c
  <2> QED
    BY <1>2, <2>1 DEF HasMessage, EndOfMessage
<1>7. withoutFirst(c).fd = c.fd
  BY <1>1, <1>5, <1>6, WithoutFirstTyped DEF IsConnection
<1>8. clients'[slot] = withoutFirst(c) /\ \A i \in Slot \ {slot} : clients'[i] = sentTo[i]
  BY <1>1, <1>4, <1>5
<1>9. \A i \in Slot : clients'[i].fd = clients[i].fd
  BY <1>1, <1>5, <1>7, <1>8
<1> QED
  BY <1>1, <1>2, <1>5, <1>8, <1>9 DEF sentTo, m, c

LEMMA readMessagesInput ==
  ASSUME TypeInv, SlotsInv, NEW h \in HandedOut, InputOf(h), readMessages, ~UNCHANGED clients,
         NEW p, p = clients[slot].fd
  PROVE  /\ p \in Peer /\ h[p] \in Nat /\ h[p] % 2 = 0
         /\ FirstMessage(clients[slot]) = <<<<p, h[p] + 1>>, <<p, h[p] + 2>>>>
         /\ InputOf(HandOut(h, p))'
<1> DEFINE g == HandOut(h, p)
<1>1. slot \in Slot /\ hasClient(clients[slot]) /\ HasMessage(clients[slot]) /\ UNCHANGED net
  BY MessageRead
<1>2. p \in Peer /\ arriving[p] \in Seq(InPiece) /\ IsConnection(clients[slot])
  BY <1>1, SlotTyped
<1>3. h[p] \in Nat /\ g[p] = h[p] + 2 /\ \A q \in Peer \ {p} : g[q] = h[q]
  BY <1>2 DEF HandedOut, HandOut
<1> DEFINE b == h[p]
           c == clients[slot]
           a == arriving[p]
<1>4. Follows(c.in \o a, p, b)
  BY <1>1 DEF InputOf, SlotsFollow
<1>5. b % 2 = 0
  BY <1>4 DEF Follows
<1>6. FirstMessage(c) = <<<<p, b + 1>>, <<p, b + 2>>>> /\ Follows(withoutFirst(c).in \o a, p, b + 2)
  <2> HIDE DEF a, b, c
  <2>1. /\ p \in Peer /\ IsConnection(c) /\ HasMessage(c) /\ a \in Seq(InPiece)
        /\ b \in Nat /\ Follows(c.in \o a, p, b)
    BY <1>1, <1>2, <1>3, <1>4 DEF a, b, c
  <2> QED
    BY <2>1, FollowsWithoutFirst
<1>7. clients'[slot].in = withoutFirst(c).in
  <2>1. PICK stale :
          LET sentTo == SendTo(FirstMessage(clients[slot]), minId + slot, stale)
          IN  /\ clients'[slot] = withoutFirst(sentTo[slot])
              /\ IsConnection(sentTo[slot]) /\ sentTo[slot].in = clients[slot].in
    BY <1>1, MessageRead
  <2> DEFINE e == SendTo(FirstMessage(clients[slot]), minId + slot, stale)[slot]
  <2>2. clients'[slot] = withoutFirst(e) /\ IsConnection(e) /\ e.in = c.in
    BY <2>1
  <2> HIDE DEF e, c
  <2>3. FirstMessage(e) = FirstMessage(c)
    BY <2>2 DEF FirstMessage, EndOfMessage
  <2>4. "in" \in DOMAIN e /\ "in" \in DOMAIN c
    BY <1>2, <2>2 DEF IsConnection, IsConnectionOf, ConnectionOf, c
  <2> QED
    BY <2>2, <2>3, <2>4 DEF withoutFirst
<1>8. \A i \in Slot : /\ clients'[i].fd = clients[i].fd
                      /\ i # slot => clients'[i].in = clients[i].in
  BY MessageRead
<1>9. ASSUME NEW i \in Slot, hasClient(clients'[i])
      PROVE  Follows(clients[i].in \o arriving[clients[i].fd], clients[i].fd, g[clients[i].fd])'
  <2> DEFINE q == clients[i].fd
  <2>1. hasClient(clients[i]) /\ clients'[i].fd = q /\ UNCHANGED <<arriving, link, produced>>
    BY <1>1, <1>8, <1>9 DEF hasClient, net
  <2>2. q \in Peer
    BY <2>1, SlotTyped
  <2>3. Follows(clients'[i].in \o arriving[q], q, g[q])
    <3>1. CASE i = slot
      BY <1>3, <1>6, <1>7, <3>1
    <3>2. CASE i # slot
      <4>1. q # p
        BY <1>1, <2>1, <3>2 DEF SlotsInv
      <4>2. Follows(clients[i].in \o arriving[q], q, h[q])
        BY <2>1 DEF InputOf, SlotsFollow
      <4> QED
        BY <1>3, <1>8, <2>2, <3>2, <4>1, <4>2
    <3> QED
      BY <3>1, <3>2
  <2> QED
    BY <2>1, <2>3 DEF Follows
<1>10. WaitingOK(g)'
  <2> SUFFICES ASSUME NEW q \in Peer, link[q] \in {"new", "backlog"}
               PROVE  g[q] = 0 /\ Len(arriving[q]) = produced[q] /\ Numbered(arriving[q], q, 0)
    BY <1>1 DEF net, WaitingOK, Numbered
  <2>1. h[q] = 0 /\ Len(arriving[q]) = produced[q] /\ Numbered(arriving[q], q, 0)
    BY DEF InputOf, WaitingOK
  <2>2. p \in Held(clients)
    BY <1>1 DEF Held, hasClient
  <2>3. q # p
    BY <2>2 DEF SlotsInv, Open
  <2> QED
    BY <1>3, <2>1, <2>3
<1> HIDE DEF g
<1>11. InputOf(g)'
  BY <1>9, <1>10 DEF InputOf, SlotsFollow
<1> QED
  BY <1>2, <1>3, <1>5, <1>6, <1>11 DEF g

NothingHandedOut == [s \in Peer \cup {Bus} |-> 0]

LEMMA InitInput == ASSUME Init PROVE NothingHandedOut \in HandedOut /\ InputOf(NothingHandedOut)
<1>1. NothingHandedOut \in HandedOut /\ WaitingOK(NothingHandedOut)
  BY DEF Init, WaitingOK, Numbered, NothingHandedOut, HandedOut
<1>2. \A i \in Slot : ~hasClient(clients[i])
  BY DEF Init, setClient, hasClient
<1> QED
  BY <1>1, <1>2 DEF InputOf, SlotsFollow

LEMMA NextInput ==
  ASSUME IInv, NEW h \in HandedOut, InputOf(h), [Next]_vars
  PROVE  \E g \in HandedOut : InputOf(g)'
<1>1. TypeInv /\ SlotsInv
  BY DEF IInv
<1>2. CASE PeerStep
  BY <1>1, <1>2, PeersInput
<1>3. CASE Accept("acceptRead", "read") \/ Accept("acceptWrite", "write")
  BY <1>1, <1>3, AcceptInput
<1>4. CASE ReadAll \/ WriteAll \/ CheckAll
  BY <1>1, <1>4, ReadAllInput, WriteAllInput, CheckAllInput
<1>5. CASE OtherChannel \/ OthersDone \/ SameTick \/ NextTick
  BY <1>1, <1>5, OtherChannelInput, LoopInput
<1>6. CASE readMessages /\ UNCHANGED clients
  BY <1>1, <1>6, StillInput DEF readMessages, net
<1>7. CASE readMessages /\ ~UNCHANGED clients
  <2>1. PICK p : p = clients[slot].fd
    OBVIOUS
  <2> DEFINE g == HandOut(h, p)
  <2>2. p \in Peer /\ h[p] \in Nat /\ InputOf(g)'
    BY <1>1, <1>7, <2>1, readMessagesInput
  <2>3. g \in HandedOut
    BY <2>2 DEF HandOut, HandedOut
  <2> HIDE DEF g
  <2> QED
    BY <2>2, <2>3
<1>8. CASE UNCHANGED vars
  BY <1>8 DEF vars, InputOf, WaitingOK, SlotsFollow, Follows
<1> QED
  BY <1>2, <1>3, <1>4, <1>5, <1>6, <1>7, <1>8 DEF Next, MainLoop

InputInv == \E h \in HandedOut : InputOf(h)

(* What a slot has received is the end of what its present client sent,    *)
(* from a whole message on, however receptions are cut and however often   *)
(* the slot changes its client.                                            *)
THEOREM ServerInputFramed == Spec => []InputFramed
<1>1. Init => IInv /\ InputInv
  BY InitTyped, InitInput DEF InputInv
<1>2. IInv /\ InputInv /\ [Next]_vars => (IInv /\ InputInv)'
  BY NextKeeps, NextInput DEF InputInv
<1>3. IInv /\ InputInv => InputFramed
  BY InputOfIsFramed DEF IInv, InputInv
<1> QED
  BY <1>1, <1>2, <1>3, PTL DEF Spec
-----------------------------------------------------------------------------
(***************************************************************************)
(* What the clients get: whole messages of the other sources, in order and *)
(* without repetition.                                                     *)
(*                                                                         *)
(* h counts for each source the pieces that have been handed out.  What a  *)
(* slot still has to process comes after them, and every piece of an       *)
(* output is one of them, so a message that is handed out is later than    *)
(* everything its source has in any output.                                *)
(***************************************************************************)
(* A stream to p: whole messages of other sources, in their order, and no  *)
(* more than was handed out.                                               *)
StreamTo(s, p, h) ==
  /\ IsMessageStream(s) /\ Len(s) % 2 = 0 /\ InSourceOrder(s)
  /\ \A k \in 1 .. Len(s) : s[k][1] # p /\ s[k][2] <= h[s[k][1]]

Output(i) == got[clients[i].fd] \o clients[i].out

OutputOf(h) ==
  /\ h[Bus] = produced[Bus]
  /\ \A p \in Peer : link[p] \in {"new", "backlog"} => got[p] = << >>
  /\ \A i \in Slot : hasClient(clients[i]) => StreamTo(Output(i), clients[i].fd, h)

LEMMA OutputOfIsFramed == ASSUME NEW h, OutputOf(h) PROVE OutputFramed
BY DEF OutputOf, OutputFramed, StreamTo, Output
-----------------------------------------------------------------------------
(* Streams. *)
LEMMA EmptyStream == ASSUME NEW p, NEW h PROVE StreamTo(<< >>, p, h)
<1>1. Len(<< >>) = 0
  OBVIOUS
<1>2. 0 % 2 = 0
  OBVIOUS
<1> QED
  BY <1>1, <1>2 DEF StreamTo, IsMessageStream, InSourceOrder

Message(q, n) == <<<<q, n + 1>>, <<q, n + 2>>>>

LEMMA MessageTyped ==
  ASSUME NEW q \in Peer \cup {Bus}, NEW n \in Nat
  PROVE  /\ Message(q, n) \in Seq(OutPiece) /\ Len(Message(q, n)) = 2
         /\ Message(q, n)[1] = <<q, n + 1>> /\ Message(q, n)[2] = <<q, n + 2>>
<1>1. <<q, n + 1>> \in OutPiece /\ <<q, n + 2>> \in OutPiece
  BY DEF OutPiece
<1> QED
  BY <1>1 DEF Message

LEMMA EvenPlusOneTwo ==
  ASSUME NEW l \in Nat, l % 2 = 0
  PROVE  (l + 1) % 2 = 1 /\ (l + 2) % 2 = 0
BY OddThenEven

LEMMA TwoAppended ==
  ASSUME NEW S, NEW s \in Seq(S), NEW m \in Seq(S), Len(m) = 2
  PROVE  /\ Len(s \o m) = Len(s) + 2
         /\ \A j \in 1 .. Len(s) : (s \o m)[j] = s[j]
         /\ \A j \in 1 .. 2 : (s \o m)[Len(s) + j] = m[j]
<1>1. /\ Len(s) \in Nat /\ Len(m) \in Nat /\ Len(s \o m) = Len(s) + Len(m)
      /\ \A j \in 1 .. Len(s) : (s \o m)[j] = s[j]
      /\ \A j \in 1 .. Len(m) : (s \o m)[Len(s) + j] = m[j]
  BY ConcatParts
<1> QED
  BY <1>1

(* A stream stays one when more is handed out. *)
LEMMA MoreHandedOut ==
  ASSUME NEW s \in Seq(OutPiece), NEW p, NEW h \in HandedOut, StreamTo(s, p, h),
         NEW q \in Peer \cup {Bus}
  PROVE  StreamTo(s, p, HandOut(h, q))
<1> DEFINE g == HandOut(h, q)
<1>1. \A r \in Peer \cup {Bus} : h[r] \in Nat /\ g[r] \in Nat /\ h[r] <= g[r]
  BY DEF HandOut, HandedOut
<1> HIDE DEF g
<1>2. \A k \in 1 .. Len(s) : s[k][1] # p /\ s[k][2] <= g[s[k][1]]
  <2> SUFFICES ASSUME NEW k \in 1 .. Len(s) PROVE s[k][1] # p /\ s[k][2] <= g[s[k][1]]
    OBVIOUS
  <2>1. s[k] \in OutPiece
    BY ElementOfSeq
  <2>2. s[k][1] \in Peer \cup {Bus} /\ s[k][2] \in Nat
    BY <2>1 DEF OutPiece
  <2>3. s[k][1] # p /\ s[k][2] <= h[s[k][1]]
    BY DEF StreamTo
  <2> QED
    BY <1>1, <2>2, <2>3
<1>3. StreamTo(s, p, g)
  BY <1>2 DEF StreamTo
<1> QED
  BY <1>3 DEF g

(* ... and when the next message of another source is appended. *)
LEMMA MessageAppended ==
  ASSUME NEW s \in Seq(OutPiece), NEW p, NEW h \in HandedOut, StreamTo(s, p, h),
         NEW q \in Peer \cup {Bus}, q # p, h[q] % 2 = 0
  PROVE  StreamTo(s \o Message(q, h[q]), p, HandOut(h, q))
<1> DEFINE n == h[q]
           m == Message(q, n)
           g == HandOut(h, q)
           l == Len(s)
           t == s \o m
<1>1. n \in Nat /\ g[q] = n + 2 /\ (n + 1) % 2 = 1
  BY EvenPlusOneTwo DEF HandOut, HandedOut
<1>2. m \in Seq(OutPiece) /\ Len(m) = 2 /\ m[1] = <<q, n + 1>> /\ m[2] = <<q, n + 2>>
  BY <1>1, MessageTyped
<1>3. l \in Nat /\ l % 2 = 0
  BY LenProperties DEF StreamTo
<1>4. (l + 1) % 2 = 1 /\ (l + 2) % 2 = 0
  BY <1>3, EvenPlusOneTwo
<1>5. StreamTo(s, p, g)
  BY MoreHandedOut
<1>6. q # p /\ StreamTo(s, p, h)
  OBVIOUS
<1>7. \A k \in 1 .. l : s[k][1] = q => s[k][2] \in Nat /\ s[k][2] <= n
  <2> SUFFICES ASSUME NEW k \in 1 .. l, s[k][1] = q PROVE s[k][2] \in Nat /\ s[k][2] <= n
    OBVIOUS
  <2>1. s[k] \in OutPiece
    BY ElementOfSeq
  <2> QED
    BY <1>6, <2>1 DEF StreamTo, OutPiece
<1> HIDE DEF m, g, n
<1>8. /\ Len(t) = l + 2 /\ t[l + 1] = <<q, n + 1>> /\ t[l + 2] = <<q, n + 2>>
      /\ \A j \in 1 .. l : t[j] = s[j]
  <2>1. /\ Len(t) = l + 2
        /\ \A j \in 1 .. l : t[j] = s[j]
        /\ \A j \in 1 .. 2 : t[l + j] = m[j]
    BY <1>2, TwoAppended
  <2> QED
    BY <1>2, <2>1
<1> HIDE DEF t, l
<1>9. \A k \in 1 .. l + 2 : k \in 1 .. l \/ k = l + 1 \/ k = l + 2
  BY <1>3
<1>10. IsMessageStream(t)
  <2> SUFFICES ASSUME NEW k \in 1 .. l + 2
               PROVE  IF k % 2 = 1 THEN t[k][2] % 2 = 1
                      ELSE t[k] = <<t[k - 1][1], t[k - 1][2] + 1>>
    BY <1>8 DEF IsMessageStream
  <2>1. CASE k \in 1 .. l
    <3>1. IF k % 2 = 1 THEN s[k][2] % 2 = 1 ELSE s[k] = <<s[k - 1][1], s[k - 1][2] + 1>>
      BY <1>6, <2>1 DEF StreamTo, IsMessageStream, l
    <3>2. k % 2 # 1 => k - 1 \in 1 .. l
      BY <1>3, <2>1
    <3> QED
      BY <1>8, <2>1, <3>1, <3>2
  <2>2. CASE k = l + 1
    BY <1>1, <1>4, <1>8, <2>2
  <2>3. CASE k = l + 2
    <3>1. k - 1 = l + 1 /\ k % 2 # 1
      BY <1>3, <1>4, <2>3
    <3>2. t[k] = <<t[k - 1][1], t[k - 1][2] + 1>>
      BY <1>1, <1>8, <2>3, <3>1
    <3> QED
      BY <3>1, <3>2
  <2> QED
    BY <1>9, <2>1, <2>2, <2>3
<1>11. InSourceOrder(t)
  <2> SUFFICES ASSUME NEW j \in 1 .. l + 2, NEW k \in 1 .. l + 2, j < k, t[j][1] = t[k][1]
               PROVE  t[j][2] < t[k][2]
    BY <1>8 DEF InSourceOrder
  <2>1. CASE k \in 1 .. l
    <3>1. j \in 1 .. l
      BY <1>3, <2>1
    <3>2. s[j][1] = s[k][1]
      BY <1>8, <2>1, <3>1
    <3>3. s[j][2] < s[k][2]
      BY <1>6, <2>1, <3>1, <3>2 DEF StreamTo, InSourceOrder, l
    <3> QED
      BY <1>8, <2>1, <3>1, <3>3
  <2>2. CASE j \in 1 .. l /\ k \in {l + 1, l + 2}
    <3>1. s[j][1] = q /\ t[j] = s[j] /\ t[k][2] \in {n + 1, n + 2}
      BY <1>8, <2>2
    <3>2. s[j][2] \in Nat /\ s[j][2] <= n
      BY <1>7, <2>2, <3>1
    <3> QED
      BY <1>1, <3>1, <3>2
  <2>3. CASE j = l + 1 /\ k = l + 2
    BY <1>1, <1>8, <2>3
  <2> QED
    BY <1>3, <1>9, <2>1, <2>2, <2>3
<1>12. \A k \in 1 .. l + 2 : t[k][1] # p /\ t[k][2] <= g[t[k][1]]
  <2> SUFFICES ASSUME NEW k \in 1 .. l + 2 PROVE t[k][1] # p /\ t[k][2] <= g[t[k][1]]
    OBVIOUS
  <2>1. CASE k \in 1 .. l
    <3>1. s[k][1] # p /\ s[k][2] <= g[s[k][1]]
      BY <1>5, <2>1 DEF StreamTo, l
    <3> QED
      BY <1>8, <2>1, <3>1
  <2>2. CASE k \in {l + 1, l + 2}
    <3>1. t[k][1] = q /\ t[k][2] \in {n + 1, n + 2}
      BY <1>8, <2>2
    <3> QED
      BY <1>1, <1>6, <3>1
  <2> QED
    BY <1>9, <2>1, <2>2
<1>13. StreamTo(t, p, g)
  BY <1>4, <1>8, <1>10, <1>11, <1>12 DEF StreamTo
<1> QED
  BY <1>13 DEF t, m, n, g
-----------------------------------------------------------------------------
(* Steps that move pieces, but add none to an output. *)
LEMMA OutputTyped ==
  ASSUME TypeInv, NEW i \in Slot, hasClient(clients[i])
  PROVE  /\ clients[i].fd \in Peer /\ got[clients[i].fd] \in Seq(OutPiece)
         /\ clients[i].out \in Seq(OutPiece) /\ Output(i) \in Seq(OutPiece)
<1>1. clients[i].fd \in Peer /\ clients[i].out \in Seq(OutPiece)
  BY SlotTyped DEF IsConnection, IsConnectionOf, ConnectionOf
<1>2. got[clients[i].fd] \in Seq(OutPiece)
  BY <1>1 DEF TypeInv, GotOK
<1> DEFINE u == got[clients[i].fd]
           v == clients[i].out
<1>3. u \in Seq(OutPiece) /\ v \in Seq(OutPiece)
  BY <1>1, <1>2
<1> HIDE DEF u, v
<1>4. u \o v \in Seq(OutPiece)
  BY <1>3, ConcatProperties
<1> QED
  BY <1>1, <1>2, <1>4 DEF u, v, Output

LEMMA OutputsKept ==
  ASSUME NEW h, OutputOf(h), produced'[Bus] = produced[Bus],
         \A p \in Peer : link'[p] \in {"new", "backlog"} =>
            link[p] \in {"new", "backlog"} /\ got'[p] = got[p],
         \A i \in Slot : hasClient(clients'[i]) =>
            hasClient(clients[i]) /\ clients'[i].fd = clients[i].fd /\ Output(i)' = Output(i)
  PROVE  OutputOf(h)'
<1>1. (h[Bus] = produced[Bus])'
  BY DEF OutputOf
<1>2. \A p \in Peer : link'[p] \in {"new", "backlog"} => got'[p] = << >>
  BY DEF OutputOf
<1>3. \A i \in Slot : hasClient(clients'[i]) => StreamTo(Output(i)', clients'[i].fd, h)
  BY DEF OutputOf
<1> QED
  BY <1>1, <1>2, <1>3 DEF OutputOf

LEMMA PeersOutput == ASSUME TypeInv, NEW h, OutputOf(h), PeerStep PROVE OutputOf(h)'
<1>1. UNCHANGED <<clients, got>>
  BY DEF PeerStep, Connect, PeerSends, PeerReads, PeerEnds
<1>2. produced'[Bus] = produced[Bus]
  BY ServerAssumption DEF PeerStep, Connect, PeerSends, PeerReads, PeerEnds, TypeInv, ProducedOK
<1>3. \A p \in Peer : link'[p] \in {"new", "backlog"} => link[p] \in {"new", "backlog"}
  BY DEF PeerStep, Connect, PeerSends, PeerReads, PeerEnds, TypeInv, LinkOK
<1>4. \A i \in Slot : Output(i)' = Output(i)
  BY <1>1 DEF Output
<1> QED
  BY <1>1, <1>2, <1>3, <1>4, OutputsKept

(* The stream of a new client is empty. *)
LEMMA AcceptOutput ==
  ASSUME TypeInv, SlotsInv, NEW h, OutputOf(h),
         Accept("acceptRead", "read") \/ Accept("acceptWrite", "write")
  PROVE  OutputOf(h)'
<1>1. UNCHANGED <<got, produced>>
  BY DEF Accept
<1>2. CASE UNCHANGED clients /\ \E p \in Peer : link' \in {link, [link EXCEPT ![p] = "closed"]}
  <2>1. \A p \in Peer : link'[p] \in {"new", "backlog"} => link[p] \in {"new", "backlog"}
    BY <1>2 DEF TypeInv, LinkOK
  <2>2. \A i \in Slot : Output(i)' = Output(i)
    BY <1>1, <1>2 DEF Output
  <2> QED
    BY <1>1, <1>2, <2>1, <2>2, OutputsKept
<1>3. CASE UNCHANGED <<clients, link>>
  BY <1>1, <1>3 DEF OutputOf, Output
<1>4. ASSUME NEW p \in Peer, link[p] = "backlog", AcceptInto(p), \E i \in Slot : ~hasClient(clients[i])
      PROVE  OutputOf(h)'
  <2> DEFINE i == CHOOSE i \in Slot :
                    ~hasClient(clients[i]) /\ \A j \in Slot : j < i => hasClient(clients[j])
  <2>1. clients' = [clients EXCEPT ![i] = setClient(p)] /\ link' = [link EXCEPT ![p] = "up"]
    BY <1>4 DEF AcceptInto
  <2>2. i \in Slot
    BY <1>4, FirstFreeSlot
  <2> HIDE DEF i
  <2>3. /\ clients'[i] = setClient(p) /\ \A j \in Slot \ {i} : clients'[j] = clients[j]
        /\ link'[p] = "up" /\ \A q \in Peer \ {p} : link'[q] = link[q]
    BY <2>1, <2>2 DEF TypeInv, ClientsOK, Clients, LinkOK
  <2>4. \A q \in Peer : link'[q] \in {"new", "backlog"} => got'[q] = << >>
    BY <1>1, <2>3 DEF OutputOf
  <2>5. ASSUME NEW j \in Slot, hasClient(clients'[j])
        PROVE  StreamTo(Output(j)', clients'[j].fd, h)
    <3>1. CASE j = i
      <4>1. clients'[j].fd = p /\ clients'[j].out = << >> /\ got'[p] = << >>
        BY <1>1, <1>4, <2>3, <3>1 DEF setClient, OutputOf
      <4>2. Output(j)' = << >>
        BY <4>1 DEF Output
      <4> QED
        BY <4>2, EmptyStream
    <3>2. CASE j # i
      <4>1. clients'[j] = clients[j] /\ Output(j)' = Output(j)
        BY <1>1, <2>3, <3>2 DEF Output
      <4> QED
        BY <2>5, <4>1 DEF OutputOf
    <3> QED
      BY <3>1, <3>2
  <2> QED
    BY <1>1, <2>4, <2>5 DEF OutputOf
<1> QED
  BY <1>2, <1>3, <1>4 DEF Accept, AcceptInto

(* A pass that closes sockets. *)
LEMMA PassOutput ==
  ASSUME TypeInv, SlotsInv, NEW h, OutputOf(h), link' = LinksAfter(clients'), UNCHANGED <<got, produced>>,
         \A i \in Slot : hasClient(clients'[i]) =>
            clients'[i].fd = clients[i].fd /\ clients'[i].out = clients[i].out
  PROVE  OutputOf(h)'
<1>1. \A p \in Peer : link'[p] \in {"new", "backlog"} => link[p] \in {"new", "backlog"}
  BY PassLinks
<1>2. \A i \in Slot : hasClient(clients'[i]) => hasClient(clients[i]) /\ Output(i)' = Output(i)
  BY DEF hasClient, Output
<1> QED
  BY <1>1, <1>2, OutputsKept

LEMMA ReadAllOutput == ASSUME TypeInv, SlotsInv, NEW h, OutputOf(h), ReadAll PROVE OutputOf(h)'
<1>1. PICK most \in [Slot -> 1 .. RxSize], stale \in Stale :
        clients' = [i \in Slot |-> ReadOne(i, most[i], stale)]
  BY DEF ReadAll
<1>2. ASSUME NEW i \in Slot, hasClient(clients'[i])
      PROVE  clients'[i].fd = clients[i].fd /\ clients'[i].out = clients[i].out
  <2> DEFINE c == clients[i]
  <2>1. c \in ConnectionOf(Peer, OutPiece, InPiece)
    BY DEF TypeInv, ClientsOK, Clients
  <2>2. \E res, data : clients'[i] \in {c, stop(c), read(c, res, data)}
    BY <1>1 DEF ReadOne
  <2>3. PICK res, data : clients'[i] \in {c, stop(c), read(c, res, data)}
    BY <2>2
  <2> HIDE DEF c
  <2>4. stop(c).fd = NoClient
    BY <2>1 DEF stop, ConnectionOf
  <2>5. clients'[i] \in {c, [c EXCEPT !.in = @ \o data]}
    BY <1>2, <2>3, <2>4 DEF read, hasClient
  <2>6. clients'[i].fd = c.fd /\ clients'[i].out = c.out
    BY <2>1, <2>5 DEF ConnectionOf
  <2> QED
    BY <2>6 DEF c
<1> QED
  BY <1>2, PassOutput DEF ReadAll

LEMMA CheckAllOutput == ASSUME TypeInv, SlotsInv, NEW h, OutputOf(h), CheckAll PROVE OutputOf(h)'
<1>1. PICK stale \in Stale :
        clients' = [i \in Slot |-> IF connected(i, stale) THEN clients[i] ELSE stop(clients[i])]
  BY DEF CheckAll
<1>2. ASSUME NEW i \in Slot, hasClient(clients'[i])
      PROVE  clients'[i].fd = clients[i].fd /\ clients'[i].out = clients[i].out
  <2>1. clients[i] \in ConnectionOf(Peer, OutPiece, InPiece)
    BY DEF TypeInv, ClientsOK, Clients
  <2>2. stop(clients[i]).fd = NoClient
    BY <2>1 DEF stop, ConnectionOf
  <2>3. clients'[i] = clients[i]
    BY <1>1, <1>2, <2>2 DEF hasClient
  <2> QED
    BY <2>3
<1> QED
  BY <1>2, PassOutput DEF CheckAll

LEMMA LoopOutput ==
  ASSUME TypeInv, NEW h, OutputOf(h), OthersDone \/ SameTick \/ NextTick
  PROVE  OutputOf(h)'
<1>1. UNCHANGED net
  BY DEF OthersDone, SameTick, NextTick, Repeat
<1>2. \A i \in Slot : clients'[i].fd = clients[i].fd /\ clients'[i].out = clients[i].out
  <2>1. CASE UNCHANGED clients
    BY <2>1
  <2>2. CASE clients' = [i \in Slot |-> aged(clients[i])]
    BY <2>2 DEF aged, TypeInv, ClientsOK, Clients, ConnectionOf
  <2> QED
    BY <2>1, <2>2 DEF OthersDone, SameTick, NextTick, Repeat
<1>3. \A i \in Slot : Output(i)' = Output(i)
  BY <1>1, <1>2 DEF net, Output
<1> QED
  BY <1>1, <1>2, <1>3, OutputsKept DEF net, hasClient

(* What send accepts goes over from the slot to the socket. *)
LEMMA WriteOneOutput ==
  ASSUME TypeInv, NEW i \in Slot, NEW n \in 1 .. TxSize, n <= Len(clients[i].out) \/ n = 1,
         hasClient(WriteOne(i, n))
  PROVE  /\ hasClient(clients[i]) /\ WriteOne(i, n).fd = clients[i].fd
         /\ \E k \in 0 .. Len(clients[i].out) :
              /\ Accepted(i, n) = SubSeq(clients[i].out, 1, k)
              /\ WriteOne(i, n).out = SubSeq(clients[i].out, k + 1, Len(clients[i].out))
<1> DEFINE c == clients[i]
           res == Sendable(c.fd, n)
           d == WriteOne(i, n)
<1>1. hasClient(c) /\ d = writeOrClose(c, n, res)
  BY DEF WriteOne
<1>2. /\ c \in ConnectionOf(Peer, OutPiece, InPiece) /\ c.fd \in Peer
      /\ c.out \in Seq(OutPiece) /\ Len(c.out) \in Nat /\ room[c.fd] \in Nat
  BY <1>1, OutputTyped, LenProperties DEF TypeInv, ClientsOK, Clients, RoomOK
<1>3. SubSeq(c.out, 1, 0) = << >> /\ SubSeq(c.out, 0 + 1, Len(c.out)) = c.out /\ 0 \in 0 .. Len(c.out)
  <2> HIDE DEF c
  <2>1. SubSeq(c.out, 1, 0) = << >>
    BY <1>2, SubSeqEmpty
  <2>2. SubSeq(c.out, 1, Len(c.out)) = c.out
    BY <1>2, SubSeqFull
  <2> QED
    BY <1>2, <2>1, <2>2
<1>4. CASE c.out = << >>
  <2>1. d = [c EXCEPT !.pendingWrite = FALSE] /\ Accepted(i, n) = << >>
    BY <1>1, <1>4 DEF writeOrClose, Accepted
  <2>2. d.fd = c.fd /\ d.out = c.out
    BY <1>2, <2>1 DEF ConnectionOf
  <2> HIDE DEF d
  <2>3. /\ Accepted(i, n) = SubSeq(c.out, 1, 0)
        /\ d.out = SubSeq(c.out, 0 + 1, Len(c.out))
    BY <1>3, <2>1, <2>2
  <2> QED
    BY <1>1, <1>3, <2>2, <2>3 DEF d
<1>5. CASE c.out # << >>
  <2>1. n \in 1 .. Len(c.out) /\ res \in (1 .. n) \cup {Again, Failed}
    <3>1. n \in 1 .. Len(c.out)
      BY <1>2, <1>5, EmptySeq
    <3> QED
      BY <1>2, <3>1 DEF Sendable
  <2>2. Accepted(i, n) = IF res \in {Again, Failed} THEN << >> ELSE SubSeq(c.out, 1, res)
    BY <1>1, <1>5 DEF Accepted
  <2> DEFINE w == SendResult(c, n, res)
  <2>3. d \in {w, stop(w)}
    BY <1>1, <1>5 DEF writeOrClose
  <2>4. d.fd # NoClient
    BY DEF hasClient
  <2> HIDE DEF c, d, res
  <2>5. CASE res = Again
    <3>1. w = c /\ Accepted(i, n) = << >>
      BY <2>2, <2>5 DEF SendResult, Again, Failed
    <3>2. stop(c).fd = NoClient
      BY <1>2 DEF stop, ConnectionOf
    <3>3. d = c
      BY <2>3, <2>4, <3>1, <3>2
    <3> QED
      BY <1>1, <1>3, <3>1, <3>3 DEF c, d
  <2>6. CASE res = Failed
    <3>1. w = stop(c) /\ stop(c).fd = NoClient /\ stop(w).fd = NoClient
      BY <1>2, <2>6 DEF SendResult, stop, ConnectionOf, Again, Failed
    <3> QED
      BY <2>3, <2>4, <3>1
  <2>7. CASE res \in 1 .. n
    <3>1. /\ w.fd = c.fd /\ "fd" \in DOMAIN w
          /\ w.out = SubSeq(c.out, res + 1, Len(c.out))
      <4> DEFINE rest == SubSeq(c.out, res + 1, Len(c.out))
      <4>1. rest = SubSeq(c.out, res + 1, Len(c.out))
        OBVIOUS
      <4> HIDE DEF rest
      <4>2. res # Again /\ res # Failed /\ res > 0
        BY <2>1, <2>7 DEF Again, Failed
      <4>3. w = LET sent == [c EXCEPT !.out = rest]
                IN  IF res >= n THEN [sent EXCEPT !.pendingWrite = FALSE]
                    ELSE IF ~c.pendingWrite THEN [sent EXCEPT !.pendingWrite = TRUE, !.age = 0]
                    ELSE [sent EXCEPT !.writeError = @ \/ c.age >= WriteTimeout]
        BY <4>1, <4>2 DEF SendResult
      <4> HIDE DEF w
      <4>4. w.fd = c.fd /\ "fd" \in DOMAIN w /\ w.out = rest
        BY <1>2, <4>3 DEF ConnectionOf
      <4> QED
        BY <4>1, <4>4
    <3> HIDE DEF w
    <3>2. stop(w).fd = NoClient
      BY <3>1 DEF stop
    <3>3. d = w
      BY <2>3, <2>4, <3>2
    <3>4. Accepted(i, n) = SubSeq(c.out, 1, res)
      BY <2>1, <2>2, <2>7 DEF Again, Failed
    <3>5. res \in 0 .. Len(c.out)
      BY <2>1, <2>7
    <3>6. /\ hasClient(c) /\ d.fd = c.fd
          /\ Accepted(i, n) = SubSeq(c.out, 1, res) /\ d.out = SubSeq(c.out, res + 1, Len(c.out))
      BY <1>1, <3>1, <3>3, <3>4
    <3> QED
      BY <3>5, <3>6 DEF c, d
  <2> QED
    BY <2>1, <2>5, <2>6, <2>7
<1> QED
  BY <1>4, <1>5

LEMMA WriteAllOutput == ASSUME TypeInv, SlotsInv, NEW h, OutputOf(h), WriteAll PROVE OutputOf(h)'
<1>1. PICK part \in [Slot -> 1 .. TxSize] :
        /\ \A i \in Slot : part[i] <= Len(clients[i].out) \/ part[i] = 1
        /\ clients' = [i \in Slot |-> WriteOne(i, part[i])]
        /\ got' = [p \in Peer |->
             IF \E i \in Slot : clients[i].fd = p
             THEN LET i == CHOOSE i \in Slot : clients[i].fd = p
                  IN  got[p] \o Accepted(i, part[i])
             ELSE got[p]]
  BY DEF WriteAll
<1>2. UNCHANGED produced /\ link' = LinksAfter(clients')
  BY DEF WriteAll
<1>3. \A p \in Peer : link'[p] \in {"new", "backlog"} =>
         link[p] \in {"new", "backlog"} /\ got'[p] = got[p]
  <2> SUFFICES ASSUME NEW p \in Peer, link'[p] \in {"new", "backlog"}
               PROVE  link[p] \in {"new", "backlog"} /\ got'[p] = got[p]
    OBVIOUS
  <2>1. link[p] \in {"new", "backlog"} /\ \A i \in Slot : clients[i].fd # p
    BY <1>2, PassLinks
  <2> QED
    BY <1>1, <2>1
<1>4. ASSUME NEW i \in Slot, hasClient(clients'[i])
      PROVE  hasClient(clients[i]) /\ clients'[i].fd = clients[i].fd /\ Output(i)' = Output(i)
  <2> DEFINE n == part[i]
             p == clients[i].fd
             u == got[p]
             a == clients[i].out
  <2>1. /\ n \in 1 .. TxSize /\ (n <= Len(clients[i].out) \/ n = 1)
        /\ clients'[i] = WriteOne(i, n) /\ hasClient(WriteOne(i, n))
    BY <1>1, <1>4
  <2> HIDE DEF n
  <2>2. /\ hasClient(clients[i]) /\ WriteOne(i, n).fd = clients[i].fd
        /\ \E k \in 0 .. Len(clients[i].out) :
             /\ Accepted(i, n) = SubSeq(clients[i].out, 1, k)
             /\ WriteOne(i, n).out = SubSeq(clients[i].out, k + 1, Len(clients[i].out))
    BY <2>1, WriteOneOutput
  <2>3. PICK k \in 0 .. Len(a) :
          Accepted(i, n) = SubSeq(a, 1, k) /\ WriteOne(i, n).out = SubSeq(a, k + 1, Len(a))
    BY <2>2
  <2>4. p \in Peer /\ u \in Seq(OutPiece) /\ a \in Seq(OutPiece)
    BY <2>2, OutputTyped
  <2>5. (CHOOSE j \in Slot : clients[j].fd = p) = i
    <3>1. \A j \in Slot : clients[j].fd = p => j = i
      BY <2>2 DEF SlotsInv
    <3> QED
      BY <3>1
  <2>6. got'[p] = u \o Accepted(i, part[i])
    BY <1>1, <2>4, <2>5
  <2>7. got'[p] = u \o SubSeq(a, 1, k) /\ clients'[i].out = SubSeq(a, k + 1, Len(a))
    BY <2>1, <2>3, <2>6 DEF n
  <2>8. clients'[i].fd = p
    BY <2>1, <2>2
  <2>9. Output(i)' = got'[p] \o clients'[i].out
    BY <2>8 DEF Output
  <2> HIDE DEF p, u, a
  <2>10. (u \o SubSeq(a, 1, k)) \o SubSeq(a, k + 1, Len(a)) = u \o a
    BY <2>4, PiecesMoved
  <2>11. Output(i)' = u \o a
    BY <2>7, <2>9, <2>10
  <2> QED
    BY <2>2, <2>8, <2>11 DEF Output, p, u, a
<1> QED
  BY <1>2, <1>3, <1>4, OutputsKept
-----------------------------------------------------------------------------
(* A message is handed out: in whole or not at all it goes to the end of   *)
(* every output but that of its source.                                    *)
LEMMA SendToOutput ==
  ASSUME TypeInv, NEW h \in HandedOut, OutputOf(h), NEW q \in Peer \cup {Bus}, h[q] % 2 = 0,
         NEW source, NEW stale, NEW i \in Slot, hasClient(clients[i]),
         clients[i].fd = q => i = source - minId
  PROVE  LET d == SendTo(Message(q, h[q]), source, stale)[i]
         IN  d.fd = clients[i].fd /\ StreamTo(got[clients[i].fd] \o d.out, clients[i].fd, HandOut(h, q))
<1> DEFINE m == Message(q, h[q])
           p == clients[i].fd
           u == got[p]
           v == clients[i].out
           d == SendTo(m, source, stale)[i]
<1>1. p \in Peer /\ u \in Seq(OutPiece) /\ v \in Seq(OutPiece) /\ u \o v \in Seq(OutPiece)
  BY OutputTyped DEF Output
<1>2. StreamTo(u \o v, p, h)
  BY DEF OutputOf, Output
<1>3. clients[i] \in ConnectionOf(Peer, OutPiece, InPiece)
  BY DEF TypeInv, ClientsOK, Clients
<1>4. m \in Seq(OutPiece)
  <2>1. h[q] \in Nat
    BY DEF HandedOut
  <2> QED
    BY <2>1, MessageTyped
<1> HIDE DEF m
<1>5. d.fd = p /\ (d.out = v \/ (d.out = v \o m /\ q # p))
  BY <1>3 DEF SendTo, enqueue, ConnectionOf
<1> HIDE DEF d, p, u, v
<1>6. StreamTo(u \o v, p, HandOut(h, q))
  <2> DEFINE s == u \o v
  <2>1. s \in Seq(OutPiece) /\ StreamTo(s, p, h)
    BY <1>1, <1>2
  <2> HIDE DEF s
  <2>2. StreamTo(s, p, HandOut(h, q))
    BY <2>1, MoreHandedOut
  <2> QED
    BY <2>2 DEF s
<1>7. CASE d.out = v \o m /\ q # p
  <2> DEFINE s == u \o v
  <2>1. s \in Seq(OutPiece) /\ StreamTo(s, p, h)
    BY <1>1, <1>2
  <2>2. u \o (v \o m) = s \o m
    BY <1>1, <1>4, ConcatAssociative
  <2> HIDE DEF s
  <2>3. StreamTo(s \o Message(q, h[q]), p, HandOut(h, q))
    BY <1>7, <2>1, MessageAppended
  <2>4. StreamTo(u \o d.out, p, HandOut(h, q))
    BY <1>7, <2>2, <2>3 DEF m
  <2> QED
    BY <1>5, <2>4 DEF d, p, u, m
<1>8. CASE d.out = v
  BY <1>5, <1>6, <1>8 DEF d, p, u, m
<1> QED
  BY <1>5, <1>7, <1>8

LEMMA OtherChannelOutput ==
  ASSUME TypeInv, SlotsInv, NEW h \in HandedOut, OutputOf(h), OtherChannel
  PROVE  OutputOf(HandOut(h, Bus))'
<1> DEFINE g == HandOut(h, Bus)
<1>1. h[Bus] = produced[Bus] /\ h[Bus] \in Nat /\ h[Bus] % 2 = 0
  <2>1. PICK k \in Nat : produced[Bus] = 2 * k
    BY DEF TypeInv, ProducedOK
  <2>2. (2 * k) % 2 = 0 /\ 2 * k \in Nat
    BY <2>1, SMTT(30)
  <2>3. h[Bus] = produced[Bus]
    BY DEF OutputOf
  <2> QED
    BY <2>1, <2>2, <2>3
<1>2. g[Bus] = produced'[Bus]
  BY <1>1 DEF OtherChannel, TypeInv, ProducedOK, HandOut, HandedOut
<1>3. PICK stale \in Stale : clients' = SendTo(Message(Bus, h[Bus]), minId - 1, stale)
  BY <1>1 DEF OtherChannel, Message
<1>4. UNCHANGED <<link, got>>
  BY DEF OtherChannel
<1>5. ASSUME NEW i \in Slot, hasClient(clients'[i])
      PROVE  StreamTo(Output(i)', clients'[i].fd, g)
  <2>1. clients'[i].fd = clients[i].fd
    BY <1>3, SendToKeeps DEF Keeps
  <2>2. hasClient(clients[i])
    BY <1>5, <2>1 DEF hasClient
  <2>3. clients[i].fd # Bus
    BY <2>2, OutputTyped, ServerAssumption
  <2> DEFINE d == SendTo(Message(Bus, h[Bus]), minId - 1, stale)[i]
  <2>4. d.fd = clients[i].fd /\ StreamTo(got[clients[i].fd] \o d.out, clients[i].fd, g)
    BY <1>1, <2>2, <2>3, SendToOutput
  <2>5. clients'[i] = d
    BY <1>3
  <2> HIDE DEF d, g
  <2>6. Output(i)' = got[clients[i].fd] \o d.out
    BY <1>4, <2>1, <2>5 DEF Output
  <2> QED
    BY <2>1, <2>4, <2>6
<1>6. \A p \in Peer : link'[p] \in {"new", "backlog"} => got'[p] = << >>
  BY <1>4 DEF OutputOf
<1> HIDE DEF g
<1>7. OutputOf(g)'
  BY <1>2, <1>5, <1>6 DEF OutputOf
<1> QED
  BY <1>7 DEF g

LEMMA readMessagesOutput ==
  ASSUME TypeInv, SlotsInv, NEW h \in HandedOut, InputOf(h), OutputOf(h), readMessages, ~UNCHANGED clients,
         NEW p, p = clients[slot].fd
  PROVE  OutputOf(HandOut(h, p))'
<1> DEFINE g == HandOut(h, p)
<1>1. /\ p \in Peer /\ h[p] \in Nat /\ h[p] % 2 = 0
      /\ FirstMessage(clients[slot]) = Message(p, h[p])
  BY readMessagesInput DEF Message
<1>2. slot \in Slot /\ hasClient(clients[slot]) /\ UNCHANGED net
  BY MessageRead
<1>3. PICK stale :
        LET sentTo == SendTo(FirstMessage(clients[slot]), minId + slot, stale)
        IN  /\ clients'[slot] = withoutFirst(sentTo[slot])
            /\ \A i \in Slot \ {slot} : clients'[i] = sentTo[i]
            /\ \A i \in Slot : IsConnection(sentTo[i])
  BY MessageRead
<1>4. \A i \in Slot : clients'[i].fd = clients[i].fd
  BY MessageRead
<1>5. ASSUME NEW i \in Slot, hasClient(clients'[i])
      PROVE  StreamTo(Output(i)', clients'[i].fd, g)
  <2>1. clients'[i].fd = clients[i].fd /\ hasClient(clients[i])
    BY <1>4, <1>5 DEF hasClient
  <2> DEFINE source == minId + slot
  <2>2. clients[i].fd = p => i = source - minId
    <3>1. clients[i].fd = p => i = slot
      BY <1>2, <2>1 DEF SlotsInv
    <3>2. slot \in Nat /\ minId \in Nat
      BY <1>2, ServerAssumption DEF Slot
    <3> QED
      BY <3>1, <3>2
  <2> HIDE DEF source
  <2> DEFINE d == SendTo(Message(p, h[p]), source, stale)[i]
  <2>3. d.fd = clients[i].fd /\ StreamTo(got[clients[i].fd] \o d.out, clients[i].fd, g)
    BY <1>1, <2>1, <2>2, SendToOutput
  <2>4. clients'[i] \in {d, withoutFirst(d)} /\ IsConnection(d)
    BY <1>1, <1>3 DEF source
  <2> HIDE DEF d, g
  <2>5. clients'[i].out = d.out
    BY <2>4 DEF withoutFirst, IsConnection, IsConnectionOf, ConnectionOf
  <2>6. Output(i)' = got[clients[i].fd] \o d.out
    BY <1>2, <2>1, <2>5 DEF Output, net
  <2> QED
    BY <2>1, <2>3, <2>6
<1>6. \A q \in Peer : link'[q] \in {"new", "backlog"} => got'[q] = << >>
  BY <1>2 DEF OutputOf, net
<1>7. g[Bus] = produced'[Bus]
  BY <1>1, <1>2, ServerAssumption DEF OutputOf, net, HandOut, HandedOut
<1> HIDE DEF g
<1>8. OutputOf(g)'
  BY <1>5, <1>6, <1>7 DEF OutputOf
<1> QED
  BY <1>8 DEF g
-----------------------------------------------------------------------------
(* What is still to be processed and what is in the outputs. *)
StreamsOf(h) == InputOf(h) /\ OutputOf(h)

LEMMA InitStreams == ASSUME Init PROVE NothingHandedOut \in HandedOut /\ StreamsOf(NothingHandedOut)
<1>1. NothingHandedOut[Bus] = produced[Bus]
  BY DEF Init, NothingHandedOut
<1>2. \A i \in Slot : ~hasClient(clients[i])
  BY DEF Init, setClient, hasClient
<1>3. \A p \in Peer : got[p] = << >>
  BY DEF Init
<1> QED
  BY <1>1, <1>2, <1>3, InitInput DEF StreamsOf, OutputOf

(* Of the peers only what they have been handed out counts for what the    *)
(* slots still have to process.                                            *)
LEMMA BusIsNoInput ==
  ASSUME TypeInv', NEW h \in HandedOut, InputOf(h)'
  PROVE  InputOf(HandOut(h, Bus))'
<1> DEFINE g == HandOut(h, Bus)
<1>1. \A p \in Peer : g[p] = h[p]
  BY ServerAssumption DEF HandOut, HandedOut
<1>2. \A i \in Slot : hasClient(clients'[i]) => clients'[i].fd \in Peer
  BY DEF TypeInv, ClientsOK, Clients, ConnectionOf, hasClient
<1> HIDE DEF g
<1>3. WaitingOK(g)'
  BY <1>1 DEF InputOf, WaitingOK
<1>4. SlotsFollow(g)'
  BY <1>1, <1>2 DEF InputOf, SlotsFollow
<1> QED
  BY <1>3, <1>4 DEF InputOf, g

LEMMA HandOutTyped ==
  ASSUME NEW h \in HandedOut, NEW q \in Peer \cup {Bus}
  PROVE  HandOut(h, q) \in HandedOut
BY DEF HandOut, HandedOut

LEMMA NextStreams ==
  ASSUME IInv, NEW h \in HandedOut, StreamsOf(h), [Next]_vars
  PROVE  \E g \in HandedOut : StreamsOf(g)'
<1>1. TypeInv /\ SlotsInv /\ TypeInv' /\ InputOf(h) /\ OutputOf(h)
  BY NextKeeps DEF IInv, StreamsOf
<1>2. CASE PeerStep
  <2>1. InputOf(h)' /\ OutputOf(h)'
    BY <1>1, <1>2, PeersInput, PeersOutput
  <2> QED
    BY <2>1 DEF StreamsOf
<1>3. CASE Accept("acceptRead", "read") \/ Accept("acceptWrite", "write")
  <2>1. InputOf(h)' /\ OutputOf(h)'
    BY <1>1, <1>3, AcceptInput, AcceptOutput
  <2> QED
    BY <2>1 DEF StreamsOf
<1>4. CASE ReadAll \/ WriteAll \/ CheckAll
  <2>1. InputOf(h)'
    BY <1>1, <1>4, ReadAllInput, WriteAllInput, CheckAllInput
  <2>2. OutputOf(h)'
    BY <1>1, <1>4, ReadAllOutput, WriteAllOutput, CheckAllOutput
  <2> QED
    BY <2>1, <2>2 DEF StreamsOf
<1>5. CASE OthersDone \/ SameTick \/ NextTick
  <2>1. InputOf(h)' /\ OutputOf(h)'
    BY <1>1, <1>5, LoopInput, LoopOutput
  <2> QED
    BY <2>1 DEF StreamsOf
<1>6. CASE OtherChannel
  <2> DEFINE g == HandOut(h, Bus)
  <2>1. InputOf(h)'
    BY <1>1, <1>6, OtherChannelInput
  <2>2. InputOf(g)' /\ OutputOf(g)' /\ g \in HandedOut
    BY <1>1, <1>6, <2>1, BusIsNoInput, OtherChannelOutput, HandOutTyped
  <2> HIDE DEF g
  <2> QED
    BY <2>2 DEF StreamsOf
<1>7. CASE readMessages /\ UNCHANGED clients
  <2>1. InputOf(h)'
    BY <1>1, <1>7, StillInput DEF readMessages, net
  <2>2. OutputOf(h)'
    BY <1>1, <1>7 DEF readMessages, net, OutputOf, Output
  <2> QED
    BY <2>1, <2>2 DEF StreamsOf
<1>8. CASE readMessages /\ ~UNCHANGED clients
  <2>1. PICK p : p = clients[slot].fd
    OBVIOUS
  <2> DEFINE g == HandOut(h, p)
  <2>2. p \in Peer /\ InputOf(g)'
    BY <1>1, <1>8, <2>1, readMessagesInput
  <2>3. OutputOf(g)'
    BY <1>1, <1>8, <2>1, readMessagesOutput
  <2>4. g \in HandedOut
    BY <2>2, HandOutTyped
  <2> HIDE DEF g
  <2> QED
    BY <2>2, <2>3, <2>4 DEF StreamsOf
<1>9. CASE UNCHANGED vars
  <2>1. InputOf(h)'
    BY <1>1, <1>9 DEF vars, InputOf, WaitingOK, SlotsFollow, Follows
  <2>2. OutputOf(h)'
    BY <1>1, <1>9 DEF vars, OutputOf, Output
  <2> QED
    BY <2>1, <2>2 DEF StreamsOf
<1> QED
  BY <1>2, <1>3, <1>4, <1>5, <1>6, <1>7, <1>8, <1>9 DEF Next, MainLoop

StreamsInv == \E h \in HandedOut : StreamsOf(h)

(* What a client gets is a stream of whole messages of other sources, in   *)
(* their order and without repetition, however full the buffers are,       *)
(* however sends are cut and whoever had the slot before.                  *)
THEOREM ServerOutputFramed == Spec => []OutputFramed
<1>1. Init => IInv /\ StreamsInv
  BY InitTyped, InitStreams DEF StreamsInv
<1>2. IInv /\ StreamsInv /\ [Next]_vars => (IInv /\ StreamsInv)'
  BY NextKeeps, NextStreams DEF StreamsInv
<1>3. IInv /\ StreamsInv => OutputFramed
  BY OutputOfIsFramed DEF StreamsInv, StreamsOf
<1> QED
  BY <1>1, <1>2, <1>3, PTL DEF Spec
=============================================================================

--------------------------- MODULE GwSocketServer ---------------------------
(***************************************************************************)
(* The NMEA0183 TCP server (lib/socketserver/GwSocketServer.cpp): slots    *)
(* for a limited number of clients, used by the main loop in this order:   *)
(* loop(read), loop(write), sendToClients for what other channels receive, *)
(* readMessages.  Whenever a message is forwarded the main loop calls      *)
(* loop(write) again, also from inside readMessages, where it may close    *)
(* the slot that is being read and give it to somebody else.               *)
(*                                                                         *)
(* A socket is identified with its peer, who connects once; the peers act  *)
(* between the steps.  In one pass over the slots each slot only touches   *)
(* its own socket, so that the pass is one step.                           *)
(***************************************************************************)
EXTENDS GwSocketConnection, FiniteSets

CONSTANTS
  Peer,         (* the peers that may connect                              *)
  maxClients,   (* the number of slots                                     *)
  Bus,          (* the source id of everything that is not a TCP client    *)
  Window,       (* pieces a socket takes before send fails with EAGAIN     *)
  Lines,        (* bound: source -> number of messages it sends            *)
  minId         (* source id of slot 0                                     *)

ASSUME ServerAssumption ==
  /\ maxClients \in Nat \ {0} /\ Window \in Nat \ {0} /\ minId \in Nat
  /\ Lines \in [Peer \cup {Bus} -> Nat]
  /\ NoClient \notin Peer /\ Bus \notin Peer

Slot == 0 .. maxClients - 1

VARIABLES
  clients,      (* slot -> connection                                      *)
  link,         (* peer -> state of its TCP connection                     *)
  arriving,     (* peer -> pieces sent by it and not yet received          *)
  got,          (* peer -> pieces that send has accepted for it            *)
  room,         (* peer -> pieces its socket takes now                     *)
  produced,     (* source -> number of pieces it has produced              *)
  at, slot      (* where the main loop is                                  *)

vars == <<clients, link, arriving, got, room, produced, at, slot>>
net == <<link, arriving, got, room, produced>>

(* Sockets that the server has accepted and not closed. *)
Open == {p \in Peer : link[p] \in {"up", "eof", "reset"}}

(* recv(fd, 0 bytes) fails on a broken connection and when nothing waits;  *)
(* otherwise it returns 0 and leaves an errno of some earlier call, which  *)
(* connected() looks at all the same: for the slots in stale it is one of  *)
(* the errors that mean a lost connection.                                 *)
ReturnsZero(c) == hasClient(c) /\ (link[c.fd] = "eof" \/ arriving[c.fd] # << >>)
Stale == SUBSET {i \in Slot : ReturnsZero(clients[i])}
connected(i, stale) ==
  hasClient(clients[i]) /\ link[clients[i].fd] # "reset" /\ i \notin stale

(* close() for every socket that a step has let go of. *)
Held(slots) == {slots[i].fd : i \in Slot} \ {NoClient}
LinksAfter(slots) ==
  [p \in Peer |-> IF p \in Held(clients) \ Held(slots) THEN "closed" ELSE link[p]]

Init ==
  /\ clients = [i \in Slot |-> setClient(NoClient)]
  /\ link = [p \in Peer |-> "new"]
  /\ arriving = [p \in Peer |-> << >>]
  /\ got = [p \in Peer |-> << >>]
  /\ room = [p \in Peer |-> Window]
  /\ produced = [s \in Peer \cup {Bus} |-> 0]
  /\ at = "acceptRead" /\ slot = 0
-----------------------------------------------------------------------------
(* The peers and the network. *)
Connect(p) ==
  /\ link[p] = "new" /\ link' = [link EXCEPT ![p] = "backlog"]
  /\ UNCHANGED <<clients, arriving, got, room, produced, at, slot>>

PeerSends(p) ==
  /\ link[p] \in {"backlog", "up"} /\ produced[p] < 2 * Lines[p]
  /\ produced' = [produced EXCEPT ![p] = @ + 1]
  /\ arriving' = [arriving EXCEPT ![p] = Append(@, <<p, produced[p] + 1>>)]
  /\ UNCHANGED <<clients, link, got, room, at, slot>>

PeerReads(p) ==
  /\ link[p] = "up" /\ room[p] < Window
  /\ room' = [room EXCEPT ![p] = Window]
  /\ UNCHANGED <<clients, link, arriving, got, produced, at, slot>>

(* The peer closes (what it sent is still received), or the connection     *)
(* breaks.                                                                 *)
PeerEnds(p, how) ==
  /\ link[p] = "up" /\ how \in {"eof", "reset"}
  /\ link' = [link EXCEPT ![p] = how]
  /\ arriving' = IF how = "reset" THEN [arriving EXCEPT ![p] = << >>] ELSE arriving
  /\ UNCHANGED <<clients, got, room, produced, at, slot>>

PeerStep == \E p \in Peer :
  Connect(p) \/ PeerSends(p) \/ PeerReads(p) \/ \E how \in {"eof", "reset"} : PeerEnds(p, how)
-----------------------------------------------------------------------------
(* Faulty variants of the definitions below; each breaks a property. *)
setClientKeepsBuffers(fd, old) == [old EXCEPT !.fd = fd, !.pendingWrite = FALSE]
AcceptIntoKeepsBuffers(p) ==
  IF \E i \in Slot : ~hasClient(clients[i])
  THEN LET i == CHOOSE i \in Slot :
                  ~hasClient(clients[i]) /\ \A j \in Slot : j < i => hasClient(clients[j])
       IN  /\ clients' = [clients EXCEPT ![i] = setClientKeepsBuffers(p, @)]
           /\ link' = [link EXCEPT ![p] = "up"]
  ELSE link' = [link EXCEPT ![p] = "closed"] /\ UNCHANGED clients
AcceptIntoLast(p) ==
  /\ clients' = [clients EXCEPT ![maxClients - 1] = setClient(p)]
  /\ link' = [link EXCEPT ![p] = "up"]
SendToToAll(m, source, stale) ==
  [i \in Slot |-> IF connected(i, stale) THEN enqueue(clients[i], m) ELSE clients[i]]
-----------------------------------------------------------------------------
(* A new socket goes to the first free slot, or is closed again. *)
AcceptInto(p) ==
  IF \E i \in Slot : ~hasClient(clients[i])
  THEN LET i == CHOOSE i \in Slot :
                  ~hasClient(clients[i]) /\ \A j \in Slot : j < i => hasClient(clients[j])
       IN  /\ clients' = [clients EXCEPT ![i] = setClient(p)]
           /\ link' = [link EXCEPT ![p] = "up"]
  ELSE link' = [link EXCEPT ![p] = "closed"] /\ UNCHANGED clients

(* available(): nobody waits, setKeepAlive fails, or a new client. *)
Accept(from, to) ==
  /\ at = from /\ at' = to
  /\ \/ /\ \A p \in Peer : link[p] # "backlog"
        /\ UNCHANGED <<clients, link>>
     \/ \E p \in Peer :
          /\ link[p] = "backlog"
          /\ \/ link' = [link EXCEPT ![p] = "closed"] /\ UNCHANGED clients
             \/ AcceptInto(p)
  /\ UNCHANGED <<arriving, got, room, produced, slot>>

(* Second part of loop(true, false): whoever is still connected is read.   *)
(* most[i] is the contiguous part of readBuffer that recv may fill.        *)
ReadOne(i, most, stale) ==
  LET c == clients[i]
      p == c.fd
      n == IF most < Len(arriving[p]) THEN most ELSE Len(arriving[p])
  IN  IF ~hasClient(c) THEN c
      ELSE IF ~connected(i, stale) THEN stop(c)
      ELSE IF n > 0 THEN read(c, n, SubSeq(arriving[p], 1, n))
      ELSE read(c, IF link[p] = "eof" THEN Shutdown ELSE Again, << >>)

ReadAll ==
  /\ at = "read" /\ at' = "acceptWrite"
  /\ \E most \in [Slot -> 1 .. RxSize], stale \in Stale :
       /\ \A i \in Slot : most[i] <= RxSize - Len(clients[i].in) \/ most[i] = 1
       /\ clients' = [i \in Slot |-> ReadOne(i, most[i], stale)]
  /\ link' = LinksAfter(clients')
  /\ arriving' = [p \in Peer |->
       IF \E i \in Slot : clients[i].fd = p
       THEN LET i == CHOOSE i \in Slot : clients[i].fd = p
            IN  SubSeq(arriving[p], Len(clients'[i].in) - Len(clients[i].in) + 1, Len(arriving[p]))
       ELSE arriving[p]]
  /\ UNCHANGED <<got, room, produced, slot>>

(* First part of loop(false, true); part[i] is how many pieces fetchData   *)
(* offers to send (up to the end of its array).                            *)
Sendable(p, n) ==
  IF link[p] = "reset" THEN Failed
  ELSE IF room[p] = 0 THEN Again
  ELSE IF n < room[p] THEN n ELSE room[p]

WriteOne(i, n) ==
  IF ~hasClient(clients[i]) THEN clients[i]
  ELSE writeOrClose(clients[i], n, Sendable(clients[i].fd, n))

(* Pieces of slot i that send has accepted. *)
Accepted(i, n) ==
  IF ~hasClient(clients[i]) \/ clients[i].out = << >> THEN << >>
  ELSE LET res == Sendable(clients[i].fd, n)
       IN  IF res \in {Again, Failed} THEN << >> ELSE SubSeq(clients[i].out, 1, res)

WriteAll ==
  /\ at = "write" /\ at' = "check"
  /\ \E part \in [Slot -> 1 .. TxSize] :
       /\ \A i \in Slot : part[i] <= Len(clients[i].out) \/ part[i] = 1
       /\ clients' = [i \in Slot |-> WriteOne(i, part[i])]
       /\ got' = [p \in Peer |->
            IF \E i \in Slot : clients[i].fd = p
            THEN LET i == CHOOSE i \in Slot : clients[i].fd = p
                 IN  got[p] \o Accepted(i, part[i])
            ELSE got[p]]
  /\ room' = [p \in Peer |-> room[p] - (Len(got'[p]) - Len(got[p]))]
  /\ link' = LinksAfter(clients')
  /\ UNCHANGED <<arriving, produced, slot>>

(* Second part of loop(false, true): nothing is read.  It was called by    *)
(* the main loop itself or for a message of readMessages.                  *)
Resume == IF slot = 0 THEN "send" ELSE IF slot < maxClients THEN "messages" ELSE "rest"

CheckAll ==
  /\ at = "check" /\ at' = Resume
  /\ \E stale \in Stale : clients' = [i \in Slot |->
       IF connected(i, stale) THEN clients[i] ELSE stop(clients[i])]
  /\ link' = LinksAfter(clients')
  /\ UNCHANGED <<arriving, got, room, produced, slot>>
-----------------------------------------------------------------------------
(* sendToClients: every connected client but the one it came from. *)
SendTo(m, source, stale) ==
  [i \in Slot |-> IF i # source - minId /\ connected(i, stale)
                  THEN enqueue(clients[i], m) ELSE clients[i]]

(* A message of another channel, before or after the messages of this one: *)
(* after an NMEA0183 message loop(write) follows, after an N2K one not.    *)
OtherChannel ==
  /\ at \in {"send", "rest"} /\ at' \in {at, "acceptWrite"}
  /\ produced[Bus] < 2 * Lines[Bus]
  /\ produced' = [produced EXCEPT ![Bus] = @ + 2]
  /\ LET m == <<<<Bus, produced[Bus] + 1>>, <<Bus, produced[Bus] + 2>>>>
     IN  \E stale \in Stale : clients' = SendTo(m, minId - 1, stale)
  /\ UNCHANGED <<link, arriving, got, room, slot>>

OthersDone == at = "send" /\ at' = "messages" /\ UNCHANGED <<clients, net, slot>>

(* readMessages: at most one message of each slot, forwarded at once. *)
readMessages ==
  /\ at = "messages" /\ slot' = slot + 1
  /\ IF hasClient(clients[slot]) /\ HasMessage(clients[slot])
     THEN /\ \E stale \in Stale :
               LET sentTo == SendTo(FirstMessage(clients[slot]), minId + slot, stale)
               IN  clients' = [sentTo EXCEPT ![slot] = withoutFirst(@)]
          /\ at' = "acceptWrite"
     ELSE /\ at' = IF slot + 1 < maxClients THEN "messages" ELSE "rest"
          /\ UNCHANGED clients
  /\ UNCHANGED net

(* The next iteration of the main loop, later or in the same clock tick. *)
Repeat(after) ==
  /\ at = "rest" /\ at' = "acceptRead" /\ slot' = 0
  /\ clients' = after
  /\ UNCHANGED net
SameTick == Repeat(clients)
NextTick == Repeat([i \in Slot |-> aged(clients[i])])

MainLoop ==
  \/ Accept("acceptRead", "read")
  \/ ReadAll
  \/ Accept("acceptWrite", "write")
  \/ WriteAll
  \/ CheckAll
  \/ OtherChannel
  \/ OthersDone
  \/ readMessages
  \/ SameTick
  \/ NextTick

Next == PeerStep \/ MainLoop

Spec == Init /\ [][Next]_vars

(* The main loop never stops, and time passes. *)
FairSpec == Spec /\ WF_vars(MainLoop) /\ SF_vars(NextTick)
-----------------------------------------------------------------------------
Connections ==
  [fd : Peer \cup {NoClient}, out : Seq((Peer \cup {Bus}) \X Nat),
   in : Seq(Peer \X Nat), pendingWrite : BOOLEAN, writeError : BOOLEAN,
   age : 0 .. WriteTimeout]

TypeOK ==
  /\ clients \in [Slot -> Connections]
  /\ \A i \in Slot : Len(clients[i].out) <= TxSize /\ Len(clients[i].in) <= RxSize
  /\ link \in [Peer -> {"new", "backlog", "up", "eof", "reset", "closed"}]
  /\ arriving \in [Peer -> Seq(Peer \X Nat)]
  /\ got \in [Peer -> Seq((Peer \cup {Bus}) \X Nat)]
  /\ room \in [Peer -> 0 .. Window]
  /\ \A s \in Peer \cup {Bus} : produced[s] \in 0 .. 2 * Lines[s]
  /\ at \in {"acceptRead", "read", "acceptWrite", "write", "check",
              "send", "messages", "rest"}
  /\ slot \in 0 .. maxClients

(* Every socket the server has open is in exactly one slot, and no slot    *)
(* holds a closed one: nothing leaks when clients come and go, and no two  *)
(* slots read from or close the same socket.                               *)
SocketsInSlots ==
  /\ Held(clients) = Open
  /\ Cardinality(Open) = Cardinality({i \in Slot : hasClient(clients[i])})

(* What a client gets is a stream of whole messages of the other sources,  *)
(* in their order and without repetition, even when the send buffer        *)
(* overflows, send takes parts, and the slot had another client before.    *)
OutputFramed ==
  \A i \in Slot : hasClient(clients[i]) =>
    LET s == got[clients[i].fd] \o clients[i].out
    IN  /\ IsMessageStream(s) /\ Len(s) % 2 = 0
        /\ InSourceOrder(s)
        /\ \A k \in 1 .. Len(s) : s[k][1] # clients[i].fd

(* What a slot has received is the unprocessed end of what its present     *)
(* client sent, starting with a whole message: messages of two clients of  *)
(* the slot are never glued together, and the source id of a message is    *)
(* that of its sender.                                                     *)
InputFramed ==
  \A i \in Slot : hasClient(clients[i]) =>
    LET p == clients[i].fd
        s == clients[i].in \o arriving[p]
        n == Len(s)
    IN  /\ IsMessageStream(s)
        /\ link[p] # "reset" => \A k \in 1 .. n : s[k] = <<p, produced[p] - n + k>>

(* A client that has closed or whose connection broke gives its slot back. *)
SlotGivenBack ==
  \A p \in Peer : link[p] \in {"eof", "reset"} ~> link[p] = "closed"

(* The comment in GwSocketConnection::write, "we need to check if we have  *)
(* still not been able to write until timeout": a client that takes        *)
(* nothing any more is disconnected after the timeout.                     *)
StuckClientIsClosed ==
  \A i \in Slot, p \in Peer :
    (clients[i].fd = p /\ clients[i].out # << >> /\ room[p] = 0)
      ~> (clients[i].fd # p \/ room[p] > 0)
=============================================================================

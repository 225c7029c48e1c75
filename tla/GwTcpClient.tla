---------------------------- MODULE GwTcpClient ----------------------------
(***************************************************************************)
(* The NMEA0183 TCP client (lib/socketserver/GwTcpClient.cpp): resolves    *)
(* the configured host in a task of its own, connects without blocking,    *)
(* exchanges data and starts again when anything fails.                    *)
(*                                                                         *)
(* Three parties interleave: the main loop, which runs loop(read),         *)
(* loop(write), sendToClients, readMessages; the resolver task; and the    *)
(* remote server with the network.                                         *)
(***************************************************************************)
EXTENDS GwSocketConnection, FiniteSets

CONSTANTS
  Addr,        (* addresses the remote server may have                     *)
  Unknown,     (* no address: the server is down, nothing is resolved      *)
  Kinds,       (* forms of remoteAddress: "ip", "local", "invalid"         *)
  Configured,  (* the address remoteAddress gives when it is an IP address *)
  ConTimeout,  (* CON_TIMEOUT, in clock ticks                              *)
  MaxSockets,  (* number of sockets the system has                         *)
  MaxLost,     (* bound: how often a connection is lost just at its start  *)
  Lines,       (* bound: messages in either direction on one connection    *)
  Bus, Server  (* sources of the messages                                  *)

ASSUME ClientAssumption ==
  /\ Configured \in Addr /\ Unknown \notin Addr /\ Bus # Server
  /\ Kinds \subseteq {"ip", "local", "invalid"}
  /\ ConTimeout \in Nat /\ MaxSockets \in Nat \ {0} /\ MaxLost \in Nat
  /\ Lines \in Nat /\ NoClient \notin 1 .. MaxSockets

Fd == 1 .. MaxSockets

VARIABLES
  kind,        (* form of the configured remoteAddress                     *)
  state, connection, connectAge,
  address,     (* resolvedAddress: an address, or Unknown if not resolved  *)
  resolver,    (* the task: "none", "query", or "locked" in setResolved    *)
  host,        (* address at which the server can be reached now           *)
  link,        (* fd -> state of the socket and its TCP connection         *)
  to,          (* address the present socket connects to                   *)
  arriving,    (* pieces the server has sent on it and not yet received    *)
  sent,        (* number of pieces the server has sent on it               *)
  got,         (* pieces that send has accepted for it                     *)
  at           (* where the main loop is                                   *)

client == <<state, connection, connectAge>>
wire == <<link, to, arriving, sent, got>>
vars == <<kind, client, address, resolver, host, wire, at>>

Reachable == host \in Addr /\ (kind = "ip" => host = Configured) /\ kind # "invalid"
LockFree == resolver # "locked"

Free == {fd \in Fd : link[fd] = "free"}
(* The descriptor the system gives a new socket: some free one. *)
NextFd == CHOOSE fd \in Free : TRUE
Lost == {fd \in Fd : link[fd] = "lost"}   (* open, but fd is overwritten *)

Init ==
  /\ kind \in Kinds
  /\ state = "INITIALIZED" /\ connection = setClient(NoClient)
  /\ connectAge = 0 /\ address = Unknown /\ resolver = "none"
  /\ host \in Addr \cup {Unknown}
  /\ link = [fd \in Fd |-> "free"] /\ to = Unknown
  /\ arriving = << >> /\ sent = 0 /\ got = << >>
  /\ at = "begin"
-----------------------------------------------------------------------------
(* The server and the network. *)
HostMoves ==
  /\ \E h \in Addr \cup {Unknown} : host' = h
  /\ UNCHANGED <<kind, client, address, resolver, wire, at>>

Here == IF hasClient(connection) THEN link[connection.fd] ELSE "free"
NowHere(s) == link' = [link EXCEPT ![connection.fd] = s]

HandshakeDone ==
  /\ Here = "syn" /\ to = host /\ NowHere("up")
  /\ UNCHANGED <<kind, client, address, resolver, host, to, arriving, sent, got, at>>

ServerSends ==
  /\ Here = "up" /\ sent < 2 * Lines
  /\ sent' = sent + 1 /\ arriving' = Append(arriving, <<Server, sent + 1>>)
  /\ UNCHANGED <<kind, client, address, resolver, host, link, to, got, at>>

(* The attempt is refused, or the connection closed or broken. *)
LinkEnds == \E how \in {"refused", "eof", "reset"} :
  /\ Here = (IF how = "refused" THEN "syn" ELSE "up") /\ NowHere(how)
  /\ arriving' = IF how = "eof" THEN arriving ELSE << >>
  /\ UNCHANGED <<kind, client, address, resolver, host, to, sent, got, at>>
-----------------------------------------------------------------------------
(* The resolver task: mdns_query_a answers or gives up, then setResolved   *)
(* writes the address and the state while it holds the lock.               *)
Answer(a) ==
  /\ resolver = "query" /\ resolver' = "locked" /\ address' = a
  /\ UNCHANGED <<kind, client, host, wire, at>>
AnswerFound == host \in Addr /\ Answer(host)
AnswerNone == Answer(Unknown)

ResolverEnds ==
  /\ resolver = "locked" /\ resolver' = "none" /\ state' = "RESOLVED"
  /\ UNCHANGED <<kind, connection, connectAge, address, host, wire, at>>

Resolver == AnswerFound \/ AnswerNone \/ ResolverEnds
-----------------------------------------------------------------------------
(* Faulty variants of definitions below; each breaks a property.  They     *)
(* drop, in this order: the close after a timeout, the reset of the        *)
(* buffers, the new query when an address is known, the wait for the task. *)
ConnectTimeoutKeeps ==
  /\ Here = "syn" /\ connectAge >= ConTimeout
  /\ connection' = [connection EXCEPT !.fd = NoClient]
  /\ UNCHANGED <<state, wire>>

OpenSocketKeepsBuffers(a, how) ==
  /\ Free # {}
  /\ connection' = [connection EXCEPT !.fd = NextFd, !.pendingWrite = FALSE, !.writeError = FALSE]
  /\ link' = [f \in Fd |-> IF f = NextFd THEN how
                           ELSE IF f = connection.fd THEN "lost" ELSE link[f]]
  /\ to' = a /\ arriving' = << >> /\ sent' = 0 /\ got' = << >>

QueryStartsOnlyOnce ==
  IF address \in Addr THEN state' = "RESOLVED" /\ address' = address /\ UNCHANGED resolver
  ELSE state' = "RESOLVING" /\ resolver' = "query" /\ address' = Unknown

QueryStartsInitialized ==
  state' = "INITIALIZED" /\ resolver' = "query" /\ address' = Unknown
-----------------------------------------------------------------------------
(* connection->stop() and close(). *)
Nowhere == to' = Unknown /\ arriving' = << >> /\ sent' = 0 /\ got' = << >>

Drop == connection' = stop(connection) /\ NowHere("free") /\ Nowhere

(* A new socket is connected, or still connecting.  The connection does    *)
(* not close the socket it had.                                            *)
OpenSocket(a, how) ==
  /\ Free # {}
  /\ connection' = setClient(NextFd)
  /\ link' = [f \in Fd |-> IF f = NextFd THEN how
                           ELSE IF f = connection.fd THEN "lost" ELSE link[f]]
  /\ to' = a /\ arriving' = << >> /\ sent' = 0 /\ got' = << >>

Connecting(a) == a # Unknown /\ OpenSocket(a, "syn") /\ state' = "CONNECTING"
Immediately(a) == a # Unknown /\ a = host /\ OpenSocket(a, "up") /\ state' = "CONNECTED"
(* Not resolved, or socket, setKeepAlive or connect fails. *)
NoConnection == state' = "INITIALIZED" /\ UNCHANGED <<connection, wire>>

startConnection(a) ==
  connectAge' = 0 /\ (Connecting(a) \/ Immediately(a) \/ NoConnection)

(* resolveHost, and setResolved if its task cannot be created. *)
QueryStarts == state' = "RESOLVING" /\ resolver' = "query" /\ address' = Unknown
NoQuery == state' = "RESOLVED" /\ address' = Unknown /\ UNCHANGED resolver

startResolving ==
  CASE kind = "ip" ->
         address' = Configured /\ startConnection(Configured) /\ UNCHANGED resolver
    [] kind = "local" ->
         /\ LockFree
         /\ QueryStarts \/ NoQuery
         /\ UNCHANGED <<connection, connectAge, wire>>
    [] kind = "invalid" ->
         state' = "INITIALIZED" /\ UNCHANGED <<connection, connectAge, wire, address, resolver>>

begin ==
  /\ at = "begin" /\ at' = "check1"
  /\ startResolving
  /\ UNCHANGED <<kind, host>>
-----------------------------------------------------------------------------
(* checkConnection while connecting: what select, SO_ERROR and then        *)
(* connected() report.                                                     *)
Established == Here \in {"up", "eof"} /\ state' = "CONNECTED" /\ UNCHANGED <<connection, wire>>
ConnectFails == Here \in {"refused", "reset"} /\ Drop /\ UNCHANGED state
ConnectTimeout == Here = "syn" /\ connectAge >= ConTimeout /\ Drop /\ UNCHANGED state
StillConnecting == Here = "syn" /\ connectAge < ConTimeout /\ UNCHANGED <<state, connection, wire>>

(* The connection breaks after SO_ERROR was read, or connected() sees an   *)
(* errno of an earlier call (recv returned 0): nobody closes the socket.   *)
LostAtStart ==
  /\ Here \in {"reset", "eof"} \/ (Here = "up" /\ arriving # << >>)
  /\ Cardinality(Lost) < MaxLost
  /\ state' = "INITIALIZED" /\ UNCHANGED <<connection, wire>>

checkConnecting ==
  /\ Established \/ ConnectFails \/ ConnectTimeout \/ StillConnecting \/ LostAtStart
  /\ UNCHANGED <<connectAge, address, resolver>>

checkConnection ==
  LET st == IF hasClient(connection) THEN state ELSE "INITIALIZED"
      Nothing == UNCHANGED <<connection, connectAge, wire, address, resolver>>
  IN  CASE state = "RESOLVING" -> Nothing /\ UNCHANGED state
        [] state = "RESOLVED" ->
             LockFree /\ startConnection(address) /\ UNCHANGED <<address, resolver>>
        [] state \notin {"RESOLVING", "RESOLVED"} /\ st = "INITIALIZED" ->
             IF connectAge > ConTimeout THEN startResolving ELSE Nothing /\ state' = st
        [] state \notin {"RESOLVING", "RESOLVED"} /\ st = "CONNECTING" -> checkConnecting
        [] state \notin {"RESOLVING", "RESOLVED"} /\ st = "CONNECTED" -> Nothing /\ UNCHANGED state

Check(from, next) ==
  /\ at = from /\ at' = next /\ checkConnection /\ UNCHANGED <<kind, host>>

Usable == state = "CONNECTED" /\ hasClient(connection)

(* handleRead: recv takes up to a contiguous part of readBuffer. *)
Received(n) ==
  /\ n \in 1 .. Len(arriving) /\ n <= RxSize - Len(connection.in)
  /\ connection' = read(connection, n, SubSeq(arriving, 1, n))
  /\ arriving' = SubSeq(arriving, n + 1, Len(arriving))
  /\ UNCHANGED <<link, to, sent, got>>
NothingReceived ==
  /\ arriving = << >> \/ Len(connection.in) >= RxSize
  /\ Here = "up" \/ Len(connection.in) >= RxSize
  /\ UNCHANGED <<connection, wire>>
(* connected() is false, possibly by an old errno, or recv returns 0. *)
Disconnected ==
  /\ Here \in {"eof", "reset"} \/ arriving # << >>
  /\ Drop

ReadPart ==
  /\ at = "read" /\ at' = "check2"
  /\ IF Usable THEN (\E n \in 1 .. RxSize : Received(n)) \/ NothingReceived \/ Disconnected
     ELSE UNCHANGED <<connection, wire>>
  /\ UNCHANGED <<kind, state, connectAge, address, resolver, host>>

(* handleWrite: fetchData offers n pieces, send takes some, none, or fails. *)
WriteSome(n, res) ==
  /\ n \in 1 .. Len(connection.out)
  /\ res \in (1 .. n) \cup {Again, Failed} /\ (Here = "reset" => res = Failed)
  /\ LET w == writeOrClose(connection, n, res)
     IN  IF hasClient(w)
         THEN /\ connection' = w
              /\ got' = IF res > 0 THEN got \o SubSeq(connection.out, 1, res) ELSE got
              /\ UNCHANGED <<link, to, arriving, sent>>
         ELSE connection' = w /\ NowHere("free") /\ Nowhere

WritePart(from, next) ==
  /\ at = from /\ at' = next
  /\ IF Usable /\ connection.out # << >>
     THEN \E n \in 1 .. TxSize, res \in {Again, Failed} \cup 1 .. TxSize : WriteSome(n, res)
     ELSE /\ connection' = IF Usable THEN [connection EXCEPT !.pendingWrite = FALSE] ELSE connection
          /\ UNCHANGED wire
  /\ UNCHANGED <<kind, state, connectAge, address, resolver, host>>

(* sendToClients for messages of the other channels; loop(write) follows   *)
(* at once unless they come from N2K.                                      *)
sendToClients ==
  /\ at = "send" /\ at' \in {"send", "check2"} /\ Usable
  /\ Len(got) < 2 * Lines
  /\ connection' = enqueue(connection, <<<<Bus, 1>>, <<Bus, 2>>>>)
  /\ UNCHANGED <<kind, state, connectAge, address, resolver, host, wire>>

OthersDone ==
  /\ at = "send" /\ at' = "messages"
  /\ UNCHANGED <<kind, client, address, resolver, host, wire>>

(* readMessages: one message; when it is forwarded, loop(write) follows. *)
readMessages ==
  /\ at = "messages"
  /\ IF Usable /\ HasMessage(connection)
     THEN connection' = withoutFirst(connection) /\ at' = "check3"
     ELSE UNCHANGED connection /\ at' = "rest"
  /\ UNCHANGED <<kind, state, connectAge, address, resolver, host, wire>>

(* The main loop repeats, in the same clock tick or in the next one. *)
Repeat(age, conn) ==
  /\ at = "rest" /\ at' = "check1" /\ connectAge' = age /\ connection' = conn
  /\ UNCHANGED <<kind, state, address, resolver, host, wire>>
SameTick == Repeat(connectAge, connection)
NextTick ==
  Repeat(IF connectAge <= ConTimeout THEN connectAge + 1 ELSE connectAge, aged(connection))

MainLoop ==
  \/ begin
  \/ Check("check1", "read") \/ ReadPart
  \/ Check("check2", "write") \/ WritePart("write", "send")
  \/ sendToClients \/ OthersDone \/ readMessages
  \/ Check("check3", "write3") \/ WritePart("write3", "rest")
  \/ SameTick \/ NextTick

Network == HostMoves \/ HandshakeDone \/ ServerSends \/ LinkEnds

Next == Network \/ Resolver \/ MainLoop

Spec == Init /\ [][Next]_vars

(* The main loop and the resolver task never stop, and time passes.  What  *)
(* can succeed again and again does not fail for ever: creating the task,  *)
(* the query, the socket, the handshake, the connection's first moments.   *)
FairSpec ==
  /\ Spec
  /\ WF_vars(MainLoop) /\ WF_vars(Resolver) /\ SF_vars(NextTick)
  /\ SF_vars(MainLoop /\ QueryStarts)
  /\ SF_vars(AnswerFound)
  /\ SF_vars(MainLoop /\ state' = "CONNECTING")
  /\ SF_vars(HandshakeDone)
  /\ SF_vars(MainLoop /\ state' = "CONNECTED")
-----------------------------------------------------------------------------
TypeOK ==
  /\ kind \in Kinds
  /\ state \in {"INITIALIZED", "RESOLVING", "RESOLVED", "CONNECTING", "CONNECTED"}
  /\ connection \in
       [fd : Fd \cup {NoClient}, out : Seq({Bus} \X {1, 2}), in : Seq({Server} \X Nat),
        pendingWrite : BOOLEAN, writeError : BOOLEAN, age : 0 .. WriteTimeout]
  /\ Len(connection.out) <= TxSize /\ Len(connection.in) <= RxSize
  /\ connectAge \in 0 .. ConTimeout + 1
  /\ address \in Addr \cup {Unknown} /\ host \in Addr \cup {Unknown}
  /\ resolver \in {"none", "query", "locked"}
  /\ link \in [Fd -> {"free", "syn", "up", "refused", "eof", "reset", "lost"}]
  /\ to \in Addr \cup {Unknown} /\ sent \in 0 .. 2 * Lines
  /\ arriving \in Seq({Server} \X Nat) /\ got \in Seq({Bus} \X {1, 2})

(* The resolver task runs exactly while the main loop waits for it: there  *)
(* is never a second one, and no late answer changes the state of a        *)
(* connection that is being set up or in use.                              *)
ResolverIffResolving == resolver # "none" <=> state = "RESOLVING"

(* No socket is left open by a failed attempt or a closed connection, but  *)
(* for those that were lost at the start of a connection.                  *)
SocketsHeld ==
  /\ \A fd \in Fd : link[fd] \notin {"free", "lost"} <=> connection.fd = fd
  /\ Cardinality(Lost) <= MaxLost

(* On every new connection both directions start with a whole message,     *)
(* whatever the end of the connection before has left in the buffers.      *)
ConnectionsStartFresh ==
  hasClient(connection) =>
    LET out == got \o connection.out
        in == connection.in \o arriving
    IN  /\ IsMessageStream(out) /\ Len(out) % 2 = 0
        /\ IsMessageStream(in)

(* The README of the repository, "enable TCP keepalive on connections to   *)
(* reconnect on failures": once the server can be reached for good at some *)
(* address, the client is connected again and again, whatever happened     *)
(* before and even if the server has moved.                                *)
Reconnects ==
  \A a \in Addr : <>[](Reachable /\ host = a) => []<>(state = "CONNECTED")
=============================================================================

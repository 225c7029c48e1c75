------------------------- MODULE GwTcpClientProofs -------------------------
(***************************************************************************)
(* Proofs about GwTcpClient for any number of addresses, sockets and       *)
(* messages and any buffer sizes: the resolver task and the connection     *)
(* never interfere, no socket is forgotten, and every connection starts    *)
(* with whole messages.                                                    *)
(***************************************************************************)
EXTENDS GwTcpClient, GwSocketConnectionProofs, FiniteSetTheorems

OutPiece == {Bus} \X {1, 2}
InPiece == {Server} \X Nat

IsConnection(c) == IsConnectionOf(c, Fd, OutPiece, InPiece)
-----------------------------------------------------------------------------
(* Type correctness. *)
LinkState == {"free", "syn", "up", "refused", "eof", "reset", "lost"}
State == {"INITIALIZED", "RESOLVING", "RESOLVED", "CONNECTING", "CONNECTED"}

WireOK ==
  /\ link \in [Fd -> LinkState] /\ to \in Addr \cup {Unknown}
  /\ sent \in 0 .. 2 * Lines
  /\ arriving \in Seq(InPiece) /\ got \in Seq(OutPiece)

ClientOK ==
  state \in State /\ IsConnection(connection) /\ connectAge \in 0 .. ConTimeout + 1

HostOK ==
  /\ kind \in Kinds /\ host \in Addr \cup {Unknown}
  /\ address \in Addr \cup {Unknown} /\ resolver \in {"none", "query", "locked"}

LEMMA TypeParts ==
  /\ TypeOK <=> WireOK /\ ClientOK /\ HostOK
  /\ TypeOK' <=> WireOK' /\ ClientOK' /\ HostOK'
BY DEF TypeOK, WireOK, ClientOK, HostOK, IsConnection, IsConnectionOf, ConnectionOf, LinkState, State,
       OutPiece, InPiece

LEMMA KindIsKnown == ASSUME HostOK PROVE kind \in {"ip", "local", "invalid"}
BY ClientAssumption DEF HostOK

(* Three of the facts about connections in the terms of the client. *)
LEMMA ReadHere ==
  ASSUME NEW c, IsConnection(c), NEW n \in Nat \ {0}, NEW data \in Seq(InPiece),
         Len(data) <= RxSize - Len(c.in)
  PROVE  IsConnection(read(c, n, data)) /\ read(c, n, data).fd = c.fd
BY ReadTyped DEF IsConnection

LEMMA EnqueueHere ==
  ASSUME NEW c, IsConnection(c), NEW m \in Seq(OutPiece)
  PROVE  IsConnection(enqueue(c, m)) /\ enqueue(c, m).fd = c.fd
BY EnqueueTyped DEF IsConnection

LEMMA NothingPendingHere ==
  ASSUME NEW c, IsConnection(c)
  PROVE  LET d == [c EXCEPT !.pendingWrite = FALSE] IN IsConnection(d) /\ d.fd = c.fd
BY NothingPendingTyped DEF IsConnection

LEMMA InitTyped == ASSUME Init PROVE TypeOK
<1>1. << >> \in Seq(OutPiece) /\ << >> \in Seq(InPiece)
  BY EmptySeq
<1>2. IsConnection(setClient(NoClient))
  BY SetClientTyped DEF IsConnection
<1>3. 0 \in 0 .. ConTimeout + 1 /\ 0 \in 0 .. 2 * Lines
  BY ClientAssumption
<1> QED
  BY <1>1, <1>2, <1>3, TypeParts
  DEF Init, WireOK, ClientOK, HostOK, LinkState, State

(* Closing and opening a socket. *)
LEMMA NowhereType ==
  ASSUME Nowhere, link' \in [Fd -> LinkState]
  PROVE  WireOK'
<1>1. << >> \in Seq(OutPiece) /\ << >> \in Seq(InPiece)
  BY EmptySeq
<1>2. 0 \in 0 .. 2 * Lines
  BY ClientAssumption
<1> QED
  BY <1>1, <1>2 DEF Nowhere, WireOK

LEMMA NowHereType ==
  ASSUME WireOK, NEW s \in LinkState, NowHere(s)
  PROVE  link' \in [Fd -> LinkState]
BY DEF WireOK, NowHere

LEMMA DropType ==
  ASSUME WireOK, IsConnection(connection), Drop
  PROVE  WireOK' /\ IsConnection(connection)' /\ connection'.fd = NoClient
<1>1. IsConnection(connection)' /\ connection'.fd = NoClient
  BY StopTyped DEF Drop, IsConnection
<1>2. "free" \in LinkState
  BY DEF LinkState
<1>3. WireOK'
  BY <1>2, NowHereType, NowhereType DEF Drop
<1> QED
  BY <1>1, <1>3

LEMMA NextFdIsFree == ASSUME Free # {} PROVE NextFd \in Free
BY DEF NextFd

LEMMA OpenSocketType ==
  ASSUME WireOK, NEW a \in Addr, NEW how \in {"syn", "up"}, OpenSocket(a, how)
  PROVE  /\ WireOK' /\ IsConnection(connection)'
         /\ NextFd \in Free /\ connection'.fd = NextFd
<1>1. NextFd \in Free /\ NextFd \in Fd
  BY NextFdIsFree DEF OpenSocket, Free
<1>2. IsConnection(connection)' /\ connection'.fd = NextFd
  BY <1>1, SetClientTyped DEF OpenSocket, IsConnection
<1>3. link' \in [Fd -> LinkState]
  BY DEF OpenSocket, WireOK, LinkState
<1>4. /\ << >> \in Seq(OutPiece) /\ << >> \in Seq(InPiece)
      /\ 0 \in 0 .. 2 * Lines
  BY EmptySeq, ClientAssumption
<1>5. WireOK'
  BY <1>3, <1>4 DEF OpenSocket, WireOK
<1> QED
  BY <1>1, <1>2, <1>5

LEMMA StartConnectionType ==
  ASSUME TypeOK, NEW a \in Addr \cup {Unknown}, startConnection(a)
  PROVE  WireOK' /\ ClientOK' /\ state' \in {"INITIALIZED", "CONNECTING", "CONNECTED"}
<1>1. WireOK /\ ClientOK
  BY TypeParts
<1>2. connectAge' \in 0 .. ConTimeout + 1
  BY ClientAssumption DEF startConnection
<1>3. CASE Connecting(a)
  BY <1>1, <1>2, <1>3, OpenSocketType DEF Connecting, ClientOK, State
<1>4. CASE Immediately(a)
  BY <1>1, <1>2, <1>4, OpenSocketType DEF Immediately, ClientOK, State
<1>5. CASE NoConnection
  BY <1>1, <1>2, <1>5 DEF NoConnection, ClientOK, WireOK, wire, State
<1> QED
  BY <1>3, <1>4, <1>5 DEF startConnection

LEMMA StartResolvingType ==
  ASSUME TypeOK, startResolving
  PROVE  /\ WireOK' /\ ClientOK'
         /\ address' \in Addr \cup {Unknown} /\ resolver' \in {"none", "query", "locked"}
<1>1. WireOK /\ ClientOK /\ HostOK
  BY TypeParts
<1>2. CASE kind = "ip"
  <2>1. address' = Configured /\ startConnection(Configured) /\ UNCHANGED resolver
    BY <1>2 DEF startResolving
  <2> QED
    BY <2>1, <1>1, StartConnectionType, ClientAssumption DEF HostOK
<1>3. CASE kind = "local"
  <2>1. (QueryStarts \/ NoQuery) /\ UNCHANGED <<connection, connectAge, wire>>
    BY <1>3 DEF startResolving
  <2> QED
    BY <2>1, <1>1 DEF QueryStarts, NoQuery, WireOK, ClientOK, HostOK, State, wire
<1>4. CASE kind = "invalid"
  <2>1. state' = "INITIALIZED" /\ UNCHANGED <<connection, connectAge, wire, address, resolver>>
    BY <1>4 DEF startResolving
  <2> QED
    BY <2>1, <1>1 DEF WireOK, ClientOK, HostOK, State, wire
<1> QED
  BY <1>1, <1>2, <1>3, <1>4, KindIsKnown

(* The steps of the main loop. *)
LEMMA CheckConnectingType ==
  ASSUME TypeOK, checkConnecting
  PROVE  WireOK' /\ ClientOK' /\ UNCHANGED <<address, resolver>>
<1>1. WireOK /\ ClientOK /\ UNCHANGED <<connectAge, address, resolver>>
  BY TypeParts DEF checkConnecting
<1>2. CASE Drop /\ UNCHANGED state
  BY <1>1, <1>2, DropType DEF ClientOK
<1>3. CASE state' \in State /\ UNCHANGED <<connection, wire>>
  BY <1>1, <1>3 DEF WireOK, ClientOK, wire
<1> QED
  BY <1>1, <1>2, <1>3 DEF checkConnecting, Established, ConnectFails, ConnectTimeout,
     StillConnecting, LostAtStart, ClientOK, State

(* What checkConnection does, by cases. *)
Waits == state = "RESOLVING" /\ UNCHANGED state
StaysConnected == state = "CONNECTED" /\ hasClient(connection) /\ UNCHANGED state
RetryLater ==
  /\ state \notin {"RESOLVING", "RESOLVED"} /\ state' = "INITIALIZED"
  /\ state = "INITIALIZED" \/ ~hasClient(connection)
DoesNothing ==
  /\ UNCHANGED <<connection, connectAge, wire, address, resolver>>
  /\ Waits \/ StaysConnected \/ RetryLater
Connects == state = "RESOLVED" /\ startConnection(address) /\ UNCHANGED <<address, resolver>>
Retries ==
  /\ state \notin {"RESOLVING", "RESOLVED"} /\ startResolving
  /\ state = "INITIALIZED" \/ ~hasClient(connection)
GoesOn == state = "CONNECTING" /\ hasClient(connection) /\ checkConnecting

LEMMA CheckConnectionCases ==
  ASSUME TypeOK, checkConnection
  PROVE  DoesNothing \/ Connects \/ Retries \/ GoesOn
<1> DEFINE st == IF hasClient(connection) THEN state ELSE "INITIALIZED"
<1>1. state \in State
  BY TypeParts DEF ClientOK
<1>2. CASE state = "RESOLVING"
  BY <1>2 DEF checkConnection, DoesNothing, Waits
<1>3. CASE state = "RESOLVED"
  BY <1>3 DEF checkConnection, Connects
<1>4. CASE state \notin {"RESOLVING", "RESOLVED"} /\ st = "INITIALIZED"
  BY <1>1, <1>4 DEF checkConnection, DoesNothing, RetryLater, Retries, State
<1>5. CASE state \notin {"RESOLVING", "RESOLVED"} /\ st = "CONNECTING"
  BY <1>5 DEF checkConnection, GoesOn
<1>6. CASE state \notin {"RESOLVING", "RESOLVED"} /\ st = "CONNECTED"
  BY <1>6 DEF checkConnection, DoesNothing, StaysConnected
<1> QED
  BY <1>1, <1>2, <1>3, <1>4, <1>5, <1>6 DEF State

LEMMA CheckType ==
  ASSUME TypeOK, checkConnection
  PROVE  /\ WireOK' /\ ClientOK'
         /\ address' \in Addr \cup {Unknown} /\ resolver' \in {"none", "query", "locked"}
<1>1. WireOK /\ ClientOK /\ HostOK
  BY TypeParts
<1>2. CASE DoesNothing
  BY <1>1, <1>2 DEF DoesNothing, Waits, StaysConnected, RetryLater,
     WireOK, ClientOK, HostOK, State, wire
<1>3. CASE Connects
  BY <1>1, <1>3, StartConnectionType DEF Connects, HostOK
<1>4. CASE Retries
  BY <1>4, StartResolvingType DEF Retries
<1>5. CASE GoesOn
  BY <1>1, <1>5, CheckConnectingType DEF GoesOn, HostOK
<1> QED
  BY <1>2, <1>3, <1>4, <1>5, CheckConnectionCases

LEMMA ReceivedType ==
  ASSUME TypeOK, NEW n \in 1 .. RxSize, Received(n)
  PROVE  WireOK' /\ IsConnection(connection)' /\ connection'.fd = connection.fd
<1>1. /\ WireOK /\ IsConnection(connection) /\ arriving \in Seq(InPiece)
      /\ n \in 1 .. Len(arriving) /\ n <= RxSize - Len(connection.in)
      /\ n \in Nat \ {0}
  BY TypeParts, ConnectionAssumption DEF Received, WireOK, ClientOK
<1>2. SubSeq(arriving, 1, n) \in Seq(InPiece) /\ Len(SubSeq(arriving, 1, n)) = n
  BY <1>1, FrontOfSequence
<1>3. IsConnection(connection)' /\ connection'.fd = connection.fd
  BY <1>1, <1>2, ReadHere DEF Received
<1>4. arriving' \in Seq(InPiece)
  BY <1>1, RestOfSequence DEF Received
<1> QED
  BY <1>1, <1>3, <1>4 DEF WireOK, Received

LEMMA WriteSomeType ==
  ASSUME TypeOK, NEW n \in 1 .. TxSize, NEW res \in {Again, Failed} \cup 1 .. TxSize,
         WriteSome(n, res)
  PROVE  /\ WireOK' /\ IsConnection(connection)'
         /\ \/ connection'.fd = connection.fd /\ UNCHANGED link
            \/ connection'.fd = NoClient /\ NowHere("free")
<1> DEFINE w == writeOrClose(connection, n, res)
<1>1. /\ WireOK /\ IsConnection(connection) /\ connection.out \in Seq(OutPiece)
      /\ n \in 1 .. Len(connection.out) /\ Len(connection.out) \in Nat
      /\ res \in (1 .. n) \cup {Again, Failed}
  BY TypeParts, LenProperties DEF WriteSome, ClientOK, IsConnection, IsConnectionOf, ConnectionOf
<1>2. connection' = w /\ IsConnection(connection)' /\ w.fd \in {connection.fd, NoClient}
  BY <1>1, WriteTyped DEF WriteSome, IsConnection
<1>3. CASE hasClient(w)
  <2>1. /\ got' = IF res > 0 THEN got \o SubSeq(connection.out, 1, res) ELSE got
        /\ UNCHANGED <<link, to, arriving, sent>>
    BY <1>3 DEF WriteSome
  <2>2. got' \in Seq(OutPiece)
    <3>1. CASE res > 0
      <4>1. res \in 1 .. Len(connection.out)
        BY <1>1, <3>1 DEF Again, Failed
      <4>2. SubSeq(connection.out, 1, res) \in Seq(OutPiece)
        BY <1>1, <4>1, FrontOfSequence
      <4> QED
        BY <1>1, <2>1, <3>1, <4>2, ConcatProperties DEF WireOK
    <3>2. CASE ~(res > 0)
      BY <1>1, <2>1, <3>2 DEF WireOK
    <3> QED
      BY <3>1, <3>2
  <2> HIDE DEF w
  <2> QED
    BY <1>1, <1>2, <1>3, <2>1, <2>2 DEF WireOK, hasClient
<1>4. CASE ~hasClient(w)
  <2>1. NowHere("free") /\ Nowhere
    BY <1>4 DEF WriteSome
  <2>2. "free" \in LinkState
    BY DEF LinkState
  <2>3. WireOK'
    BY <1>1, <2>1, <2>2, NowHereType, NowhereType
  <2> QED
    BY <1>2, <1>4, <2>1, <2>3 DEF hasClient
<1> QED
  BY <1>3, <1>4

LEMMA ReadPartType ==
  ASSUME TypeOK, ReadPart
  PROVE  WireOK' /\ ClientOK'
<1>1. WireOK /\ ClientOK /\ UNCHANGED <<state, connectAge>>
  BY TypeParts DEF ReadPart
<1>2. CASE \E n \in 1 .. RxSize : Received(n)
  BY <1>1, <1>2, ReceivedType DEF ClientOK
<1>3. CASE Disconnected
  BY <1>1, <1>3, DropType DEF Disconnected, ClientOK
<1>4. CASE UNCHANGED <<connection, wire>>
  BY <1>1, <1>4 DEF WireOK, ClientOK, wire
<1> QED
  BY <1>2, <1>3, <1>4 DEF ReadPart, NothingReceived

LEMMA WritePartType ==
  ASSUME TypeOK, NEW from, NEW next, WritePart(from, next)
  PROVE  WireOK' /\ ClientOK'
<1>1. WireOK /\ ClientOK /\ UNCHANGED <<state, connectAge>>
  BY TypeParts DEF WritePart
<1>2. CASE \E n \in 1 .. TxSize, res \in {Again, Failed} \cup 1 .. TxSize : WriteSome(n, res)
  BY <1>1, <1>2, WriteSomeType DEF ClientOK
<1>3. CASE connection' = [connection EXCEPT !.pendingWrite = FALSE] /\ UNCHANGED wire
  BY <1>1, <1>3, NothingPendingTyped DEF WireOK, IsConnection, ClientOK, wire
<1>4. CASE UNCHANGED <<connection, wire>>
  BY <1>1, <1>4 DEF WireOK, ClientOK, wire
<1> QED
  BY <1>2, <1>3, <1>4 DEF WritePart

LEMMA RepeatType ==
  ASSUME TypeOK, SameTick \/ NextTick
  PROVE  WireOK' /\ ClientOK' /\ connection'.fd = connection.fd
<1>1. WireOK /\ ClientOK
  BY TypeParts
<1>2. CASE SameTick
  BY <1>1, <1>2 DEF SameTick, Repeat, WireOK, ClientOK, wire
<1>3. CASE NextTick
  <2>1. connectAge' \in 0 .. ConTimeout + 1
    BY <1>1, <1>3, ClientAssumption DEF NextTick, Repeat, ClientOK
  <2> QED
    BY <1>1, <1>3, <2>1, AgedTyped DEF NextTick, IsConnection, Repeat, WireOK, ClientOK, wire
<1> QED
  BY <1>2, <1>3

LEMMA MainLoopType == ASSUME TypeOK, MainLoop PROVE TypeOK'
<1>1. WireOK /\ ClientOK /\ HostOK
  BY TypeParts
<1> USE TypeParts
<1>2. CASE begin
  BY <1>1, <1>2, StartResolvingType DEF begin, HostOK
<1>3. ASSUME NEW from, NEW next, Check(from, next) PROVE TypeOK'
  BY <1>1, <1>3, CheckType DEF Check, HostOK
<1>4. CASE ReadPart
  BY <1>1, <1>4, ReadPartType DEF ReadPart, HostOK
<1>5. ASSUME NEW from, NEW next, WritePart(from, next) PROVE TypeOK'
  BY <1>1, <1>5, WritePartType DEF WritePart, HostOK
<1>6. CASE sendToClients
  <2>1. <<<<Bus, 1>>, <<Bus, 2>>>> \in Seq(OutPiece)
    BY DEF OutPiece
  <2> QED
    BY <1>1, <1>6, <2>1, EnqueueTyped DEF sendToClients, IsConnection, WireOK, ClientOK, HostOK, wire
<1>7. CASE OthersDone
  BY <1>1, <1>7 DEF OthersDone, WireOK, ClientOK, HostOK, client, wire
<1>8. CASE readMessages
  BY <1>1, <1>8, WithoutFirstTyped DEF readMessages, IsConnection, WireOK, ClientOK, HostOK, wire
<1>9. CASE SameTick \/ NextTick
  BY <1>1, <1>9, RepeatType DEF SameTick, NextTick, Repeat, HostOK
<1> QED
  BY <1>2, <1>3, <1>4, <1>5, <1>6, <1>7, <1>8, <1>9 DEF MainLoop

LEMMA NetworkType == ASSUME TypeOK, Network PROVE TypeOK'
<1>1. WireOK /\ ClientOK /\ HostOK
  BY TypeParts
<1> USE TypeParts
<1>2. CASE HostMoves
  BY <1>1, <1>2 DEF HostMoves, WireOK, ClientOK, HostOK, client, wire
<1>3. CASE HandshakeDone
  BY <1>1, <1>3 DEF HandshakeDone, NowHere, WireOK, ClientOK, HostOK, client, LinkState
<1>4. CASE ServerSends
  <2>1. <<Server, sent + 1>> \in InPiece /\ sent' \in 0 .. 2 * Lines
    BY <1>1, <1>4, ClientAssumption DEF ServerSends, WireOK, InPiece
  <2>2. arriving' \in Seq(InPiece)
    BY <1>1, <1>4, <2>1 DEF ServerSends, WireOK
  <2> QED
    BY <1>1, <1>4, <2>1, <2>2 DEF ServerSends, WireOK, ClientOK, HostOK, client
<1>5. CASE LinkEnds
  <2>1. << >> \in Seq(InPiece)
    BY EmptySeq
  <2> QED
    BY <1>1, <1>5, <2>1 DEF LinkEnds, NowHere, WireOK, ClientOK, HostOK, client, LinkState
<1> QED
  BY <1>2, <1>3, <1>4, <1>5 DEF Network

LEMMA ResolverType == ASSUME TypeOK, Resolver PROVE TypeOK'
<1>1. WireOK /\ ClientOK /\ HostOK
  BY TypeParts
<1> USE TypeParts
<1>2. ASSUME NEW a \in Addr \cup {Unknown}, Answer(a) PROVE TypeOK'
  BY <1>1, <1>2 DEF Answer, WireOK, ClientOK, HostOK, client, wire
<1>3. CASE ResolverEnds
  BY <1>1, <1>3 DEF ResolverEnds, WireOK, ClientOK, HostOK, State, wire
<1> QED
  BY <1>2, <1>3 DEF Resolver, AnswerFound, AnswerNone

LEMMA StutterType == ASSUME TypeOK, UNCHANGED vars PROVE TypeOK'
BY TypeParts DEF vars, client, wire, WireOK, ClientOK, HostOK

(* The connection, its buffers, the sockets and the resolver always have   *)
(* the values and sizes that the code assumes (GwTcpClient.h).             *)
THEOREM TypeCorrect == Spec => []TypeOK
<1>1. Init => TypeOK
  BY InitTyped
<1>2. TypeOK /\ [Next]_vars => TypeOK'
  BY MainLoopType, NetworkType, ResolverType, StutterType DEF Next
<1> QED
  BY <1>1, <1>2, PTL DEF Spec
-----------------------------------------------------------------------------
(* The resolver task and the main loop. *)
BeginsIdle == at = "begin" => state = "INITIALIZED"

LEMMA StartResolvingResolver ==
  ASSUME TypeOK, resolver = "none", startResolving
  PROVE  ResolverIffResolving'
<1>1. kind \in {"ip", "local", "invalid"}
  BY TypeParts, KindIsKnown
<1>2. CASE kind = "ip"
  <2>1. startConnection(Configured) /\ UNCHANGED resolver
    BY <1>2 DEF startResolving
  <2> QED
    BY <2>1, StartConnectionType, ClientAssumption DEF ResolverIffResolving
<1>3. CASE kind = "local"
  BY <1>3 DEF startResolving, QueryStarts, NoQuery, ResolverIffResolving
<1>4. CASE kind = "invalid"
  BY <1>4 DEF startResolving, ResolverIffResolving
<1> QED
  BY <1>1, <1>2, <1>3, <1>4

LEMMA CheckResolver ==
  ASSUME TypeOK, ResolverIffResolving, checkConnection
  PROVE  ResolverIffResolving'
<1>1. state \in State /\ resolver \in {"none", "query", "locked"}
      /\ address \in Addr \cup {Unknown}
  BY TypeParts DEF ClientOK, HostOK
<1>2. CASE DoesNothing
  BY <1>2 DEF DoesNothing, Waits, StaysConnected, RetryLater, ResolverIffResolving
<1>3. CASE Connects
  BY <1>1, <1>3, StartConnectionType DEF Connects, ResolverIffResolving
<1>4. CASE Retries
  BY <1>1, <1>4, StartResolvingResolver DEF Retries, ResolverIffResolving
<1>5. CASE GoesOn
  BY <1>5 DEF GoesOn, checkConnecting, Established, ConnectFails, ConnectTimeout,
     StillConnecting, LostAtStart, ResolverIffResolving
<1> QED
  BY <1>2, <1>3, <1>4, <1>5, CheckConnectionCases

(* No other step of the main loop touches the state or the resolver. *)
LEMMA MainLoopResolver ==
  ASSUME TypeOK, ResolverIffResolving, BeginsIdle, MainLoop
  PROVE  ResolverIffResolving' /\ BeginsIdle'
<1>1. CASE begin
  BY <1>1, StartResolvingResolver DEF begin, BeginsIdle, ResolverIffResolving
<1>2. CASE Check("check1", "read") \/ Check("check2", "write") \/ Check("check3", "write3")
  BY <1>2, CheckResolver DEF Check, BeginsIdle
<1>3. ASSUME UNCHANGED <<state, resolver>>, at' # "begin"
      PROVE  ResolverIffResolving' /\ BeginsIdle'
  BY <1>3 DEF ResolverIffResolving, BeginsIdle
<1>4. CASE ReadPart \/ WritePart("write", "send") \/ WritePart("write3", "rest")
  BY <1>3, <1>4 DEF ReadPart, WritePart
<1>5. CASE sendToClients \/ OthersDone \/ readMessages \/ SameTick \/ NextTick
  BY <1>3, <1>5 DEF sendToClients, OthersDone, readMessages, SameTick, NextTick,
     Repeat, client
<1> QED
  BY <1>1, <1>2, <1>4, <1>5 DEF MainLoop

LEMMA OthersResolver ==
  ASSUME TypeOK, ResolverIffResolving, BeginsIdle, Network \/ Resolver \/ UNCHANGED vars
  PROVE  ResolverIffResolving' /\ BeginsIdle'
<1>1. CASE Network
  BY <1>1 DEF Network, HostMoves, HandshakeDone, ServerSends, LinkEnds, client,
     ResolverIffResolving, BeginsIdle
<1>2. CASE Resolver
  BY <1>2 DEF Resolver, AnswerFound, AnswerNone, Answer, ResolverEnds, client,
     ResolverIffResolving, BeginsIdle
<1>3. CASE UNCHANGED vars
  BY <1>3 DEF vars, client, ResolverIffResolving, BeginsIdle
<1> QED
  BY <1>1, <1>2, <1>3

(* The resolver task runs exactly while the main loop waits for it, so a   *)
(* late answer of setResolved never overwrites the state of a connection   *)
(* that is being set up or in use.                                         *)
THEOREM ResolverCorrect == Spec => []ResolverIffResolving
<1> DEFINE IInv == ResolverIffResolving /\ BeginsIdle
<1>1. Init => IInv
  BY DEF Init, ResolverIffResolving, BeginsIdle
<1>2. TypeOK /\ IInv /\ [Next]_vars => IInv'
  BY MainLoopResolver, OthersResolver DEF Next
<1>3. IInv => ResolverIffResolving
  OBVIOUS
<1> QED
  BY <1>1, <1>2, <1>3, TypeCorrect, PTL DEF Spec
-----------------------------------------------------------------------------
(* The sockets.  A step leaves them alone, changes the connection of the   *)
(* present one, closes it, or opens a new one.                             *)
Idle == state \notin {"CONNECTING", "CONNECTED"}

(* A connection without state, which an opening would forget, is allowed   *)
(* by the bound.                                                           *)
LostAllowed == hasClient(connection) /\ Idle => Cardinality(Lost) < MaxLost

Kept == connection'.fd = connection.fd /\ UNCHANGED link
Changed ==
  /\ hasClient(connection) /\ connection'.fd = connection.fd
  /\ \E s \in LinkState \ {"free", "lost"} : NowHere(s)
Closed == hasClient(connection) /\ connection'.fd = NoClient /\ NowHere("free")
Opened ==
  /\ \E how \in {"syn", "up"} :
       link' = [f \in Fd |-> IF f = NextFd THEN how
                             ELSE IF f = connection.fd THEN "lost" ELSE link[f]]
  /\ NextFd \in Free /\ connection'.fd = NextFd

(* A client gets idle only with a connection that may be lost. *)
StaysIdle == Idle' => Idle \/ Cardinality(Lost) < MaxLost \/ ~hasClient(connection)

SocketStep ==
  \/ (Kept \/ Changed) /\ StaysIdle
  \/ Closed
  \/ Opened /\ ~Idle' /\ (Idle \/ ~hasClient(connection))

LEMMA LostIsFinite ==
  IsFiniteSet(Lost) /\ Cardinality(Lost) \in Nat
<1>1. IsFiniteSet(Fd)
  BY FS_Interval, ClientAssumption DEF Fd
<1> QED
  BY <1>1, FS_Subset, FS_CardinalityType DEF Lost

(* The four kinds of steps preserve the invariant. *)
LEMMA SocketInvariant ==
  ASSUME TypeOK, SocketsHeld, LostAllowed, SocketStep
  PROVE  SocketsHeld' /\ LostAllowed'
<1>1. /\ link \in [Fd -> LinkState] /\ connection.fd \in Fd \cup {NoClient} /\ NoClient \notin Fd
      /\ \A fd \in Fd : link[fd] \notin {"free", "lost"} <=> connection.fd = fd
      /\ Cardinality(Lost) <= MaxLost
  BY TypeParts, ClientAssumption
  DEF WireOK, ClientOK, IsConnection, IsConnectionOf, ConnectionOf, SocketsHeld, Fd
<1>2. CASE Kept /\ StaysIdle
  BY <1>1, <1>2 DEF Kept, StaysIdle, SocketsHeld, LostAllowed, Lost, hasClient, Idle
<1>3. CASE Changed /\ StaysIdle
  <2>1. PICK s \in LinkState \ {"free", "lost"} : NowHere(s)
    BY <1>3 DEF Changed
  <2>2. \A fd \in Fd : link'[fd] = IF fd = connection.fd THEN s ELSE link[fd]
    BY <1>1, <2>1 DEF NowHere
  <2>3. Lost' = Lost
    BY <1>1, <1>3, <2>1, <2>2 DEF Lost, Changed, hasClient
  <2> QED
    BY <1>1, <1>3, <2>1, <2>2, <2>3
    DEF Changed, StaysIdle, SocketsHeld, LostAllowed, hasClient, Idle
<1>4. CASE Closed
  <2>1. \A fd \in Fd : link'[fd] = IF fd = connection.fd THEN "free" ELSE link[fd]
    BY <1>1, <1>4 DEF NowHere, Closed
  <2>2. Lost' = Lost
    BY <1>1, <1>4, <2>1 DEF Lost, Closed, hasClient
  <2> QED
    BY <1>1, <1>4, <2>1, <2>2 DEF Closed, SocketsHeld, LostAllowed, hasClient
<1>5. CASE Opened /\ ~Idle' /\ (Idle \/ ~hasClient(connection))
  <2>1. PICK how \in {"syn", "up"} :
          link' = [f \in Fd |-> IF f = NextFd THEN how
                                ELSE IF f = connection.fd THEN "lost" ELSE link[f]]
    BY <1>5 DEF Opened
  <2>2. NextFd \in Fd /\ link[NextFd] = "free" /\ connection'.fd = NextFd
    BY <1>5 DEF Opened, Free
  <2>3. \A fd \in Fd : link'[fd] \notin {"free", "lost"} <=> connection'.fd = fd
    BY <1>1, <2>1, <2>2
  <2>4. Cardinality(Lost)' <= MaxLost
    <3>1. CASE ~hasClient(connection)
      <4>1. Lost' = Lost
        BY <1>1, <2>1, <2>2, <3>1 DEF Lost, hasClient
      <4> QED
        BY <1>1, <4>1
    <3>2. CASE hasClient(connection)
      <4>1. Lost' = Lost \cup {connection.fd} /\ connection.fd \notin Lost
        BY <1>1, <2>1, <2>2, <3>2 DEF Lost, hasClient
      <4>2. Cardinality(Lost)' = Cardinality(Lost) + 1
        BY <4>1, LostIsFinite, FS_AddElement
      <4>3. Cardinality(Lost) < MaxLost
        BY <1>5, <3>2 DEF LostAllowed
      <4> QED
        BY <4>2, <4>3, LostIsFinite, ClientAssumption
    <3> QED
      BY <3>1, <3>2
  <2> QED
    BY <1>5, <2>3, <2>4 DEF SocketsHeld, LostAllowed
<1> QED
  BY <1>2, <1>3, <1>4, <1>5 DEF SocketStep

LEMMA StartConnectionSockets ==
  ASSUME TypeOK, NEW a \in Addr \cup {Unknown}, startConnection(a),
         Idle \/ ~hasClient(connection)
  PROVE  SocketStep
<1>1. WireOK
  BY TypeParts
<1>2. ASSUME NEW how \in {"syn", "up"}, a # Unknown, OpenSocket(a, how) PROVE Opened
  BY <1>1, <1>2, OpenSocketType DEF Opened, OpenSocket
<1>3. CASE Connecting(a) \/ Immediately(a)
  BY <1>2, <1>3 DEF Connecting, Immediately, SocketStep, Idle
<1>4. CASE NoConnection
  BY <1>4 DEF NoConnection, wire, SocketStep, Kept, StaysIdle
<1> QED
  BY <1>3, <1>4 DEF startConnection

LEMMA StartResolvingSockets ==
  ASSUME TypeOK, startResolving, Idle \/ ~hasClient(connection)
  PROVE  SocketStep
<1>1. kind \in {"ip", "local", "invalid"}
  BY TypeParts, KindIsKnown
<1>2. CASE kind = "ip"
  <2>1. startConnection(Configured)
    BY <1>2 DEF startResolving
  <2> QED
    BY <2>1, StartConnectionSockets, ClientAssumption
<1>3. CASE kind \in {"local", "invalid"}
  <2>1. UNCHANGED <<connection, wire>>
    BY <1>3 DEF startResolving
  <2> QED
    BY <2>1 DEF wire, SocketStep, Kept, StaysIdle
<1> QED
  BY <1>1, <1>2, <1>3

LEMMA DropSockets == ASSUME TypeOK, hasClient(connection), Drop PROVE SocketStep
BY TypeParts, DropType DEF ClientOK, Drop, Closed, SocketStep

LEMMA CheckSockets ==
  ASSUME TypeOK, checkConnection
  PROVE  SocketStep
<1>1. address \in Addr \cup {Unknown}
  BY TypeParts DEF HostOK
<1>2. CASE DoesNothing
  BY <1>2 DEF DoesNothing, Waits, StaysConnected, RetryLater, wire,
     SocketStep, Kept, StaysIdle, Idle
<1>3. CASE Connects
  BY <1>1, <1>3, StartConnectionSockets DEF Connects, Idle
<1>4. CASE Retries
  BY <1>4, StartResolvingSockets DEF Retries, Idle
<1>5. CASE GoesOn
  <2>1. CASE Drop
    BY <1>5, <2>1, DropSockets DEF GoesOn
  <2>2. CASE UNCHANGED <<connection, wire>> /\ (Idle' => Cardinality(Lost) < MaxLost)
    BY <2>2 DEF wire, SocketStep, Kept, StaysIdle
  <2> QED
    BY <1>5, <2>1, <2>2 DEF GoesOn, checkConnecting, Established, ConnectFails,
       ConnectTimeout, StillConnecting, LostAtStart, Idle
<1> QED
  BY <1>2, <1>3, <1>4, <1>5, CheckConnectionCases

LEMMA MainLoopSockets ==
  ASSUME TypeOK, BeginsIdle, MainLoop
  PROVE  SocketStep
<1>1. WireOK /\ ClientOK
  BY TypeParts
<1>2. CASE begin
  BY <1>2, StartResolvingSockets DEF begin, BeginsIdle, Idle
<1>3. CASE Check("check1", "read") \/ Check("check2", "write") \/ Check("check3", "write3")
  BY <1>3, CheckSockets DEF Check
<1>4. ASSUME UNCHANGED state, Kept PROVE SocketStep
  BY <1>4 DEF SocketStep, StaysIdle, Idle
<1>5. CASE ReadPart
  <2>1. CASE \E n \in 1 .. RxSize : Received(n)
    BY <1>4, <1>5, <2>1, ReceivedType DEF ReadPart, Received, Kept
  <2>2. CASE Disconnected /\ Usable
    BY <2>2, DropSockets DEF Disconnected, Usable
  <2>3. CASE UNCHANGED <<connection, wire>>
    BY <1>4, <1>5, <2>3 DEF ReadPart, wire, Kept
  <2> QED
    BY <1>5, <2>1, <2>2, <2>3 DEF ReadPart, NothingReceived
<1>6. ASSUME NEW from, NEW next, WritePart(from, next) PROVE SocketStep
  <2>1. UNCHANGED state
    BY <1>6 DEF WritePart
  <2>2. CASE /\ Usable
             /\ \E n \in 1 .. TxSize, res \in {Again, Failed} \cup 1 .. TxSize :
                  WriteSome(n, res)
    BY <1>4, <2>1, <2>2, WriteSomeType DEF Usable, Kept, Closed, SocketStep
  <2>3. CASE UNCHANGED wire /\ connection' \in
               {connection, [connection EXCEPT !.pendingWrite = FALSE]}
    BY <1>1, <1>4, <2>1, <2>3, NothingPendingHere DEF ClientOK, wire, Kept
  <2> QED
    BY <1>6, <2>2, <2>3 DEF WritePart
<1>7. CASE sendToClients
  <2>1. <<<<Bus, 1>>, <<Bus, 2>>>> \in Seq(OutPiece)
    BY DEF OutPiece
  <2> QED
    BY <1>1, <1>4, <1>7, <2>1, EnqueueHere DEF sendToClients, ClientOK, wire, Kept
<1>8. CASE OthersDone
  BY <1>4, <1>8 DEF OthersDone, client, wire, Kept
<1>9. CASE readMessages
  BY <1>1, <1>4, <1>9, WithoutFirstTyped DEF readMessages, IsConnection, ClientOK, wire, Kept
<1>10. CASE SameTick \/ NextTick
  BY <1>4, <1>10, RepeatType DEF SameTick, NextTick, Repeat, wire, Kept
<1> QED
  BY <1>2, <1>3, <1>5, <1>6, <1>7, <1>8, <1>9, <1>10 DEF MainLoop

LEMMA OthersSockets ==
  ASSUME TypeOK, ResolverIffResolving, Network \/ Resolver \/ UNCHANGED vars
  PROVE  SocketStep
<1>1. CASE HandshakeDone \/ LinkEnds
  <2>1. /\ \E s \in LinkState \ {"free", "lost"} : NowHere(s)
        /\ hasClient(connection) /\ UNCHANGED client
    BY <1>1 DEF HandshakeDone, LinkEnds, Here, LinkState
  <2> QED
    BY <2>1 DEF client, SocketStep, Changed, StaysIdle, Idle
<1>2. CASE UNCHANGED <<connection, link>> /\ (Idle' => Idle)
  BY <1>2 DEF SocketStep, Kept, StaysIdle
<1>3. CASE HostMoves \/ ServerSends \/ UNCHANGED vars
  BY <1>2, <1>3 DEF HostMoves, ServerSends, vars, client, wire, Idle
<1>4. CASE Resolver
  <2>1. UNCHANGED <<connection, link>> /\ (UNCHANGED state \/ resolver = "locked")
    BY <1>4 DEF Resolver, AnswerFound, AnswerNone, Answer, ResolverEnds, client, wire
  <2> QED
    BY <2>1 DEF SocketStep, Kept, StaysIdle, Idle, ResolverIffResolving
<1> QED
  BY <1>1, <1>3, <1>4 DEF Network

(* Every socket that is open belongs to the present connection, or is one  *)
(* of the boundedly many that were lost at the start of a connection: no   *)
(* failed attempt, timeout, error or close leaks one.                      *)
THEOREM SocketsCorrect == Spec => []SocketsHeld
<1> DEFINE IInv == SocketsHeld /\ LostAllowed
<1>1. Init => BeginsIdle /\ IInv
  <2> SUFFICES ASSUME Init PROVE BeginsIdle /\ IInv
    OBVIOUS
  <2>1. connection.fd = NoClient /\ NoClient \notin Fd /\ \A fd \in Fd : link[fd] = "free"
    BY SetClientTyped, ClientAssumption DEF Init, Fd
  <2>2. Lost = {}
    BY <2>1 DEF Lost
  <2>3. Cardinality(Lost) <= MaxLost
    BY <2>2, FS_EmptySet, ClientAssumption
  <2> QED
    BY <2>1, <2>3 DEF Init, BeginsIdle, SocketsHeld, LostAllowed, hasClient
<1>2. TypeOK /\ ResolverIffResolving /\ BeginsIdle /\ [Next]_vars => BeginsIdle'
  BY MainLoopResolver, OthersResolver DEF Next
<1>3. TypeOK /\ ResolverIffResolving /\ BeginsIdle /\ IInv /\ [Next]_vars => IInv'
  BY MainLoopSockets, OthersSockets, SocketInvariant DEF Next
<1>4. IInv => SocketsHeld
  OBVIOUS
<1> QED
  BY <1>1, <1>2, <1>3, <1>4, TypeCorrect, ResolverCorrect, PTL DEF Spec
-----------------------------------------------------------------------------
(* Both directions of a connection start with a whole message.  What send  *)
(* took and the send buffer hold are whole messages of the other channels; *)
(* what was received and still arrives is numbered without a gap after an  *)
(* even number, and as long as the server can send ends with its last      *)
(* piece.                                                                  *)
Alternates(s) ==
  Len(s) % 2 = 0 /\ \A k \in 1 .. Len(s) : s[k] = <<Bus, IF k % 2 = 1 THEN 1 ELSE 2>>

Lives == link[connection.fd] \in {"syn", "up"}
FreshOut == Alternates(got \o connection.out)
FreshIn ==
  \E b \in Nat : /\ b % 2 = 0 /\ Numbered(connection.in \o arriving, Server, b)
                 /\ Lives => b + Len(connection.in \o arriving) = sent
Fresh == hasClient(connection) => FreshOut /\ FreshIn

(* What the types say about the streams. *)
LEMMA StreamTypes ==
  ASSUME TypeOK
  PROVE  /\ got \in Seq(OutPiece) /\ connection.out \in Seq(OutPiece)
         /\ arriving \in Seq(InPiece) /\ connection.in \in Seq(InPiece)
         /\ connection \in ConnectionOf(Fd, OutPiece, InPiece) /\ sent \in Nat
<1>1. WireOK /\ connection \in ConnectionOf(Fd, OutPiece, InPiece) /\ Lines \in Nat
  BY TypeParts, ClientAssumption DEF ClientOK, IsConnection, IsConnectionOf
<1> QED
  BY <1>1 DEF WireOK, ConnectionOf

LEMMA FreshStarts == ASSUME TypeOK, Fresh PROVE ConnectionsStartFresh
<1> SUFFICES ASSUME hasClient(connection)
             PROVE  LET out == got \o connection.out
                        in == connection.in \o arriving
                    IN  IsMessageStream(out) /\ Len(out) % 2 = 0 /\ IsMessageStream(in)
  BY DEF ConnectionsStartFresh
<1> DEFINE out == got \o connection.out
           in == connection.in \o arriving
<1>1. out \in Seq(OutPiece) /\ in \in Seq(InPiece) /\ Len(out) \in Nat
  BY StreamTypes, ConcatProperties, LenProperties
<1>2. Alternates(out) /\ \E b \in Nat : b % 2 = 0 /\ Numbered(in, Server, b)
  BY DEF Fresh, FreshOut, FreshIn
<1> HIDE DEF out, in
<1>3. IsMessageStream(in)
  BY <1>1, <1>2, NumberedIsFramed
<1>4. IsMessageStream(out)
  <2> SUFFICES ASSUME NEW k \in 1 .. Len(out)
               PROVE  IF k % 2 = 1 THEN out[k][2] % 2 = 1
                      ELSE out[k] = <<out[k - 1][1], out[k - 1][2] + 1>>
    BY DEF IsMessageStream
  <2>1. out[k] = <<Bus, IF k % 2 = 1 THEN 1 ELSE 2>>
    BY <1>2 DEF Alternates
  <2>2. CASE k % 2 # 1
    <3>1. k - 1 \in 1 .. Len(out) /\ (k - 1) % 2 = 1
      BY <1>1, <2>2
    <3>2. out[k - 1] = <<Bus, 1>>
      BY <1>2, <3>1 DEF Alternates
    <3> QED
      BY <2>1, <2>2, <3>2
  <2> QED
    BY <2>1, <2>2
<1> QED
  BY <1>2, <1>3, <1>4 DEF Alternates, out, in

(* One more message of another channel. *)
LEMMA AlternatesOn ==
  ASSUME NEW s \in Seq(OutPiece), Alternates(s)
  PROVE  Alternates(s \o <<<<Bus, 1>>, <<Bus, 2>>>>)
<1> DEFINE m == <<<<Bus, 1>>, <<Bus, 2>>>>
           n == Len(s)
<1>1. m \in Seq(OutPiece) /\ Len(m) = 2 /\ m[1] = <<Bus, 1>> /\ m[2] = <<Bus, 2>>
  BY DEF OutPiece
<1> HIDE DEF m
<1>2. /\ n \in Nat /\ Len(s \o m) = n + 2
      /\ \A j \in 1 .. n : (s \o m)[j] = s[j]
      /\ \A j \in 1 .. 2 : (s \o m)[n + j] = m[j]
  BY <1>1, ConcatParts
<1> HIDE DEF n
<1>3. n % 2 = 0 /\ \A k \in 1 .. n : s[k] = <<Bus, IF k % 2 = 1 THEN 1 ELSE 2>>
  BY DEF Alternates, n
<1>4. (n + 2) % 2 = 0 /\ (n + 1) % 2 = 1
  BY <1>2, <1>3
<1>5. (s \o m)[n + 1] = <<Bus, 1>> /\ (s \o m)[n + 2] = <<Bus, 2>>
  BY <1>1, <1>2
<1>6. ASSUME NEW k \in 1 .. n + 2
      PROVE  (s \o m)[k] = <<Bus, IF k % 2 = 1 THEN 1 ELSE 2>>
  <2>1. CASE k \in 1 .. n
    BY <1>2, <1>3, <2>1
  <2>2. CASE k = n + 1
    BY <1>4, <1>5, <2>2
  <2>3. CASE k = n + 2
    BY <1>4, <1>5, <2>3
  <2>4. k \in 1 .. n \/ k = n + 1 \/ k = n + 2
    BY <1>2
  <2> QED
    BY <2>1, <2>2, <2>3, <2>4
<1>7. Alternates(s \o m)
  BY <1>2, <1>4, <1>6 DEF Alternates
<1> QED
  BY <1>7 DEF m

-----------------------------------------------------------------------------
(* The steps: pieces move along the two streams, the streams start anew,   *)
(* or the connection is gone.                                              *)
SameOut == got' \o connection'.out = got \o connection.out
SameIn ==
  connection'.in \o arriving' = connection.in \o arriving /\ sent' = sent /\ (Lives' => Lives)

LEMMA FlowsFresh ==
  ASSUME Fresh, connection'.fd = connection.fd, SameOut, SameIn
  PROVE  Fresh'
BY DEF Fresh, FreshOut, FreshIn, SameOut, SameIn, hasClient

LEMMA StillFresh == ASSUME Fresh, UNCHANGED <<connection, wire>> PROVE Fresh'
BY FlowsFresh DEF SameOut, SameIn, Lives, wire

LEMMA OpenFresh ==
  ASSUME NEW a, NEW how, OpenSocket(a, how)
  PROVE  Fresh'
<1>1. /\ connection'.out = << >> /\ connection'.in = << >>
      /\ got' = << >> /\ arriving' = << >> /\ sent' = 0
  BY DEF OpenSocket, setClient
<1>2. << >> \o << >> = << >> /\ Len(<< >>) = 0
  OBVIOUS
<1>3. FreshOut'
  BY <1>1, <1>2 DEF FreshOut, Alternates
<1>4. FreshIn'
  <2>1. 0 \in Nat /\ 0 % 2 = 0 /\ Numbered(<< >>, Server, 0) /\ 0 + Len(<< >>) = 0
    BY <1>2 DEF Numbered
  <2> QED
    BY <1>1, <1>2, <2>1 DEF FreshIn
<1> QED
  BY <1>3, <1>4 DEF Fresh

LEMMA DropFresh == ASSUME TypeOK, Drop PROVE Fresh'
BY StreamTypes DEF Drop, stop, Fresh, hasClient, ConnectionOf

LEMMA StartConnectionFresh ==
  ASSUME Fresh, NEW a, startConnection(a)
  PROVE  Fresh'
BY OpenFresh, StillFresh DEF startConnection, Connecting, Immediately, NoConnection

LEMMA StartResolvingFresh ==
  ASSUME TypeOK, Fresh, startResolving
  PROVE  Fresh'
<1>1. kind \in {"ip", "local", "invalid"}
  BY TypeParts, KindIsKnown
<1>2. startConnection(Configured) \/ UNCHANGED <<connection, wire>>
  BY <1>1 DEF startResolving
<1> QED
  BY <1>2, StartConnectionFresh, StillFresh

LEMMA CheckFresh ==
  ASSUME TypeOK, Fresh, checkConnection
  PROVE  Fresh'
<1>1. CASE DoesNothing
  BY <1>1, StillFresh DEF DoesNothing
<1>2. CASE Connects
  BY <1>2, StartConnectionFresh DEF Connects
<1>3. CASE Retries
  BY <1>3, StartResolvingFresh DEF Retries
<1>4. CASE GoesOn
  <2>1. Drop \/ UNCHANGED <<connection, wire>>
    BY <1>4 DEF GoesOn, checkConnecting, Established, ConnectFails, ConnectTimeout,
       StillConnecting, LostAtStart
  <2> QED
    BY <2>1, DropFresh, StillFresh
<1> QED
  BY <1>1, <1>2, <1>3, <1>4, CheckConnectionCases

LEMMA ReceivedFresh ==
  ASSUME TypeOK, Fresh, NEW n \in 1 .. RxSize, Received(n)
  PROVE  Fresh'
<1> DEFINE d == SubSeq(arriving, 1, n)
<1>1. /\ n \in 1 .. Len(arriving) /\ n <= RxSize - Len(connection.in) /\ connection' = read(connection, n, d)
      /\ arriving' = SubSeq(arriving, n + 1, Len(arriving)) /\ UNCHANGED <<link, sent, got>>
  BY DEF Received
<1>2. Len(connection.in) \in Nat /\ Len(arriving) \in Nat
  BY StreamTypes, LenProperties
<1>3. connection' = [connection EXCEPT !.in = @ \o d]
  <2>1. ~(Len(connection.in) >= RxSize) /\ n \notin {Again, Failed, Shutdown}
    BY <1>1, <1>2, ConnectionAssumption DEF Again, Failed, Shutdown
  <2> QED
    BY <1>1, <2>1 DEF read
<1>4. (connection.in \o d) \o arriving' = connection.in \o arriving
  <2>1. n \in 0 .. Len(arriving)
    BY <1>1, <1>2
  <2> QED
    BY <1>1, <2>1, StreamTypes, PiecesMoved
<1> HIDE DEF d
<1>5. connection'.fd = connection.fd /\ connection'.out = connection.out /\ connection'.in = connection.in \o d
  BY <1>3, StreamTypes DEF ConnectionOf
<1> QED
  BY <1>1, <1>4, <1>5, FlowsFresh DEF SameOut, SameIn, Lives

(* A write that does not close the connection took pieces or none. *)
LEMMA WriteMoves ==
  ASSUME NEW c \in ConnectionOf(Fd, OutPiece, InPiece), NEW n \in 1 .. Len(c.out),
         NEW res \in (1 .. n) \cup {Again, Failed}, hasClient(writeOrClose(c, n, res))
  PROVE  LET w == writeOrClose(c, n, res)
         IN  /\ w.fd = c.fd /\ w.in = c.in
             /\ \/ res = Again /\ w.out = c.out
                \/ res \in 1 .. n /\ w.out = SubSeq(c.out, res + 1, Len(c.out))
<1> DEFINE r == SendResult(c, n, res)
<1>1. c.out \in Seq(OutPiece) /\ Len(c.out) \in Nat /\ c.out # << >>
  <2>1. c.out \in Seq(OutPiece) /\ Len(c.out) \in Nat
    BY LenProperties DEF ConnectionOf
  <2> QED
    BY <2>1, EmptySeq
<1>2. writeOrClose(c, n, res) = IF r.writeError THEN stop(r) ELSE r
  BY <1>1 DEF writeOrClose
<1>3. CASE res = Again
  <2>1. r = c
    BY <1>3 DEF SendResult, Again, Failed
  <2> QED
    BY <1>2, <1>3, <2>1 DEF stop, hasClient, ConnectionOf
<1>4. CASE res = Failed
  <2>1. r = stop(c)
    BY <1>4 DEF SendResult, Again, Failed
  <2>2. ~hasClient(r) /\ ~hasClient(stop(r))
    BY <2>1 DEF stop, hasClient, ConnectionOf
  <2> QED
    BY <1>2, <2>2
<1>5. CASE res \in 1 .. n
  <2>1. res > 0 /\ res # Again /\ res # Failed
    BY <1>1, <1>5 DEF Again, Failed
  <2>2. r.fd = c.fd /\ r.in = c.in /\ r.out = SubSeq(c.out, res + 1, Len(c.out)) /\ DOMAIN r = DOMAIN c
    BY <2>1 DEF SendResult, ConnectionOf
  <2> HIDE DEF r
  <2>3. "fd" \in DOMAIN r
    BY <2>2 DEF ConnectionOf
  <2>4. ~hasClient(stop(r))
    BY <2>3 DEF stop, hasClient
  <2> QED
    BY <1>2, <1>5, <2>2, <2>4
<1> QED
  BY <1>3, <1>4, <1>5

LEMMA WriteSomeFresh ==
  ASSUME TypeOK, Fresh, NEW n, NEW res \in {Again, Failed} \cup 1 .. TxSize, WriteSome(n, res)
  PROVE  Fresh'
<1> DEFINE w == writeOrClose(connection, n, res)
<1>1. n \in 1 .. Len(connection.out) /\ res \in (1 .. n) \cup {Again, Failed} /\ connection' = w
  BY DEF WriteSome
<1>2. CASE ~hasClient(w)
  BY <1>1, <1>2 DEF Fresh
<1>3. CASE hasClient(w)
  <2>1. /\ w.fd = connection.fd /\ w.in = connection.in
        /\ \/ res = Again /\ w.out = connection.out
           \/ res \in 1 .. n /\ w.out = SubSeq(connection.out, res + 1, Len(connection.out))
    BY <1>1, <1>3, StreamTypes, WriteMoves
  <2>2. /\ got' = IF res > 0 THEN got \o SubSeq(connection.out, 1, res) ELSE got
        /\ UNCHANGED <<link, arriving, sent>>
    BY <1>3 DEF WriteSome
  <2> HIDE DEF w
  <2>3. SameOut
    <3>1. CASE res = Again /\ w.out = connection.out
      BY <1>1, <2>2, <3>1 DEF SameOut, Again
    <3>2. CASE res \in 1 .. n /\ w.out = SubSeq(connection.out, res + 1, Len(connection.out))
      <4>1. Len(connection.out) \in Nat
        BY StreamTypes, LenProperties
      <4>2. res \in 0 .. Len(connection.out) /\ res > 0
        BY <1>1, <3>2, <4>1
      <4>3. (got \o SubSeq(connection.out, 1, res)) \o SubSeq(connection.out, res + 1, Len(connection.out))
              = got \o connection.out
        BY <4>2, StreamTypes, PiecesMoved
      <4> QED
        BY <1>1, <2>2, <3>2, <4>2, <4>3 DEF SameOut
    <3> QED
      BY <2>1, <3>1, <3>2
  <2> QED
    BY <1>1, <2>1, <2>2, <2>3, FlowsFresh DEF SameIn, Lives
<1> QED
  BY <1>2, <1>3

LEMMA MoreEnqueued ==
  ASSUME NEW u \in Seq(OutPiece), NEW v \in Seq(OutPiece), NEW w \in Seq(OutPiece)
  PROVE  u \o (v \o w) = (u \o v) \o w
BY ConcatAssociative

LEMMA MoreArriving ==
  ASSUME NEW u \in Seq(InPiece), NEW v \in Seq(InPiece), NEW x \in InPiece
  PROVE  u \o Append(v, x) = Append(u \o v, x)
BY ConcatAppend

LEMMA MessageRead ==
  ASSUME NEW c, "in" \in DOMAIN c, c.in \in Seq(InPiece), HasMessage(c),
         NEW a \in Seq(InPiece), NEW e, NumberedUpTo(c.in \o a, Server, e)
  PROVE  NumberedUpTo(withoutFirst(c).in \o a, Server, e)
BY WithoutFirstUpTo

LEMMA SendToClientsFresh == ASSUME TypeOK, Fresh, sendToClients PROVE Fresh'
<1> DEFINE m == <<<<Bus, 1>>, <<Bus, 2>>>>
<1>1. /\ connection' = enqueue(connection, m) /\ UNCHANGED wire
      /\ hasClient(connection)
  BY DEF sendToClients, Usable
<1>2. m \in Seq(OutPiece)
  BY DEF OutPiece
<1>3. Alternates((got \o connection.out) \o m)
  <2>1. got \o connection.out \in Seq(OutPiece)
    BY StreamTypes, ConcatProperties
  <2> QED
    BY <1>1, <2>1, AlternatesOn DEF Fresh, FreshOut
<1> HIDE DEF m
<1>4. CASE connection' = connection
  BY <1>1, <1>4, StillFresh
<1>5. CASE connection' = [connection EXCEPT !.out = @ \o m]
  <2>1. connection'.fd = connection.fd /\ connection'.in = connection.in /\ connection'.out = connection.out \o m
    BY <1>5, StreamTypes DEF ConnectionOf
  <2>2. got \o (connection.out \o m) = (got \o connection.out) \o m
    <3>1. got \in Seq(OutPiece) /\ connection.out \in Seq(OutPiece)
      BY StreamTypes
    <3> QED
      BY <1>2, <3>1, MoreEnqueued
  <2>3. FreshOut'
    BY <1>1, <1>3, <2>1, <2>2 DEF FreshOut, wire
  <2>4. FreshIn'
    BY <1>1, <2>1 DEF Fresh, FreshIn, Lives, wire
  <2> QED
    BY <2>3, <2>4 DEF Fresh
<1> QED
  BY <1>1, <1>4, <1>5 DEF enqueue

LEMMA ReadMessagesFresh == ASSUME TypeOK, Fresh, readMessages PROVE Fresh'
<1>1. UNCHANGED wire
  BY DEF readMessages
<1>2. CASE UNCHANGED connection
  BY <1>1, <1>2, StillFresh
<1>3. CASE ~UNCHANGED connection
  <2>1. Usable /\ HasMessage(connection) /\ connection' = withoutFirst(connection)
    BY <1>3 DEF readMessages
  <2>2. connection'.fd = connection.fd /\ connection'.out = connection.out
    BY <2>1, StreamTypes DEF withoutFirst, ConnectionOf
  <2>3. PICK b \in Nat : /\ b % 2 = 0 /\ Numbered(connection.in \o arriving, Server, b)
                         /\ Lives => b + Len(connection.in \o arriving) = sent
    BY <2>1 DEF Fresh, FreshIn, Usable
  <2>4. "in" \in DOMAIN connection /\ connection.in \in Seq(InPiece) /\ arriving \in Seq(InPiece)
    BY StreamTypes DEF ConnectionOf
  <2>5. PICK d \in Nat :
          /\ d % 2 = 0 /\ Numbered(withoutFirst(connection).in \o arriving, Server, d)
          /\ d + Len(withoutFirst(connection).in \o arriving) = b + Len(connection.in \o arriving)
    <3>1. NumberedUpTo(connection.in \o arriving, Server, b + Len(connection.in \o arriving))
      BY <2>3 DEF NumberedUpTo
    <3>2. NumberedUpTo(withoutFirst(connection).in \o arriving, Server, b + Len(connection.in \o arriving))
      BY <2>1, <2>4, <3>1, MessageRead
    <3> QED
      BY <3>2 DEF NumberedUpTo
  <2>6. FreshIn'
    BY <1>1, <2>1, <2>2, <2>3, <2>5 DEF FreshIn, Lives, wire
  <2>7. FreshOut'
    BY <1>1, <2>1, <2>2 DEF Fresh, FreshOut, Usable, wire
  <2> QED
    BY <2>6, <2>7 DEF Fresh
<1> QED
  BY <1>2, <1>3

LEMMA MainLoopFresh == ASSUME TypeOK, Fresh, MainLoop PROVE Fresh'
<1>1. CASE begin
  BY <1>1, StartResolvingFresh DEF begin
<1>2. CASE Check("check1", "read") \/ Check("check2", "write") \/ Check("check3", "write3")
  BY <1>2, CheckFresh DEF Check
<1>3. CASE ReadPart
  BY <1>3, ReceivedFresh, DropFresh, StillFresh DEF ReadPart, NothingReceived, Disconnected
<1>4. ASSUME NEW from, NEW next, WritePart(from, next) PROVE Fresh'
  <2>1. CASE \E n \in 1 .. TxSize, res \in {Again, Failed} \cup 1 .. TxSize : WriteSome(n, res)
    BY <2>1, WriteSomeFresh
  <2>2. CASE UNCHANGED wire /\ connection' \in {connection, [connection EXCEPT !.pendingWrite = FALSE]}
    <3>1. connection'.fd = connection.fd /\ connection'.in = connection.in /\ connection'.out = connection.out
      BY <2>2, StreamTypes DEF ConnectionOf
    <3> QED
      BY <2>2, <3>1, FlowsFresh DEF SameOut, SameIn, Lives, wire
  <2> QED
    BY <1>4, <2>1, <2>2 DEF WritePart
<1>5. CASE sendToClients
  BY <1>5, SendToClientsFresh
<1>6. CASE OthersDone
  BY <1>6, StillFresh DEF OthersDone, client
<1>7. CASE readMessages
  BY <1>7, ReadMessagesFresh
<1>8. CASE SameTick \/ NextTick
  <2>1. UNCHANGED wire /\ connection' \in {connection, aged(connection)}
    BY <1>8 DEF SameTick, NextTick, Repeat
  <2>2. connection'.fd = connection.fd /\ connection'.in = connection.in /\ connection'.out = connection.out
    BY <2>1, StreamTypes DEF aged, ConnectionOf
  <2> QED
    BY <2>1, <2>2, FlowsFresh DEF SameOut, SameIn, Lives, wire
<1> QED
  BY <1>1, <1>2, <1>3, <1>4, <1>5, <1>6, <1>7, <1>8 DEF MainLoop

LEMMA ServerSendsFresh == ASSUME TypeOK, Fresh, ServerSends PROVE Fresh'
<1> DEFINE x == <<Server, sent + 1>>
           s == connection.in \o arriving
<1>1. /\ hasClient(connection) /\ Lives /\ UNCHANGED <<connection, link, got>>
      /\ sent' = sent + 1 /\ arriving' = Append(arriving, x)
  BY DEF ServerSends, Here, Lives, client
<1>2. x \in InPiece /\ s \in Seq(InPiece) /\ sent \in Nat
  BY StreamTypes, ConcatProperties DEF InPiece
<1>3. PICK b \in Nat : b % 2 = 0 /\ Numbered(s, Server, b) /\ b + Len(s) = sent
  BY <1>1 DEF Fresh, FreshIn
<1>4. connection'.in \o arriving' = Append(s, x)
  <2>1. connection.in \in Seq(InPiece) /\ arriving \in Seq(InPiece)
    BY StreamTypes
  <2>2. connection'.in = connection.in /\ x \in InPiece
    BY <1>1, <1>2
  <2> HIDE DEF x
  <2>3. connection.in \o Append(arriving, x) = Append(connection.in \o arriving, x)
    BY <2>1, <2>2, MoreArriving
  <2> QED
    BY <1>1, <2>2, <2>3
<1>5. x = <<Server, b + Len(s) + 1>>
  BY <1>3
<1> HIDE DEF x, s
<1>6. Numbered(Append(s, x), Server, b) /\ Len(Append(s, x)) = Len(s) + 1 /\ Len(s) \in Nat
  BY <1>2, <1>3, <1>5, NumberedAppend, LenProperties
<1>7. b + Len(Append(s, x)) = sent'
  BY <1>1, <1>2, <1>3, <1>6
<1>8. FreshIn'
  BY <1>3, <1>4, <1>6, <1>7 DEF FreshIn
<1>9. FreshOut'
  BY <1>1 DEF Fresh, FreshOut
<1> QED
  BY <1>8, <1>9 DEF Fresh

LEMMA LinkEndsFresh == ASSUME TypeOK, Fresh, LinkEnds PROVE Fresh'
<1>1. PICK how \in {"refused", "eof", "reset"} :
        /\ NowHere(how) /\ arriving' \in {arriving, << >>} /\ UNCHANGED <<client, sent, got>>
        /\ hasClient(connection)
  BY DEF LinkEnds, Here
<1>2. ~Lives'
  <2>1. connection.fd \in Fd /\ link \in [Fd -> LinkState]
    BY <1>1, TypeParts, StreamTypes DEF WireOK, ConnectionOf, hasClient
  <2> QED
    BY <1>1, <2>1 DEF Lives, NowHere, client
<1>3. PICK b \in Nat : b % 2 = 0 /\ Numbered(connection.in \o arriving, Server, b)
  BY <1>1 DEF Fresh, FreshIn
<1>4. Numbered(connection.in \o arriving', Server, b)
  <2>1. Numbered(connection.in, Server, b) /\ connection.in \o << >> = connection.in
    BY <1>3, StreamTypes, NumberedFront, ConcatEmptySeq
  <2> QED
    BY <1>1, <1>3, <2>1
<1>5. FreshIn' /\ FreshOut'
  BY <1>1, <1>2, <1>3, <1>4 DEF FreshIn, FreshOut, Fresh, client
<1> QED
  BY <1>5 DEF Fresh

LEMMA OthersFresh ==
  ASSUME TypeOK, Fresh, Network \/ Resolver \/ UNCHANGED vars
  PROVE  Fresh'
<1>1. CASE HandshakeDone
  <2>1. /\ hasClient(connection) /\ Lives /\ UNCHANGED <<client, arriving, sent, got>>
    BY <1>1 DEF HandshakeDone, Here, Lives
  <2> QED
    BY <2>1, FlowsFresh DEF SameOut, SameIn, client
<1>2. CASE ServerSends
  BY <1>2, ServerSendsFresh
<1>3. CASE LinkEnds
  BY <1>3, LinkEndsFresh
<1>4. CASE HostMoves \/ Resolver \/ UNCHANGED vars
  <2>1. UNCHANGED <<connection, wire>>
    BY <1>4 DEF HostMoves, Resolver, AnswerFound, AnswerNone, Answer, ResolverEnds, client, vars
  <2> QED
    BY <2>1, StillFresh
<1> QED
  BY <1>1, <1>2, <1>3, <1>4 DEF Network

(* Whatever an earlier connection has left behind, sent or received in     *)
(* part, on every connection both directions start with a whole message.   *)
THEOREM FreshConnections == Spec => []ConnectionsStartFresh
<1>1. Init => Fresh
  BY DEF Init, Fresh, hasClient, setClient
<1>2. TypeOK /\ Fresh /\ [Next]_vars => Fresh'
  BY MainLoopFresh, OthersFresh DEF Next
<1>3. TypeOK /\ Fresh => ConnectionsStartFresh
  BY FreshStarts
<1> QED
  BY <1>1, <1>2, <1>3, TypeCorrect, PTL DEF Spec
=============================================================================

-------------------------- MODULE GwRoutingProofs --------------------------
(***************************************************************************)
(* Proofs about GwRouting: for all settings, builds, clients and kinds of  *)
(* messages, nothing goes back to its origin, no port is given a message   *)
(* twice, and each port gets what its settings ask for.                    *)
(***************************************************************************)
EXTENDS GwRouting, SequenceTheorems, WellFoundedInduction, TLAPS

Sent == [msg : Message, by : {0} \cup DOMAIN channels]

(* Who may have given a port a message: a channel of the list that serves  *)
(* it, or nobody but the bus itself.                                       *)
Serves(c, p) == (p = c.id /\ c.id # MinTcp) \/ (c.id = MinTcp /\ p \in TcpClients)
GivenBy(i, p) == (i \in theChannels /\ Serves(channels[i], p)) \/ (i = 0 /\ p = Bus)

(* What a call may add for a port p when it handles a message of an origin *)
(* that is withheld from one port.                                         *)
Given(p, withheld, origin) ==
  {s \in Sent : s.msg.origin = origin /\ p # withheld /\ GivenBy(s.by, p)}

(* What is known of the channels, and does not change. *)
HasId(c) ==
  /\ c.id \in Channel /\ c.maxId = (IF c.id = MinTcp THEN MinTcp + 10 ELSE -1)
  /\ c.stream => c.id \in {Usb, Serial1, Serial2}
ChannelsOK ==
  /\ Len(channels) \in Nat /\ DOMAIN channels = 1 .. Len(channels)
  /\ \A i \in DOMAIN channels : HasId(channels[i])
  /\ theChannels \subseteq DOMAIN channels /\ IsAdded(theChannels)

SentOK == \A p \in Port : \A s \in sent[p] : s.msg.origin # p /\ GivenBy(s.by, p)

IInv == TypeOK /\ ChannelsOK /\ SentOK

LEMMA PortFacts ==
  /\ Port \subseteq Int /\ Bus \in Port /\ TaskId \in Port /\ Gateway \notin Port
  /\ Channel \subseteq Int /\ Bus \notin Channel /\ Channel \ {MinTcp} \subseteq Port
  /\ TcpClients \subseteq Port /\ TcpClients \cap (Channel \ {MinTcp}) = {}
<1> USE DEF Bus, Usb, Serial1, Serial2, TcpClient, MinTcp, UdpWriter, UdpReader
<1>1. /\ TcpClients \subseteq 5 .. 15 /\ TaskId \in Nat /\ TaskId >= 200
      /\ Gateway \notin Int
  BY RoutingAssumption
<1>2. Channel = {1, 2, 3, 4, 5, 20, 21}
  BY DEF Channel
<1>3. Port = {0, TaskId, 1, 2, 3, 4, 20, 21} \cup TcpClients
  BY <1>2 DEF Port
<1>4. Port \subseteq Int /\ Bus \in Port /\ TaskId \in Port
  <2>1. \A p \in TcpClients : p \in Int
    BY <1>1
  <2> QED BY <1>1, <1>3, <2>1
<1>6. Gateway \notin Port
  BY <1>1, <1>4
<1>5. /\ Channel \subseteq Int /\ Bus \notin Channel /\ Channel \ {MinTcp} \subseteq Port
      /\ TcpClients \subseteq Port /\ TcpClients \cap (Channel \ {MinTcp}) = {}
  BY <1>1, <1>2, <1>3
<1> QED BY <1>4, <1>5, <1>6

(* Sequences. *)
LEMMA SeqElements ==
  ASSUME NEW T, NEW s \in Seq(T)
  PROVE  /\ Len(s) \in Nat /\ DOMAIN s = 1 .. Len(s) /\ s \in [1 .. Len(s) -> T]
         /\ \A i \in DOMAIN s : s[i] \in T
BY LenProperties, ElementOfSeq

LEMMA IsSeq ==
  ASSUME NEW T, NEW n \in Nat, NEW s \in [1 .. n -> T]
  PROVE  s \in Seq(T)
BY SeqDef
-----------------------------------------------------------------------------
(* The channels. *)
LEMMA CreatedHasId ==
  ASSUME NEW id \in Channel, NEW impl \in BOOLEAN, NEW type
  PROVE  HasId(createChannel(id, impl, type))
<1> DEFINE c == createChannel(id, impl, type)
<1>1. c.id = id /\ c.maxId = (IF id = MinTcp THEN MinTcp + 10 ELSE -1)
  BY Zenon DEF createChannel
<1>2. c.stream = (impl /\ Get(id, "readAct", FALSE) /\ id \in {Usb, Serial1, Serial2})
  BY Zenon DEF createChannel
<1> QED BY <1>1, <1>2, Zenon DEF HasId

(* The TCP client alone may be without an implementation. *)
Present(id) == id = TcpClient => config[TcpClient].enabled

Creatable == {createChannel(id, Present(id), type) : id \in Channel, type \in Modes}
LEMMA CreatedOK ==
  ASSUME NEW build \in Builds, config \in Settings
  PROVE  Created(build) \in Seq(Creatable)
<1> DEFINE S == Creatable
           udp(id, enabled) == IF enabled THEN <<createChannel(id, TRUE, "BI")>> ELSE << >>
           usb == IF build.fallbackSerial THEN << >> ELSE <<createChannel(Usb, TRUE, "BI")>>
           tcp == <<createChannel(MinTcp, TRUE, "BI")>>
           ser == [i \in DOMAIN build.inits |->
                     createChannel(build.inits[i].serial, TRUE, build.inits[i].mode)]
           tcl == <<createChannel(TcpClient, config[TcpClient].enabled, "BI")>>
           uw == udp(UdpWriter, config[UdpWriter].send)
           ur == udp(UdpReader, config[UdpReader].receive)
<1>0. /\ Channel = {Usb, Serial1, Serial2, TcpClient, MinTcp, UdpWriter, UdpReader}
      /\ "BI" \in Modes
  BY DEF Channel, Modes
<1>1. \A id \in Channel \ {TcpClient}, type \in Modes : createChannel(id, TRUE, type) \in S
  <2> SUFFICES ASSUME NEW id \in Channel \ {TcpClient}, NEW type \in Modes
               PROVE  createChannel(id, TRUE, type) \in S
    OBVIOUS
  <2>1. Present(id) = TRUE
    BY DEF Present
  <2>2. createChannel(id, Present(id), type) \in S
    BY DEF Creatable
  <2> QED BY <2>1, <2>2
<1>2. createChannel(TcpClient, config[TcpClient].enabled, "BI") \in S
  <2>1. config[TcpClient].enabled \in BOOLEAN
    BY RoutingAssumption, <1>0, SMT DEF Setting
  <2>2. Present(TcpClient) = config[TcpClient].enabled
    BY <2>1 DEF Present
  <2>3. createChannel(TcpClient, Present(TcpClient), "BI") \in S
    BY <1>0 DEF Creatable
  <2> QED BY <2>2, <2>3
<1> HIDE DEF S
<1>3. usb \in Seq(S) /\ tcp \in Seq(S) /\ tcl \in Seq(S) /\ uw \in Seq(S) /\ ur \in Seq(S)
  <2>1. << >> \in Seq(S) /\ \A c \in S : <<c>> \in Seq(S)
    OBVIOUS
  <2>2. {Usb, Serial1, Serial2, MinTcp, UdpWriter, UdpReader} \subseteq Channel \ {TcpClient}
    BY <1>0 DEF Usb, Serial1, Serial2, TcpClient, MinTcp, UdpWriter, UdpReader
  <2>3. /\ createChannel(Usb, TRUE, "BI") \in S /\ createChannel(MinTcp, TRUE, "BI") \in S
        /\ createChannel(UdpWriter, TRUE, "BI") \in S /\ createChannel(UdpReader, TRUE, "BI") \in S
    BY <1>0, <1>1, <2>2
  <2>4. createChannel(TcpClient, config[TcpClient].enabled, "BI") \in S
    BY <1>2
  <2> QED BY <2>1, <2>2, <2>3, <2>4, Zenon
<1>4. ser \in Seq(S)
  <2>1. build.inits \in Seq([serial : {Serial1, Serial2}, mode : Modes])
    BY RoutingAssumption
  <2>2. /\ Len(build.inits) \in Nat /\ DOMAIN build.inits = 1 .. Len(build.inits)
        /\ \A i \in DOMAIN build.inits : build.inits[i] \in [serial : {Serial1, Serial2}, mode : Modes]
    BY <2>1, SeqElements
  <2>3. \A i \in DOMAIN build.inits :
          build.inits[i].serial \in Channel \ {TcpClient} /\ build.inits[i].mode \in Modes
    BY <2>2, <1>0 DEF Serial1, Serial2, TcpClient
  <2>4. \A i \in 1 .. Len(build.inits) :
          createChannel(build.inits[i].serial, TRUE, build.inits[i].mode) \in S
    BY <2>2, <2>3, <1>1, Zenon
  <2>5. ser \in [1 .. Len(build.inits) -> S]
    BY <2>2, <2>4, Zenon
  <2> QED BY <2>2, <2>5, IsSeq
<1>5. Created(build) = usb \o tcp \o ser \o tcl \o uw \o ur
  BY DEF Created
<1>6. usb \o tcp \o ser \o tcl \o uw \o ur \in Seq(S)
  <2> HIDE DEF usb, tcp, ser, tcl, uw, ur
  <2>1. usb \o tcp \in Seq(S)  BY <1>3, ConcatProperties
  <2>2. usb \o tcp \o ser \in Seq(S)  BY <2>1, <1>4, ConcatProperties
  <2>3. usb \o tcp \o ser \o tcl \in Seq(S)  BY <2>2, <1>3, ConcatProperties
  <2>4. usb \o tcp \o ser \o tcl \o uw \in Seq(S)  BY <2>3, <1>3, ConcatProperties
  <2> QED BY <2>4, <1>3, ConcatProperties
<1> HIDE DEF usb, tcp, ser, tcl, uw, ur
<1> QED BY <1>5, <1>6 DEF S

AsConfigured(c) == \E type \in Modes : c = createChannel(c.id, Present(c.id), type)
ChannelsConfigured == \A i \in DOMAIN channels : AsConfigured(channels[i])

LEMMA InitChannels == Init => ChannelsOK /\ ChannelsConfigured
<1> SUFFICES ASSUME Init PROVE ChannelsOK /\ ChannelsConfigured
  OBVIOUS
<1>1. PICK build \in Builds : channels = Created(build)
  BY DEF Init
<1>2. config \in Settings /\ theChannels \subseteq DOMAIN channels /\ IsAdded(theChannels)
  BY DEF Init
<1>3. channels \in Seq(Creatable)
  BY <1>1, <1>2, CreatedOK
<1>4. ASSUME NEW c \in Creatable PROVE HasId(c) /\ AsConfigured(c)
  <2>1. PICK id \in Channel, type \in Modes : c = createChannel(id, Present(id), type)
    BY DEF Creatable
  <2>2. Present(id) \in BOOLEAN
    BY DEF Present
  <2>3. c.id = id
    BY <2>1, Zenon DEF createChannel
  <2> QED BY <2>1, <2>2, <2>3, CreatedHasId DEF AsConfigured
<1>5. /\ Len(channels) \in Nat /\ DOMAIN channels = 1 .. Len(channels)
      /\ \A i \in DOMAIN channels : channels[i] \in Creatable
  BY <1>3, SeqElements
<1> QED BY <1>2, <1>4, <1>5 DEF ChannelsOK, ChannelsConfigured

(* Two channels of the list never serve the same port. *)
LEMMA OneServes ==
  ASSUME ChannelsOK, NEW p \in Port, NEW i \in theChannels, NEW j \in theChannels,
         Serves(channels[i], p), Serves(channels[j], p)
  PROVE  i = j
<1>1. HasId(channels[i]) /\ HasId(channels[j]) /\ i \in Int /\ j \in Int
  BY DEF ChannelsOK
<1>2. channels[i].id = channels[j].id
  BY <1>1, PortFacts DEF Serves, HasId
<1>3. overlaps(channels[i], channels[j]) /\ overlaps(channels[j], channels[i])
  BY <1>1, <1>2, SMT DEF overlaps, HasId, MinTcp, Channel, Usb, Serial1, Serial2, TcpClient, UdpWriter, UdpReader
<1>4. ~(i < j) /\ ~(j < i)
  BY <1>3 DEF ChannelsOK, IsAdded
<1> QED BY <1>1, <1>4
-----------------------------------------------------------------------------
(* What one call adds. *)
LEMMA LinesAdd ==
  ASSUME TypeOK, ChannelsOK, NEW p \in Port, NEW src, NEW m \in Message, NEW b \in BOOLEAN
  PROVE  sendToClients(p, m, src, b) \subseteq Given(p, src, m.origin)
<1> SUFFICES ASSUME NEW i \in theChannels, p \in Clients(channels[i], src)
             PROVE  By(m, i) \in Given(p, src, m.origin)
  BY Zenon DEF sendToClients
<1>1. p # src /\ Serves(channels[i], p)
  BY DEF Clients, Serves
<1>2. By(m, i) \in Sent /\ By(m, i).msg = m /\ By(m, i).by = i
  BY DEF By, Sent, ChannelsOK
<1> QED BY <1>1, <1>2 DEF Given, GivenBy

LEMMA ActisenseAdds ==
  ASSUME TypeOK, ChannelsOK, NEW p \in Port, NEW src, NEW m \in Message
  PROVE  sendActisense(p, m, src) \subseteq Given(p, src, m.origin)
<1> SUFFICES ASSUME NEW i \in theChannels, channels[i].stream,
                    ~isOwnSource(channels[i], src), p = channels[i].id
             PROVE  By(m, i) \in Given(p, src, m.origin)
  BY Zenon DEF sendActisense
<1>1. HasId(channels[i])
  BY DEF ChannelsOK
<1>2. channels[i].id # MinTcp /\ channels[i].maxId = -1
  BY <1>1 DEF HasId, MinTcp, Usb, Serial1, Serial2
<1>3. p # src /\ Serves(channels[i], p)
  BY <1>2 DEF isOwnSource, Serves
<1>4. By(m, i) \in Sent /\ By(m, i).msg = m /\ By(m, i).by = i
  BY DEF By, Sent, ChannelsOK
<1> QED BY <1>3, <1>4 DEF Given, GivenBy

LEMMA BusAdds ==
  ASSUME NEW p \in Port, NEW src, NEW m \in Message
  PROVE  ToBus(p, m, src) \subseteq Given(p, src, m.origin)
<1>1. By(m, 0) \in Sent /\ By(m, 0).msg = m /\ By(m, 0).by = 0
  BY DEF By, Sent
<1> QED BY <1>1 DEF ToBus, Given, GivenBy

(* Converted messages have the origin of what they come from. *)
LEMMA ConvertedOK ==
  ASSUME NEW m \in Message
  PROVE  /\ AsN2k(m) \in Message /\ AsN2k(m).origin = m.origin
         /\ AsSeasmart(m) \in Message /\ AsSeasmart(m).origin = m.origin
         /\ \A ks \in SUBSET Sentence : \A l \in AsLines(m, ks) : l \in Message /\ l.origin = m.origin
BY DEF Message, AsN2k, AsSeasmart, AsLines

LEMMA N2kAdds ==
  ASSUME TypeOK, ChannelsOK, NEW p \in Port, NEW src, NEW m \in Message,
         NEW b \in BOOLEAN, NEW ks \in SUBSET Sentence
  PROVE  handleN2kMessage(p, m, src, b, ks) \subseteq Given(p, src, m.origin)
<1>1. sendToClients(p, AsSeasmart(m), src, TRUE) \subseteq Given(p, src, m.origin)
  BY LinesAdd, ConvertedOK
<1>2. Lines(p, AsLines(m, ks), src) \subseteq Given(p, src, m.origin)
  <2>1. \A l \in AsLines(m, ks) : sendToClients(p, l, src, FALSE) \subseteq Given(p, src, m.origin)
    BY LinesAdd, ConvertedOK
  <2> QED BY <2>1, Zenon DEF Lines
<1> QED BY <1>1, <1>2, ActisenseAdds, BusAdds, Zenon DEF handleN2kMessage

LEMMA DerivedOK ==
  ASSUME NEW m \in Message, NEW b \in BOOLEAN, NEW ks \in SUBSET Sentence
  PROVE  FromN2k(m, b, ks) \in SUBSET Message
BY ConvertedOK DEF FromN2k
-----------------------------------------------------------------------------
(* One input: every port gets only what Given allows. *)
LEMMA HandleOK ==
  ASSUME IInv, NEW adds, NEW derived \in SUBSET Message,
         NEW from \in Port, NEW origin \in {from, Gateway},
         adds = [p \in Port |-> adds[p]],
         \A p \in Port : adds[p] \subseteq Given(p, from, origin),
         Handle(adds, derived), at' \in 1 .. 3 + 2 * Len(channels), sourceId' \in Port
  PROVE  IInv'
<1>1. /\ count' \in 0 .. MaxInputs /\ full' \in SUBSET Slow
      /\ config' = config /\ channels' = channels /\ theChannels' = theChannels
      /\ sent' = adds /\ routed' = derived
  BY RoutingAssumption DEF Handle, setup, IInv, TypeOK
<1>2. ChannelsOK'
  BY <1>1 DEF IInv, ChannelsOK, IsAdded
<1>3. TypeOK'
  BY <1>1 DEF IInv, TypeOK, Given, Sent
<1>4. SentOK'
  <2>1. \A p \in Port : \A s \in adds[p] : s.msg.origin # p /\ GivenBy(s.by, p)
    BY PortFacts DEF Given
  <2> QED BY <1>1, <2>1 DEF SentOK, GivenBy
<1> QED BY <1>2, <1>3, <1>4 DEF IInv

LEMMA NewOK ==
  ASSUME NEW origin \in Port \cup {Gateway}, NEW form \in {"0183", "n2k", "seasmart"},
         NEW kind \in Sentence \cup {Din, N2kMsg}
  PROVE  NewMessage(origin, form, kind) \in Message /\ NewMessage(origin, form, kind).origin = origin
BY DEF NewMessage, Message

LEMMA HandleN2kOK ==
  ASSUME IInv, NEW src \in Port, NEW b \in BOOLEAN, HandleN2k(src, b),
         at' \in 1 .. 3 + 2 * Len(channels)
  PROVE  IInv'
<1> DEFINE n == NewMessage(src, "n2k", N2kMsg)
           adds(ks) == [p \in Port |-> handleN2kMessage(p, n, src, b, ks)]
<1>1. PICK ks \in SUBSET Sentence :
         Handle(adds(ks), FromN2k(n, b, ks)) /\ sourceId' = IF b THEN sourceId ELSE src
  BY DEF HandleN2k
<1>2. n \in Message /\ n.origin = src
  BY NewOK
<1>3. \A p \in Port : adds(ks)[p] \subseteq Given(p, src, src)
  <2> SUFFICES ASSUME NEW p \in Port
               PROVE  handleN2kMessage(p, n, src, b, ks) \subseteq Given(p, src, src)
    OBVIOUS
  <2> QED BY <1>2, N2kAdds DEF IInv
<1>4. FromN2k(n, b, ks) \in SUBSET Message
  BY <1>2, DerivedOK
<1>5. sourceId' \in Port
  BY <1>1 DEF IInv, TypeOK
<1>6. adds(ks) = [p \in Port |-> adds(ks)[p]]
  OBVIOUS
<1> HIDE DEF adds, n
<1> QED BY <1>1, <1>3, <1>4, <1>5, <1>6, HandleOK

LEMMA HandleLineOK ==
  ASSUME IInv, NEW src \in Port, NEW kind \in Sentence, NEW toN2k, HandleLine(src, kind, toN2k),
         at' \in 1 .. 3 + 2 * Len(channels)
  PROVE  IInv'
<1> DEFINE x == NewMessage(src, "0183", kind)
           adds(g) == [p \in Port |-> sendToClients(p, x, src, FALSE) \cup parseAndSend(p, x, src, g)]
           all(g) == {x} \cup (IF g THEN FromN2k(AsN2k(x), TRUE, {}) ELSE {})
<1>1. PICK g \in BOOLEAN : Handle(adds(g), all(g)) /\ sourceId' = sourceId
  BY DEF HandleLine
<1>2. /\ x \in Message /\ x.origin = src
      /\ AsN2k(x) \in Message /\ AsN2k(x).origin = src
  BY NewOK, ConvertedOK
<1>3. \A p \in Port : adds(g)[p] \subseteq Given(p, src, src)
  <2> SUFFICES ASSUME NEW p \in Port
               PROVE  sendToClients(p, x, src, FALSE) \cup parseAndSend(p, x, src, g)
                        \subseteq Given(p, src, src)
    OBVIOUS
  <2>1. sendToClients(p, x, src, FALSE) \subseteq Given(p, src, src)
    BY <1>2, LinesAdd DEF IInv
  <2>2. handleN2kMessage(p, AsN2k(x), src, TRUE, {}) \subseteq Given(p, src, src)
    BY <1>2, N2kAdds DEF IInv
  <2> QED BY <2>1, <2>2, Zenon DEF parseAndSend
<1>4. all(g) \in SUBSET Message
  BY <1>2, DerivedOK
<1>5. sourceId' \in Port
  BY <1>1 DEF IInv, TypeOK
<1>6. adds(g) = [p \in Port |-> adds(g)[p]]
  OBVIOUS
<1> HIDE DEF adds, all, x
<1> QED BY <1>1, <1>3, <1>4, <1>5, <1>6, HandleOK

LEMMA HandleSeasmartOK ==
  ASSUME IInv, NEW src \in Port, NEW toN2k, HandleSeasmart(src, toN2k),
         at' \in 1 .. 3 + 2 * Len(channels)
  PROVE  IInv'
<1> DEFINE x == NewMessage(src, "seasmart", Din)
           n == AsN2k(x)
           adds(d, ks) == [p \in Port |-> sendToClients(p, x, src, TRUE)
                            \cup (IF d THEN handleN2kMessage(p, n, src, FALSE, ks) ELSE {})]
           all(d, ks) == {x} \cup (IF d THEN FromN2k(n, FALSE, ks) ELSE {})
<1>1. PICK d \in BOOLEAN, ks \in SUBSET Sentence :
         Handle(adds(d, ks), all(d, ks)) /\ sourceId' = IF d THEN src ELSE sourceId
  BY DEF HandleSeasmart
<1>2. x \in Message /\ x.origin = src /\ n \in Message /\ n.origin = src
  BY NewOK, ConvertedOK
<1>3. \A p \in Port : adds(d, ks)[p] \subseteq Given(p, src, src)
  <2> SUFFICES ASSUME NEW p \in Port
               PROVE  sendToClients(p, x, src, TRUE)
                      \cup (IF d THEN handleN2kMessage(p, n, src, FALSE, ks) ELSE {})
                        \subseteq Given(p, src, src)
    OBVIOUS
  <2>1. sendToClients(p, x, src, TRUE) \subseteq Given(p, src, src)
    BY <1>2, LinesAdd DEF IInv
  <2>2. handleN2kMessage(p, n, src, FALSE, ks) \subseteq Given(p, src, src)
    BY <1>2, N2kAdds DEF IInv
  <2> QED BY <2>1, <2>2, Zenon
<1>4. all(d, ks) \in SUBSET Message
  BY <1>2, DerivedOK
<1>5. sourceId' \in Port
  BY <1>1 DEF IInv, TypeOK
<1>6. adds(d, ks) = [p \in Port |-> adds(d, ks)[p]]
  OBVIOUS
<1> HIDE DEF adds, all, x, n
<1> QED BY <1>1, <1>3, <1>4, <1>5, <1>6, HandleOK
-----------------------------------------------------------------------------
LEMMA Initially == Init => IInv
<1> SUFFICES ASSUME Init PROVE IInv
  OBVIOUS
<1>1. ChannelsOK
  BY InitChannels
<1>2. TypeOK /\ SentOK
  <2>1. Len(channels) \in Nat
    BY <1>1 DEF ChannelsOK
  <2>2. sent = [p \in Port |-> {}] /\ sourceId \in Port
    BY PortFacts DEF Init
  <2>3. SentOK
    BY <2>2 DEF SentOK
  <2> QED BY <2>1, <2>2, <2>3, RoutingAssumption DEF Init, TypeOK
<1> QED BY <1>1, <1>2 DEF IInv

LEMMA StepOK == IInv /\ [Next]_vars => IInv'
<1> SUFFICES ASSUME IInv, [Next]_vars PROVE IInv'
  OBVIOUS
<1>0. /\ Len(channels) \in Nat /\ at \in 1 .. 3 + 2 * Len(channels)
      /\ theChannels \subseteq 1 .. Len(channels) /\ \A i \in theChannels : HasId(channels[i])
  BY DEF IInv, TypeOK, ChannelsOK
<1>1. CASE ParseMessages
  <2>1. HandleN2k(Bus, FALSE) /\ at' = 1
    BY <1>1 DEF ParseMessages, GoTo, BusStep
  <2>2. at' \in 1 .. 3 + 2 * Len(channels) /\ Bus \in Port /\ FALSE \in BOOLEAN
    BY <2>1, <1>0, PortFacts
  <2> QED BY <2>1, <2>2, HandleN2kOK, Zenon
<1>2. CASE TaskSendsN2k
  <2>1. PICK convert \in BOOLEAN : HandleN2k(TaskId, ~convert) /\ at' = 1
    BY <1>2 DEF TaskSendsN2k, GoTo, BusStep
  <2>2. PICK b \in BOOLEAN : HandleN2k(TaskId, b)
    <3>1. CASE convert = TRUE
      BY <2>1, <3>1
    <3>2. CASE convert = FALSE
      BY <2>1, <3>2
    <3> QED BY <3>1, <3>2
  <2>3. at' \in 1 .. 3 + 2 * Len(channels) /\ TaskId \in Port
    BY <2>1, <1>0, PortFacts
  <2> QED BY <2>2, <2>3, HandleN2kOK, Zenon
<1>3. CASE TaskSendsLine
  <2>1. PICK kind \in Sentence, convert \in BOOLEAN : HandleLine(TaskId, kind, convert) /\ at' = 1
    BY <1>3 DEF TaskSendsLine, GoTo, BusStep
  <2> QED BY <2>1, <1>0, PortFacts, HandleLineOK
<1>4. CASE OwnRmc
  <2> DEFINE x(k) == NewMessage(Gateway, "0183", k)
             adds(k) == [p \in Port |-> sendToClients(p, x(k), sourceId, FALSE)]
  <2>1. PICK k \in Sentence : at' = RmcStep + 1 /\ Handle(adds(k), {x(k)}) /\ sourceId' = sourceId
    <3>1. PICK k \in Sentence : GoPast(RmcStep) /\ Handle(adds(k), {x(k)}) /\ UNCHANGED sourceId
      BY <1>4, Zenon DEF OwnRmc
    <3> QED BY <3>1, Zenon DEF GoPast
  <2>2. x(k) \in Message /\ x(k).origin = Gateway /\ sourceId \in Port
    BY NewOK DEF IInv, TypeOK
  <2>3. \A p \in Port : adds(k)[p] \subseteq Given(p, sourceId, Gateway)
    BY <2>2, LinesAdd DEF IInv
  <2>4. adds(k) = [p \in Port |-> adds(k)[p]] /\ {x(k)} \in SUBSET Message
    BY <2>2
  <2>5. at' \in 1 .. 3 + 2 * Len(channels) /\ sourceId' \in Port
    BY <1>0, <2>1, <2>2 DEF RmcStep
  <2> HIDE DEF adds, x
  <2> QED BY <2>1, <2>2, <2>3, <2>4, <2>5, HandleOK
<1>5. CASE ReadMessages
  <2>1. PICK i \in theChannels, p \in Port :
          /\ GoPast(ReadStep(i)) \/ GoTo(ReadStep(i))
          /\ \/ HandleSeasmart(p, channels[i].toN2k)
             \/ \E kind \in Sentence : HandleLine(p, kind, channels[i].toN2k)
    BY <1>5, Zenon DEF ReadMessages
  <2>2. at' \in 1 .. 3 + 2 * Len(channels)
    BY <2>1, <1>0 DEF GoPast, GoTo, ReadStep
  <2> QED BY <2>1, <2>2, HandleSeasmartOK, HandleLineOK
<1>6. CASE ParseActisense
  <2>1. PICK i \in theChannels : /\ channels[i].stream /\ at' = 2 + Len(channels) + i
                                 /\ HandleN2k(channels[i].id, FALSE)
    BY <1>6 DEF ParseActisense, GoTo, ActisenseStep
  <2>2. channels[i].id \in Port
    BY <2>1, <1>0, PortFacts DEF HasId, Usb, Serial1, Serial2, MinTcp
  <2>3. at' \in 1 .. 3 + 2 * Len(channels)
    BY <2>1, <1>0
  <2> QED BY <2>1, <2>2, <2>3, HandleN2kOK
<1>7. CASE NextRound
  <2> USE <1>0, <1>7 DEF NextRound, setup
  <2>1. TypeOK'
    BY DEF IInv, TypeOK
  <2>2. ChannelsOK' /\ SentOK'
    BY DEF IInv, ChannelsOK, SentOK, IsAdded, GivenBy
  <2> QED BY <2>1, <2>2 DEF IInv
<1>8. CASE UNCHANGED vars
  <2> USE <1>8 DEF vars, setup
  <2>1. TypeOK'
    BY DEF IInv, TypeOK
  <2>2. ChannelsOK' /\ SentOK'
    BY DEF IInv, ChannelsOK, SentOK, IsAdded, GivenBy
  <2> QED BY <2>1, <2>2 DEF IInv
<1> QED BY <1>1, <1>2, <1>3, <1>4, <1>5, <1>6, <1>7, <1>8 DEF Next

(* The state of the channels, the loop and the buffers is what it should   *)
(* be after any number of inputs.                                          *)
THEOREM RoutingTypes == Spec => []TypeOK
<1>1. IInv => TypeOK
  BY DEF IInv
<1> QED BY <1>1, Initially, StepOK, PTL DEF Spec

(* Nothing goes back to where it came from.                                *)
THEOREM NothingReturns == Spec => []NoEcho
<1>1. IInv => NoEcho
  BY DEF IInv, SentOK, NoEcho
<1> QED BY <1>1, Initially, StepOK, PTL DEF Spec

(* No port is given a message by two channels.                             *)
THEOREM NothingTwice == Spec => []AtMostOnce
<1>1. IInv => AtMostOnce
  <2> SUFFICES ASSUME IInv, NEW p \in Port, NEW s \in sent[p], NEW t \in sent[p]
               PROVE  s.by = t.by
    BY DEF AtMostOnce
  <2>1. GivenBy(s.by, p) /\ GivenBy(t.by, p)
    BY DEF IInv, SentOK
  <2>2. p = Bus => \A i \in theChannels : ~Serves(channels[i], p)
    BY PortFacts, RoutingAssumption DEF IInv, ChannelsOK, HasId, Serves, Bus, MinTcp
  <2> QED BY <2>1, <2>2, OneServes DEF IInv, GivenBy
<1> QED BY <1>1, Initially, StepOK, PTL DEF Spec
-----------------------------------------------------------------------------
(* The channels and the loop implement the abstract router.                *)

LEMMA Offered ==
  ASSUME NEW id \in Channel
  PROVE  /\ "readAct" \in Offers(id) <=> id = Usb
         /\ "writeAct" \in Offers(id) <=> id = Usb
         /\ "sendSeasmart" \in Offers(id) <=> id \in {MinTcp, TcpClient, UdpWriter}
         /\ "writeF" \in Offers(id) <=> id # UdpReader
BY DEF Channel, Offers, Usb, Serial1, Serial2, TcpClient, MinTcp, UdpWriter, UdpReader

(* What the settings say of a channel. *)
LEMMA ChannelFacts ==
  ASSUME NEW c, c.id \in Channel, AsConfigured(c)
  PROVE  /\ c.impl <=> Present(c.id)
         /\ c.NMEAout \/ c.seaSmartOut => c.enabled
         /\ c.seaSmartOut <=> Get(c.id, "sendSeasmart", FALSE)
         /\ c.id # UdpReader => c.writeFilter = config[c.id].writeF
         /\ c.toN2k <=> Get(c.id, "toN2K", FALSE)
         /\ c.readActisense => Get(c.id, "readAct", FALSE)
         /\ Get(c.id, "readAct", FALSE) => c.id = Usb /\ c.enabled /\ c.readActisense /\ c.stream
         /\ c.stream => Get(c.id, "readAct", FALSE)
         /\ c.stream => (c.writeActisense <=> Get(c.id, "writeAct", FALSE))
         /\ Get(c.id, "sendSeasmart", FALSE) => c.id # Usb
<1>1. PICK type \in Modes : c = createChannel(c.id, Present(c.id), type)
  BY DEF AsConfigured
<1> DEFINE id == c.id
           impl == Present(id)
           d == createChannel(id, impl, type)
           seasmart == Get(id, "sendSeasmart", FALSE)
           readAct == Get(id, "readAct", FALSE)
           writeAct == Get(id, "writeAct", FALSE)
<1>2. /\ d.impl = impl /\ d.NMEAout = CanWrite(id, type) /\ d.seaSmartOut = seasmart
      /\ d.enabled = (CanRead(id, type) \/ CanWrite(id, type) \/ readAct \/ writeAct \/ seasmart)
      /\ d.writeFilter = Get(id, "writeF", NoFilter) /\ d.toN2k = Get(id, "toN2K", FALSE)
      /\ d.stream = (impl /\ readAct /\ id \in {Usb, Serial1, Serial2})
      /\ d.readActisense = (readAct /\ (impl => d.stream))
      /\ d.writeActisense = (writeAct /\ (impl /\ readAct => d.stream))
  BY Zenon DEF createChannel
<1>3. c = d
  BY <1>1
<1>4. readAct => id = Usb
  BY Offered DEF Get
<1>5. seasmart => id # Usb
  BY Offered DEF Get, Usb, MinTcp, TcpClient, UdpWriter
<1>6. id # UdpReader => Get(id, "writeF", NoFilter) = config[id].writeF
  BY Offered DEF Get
<1>7. id = Usb => impl
  BY DEF Present, Usb, TcpClient
<1> HIDE DEF d, seasmart, readAct, writeAct, impl
<1>8. /\ c.impl <=> impl
      /\ c.NMEAout \/ c.seaSmartOut => c.enabled
      /\ c.seaSmartOut <=> seasmart
      /\ id # UdpReader => c.writeFilter = config[id].writeF
      /\ c.toN2k <=> Get(id, "toN2K", FALSE)
      /\ c.readActisense => readAct
      /\ readAct => id = Usb /\ c.enabled /\ c.readActisense /\ c.stream
      /\ c.stream => readAct
      /\ c.stream => (c.writeActisense <=> writeAct)
  BY <1>2, <1>3, <1>4, <1>6, <1>7, Zenon
<1> QED
  BY <1>5, <1>8 DEF seasmart, readAct, writeAct, impl

LEMMA StillConfigured ==
  ASSUME ChannelsConfigured, UNCHANGED <<config, channels>>
  PROVE  ChannelsConfigured'
<1>1. ASSUME NEW id, NEW name, NEW d PROVE Get(id, name, d)' = Get(id, name, d)
  BY DEF Get
<1>2. ASSUME NEW id, NEW type
      PROVE  CanRead(id, type)' = CanRead(id, type) /\ CanWrite(id, type)' = CanWrite(id, type)
  BY <1>1, Zenon DEF CanRead, CanWrite
<1>3. ASSUME NEW id, NEW impl, NEW type
      PROVE  createChannel(id, impl, type)' = createChannel(id, impl, type)
  BY <1>1, <1>2, Zenon DEF createChannel
<1>4. ASSUME NEW id PROVE Present(id)' = Present(id)
  BY DEF Present
<1>5. ASSUME NEW i \in DOMAIN channels PROVE AsConfigured(channels[i])'
  <2>1. channels' = channels /\ AsConfigured(channels[i])
    BY DEF ChannelsConfigured
  <2> QED BY <1>3, <1>4, <2>1 DEF AsConfigured
<1> QED BY <1>5 DEF ChannelsConfigured
-----------------------------------------------------------------------------
(* A port belongs to the channels of one id.                               *)
LEMMA ServesPort ==
  ASSUME NEW c, HasId(c), NEW p \in Port
  PROVE  Serves(c, p) <=> c.id = ChannelOf(p)
<1>1. c.id \in Channel
  BY DEF HasId
<1>2. CASE p \in TcpClients
  <2>1. ~(p = c.id /\ c.id # MinTcp)
    BY <1>1, <1>2, PortFacts
  <2> QED BY <1>2, <2>1 DEF Serves, ChannelOf
<1>3. CASE p \notin TcpClients
  <2>1. p # MinTcp
    BY <1>3, RoutingAssumption DEF Port, Bus, Usb, Serial1, Serial2, TcpClient, MinTcp, UdpWriter, UdpReader
  <2> QED BY <1>3, <2>1 DEF Serves, ChannelOf
<1> QED BY <1>2, <1>3

LEMMA ClientsOfPort ==
  ASSUME NEW c, HasId(c), NEW p \in Port, NEW src
  PROVE  p \in Clients(c, src) <=> c.id = ChannelOf(p) /\ p # src /\ c.id # UdpReader
<1>1. p \in Clients(c, src) <=> Serves(c, p) /\ p # src /\ c.id # UdpReader
  BY DEF Clients, Serves, MinTcp, UdpReader
<1> QED BY <1>1, ServesPort

(* The least of some positions. *)
LEMMA LeastPosition ==
  ASSUME NEW T \in SUBSET Nat, T # {}
  PROVE  \E n \in T : \A i \in T : n <= i
<1> DEFINE R == {ss \in Nat \X Nat : ss[1] < ss[2]}
<1>1. IsWellFoundedOn(R, Nat)
  BY NatLessThanWellFounded DEF OpToRel
<1>2. \A m, n \in Nat : m < n => <<m, n>> \in R
  OBVIOUS
<1> HIDE DEF R
<1>3. PICK n \in T : \A i \in T : ~(<<i, n>> \in R)
  BY <1>1, WFMin
<1>4. \A i \in T : i \in Nat /\ n \in Nat /\ ~(i < n)
  BY <1>2, <1>3
<1>5. \A i \in T : n <= i
  BY <1>4
<1> QED BY <1>5

(* Different ids do not overlap. *)
LEMMA OthersApart ==
  ASSUME NEW c, HasId(c), NEW d, HasId(d), c.id # d.id
  PROVE  ~overlaps(c, d)
BY SMT DEF overlaps, HasId, Channel, Usb, Serial1, Serial2, TcpClient, MinTcp, UdpWriter, UdpReader

(* Of the channels with one id the first, and it alone, is in the list. *)
LEMMA FirstInList ==
  ASSUME ChannelsOK, NEW i \in DOMAIN channels
  PROVE  /\ First(channels[i].id) \in theChannels
         /\ channels[First(channels[i].id)].id = channels[i].id
<1> DEFINE id == channels[i].id
           T == {j \in DOMAIN channels : channels[j].id = id}
           f == First(id)
<1>1. DOMAIN channels \subseteq Nat /\ DOMAIN channels = 1 .. Len(channels) /\ Len(channels) \in Nat
  BY DEF ChannelsOK
<1>2. PICK n \in T : \A j \in T : n <= j
  <2>1. T \in SUBSET Nat /\ i \in T
    BY <1>1
  <2> HIDE DEF T
  <2> QED BY <2>1, LeastPosition
<1>3. \A j \in 1 .. n - 1 : channels[j].id # id
  BY <1>1, <1>2
<1>4. f \in DOMAIN channels /\ channels[f].id = id /\ \A j \in 1 .. f - 1 : channels[j].id # id
  BY <1>2, <1>3, Zenon DEF First
<1> HIDE DEF f
<1>5. \A j \in theChannels : j < f => ~overlaps(channels[j], channels[f])
  <2> SUFFICES ASSUME NEW j \in theChannels, j < f PROVE ~overlaps(channels[j], channels[f])
    OBVIOUS
  <2>1. j \in DOMAIN channels /\ j \in 1 .. f - 1
    BY <1>1, <1>4 DEF ChannelsOK
  <2> QED BY <1>4, <2>1, OthersApart DEF ChannelsOK
<1>6. f \in theChannels
  BY <1>4, <1>5 DEF ChannelsOK, IsAdded
<1> QED BY <1>4, <1>6 DEF f

LEMMA ListedIsFirst ==
  ASSUME ChannelsOK, NEW i \in theChannels, NEW p \in Port, channels[i].id = ChannelOf(p)
  PROVE  i = First(ChannelOf(p))
<1>1. i \in DOMAIN channels
  BY DEF ChannelsOK
<1>2. First(ChannelOf(p)) \in theChannels /\ channels[First(ChannelOf(p))].id = ChannelOf(p)
  BY <1>1, FirstInList
<1>3. First(ChannelOf(p)) \in DOMAIN channels
  BY <1>2 DEF ChannelsOK
<1>4. Serves(channels[i], p) /\ Serves(channels[First(ChannelOf(p))], p)
  BY <1>1, <1>2, <1>3, ServesPort DEF ChannelsOK
<1> QED BY <1>2, <1>4, OneServes
-----------------------------------------------------------------------------
(* What a port takes, form by form. *)
Exists(p) == \E i \in DOMAIN channels : channels[i].id = ChannelOf(p)
Configured(p) == p \notin {Bus, TaskId, UdpReader} /\ Exists(p) /\ (p = TcpClient => config[p].enabled)

LEMMA TakesForms ==
  ASSUME NEW p
  PROVE  /\ \A k \in Sentence :
              <<"0183", k>> \in Takes(p) <=>
                /\ Configured(p) /\ channels[First(ChannelOf(p))].NMEAout
                /\ ~Get(ChannelOf(p), "readAct", FALSE) /\ canPass(config[ChannelOf(p)].writeF, k)
         /\ <<"seasmart", Din>> \in Takes(p) <=>
              /\ Configured(p) /\ Get(ChannelOf(p), "sendSeasmart", FALSE)
              /\ canPass(config[ChannelOf(p)].writeF, Din)
         /\ <<"n2k", N2kMsg>> \in Takes(p) <=>
              \/ p = Bus /\ sendOutN2k
              \/ /\ Configured(p) /\ Get(ChannelOf(p), "readAct", FALSE)
                 /\ Get(ChannelOf(p), "writeAct", FALSE)
<1> DEFINE id == ChannelOf(p)
           actisense == Get(id, "readAct", FALSE)
           writeAct == Get(id, "writeAct", FALSE)
           seasmart == Get(id, "sendSeasmart", FALSE)
           out == channels[First(id)].NMEAout
           passes(k) == canPass(config[id].writeF, k)
           bus == {<<"n2k", N2kMsg>> : b \in {TRUE} \cap {sendOutN2k}}
           none == \/ p \in {TaskId, UdpReader} \/ (p = TcpClient /\ ~config[p].enabled)
                   \/ \A i \in DOMAIN channels : channels[i].id # id
           all == ({"0183"} \X {k \in Sentence : out /\ ~actisense /\ passes(k)})
                  \cup ({"seasmart"} \X {k \in {Din} : seasmart /\ passes(k)})
                  \cup ({"n2k"} \X {k \in {N2kMsg} : actisense /\ writeAct})
<1>1. Takes(p) = IF p = Bus THEN bus ELSE IF none THEN {} ELSE all
  BY Zenon DEF Takes
<1>2. Configured(p) <=> p # Bus /\ ~none
  BY DEF Configured, Exists
<1>3. (<<"n2k", N2kMsg>> \in bus <=> sendOutN2k = TRUE) /\ \A k : <<"0183", k>> \notin bus /\ <<"seasmart", k>> \notin bus
  OBVIOUS
<1> HIDE DEF bus, none, actisense, writeAct, seasmart, out, passes
<1>4. /\ \A k \in Sentence : <<"0183", k>> \in all <=> out /\ ~actisense /\ passes(k)
      /\ <<"seasmart", Din>> \in all <=> seasmart /\ passes(Din)
      /\ <<"n2k", N2kMsg>> \in all <=> actisense /\ writeAct
  OBVIOUS
<1> HIDE DEF all
<1>5. ~Configured(p) \/ p # Bus
  BY DEF Configured
<1> QED BY <1>1, <1>2, <1>3, <1>4, <1>5 DEF passes, out, actisense, writeAct, seasmart
-----------------------------------------------------------------------------
(* What calls give a port: the messages it takes, if it is not the one     *)
(* they are withheld from and has room.                                    *)
Msgs(S) == {s.msg : s \in S}
Gets(p, m, from) == p # from /\ p \notin full /\ <<m.form, m.kind>> \in Takes(p)
Only(m, b) == IF b THEN {m} ELSE {}

ConfigOK == ChannelsOK /\ ChannelsConfigured

LEMMA ChannelPorts ==
  ASSUME NEW p \in Port
  PROVE  /\ ChannelOf(p) \in Channel => p \notin {Bus, TaskId}
         /\ p = UdpReader <=> ChannelOf(p) = UdpReader
         /\ p = TcpClient <=> ChannelOf(p) = TcpClient
         /\ p \notin {Bus, TaskId} => ChannelOf(p) \in Channel
<1>1. TcpClients \subseteq 5 .. 15 /\ TaskId \in Nat /\ TaskId >= 200
  BY RoutingAssumption DEF MinTcp
<1>2. Channel = {1, 2, 3, 4, 5, 20, 21}
  BY DEF Channel, Usb, Serial1, Serial2, TcpClient, MinTcp, UdpWriter, UdpReader
<1>3. p \in {0, TaskId, 1, 2, 3, 4, 20, 21} \/ p \in TcpClients
  BY <1>2 DEF Port, Bus, MinTcp
<1>4. CASE p \in TcpClients
  BY <1>1, <1>2, <1>4 DEF ChannelOf, Bus, MinTcp, UdpReader, TcpClient
<1>5. CASE p \notin TcpClients
  BY <1>1, <1>2, <1>3, <1>5 DEF ChannelOf, Bus, UdpReader, TcpClient
<1> QED BY <1>4, <1>5

(* The channel of a port that has one. *)
LEMMA TheChannel ==
  ASSUME ConfigOK, NEW p \in Port
  PROVE  /\ \A i \in theChannels : channels[i].id = ChannelOf(p) =>
              /\ i = First(ChannelOf(p)) /\ HasId(channels[i]) /\ AsConfigured(channels[i])
              /\ Exists(p) /\ ChannelOf(p) \in Channel
         /\ Exists(p) => /\ First(ChannelOf(p)) \in theChannels
                         /\ channels[First(ChannelOf(p))].id = ChannelOf(p)
<1>1. ASSUME NEW i \in theChannels, channels[i].id = ChannelOf(p)
      PROVE  /\ i = First(ChannelOf(p)) /\ HasId(channels[i]) /\ AsConfigured(channels[i])
             /\ Exists(p) /\ ChannelOf(p) \in Channel
  <2>1. i \in DOMAIN channels /\ HasId(channels[i]) /\ AsConfigured(channels[i])
    BY DEF ConfigOK, ChannelsOK, ChannelsConfigured
  <2>2. i = First(ChannelOf(p))
    BY <1>1, ListedIsFirst DEF ConfigOK
  <2> QED BY <1>1, <2>1, <2>2 DEF HasId, Exists
<1>2. ASSUME Exists(p)
      PROVE  First(ChannelOf(p)) \in theChannels /\ channels[First(ChannelOf(p))].id = ChannelOf(p)
  <2>1. PICK i \in DOMAIN channels : channels[i].id = ChannelOf(p)
    BY <1>2 DEF Exists
  <2> QED BY <2>1, FirstInList DEF ConfigOK
<1> QED BY <1>1, <1>2

(* Of one call, at most one message. *)
LEMMA MsgsOf ==
  ASSUME NEW S, NEW m, \A s \in S : s.msg = m, NEW b \in BOOLEAN, b <=> S # {}
  PROVE  Msgs(S) = Only(m, b)
BY Zenon DEF Msgs, Only

LEMMA LineMeansMsg ==
  ASSUME NEW p \in Port, NEW src, NEW m, NEW ss
  PROVE  /\ \A s \in sendToClients(p, m, src, ss) : s.msg = m
         /\ \A s \in sendActisense(p, m, src) : s.msg = m
         /\ \A s \in ToBus(p, m, src) : s.msg = m
<1>1. \A i : By(m, i).msg = m
  BY DEF By
<1> QED BY <1>1 DEF sendToClients, sendActisense, ToBus

IsLine(m, ss) ==
  IF ss THEN m.form = "seasmart" /\ m.kind = Din ELSE m.form = "0183" /\ m.kind \in Sentence

LEMMA LineReaches ==
  ASSUME ConfigOK, NEW p \in Port, NEW src \in Port, NEW m \in Message,
         NEW ss \in BOOLEAN,
         IsLine(m, ss)
  PROVE  Msgs(sendToClients(p, m, src, ss)) = Only(m, Gets(p, m, src))
<1> DEFINE S == sendToClients(p, m, src, ss)
           id == ChannelOf(p)
           f == channels[First(id)]
<1>1. S # {} <=> \E j \in theChannels : /\ canSendOut(channels[j], m.kind, ss)
                                       /\ p \in Clients(channels[j], src) /\ HasRoom(p)
  BY Zenon DEF sendToClients
<1>2. \A j \in theChannels : HasId(channels[j])
  BY DEF ConfigOK, ChannelsOK
<1>3. S # {} <=> \E j \in theChannels : /\ canSendOut(channels[j], m.kind, ss)
                                       /\ channels[j].id = id /\ p # src /\ id # UdpReader
                                       /\ p \notin full
  BY <1>1, <1>2, ClientsOfPort DEF HasRoom
<1>4. S # {} <=> /\ Exists(p) /\ canSendOut(f, m.kind, ss) /\ p # src /\ id # UdpReader
                 /\ p \notin full
  BY <1>3, TheChannel
<1>5. ASSUME Exists(p), id # UdpReader
      PROVE  canSendOut(f, m.kind, ss) <=> <<m.form, m.kind>> \in Takes(p)
  <2>1. /\ HasId(f) /\ AsConfigured(f) /\ f.id = id /\ id \in Channel
    BY <1>5, TheChannel
  <2>2. Configured(p) <=> Present(id)
    BY <1>5, <2>1, ChannelPorts DEF Configured, Present
  <2>3. f.impl <=> Present(id)
    BY <2>1, ChannelFacts
  <2>4. f.writeFilter = config[id].writeF
    <3>1. f.id # UdpReader => f.writeFilter = config[f.id].writeF
      BY <2>1, ChannelFacts
    <3> HIDE DEF f
    <3> QED BY <1>5, <2>1, <3>1
  <2>5. /\ f.NMEAout \/ f.seaSmartOut => f.enabled
        /\ f.seaSmartOut <=> Get(id, "sendSeasmart", FALSE)
        /\ f.readActisense => Get(id, "readAct", FALSE)
        /\ Get(id, "readAct", FALSE) => id = Usb /\ f.readActisense
        /\ Get(id, "sendSeasmart", FALSE) => id # Usb
    BY <2>1, ChannelFacts
  <2> HIDE DEF f, id
  <2>6. CASE ss = TRUE
    <3>1. canSendOut(f, m.kind, ss) <=>
            f.enabled /\ f.impl /\ ~f.readActisense /\ f.seaSmartOut /\ canPass(f.writeFilter, Din)
      BY <2>6 DEF canSendOut, IsLine
    <3>2. <<m.form, m.kind>> \in Takes(p) <=>
            Configured(p) /\ Get(id, "sendSeasmart", FALSE) /\ canPass(config[id].writeF, Din)
      BY <2>6, TakesForms DEF IsLine, id
    <3> QED BY <2>2, <2>3, <2>4, <2>5, <3>1, <3>2
  <2>7. CASE ss = FALSE
    <3>1. canSendOut(f, m.kind, ss) <=>
            f.enabled /\ f.impl /\ ~f.readActisense /\ f.NMEAout /\ canPass(f.writeFilter, m.kind)
      BY <2>7 DEF canSendOut, IsLine
    <3>2. <<m.form, m.kind>> \in Takes(p) <=>
            /\ Configured(p) /\ f.NMEAout /\ ~Get(id, "readAct", FALSE)
            /\ canPass(config[id].writeF, m.kind)
      BY <2>7, TakesForms DEF IsLine, id, f
    <3> QED BY <2>2, <2>3, <2>4, <2>5, <3>1, <3>2
  <2> QED BY <2>6, <2>7
<1>6. <<m.form, m.kind>> \in Takes(p) => Exists(p) /\ id # UdpReader
  <2>1. <<m.form, m.kind>> \in Takes(p) => Configured(p)
    BY TakesForms DEF IsLine
  <2> QED BY <2>1, ChannelPorts DEF Configured
<1>7. Gets(p, m, src) <=> S # {}
  BY <1>4, <1>5, <1>6 DEF Gets
<1>8. \A s \in S : s.msg = m
  BY LineMeansMsg
<1>9. Gets(p, m, src) \in BOOLEAN
  BY DEF Gets
<1> HIDE DEF S
<1> QED BY <1>7, <1>8, <1>9, MsgsOf DEF S

(* An N2K message goes to the bus and to the lines in Actisense mode. *)
LEMMA N2kReaches ==
  ASSUME ConfigOK, NEW p \in Port, NEW src \in Port, NEW m \in Message,
         m.form = "n2k", m.kind = N2kMsg
  PROVE  Msgs(sendActisense(p, m, src) \cup ToBus(p, m, src)) = Only(m, Gets(p, m, src))
<1> DEFINE A == sendActisense(p, m, src)
           B == ToBus(p, m, src)
           id == ChannelOf(p)
           f == channels[First(id)]
           Act == /\ Configured(p) /\ Get(id, "readAct", FALSE) /\ Get(id, "writeAct", FALSE)
<1>1. A # {} <=> \E j \in theChannels :
                   LET c == channels[j] IN
                   /\ c.enabled /\ c.impl /\ c.writeActisense /\ c.stream
                   /\ ~isOwnSource(c, src) /\ p = c.id /\ HasRoom(p)
  BY Zenon DEF sendActisense
<1>2. B # {} <=> p = Bus /\ src # Bus /\ sendOutN2k /\ p \notin full
  BY DEF ToBus, HasRoom
<1>3. ASSUME NEW j \in theChannels, channels[j].stream, p = channels[j].id
      PROVE  id = p /\ (isOwnSource(channels[j], src) <=> src = p)
  <2>1. HasId(channels[j])
    BY DEF ConfigOK, ChannelsOK
  <2>2. p \in {Usb, Serial1, Serial2} /\ channels[j].maxId = -1
    BY <1>3, <2>1 DEF HasId, Usb, Serial1, Serial2, MinTcp
  <2>3. p \notin TcpClients
    BY <2>2, RoutingAssumption DEF Usb, Serial1, Serial2, MinTcp
  <2> QED BY <1>3, <2>2, <2>3 DEF ChannelOf, isOwnSource
<1>4. A # {} => Act /\ p # src /\ p \notin full
  <2> SUFFICES ASSUME NEW j \in theChannels,
                      channels[j].enabled, channels[j].impl, channels[j].writeActisense,
                      channels[j].stream, ~isOwnSource(channels[j], src), p = channels[j].id,
                      HasRoom(p)
               PROVE  Act /\ p # src /\ p \notin full
    BY <1>1
  <2>1. id = p /\ src # p
    BY <1>3
  <2>2. channels[j].id = id
    BY <2>1
  <2>3. HasId(channels[j]) /\ AsConfigured(channels[j]) /\ Exists(p) /\ id \in Channel
    BY <2>2, TheChannel
  <2>4. Get(id, "readAct", FALSE) /\ Get(id, "writeAct", FALSE) /\ Present(id) /\ id = Usb
    BY <2>2, <2>3, ChannelFacts
  <2>5. Configured(p)
    BY <2>1, <2>3, <2>4, ChannelPorts DEF Configured, Usb, UdpReader, TcpClient
  <2> QED BY <2>1, <2>4, <2>5 DEF HasRoom
<1>5. ASSUME Act, p # src, p \notin full PROVE A # {}
  <2>1. Exists(p)
    BY <1>5 DEF Configured
  <2>2. /\ First(id) \in theChannels /\ f.id = id
        /\ HasId(f) /\ AsConfigured(f) /\ id \in Channel
    BY <2>1, TheChannel
  <2>3. id = Usb /\ f.enabled /\ f.stream /\ f.writeActisense
    BY <1>5, <2>2, ChannelFacts
  <2>4. f.impl
    <3>1. Present(id)
      BY <2>3 DEF Present, Usb, TcpClient
    <3> QED BY <2>2, <3>1, ChannelFacts
  <2>5. p = id
    BY <2>3 DEF ChannelOf, Usb, MinTcp
  <2>6. ~isOwnSource(f, src)
    BY <1>3, <1>5, <2>2, <2>3, <2>5
  <2> QED BY <1>1, <1>5, <2>2, <2>3, <2>4, <2>5, <2>6 DEF HasRoom
<1>6. <<m.form, m.kind>> \in Takes(p) <=> (p = Bus /\ sendOutN2k) \/ Act
  BY TakesForms
<1> HIDE DEF A, B, Act
<1>7. Gets(p, m, src) <=> A \cup B # {}
  BY <1>2, <1>4, <1>5, <1>6 DEF Gets
<1>8. \A s \in A \cup B : s.msg = m
  BY LineMeansMsg DEF A, B
<1>9. Gets(p, m, src) \in BOOLEAN
  BY DEF Gets
<1> QED BY <1>7, <1>8, <1>9, MsgsOf DEF A, B
-----------------------------------------------------------------------------
(* Of all that is derived from an input each port gets what it takes.      *)
TakenOf(p, ms, from) == {m \in ms : Gets(p, m, from)}

LEMMA LinesReach ==
  ASSUME ConfigOK, NEW p \in Port, NEW src \in Port, NEW ms \in SUBSET Message,
         \A m \in ms : m.form = "0183" /\ m.kind \in Sentence
  PROVE  Msgs(Lines(p, ms, src)) = TakenOf(p, ms, src)
<1>1. \A m \in ms : Msgs(sendToClients(p, m, src, FALSE)) = Only(m, Gets(p, m, src))
  BY LineReaches DEF IsLine
<1>2. \A m : m \in Msgs(Lines(p, ms, src)) <=> \E l \in ms : m \in Msgs(sendToClients(p, l, src, FALSE))
  BY DEF Msgs, Lines
<1>3. \A m : m \in Msgs(Lines(p, ms, src)) <=> m \in ms /\ Gets(p, m, src)
  BY <1>1, <1>2 DEF Only
<1> HIDE DEF Msgs
<1> QED BY <1>3 DEF TakenOf

LEMMA N2kHandled ==
  ASSUME ConfigOK, NEW p \in Port, NEW src \in Port, NEW n \in Message,
         n.form = "n2k", n.kind = N2kMsg, NEW b \in BOOLEAN, NEW ks \in SUBSET Sentence
  PROVE  Msgs(handleN2kMessage(p, n, src, b, ks)) = TakenOf(p, FromN2k(n, b, ks), src)
<1> DEFINE S == sendToClients(p, AsSeasmart(n), src, TRUE)
           A == sendActisense(p, n, src)
           B == ToBus(p, n, src)
           L == IF b THEN {} ELSE Lines(p, AsLines(n, ks), src)
           ls == IF b THEN {} ELSE AsLines(n, ks)
<1>1. Msgs(S) = Only(AsSeasmart(n), Gets(p, AsSeasmart(n), src))
  <2>1. AsSeasmart(n) \in Message /\ AsSeasmart(n).form = "seasmart" /\ AsSeasmart(n).kind = Din
    BY DEF AsSeasmart, Message
  <2> QED BY <2>1, LineReaches DEF IsLine
<1>2. Msgs(A \cup B) = Only(n, Gets(p, n, src))
  BY N2kReaches
<1>3. Msgs(L) = TakenOf(p, ls, src)
  <2>1. CASE b
    BY <2>1 DEF Msgs, TakenOf
  <2>2. CASE ~b
    <3>1. \A m \in AsLines(n, ks) : m \in Message /\ m.form = "0183" /\ m.kind \in Sentence
      BY DEF AsLines, Message
    <3>2. Msgs(Lines(p, AsLines(n, ks), src)) = TakenOf(p, AsLines(n, ks), src)
      BY <3>1, LinesReach
    <3> QED BY <2>2, <3>2
  <2> QED BY <2>1, <2>2
<1>4. handleN2kMessage(p, n, src, b, ks) = S \cup A \cup L \cup B
  BY DEF handleN2kMessage
<1>5. FromN2k(n, b, ks) = {n, AsSeasmart(n)} \cup ls
  BY DEF FromN2k
<1> HIDE DEF S, A, B, L, ls
<1>6. Msgs(S \cup A \cup L \cup B) = Msgs(S) \cup Msgs(A \cup B) \cup Msgs(L)
  BY Zenon DEF Msgs
<1>7. TakenOf(p, {n, AsSeasmart(n)} \cup ls, src)
        = Only(AsSeasmart(n), Gets(p, AsSeasmart(n), src)) \cup Only(n, Gets(p, n, src))
          \cup TakenOf(p, ls, src)
  BY DEF TakenOf, Only
<1> QED BY <1>1, <1>2, <1>3, <1>4, <1>5, <1>6, <1>7

(* The same for a line and what it is converted to. *)
LEMMA LineHandled ==
  ASSUME ConfigOK, NEW p \in Port, NEW src \in Port, NEW x \in Message,
         NEW ss \in BOOLEAN,
         IsLine(x, ss),
         NEW g \in BOOLEAN, NEW b \in BOOLEAN, NEW ks \in SUBSET Sentence
  PROVE  Msgs(sendToClients(p, x, src, ss)
              \cup (IF g THEN handleN2kMessage(p, AsN2k(x), src, b, ks) ELSE {}))
         = TakenOf(p, {x} \cup (IF g THEN FromN2k(AsN2k(x), b, ks) ELSE {}), src)
<1> DEFINE S == sendToClients(p, x, src, ss)
           H == handleN2kMessage(p, AsN2k(x), src, b, ks)
           F == FromN2k(AsN2k(x), b, ks)
<1>1. Msgs(S) = Only(x, Gets(p, x, src))
  BY LineReaches
<1>2. AsN2k(x) \in Message /\ AsN2k(x).form = "n2k" /\ AsN2k(x).kind = N2kMsg
  BY DEF AsN2k, Message
<1>3. Msgs(H) = TakenOf(p, F, src)
  BY <1>2, N2kHandled
<1> HIDE DEF S, H, F
<1>4. Msgs(S \cup H) = Msgs(S) \cup Msgs(H) /\ S \cup {} = S
  BY Zenon DEF Msgs
<1>5. /\ TakenOf(p, {x} \cup F, src) = Only(x, Gets(p, x, src)) \cup TakenOf(p, F, src)
      /\ TakenOf(p, {x} \cup {}, src) = Only(x, Gets(p, x, src))
  BY DEF TakenOf, Only
<1> QED BY <1>1, <1>3, <1>4, <1>5 DEF S, H, F

(* Where an input's converted messages come from. *)
LEMMA DerivedFrom ==
  ASSUME NEW n \in Message, NEW b \in BOOLEAN, NEW ks \in SUBSET Sentence
  PROVE  /\ \A m \in FromN2k(n, b, ks) : m.origin = n.origin /\ (m = n \/ m.via = "converted")
         /\ b => \A m \in FromN2k(n, b, ks) : m = n \/ m.form = "seasmart"
BY DEF FromN2k, AsSeasmart, AsLines, Message

(* One input is one step of the router. *)
LEMMA Routes ==
  ASSUME TypeOK, NEW adds, NEW derived \in SUBSET Message, Handle(adds, derived), NEW from \in Port, NEW x \in derived,
         \A m \in derived : Router!IsDerived(x, m),
         x.origin = from \/ x.origin = Gateway,
         x.origin = from /\ x.form # "n2k" /\ ~Converts(from) => derived = {x},
         x.origin = Gateway => derived = {x},
         \A p \in Port : Msgs(adds[p]) = TakenOf(p, derived, from)
  PROVE  Router!Next
<1>1. /\ config' = config /\ channels' = channels /\ theChannels' = theChannels
      /\ sent' = adds /\ routed' = derived /\ full' \in SUBSET Slow
  BY DEF Handle, setup
<1>2. [p \in Port |-> {s.msg : s \in sent'[p]}]
        = [p \in Port |-> IF p = from \/ p \in full THEN {}
                          ELSE {m \in derived : <<m.form, m.kind>> \in [q \in Port |-> Takes(q)][p]}]
  <2> SUFFICES ASSUME NEW p \in Port
               PROVE  {s.msg : s \in sent'[p]}
                        = IF p = from \/ p \in full THEN {}
                          ELSE {m \in derived : <<m.form, m.kind>> \in Takes(p)}
    BY Zenon
  <2>1. {s.msg : s \in sent'[p]} = TakenOf(p, derived, from)
    BY <1>1 DEF Msgs
  <2> QED BY <2>1 DEF TakenOf, Gets
<1>3. ASSUME NEW p PROVE Takes(p)' = Takes(p) /\ Converts(p)' = Converts(p)
  <2>1. ASSUME NEW id, NEW name, NEW d PROVE Get(id, name, d)' = Get(id, name, d)
    BY <1>1 DEF Get
  <2>2. ASSUME NEW id PROVE First(id)' = First(id)
    BY <1>1 DEF First
  <2>3. Converts(p)' = Converts(p)
    BY <2>1 DEF Converts
  <2>4. Takes(p)' = Takes(p)
    BY <1>1, <2>1, <2>2 DEF Takes, sendOutN2k
  <2> QED BY <2>3, <2>4
<1>4. full' \in SUBSET Port
  BY <1>1, RoutingAssumption
<1>5. [p \in Port |-> Takes(p)]' = [p \in Port |-> Takes(p)] /\ [p \in Port |-> Converts(p)]' = [p \in Port |-> Converts(p)]
  BY <1>3, Zenon
<1>6. x.origin = from => [p \in Port |-> Converts(p)][from] = Converts(from)
  OBVIOUS
<1>7. Router!Route(from, x, routed')
  BY <1>1, <1>2, <1>4, <1>5, <1>6, PortFacts DEF Router!Route
<1>8. CASE x.origin = from
  BY <1>1, <1>7, <1>8 DEF Router!Next
<1>9. CASE x.origin = Gateway
  BY <1>1, <1>7, <1>9, PortFacts DEF Router!Next
<1> QED BY <1>8, <1>9
-----------------------------------------------------------------------------
(* The three kinds of input.                                               *)
LEMMA N2kRoutes ==
  ASSUME TypeOK, ConfigOK, NEW src \in Port, NEW b \in BOOLEAN, HandleN2k(src, b)
  PROVE  Router!Next
<1> DEFINE n == NewMessage(src, "n2k", N2kMsg)
           adds(ks) == [p \in Port |-> handleN2kMessage(p, n, src, b, ks)]
           all(ks) == FromN2k(n, b, ks)
<1>1. PICK ks \in SUBSET Sentence : Handle(adds(ks), all(ks))
  BY DEF HandleN2k
<1>2. n \in Message /\ n.origin = src /\ n.form = "n2k" /\ n.kind = N2kMsg
  BY NewOK DEF NewMessage
<1> HIDE DEF n
<1>3. \A p \in Port : Msgs(adds(ks)[p]) = TakenOf(p, all(ks), src)
  BY <1>2, N2kHandled
<1>4. all(ks) \in SUBSET Message /\ n \in all(ks)
  BY <1>2, DerivedOK DEF FromN2k
<1>5. \A m \in all(ks) : Router!IsDerived(n, m)
  BY <1>2, DerivedFrom DEF Router!IsDerived
<1>6. n.origin # Gateway
  BY <1>2, PortFacts
<1> HIDE DEF adds, all
<1> QED BY <1>1, <1>2, <1>3, <1>4, <1>5, <1>6, Routes

(* A line, whether SeaSmart or not, and what is made of it. *)
LineAdds(x, src, ss, g, b, ks) ==
  [p \in Port |-> sendToClients(p, x, src, ss)
                  \cup (IF g THEN handleN2kMessage(p, AsN2k(x), src, b, ks) ELSE {})]
LineMakes(x, g, b, ks) == {x} \cup (IF g THEN FromN2k(AsN2k(x), b, ks) ELSE {})

LEMMA AnyLineRoutes ==
  ASSUME TypeOK, ConfigOK, NEW src \in Port, NEW ss \in BOOLEAN, NEW x \in Message, x.origin = src,
         IsLine(x, ss),
         NEW g \in BOOLEAN, g => Converts(src), NEW b \in BOOLEAN, ss \/ b, NEW ks \in SUBSET Sentence,
         Handle(LineAdds(x, src, ss, g, b, ks), LineMakes(x, g, b, ks))
  PROVE  Router!Next
<1> DEFINE n == AsN2k(x)
           all == {x} \cup (IF g THEN FromN2k(n, b, ks) ELSE {})
           adds == LineAdds(x, src, ss, g, b, ks)
<1>1. n \in Message /\ n.origin = src /\ n.form = "n2k" /\ n.via = "converted"
  BY DEF AsN2k, Message
<1>2. \A p \in Port : Msgs(adds[p]) = TakenOf(p, all, src)
  <2> SUFFICES ASSUME NEW p \in Port PROVE Msgs(adds[p]) = TakenOf(p, all, src)
    OBVIOUS
  <2>1. adds[p] = sendToClients(p, x, src, ss)
                  \cup (IF g THEN handleN2kMessage(p, AsN2k(x), src, b, ks) ELSE {})
    BY DEF LineAdds
  <2>2. Msgs(sendToClients(p, x, src, ss)
             \cup (IF g THEN handleN2kMessage(p, AsN2k(x), src, b, ks) ELSE {}))
          = TakenOf(p, {x} \cup (IF g THEN FromN2k(AsN2k(x), b, ks) ELSE {}), src)
    BY LineHandled
  <2> QED BY <2>1, <2>2
<1>3. all \in SUBSET Message /\ x \in all
  BY <1>1, DerivedOK
<1>4. \A m \in all : Router!IsDerived(x, m)
  <2>1. \A m \in FromN2k(n, b, ks) : m.origin = src /\ m.via = "converted"
    BY <1>1, DerivedFrom
  <2>2. CASE ss
    BY <2>1, <2>2 DEF Router!IsDerived, IsLine
  <2>3. CASE ~ss
    <3>1. \A m \in FromN2k(n, b, ks) : m.form # "0183"
      BY <1>1, <2>3, DerivedFrom
    <3> QED BY <2>1, <3>1 DEF Router!IsDerived, IsLine
  <2> QED BY <2>2, <2>3
<1>5. x.form # "n2k" /\ ~Converts(src) => all = {x}
  OBVIOUS
<1>6. x.origin # Gateway
  BY PortFacts
<1>7. Handle(adds, all)
  BY DEF LineMakes
<1> HIDE DEF all, adds
<1> QED BY <1>2, <1>3, <1>4, <1>5, <1>6, <1>7, Routes

LEMMA LineRoutes ==
  ASSUME TypeOK, ConfigOK, NEW src \in Port, NEW kind \in Sentence, NEW toN2k,
         HandleLine(src, kind, toN2k), toN2k => Converts(src)
  PROVE  Router!Next
<1> DEFINE x == NewMessage(src, "0183", kind)
<1>1. PICK g \in BOOLEAN :
         /\ Handle(LineAdds(x, src, FALSE, g, TRUE, {}), LineMakes(x, g, TRUE, {}))
         /\ g => toN2k
  <2>1. \A p : /\ parseAndSend(p, x, src, TRUE) = handleN2kMessage(p, AsN2k(x), src, TRUE, {})
              /\ parseAndSend(p, x, src, FALSE) = {}
    BY DEF parseAndSend
  <2>2. PICK g \in BOOLEAN :
          /\ Handle([p \in Port |-> sendToClients(p, x, src, FALSE) \cup parseAndSend(p, x, src, g)],
                    LineMakes(x, g, TRUE, {}))
          /\ g => toN2k
    BY Zenon DEF HandleLine, LineMakes
  <2>3. [p \in Port |-> sendToClients(p, x, src, FALSE) \cup parseAndSend(p, x, src, g)]
          = LineAdds(x, src, FALSE, g, TRUE, {})
    BY <2>1 DEF LineAdds
  <2> QED BY <2>2, <2>3
<1>2. x \in Message /\ x.origin = src /\ IsLine(x, FALSE)
  BY NewOK DEF NewMessage, IsLine
<1> HIDE DEF x
<1>3. TRUE \in BOOLEAN /\ FALSE \in BOOLEAN /\ {} \in SUBSET Sentence
  OBVIOUS
<1> QED BY <1>1, <1>2, <1>3, AnyLineRoutes

LEMMA SeasmartRoutes ==
  ASSUME TypeOK, ConfigOK, NEW src \in Port, NEW toN2k,
         HandleSeasmart(src, toN2k), toN2k => Converts(src)
  PROVE  Router!Next
<1> DEFINE x == NewMessage(src, "seasmart", Din)
<1>1. PICK g \in BOOLEAN, ks \in SUBSET Sentence :
         /\ Handle(LineAdds(x, src, TRUE, g, FALSE, ks), LineMakes(x, g, FALSE, ks))
         /\ g => toN2k
  BY Zenon DEF HandleSeasmart, LineAdds, LineMakes
<1>2. x \in Message /\ x.origin = src /\ IsLine(x, TRUE)
  BY NewOK DEF NewMessage, IsLine
<1> HIDE DEF x
<1>3. TRUE \in BOOLEAN /\ FALSE \in BOOLEAN
  OBVIOUS
<1> QED BY <1>1, <1>2, <1>3, AnyLineRoutes
-----------------------------------------------------------------------------
LEMMA SetupKept ==
  ASSUME [Next]_vars
  PROVE  UNCHANGED <<config, channels>>
<1> USE DEF Handle, setup
<1>1. ASSUME NEW src, NEW b, HandleN2k(src, b) PROVE UNCHANGED <<config, channels>>
  BY <1>1, Zenon DEF HandleN2k
<1>2. ASSUME NEW src, NEW k, NEW b, HandleLine(src, k, b) PROVE UNCHANGED <<config, channels>>
  BY <1>2, Zenon DEF HandleLine
<1>3. ASSUME NEW src, NEW b, HandleSeasmart(src, b) PROVE UNCHANGED <<config, channels>>
  BY <1>3, Zenon DEF HandleSeasmart
<1>4. CASE OwnRmc
  BY <1>4, Zenon DEF OwnRmc
<1>5. CASE ReadMessages
  BY <1>2, <1>3, <1>5, Zenon DEF ReadMessages
<1> QED BY <1>1, <1>2, <1>4, <1>5 DEF Next, ParseMessages, TaskSendsN2k, TaskSendsLine, ParseActisense, NextRound, vars

(* The channel that reads from a port has its settings. *)
LEMMA ReaderConverts ==
  ASSUME ConfigOK, NEW i \in theChannels, NEW p \in Port, isOwnSource(channels[i], p)
  PROVE  channels[i].toN2k => Converts(p)
<1>1. HasId(channels[i]) /\ AsConfigured(channels[i])
  BY DEF ConfigOK, ChannelsOK, ChannelsConfigured
<1>2. channels[i].id = ChannelOf(p)
  <2>1. TcpClients \subseteq 5 .. 15 /\ TaskId \in Nat /\ TaskId >= 200
    BY RoutingAssumption DEF MinTcp
  <2>2. Channel = {1, 2, 3, 4, 5, 20, 21}
    BY DEF Channel, Usb, Serial1, Serial2, TcpClient, MinTcp, UdpWriter, UdpReader
  <2>3. p \in {0, TaskId, 1, 2, 3, 4, 20, 21} \/ p \in TcpClients
    BY <2>2 DEF Port, Bus, MinTcp
  <2>4. channels[i].id \in Channel /\ channels[i].maxId = IF channels[i].id = 5 THEN 15 ELSE -1
    BY <1>1 DEF HasId, MinTcp
  <2>5. CASE channels[i].id = 5
    <3>1. p >= 5 /\ p <= 15
      BY <2>4, <2>5 DEF isOwnSource
    <3>2. p \in TcpClients
      BY <2>1, <2>3, <3>1
    <3> QED BY <2>5, <3>2 DEF ChannelOf, MinTcp
  <2>6. CASE channels[i].id # 5
    <3>1. p = channels[i].id
      BY <2>4, <2>6 DEF isOwnSource
    <3>2. p \notin TcpClients
      BY <2>1, <2>2, <2>4, <2>6, <3>1
    <3> QED BY <3>1, <3>2 DEF ChannelOf
  <2> QED BY <2>5, <2>6
<1>3. channels[i].toN2k <=> Get(ChannelOf(p), "toN2K", FALSE)
  BY <1>1, <1>2, ChannelFacts DEF HasId
<1> QED BY <1>3 DEF Converts

LEMMA StepRoutes ==
  ASSUME IInv, ConfigOK, [Next]_vars
  PROVE  Router!Next \/ UNCHANGED Router!vars
<1>0. /\ TypeOK /\ Bus \in Port /\ TaskId \in Port
      /\ TRUE \in BOOLEAN /\ FALSE \in BOOLEAN
      /\ \A i \in theChannels : HasId(channels[i])
  BY PortFacts DEF IInv, ConfigOK, ChannelsOK
<1>1. CASE ParseMessages
  BY <1>0, <1>1, N2kRoutes DEF ParseMessages
<1>2. CASE TaskSendsN2k
  <2>1. PICK convert \in BOOLEAN : HandleN2k(TaskId, ~convert)
    BY <1>2 DEF TaskSendsN2k
  <2>2. PICK b \in BOOLEAN : HandleN2k(TaskId, b)
    <3>1. CASE convert = TRUE
      BY <2>1, <3>1
    <3>2. CASE convert = FALSE
      BY <2>1, <3>2
    <3> QED BY <3>1, <3>2
  <2> QED BY <1>0, <2>2, N2kRoutes
<1>3. CASE TaskSendsLine
  <2>1. PICK kind \in Sentence, convert \in BOOLEAN : HandleLine(TaskId, kind, convert)
    BY <1>3 DEF TaskSendsLine
  <2>2. Converts(TaskId)
    BY DEF Converts
  <2> QED BY <1>0, <2>1, <2>2, LineRoutes
<1>4. CASE OwnRmc
  <2> DEFINE x(k) == NewMessage(Gateway, "0183", k)
             adds(k) == [p \in Port |-> sendToClients(p, x(k), sourceId, FALSE)]
  <2>1. PICK k \in Sentence : Handle(adds(k), {x(k)})
    BY <1>4, Zenon DEF OwnRmc
  <2>2. x(k) \in Message /\ x(k).origin = Gateway /\ IsLine(x(k), FALSE) /\ sourceId \in Port
    BY <1>0, NewOK DEF TypeOK, IsLine, NewMessage
  <2>3. \A p \in Port : Msgs(adds(k)[p]) = TakenOf(p, {x(k)}, sourceId)
    <3> SUFFICES ASSUME NEW p \in Port
                 PROVE  Msgs(sendToClients(p, x(k), sourceId, FALSE)) = TakenOf(p, {x(k)}, sourceId)
      OBVIOUS
    <3>1. Msgs(sendToClients(p, x(k), sourceId, FALSE)) = Only(x(k), Gets(p, x(k), sourceId))
      BY <1>0, <2>2, LineReaches
    <3> HIDE DEF x
    <3> QED BY <3>1 DEF TakenOf, Only
  <2>4. Router!IsDerived(x(k), x(k)) /\ {x(k)} \in SUBSET Message
    BY <2>2 DEF Router!IsDerived
  <2>5. x(k).origin # sourceId
    BY <2>2, PortFacts
  <2> HIDE DEF adds, x
  <2> QED BY <1>0, <2>1, <2>2, <2>3, <2>4, <2>5, Routes
<1>5. CASE ReadMessages
  <2>1. PICK i \in theChannels, p \in Port :
          /\ isOwnSource(channels[i], p)
          /\ \/ HandleSeasmart(p, channels[i].toN2k)
             \/ \E kind \in Sentence : HandleLine(p, kind, channels[i].toN2k)
    BY <1>5, Zenon DEF ReadMessages
  <2>2. channels[i].toN2k => Converts(p)
    BY <2>1, ReaderConverts
  <2> QED BY <1>0, <2>1, <2>2, SeasmartRoutes, LineRoutes
<1>6. CASE ParseActisense
  <2>1. PICK i \in theChannels : channels[i].stream /\ HandleN2k(channels[i].id, FALSE)
    BY <1>6 DEF ParseActisense
  <2>2. channels[i].id \in Port
    BY <1>0, <2>1, PortFacts DEF HasId, Usb, Serial1, Serial2, MinTcp
  <2> QED BY <1>0, <2>1, <2>2, N2kRoutes
<1>7. CASE NextRound \/ UNCHANGED vars
  <2>1. UNCHANGED <<config, channels, full, routed, sent>>
    BY <1>7 DEF NextRound, vars, setup
  <2>2. ASSUME NEW id, NEW name, NEW d PROVE Get(id, name, d)' = Get(id, name, d)
    BY <2>1 DEF Get
  <2>3. ASSUME NEW id PROVE First(id)' = First(id)
    BY <2>1 DEF First
  <2>4. ASSUME NEW p PROVE Takes(p)' = Takes(p) /\ Converts(p)' = Converts(p)
    BY <2>1, <2>2, <2>3 DEF Takes, Converts, sendOutN2k
  <2>5. /\ [p \in Port |-> Takes(p)]' = [p \in Port |-> Takes(p)]
        /\ [p \in Port |-> Converts(p)]' = [p \in Port |-> Converts(p)]
        /\ [p \in Port |-> {s.msg : s \in sent[p]}]' = [p \in Port |-> {s.msg : s \in sent[p]}]
    BY <2>1, <2>4, Zenon
  <2> QED BY <2>1, <2>5 DEF Router!vars
<1> QED BY <1>1, <1>2, <1>3, <1>4, <1>5, <1>6, <1>7 DEF Next

(* The forms and kinds that ports may take. *)
LEMMA TakesTyped ==
  [p \in Port |-> Takes(p)] \in
    [Port -> SUBSET ({"0183", "n2k", "seasmart"} \X {m.kind : m \in Message})]
<1>1. \A k \in Sentence \cup {Din, N2kMsg} : k \in {m.kind : m \in Message}
  <2> SUFFICES ASSUME NEW k \in Sentence \cup {Din, N2kMsg} PROVE \E m \in Message : m.kind = k
    OBVIOUS
  <2>1. NewMessage(Gateway, "0183", k) \in Message /\ NewMessage(Gateway, "0183", k).kind = k
    BY NewOK DEF NewMessage
  <2> QED BY <2>1
<1>2. ASSUME NEW p \in Port
      PROVE  Takes(p) \subseteq {"0183", "n2k", "seasmart"} \X (Sentence \cup {Din, N2kMsg})
  <2> DEFINE K == Sentence \cup {Din, N2kMsg}
             id == ChannelOf(p)
             bus == {<<"n2k", N2kMsg>> : b \in {TRUE} \cap {sendOutN2k}}
             none == \/ p \in {TaskId, UdpReader} \/ (p = TcpClient /\ ~config[p].enabled)
                     \/ \A i \in DOMAIN channels : channels[i].id # id
             lines == {k \in Sentence : channels[First(id)].NMEAout /\ ~Get(id, "readAct", FALSE)
                                          /\ canPass(config[id].writeF, k)}
             din == {k \in {Din} : Get(id, "sendSeasmart", FALSE) /\ canPass(config[id].writeF, k)}
             n2k == {k \in {N2kMsg} : Get(id, "readAct", FALSE) /\ Get(id, "writeAct", FALSE)}
  <2>1. Takes(p) = IF p = Bus THEN bus ELSE IF none THEN {}
                   ELSE ({"0183"} \X lines) \cup ({"seasmart"} \X din) \cup ({"n2k"} \X n2k)
    BY Zenon DEF Takes
  <2>2. lines \subseteq K /\ din \subseteq K /\ n2k \subseteq K
    OBVIOUS
  <2>3. bus \subseteq {"0183", "n2k", "seasmart"} \X K
    OBVIOUS
  <2> HIDE DEF K, bus, none, lines, din, n2k
  <2>4. ({"0183"} \X lines) \cup ({"seasmart"} \X din) \cup ({"n2k"} \X n2k)
          \subseteq {"0183", "n2k", "seasmart"} \X K
    BY <2>2
  <2>5. Takes(p) \subseteq {"0183", "n2k", "seasmart"} \X K
    BY <2>1, <2>3, <2>4, Zenon
  <2> QED BY <2>5 DEF K
<1> QED BY <1>1, <1>2

LEMMA ConvertsTyped ==
  ASSUME NEW p \in Port
  PROVE  Converts(p) \in BOOLEAN
BY DEF Converts

(* For all settings, builds and inputs, the channels and the loop are a    *)
(* router: each port but the origin gets exactly what its settings ask for *)
(* of an input and of what that is converted to.                           *)
THEOREM RouterCorrect == Spec => IsRouter
<1>1. Init => Router!Init
  <2> SUFFICES ASSUME Init PROVE Router!Init
    OBVIOUS
  <2>1. [p \in Port |-> Converts(p)] \in [Port -> BOOLEAN]
    BY ConvertsTyped
  <2>2. full \in SUBSET Port /\ routed = {}
    BY RoutingAssumption DEF Init
  <2>3. [p \in Port |-> {s.msg : s \in sent[p]}] = [p \in Port |-> {}]
    BY DEF Init
  <2> QED BY <2>1, <2>2, <2>3, TakesTyped DEF Router!Init
<1>2. Init => IInv /\ ConfigOK
  BY Initially, InitChannels DEF ConfigOK
<1>3. IInv /\ ConfigOK /\ [Next]_vars => IInv' /\ ConfigOK'
  BY StepOK, SetupKept, StillConfigured DEF ConfigOK, IInv
<1>4. IInv /\ ConfigOK /\ [Next]_vars => [Router!Next]_(Router!vars)
  BY StepRoutes
<1> QED BY <1>1, <1>2, <1>3, <1>4, PTL DEF Spec, IsRouter, Router!Spec
=============================================================================

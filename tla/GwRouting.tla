----------------------------- MODULE GwRouting -----------------------------
(***************************************************************************)
(* How messages find their way through the gateway: the channels as they   *)
(* are created from the settings (lib/channel/GwChannelList.cpp), what     *)
(* each lets in and out (lib/channel/GwChannel.cpp), and the main loop     *)
(* that forwards and converts (src/main.cpp: loopRun, handleN2kMessage,    *)
(* SendNMEA0183Message, the message functions of the API).                 *)
(*                                                                         *)
(* A message is a record: origin of the input it comes from, form ("0183", *)
(* "n2k" or "seasmart", an N2K message in a $PCDIN line), kind, and via    *)
(* ("received" or "converted").  One action handles one input.             *)
(***************************************************************************)
EXTENDS Integers, Sequences, TLC

CONSTANTS
  Sentence,    (* kinds of NMEA0183 lines                                  *)
  Ais,         (* those of them that start with "!"                        *)
  Din,         (* the kind of SeaSmart lines                               *)
  N2kMsg,      (* the kind of messages in N2K form                         *)
  NoFilter,    (* an empty filter setting                                  *)
  Gateway,     (* origin of the messages the gateway makes on its own      *)
  Settings,    (* the settings: channel id -> record                       *)
  Builds,      (* [inits: sequence of [serial, mode], fallbackSerial]      *)
  TcpClients,  (* ids of the clients of the TCP server                     *)
  TaskId,      (* id of a user task                                        *)
  Slow,        (* bound: ports whose buffers may be full                   *)
  MaxInputs    (* bound: number of inputs                                  *)

Bus == 0                    (* N2K_CHANNEL_ID *)
Usb == 1
Serial1 == 2
Serial2 == 3
TcpClient == 4
MinTcp == 5
UdpWriter == 20
UdpReader == 21

Channel == {Usb, Serial1, Serial2, TcpClient, MinTcp, UdpWriter, UdpReader}
Port == {Bus, TaskId} \cup (Channel \ {MinTcp}) \cup TcpClients

Modes == {"UNI", "BI", "RX", "TX"}

(* A channel's settings: the value of those it has, anything for the rest; *)
(* sendN2k is the setting send of the bus.                                 *)
Filter == {NoFilter} \cup [ais : BOOLEAN, blacklist : BOOLEAN, list : SUBSET (Sentence \cup {Din})]
Setting ==
  [receive : BOOLEAN, send : BOOLEAN, direction : {"send", "receive", "off"}, toN2K : BOOLEAN,
   readF : Filter, writeF : Filter, readAct : BOOLEAN, writeAct : BOOLEAN,
   sendSeasmart : BOOLEAN, enabled : BOOLEAN]

ASSUME RoutingAssumption ==
  /\ Ais \subseteq Sentence /\ Din \notin Sentence /\ N2kMsg \notin Sentence \cup {Din}
  /\ Gateway \notin Int
  /\ TcpClients \subseteq MinTcp .. MinTcp + 10
  /\ TaskId \in Nat /\ TaskId >= 200 /\ MaxInputs \in Nat
  /\ Slow \subseteq Port
  /\ Settings \subseteq [Channel \cup {Bus} -> Setting]
  /\ Builds \subseteq [inits : Seq([serial : {Serial1, Serial2}, mode : Modes]), fallbackSerial : BOOLEAN]

Message ==
  [origin : Port \cup {Gateway}, form : {"0183", "n2k", "seasmart"},
   kind : Sentence \cup {Din, N2kMsg}, via : {"received", "converted"}]

VARIABLES
  config,      (* the settings of this run                                 *)
  channels,    (* all channels that were created, in order                 *)
  theChannels, (* positions of those that were added to the list           *)
  at,          (* where loopRun is: a position in Order                    *)
  sourceId,    (* source of the message that was last converted to 0183    *)
  full,        (* ports whose buffer has no room now                       *)
  count,       (* number of inputs so far                                  *)
  routed,      (* the last input and all that was derived from it          *)
  sent         (* port -> what it was given of that, each message with the *)
               (* position of the channel that put it into the buffer      *)

setup == <<config, channels, theChannels>>
vars == <<setup, at, sourceId, full, count, routed, sent>>
-----------------------------------------------------------------------------
(* Faulty variants of definitions below; each breaks a property.  They     *)
(* forget, in this order: which client a message came from, that there may *)
(* be a second channel for a serial line, the wrap at the end of a round.  *)
ClientsOfServer(c, src) ==
  IF c.id = MinTcp THEN TcpClients ELSE IF c.id = UdpReader THEN {} ELSE {c.id} \ {src}

overlapsRange(c, d) == c.maxId >= 0 /\ d.maxId >= 0 /\ d.maxId >= c.id /\ d.id <= c.maxId

PastAll == at' = at + 1 /\ UNCHANGED <<config, channels, theChannels, sourceId, full, count, routed, sent>>
-----------------------------------------------------------------------------
(* GwNmeaFilter *)
canPass(filter, kind) ==
  \/ filter = NoFilter
  \/ /\ filter # NoFilter
     /\ IF kind \in Ais THEN filter.ais ELSE (kind \in filter.list) # filter.blacklist

(* The settings channelParameters has for each channel. *)
Offers(id) ==
  CASE id = Usb -> {"receive", "send", "toN2K", "readF", "writeF", "readAct", "writeAct"}
    [] id \in {Serial1, Serial2} -> {"receive", "send", "direction", "toN2K", "readF", "writeF"}
    [] id \in {MinTcp, TcpClient} -> {"receive", "send", "toN2K", "readF", "writeF", "sendSeasmart"}
    [] id = UdpWriter -> {"send", "writeF", "sendSeasmart"}
    [] id = UdpReader -> {"receive", "toN2K", "readF"}

Get(id, name, default) == IF name \in Offers(id) THEN config[id][name] ELSE default

(* What createChannel makes of the type of a serial channel. *)
CanRead(id, type) ==
  CASE type = "BI" -> Get(id, "receive", FALSE)
    [] type = "UNI" -> Get(id, "direction", "off") = "receive"
    [] OTHER -> type = "RX"
CanWrite(id, type) ==
  CASE type = "BI" -> Get(id, "send", FALSE)
    [] type = "UNI" -> Get(id, "direction", "off") = "send"
    [] OTHER -> type = "TX"

(* createChannel and GwChannel::begin: only serial channels have a stream, *)
(* and only with one there is Actisense in either direction.               *)
createChannel(id, impl, type) ==
  LET seasmart == Get(id, "sendSeasmart", FALSE)
      readAct == Get(id, "readAct", FALSE)
      writeAct == Get(id, "writeAct", FALSE)
      stream == impl /\ readAct /\ id \in {Usb, Serial1, Serial2}
  IN  [id |-> id, maxId |-> IF id = MinTcp THEN MinTcp + 10 ELSE -1, impl |-> impl,
       enabled |-> CanRead(id, type) \/ CanWrite(id, type) \/ readAct \/ writeAct \/ seasmart,
       NMEAout |-> CanWrite(id, type), NMEAin |-> CanRead(id, type),
       readFilter |-> Get(id, "readF", NoFilter), writeFilter |-> Get(id, "writeF", NoFilter),
       seaSmartOut |-> seasmart, toN2k |-> Get(id, "toN2K", FALSE),
       readActisense |-> readAct /\ (impl => stream),
       writeActisense |-> writeAct /\ (impl /\ readAct => stream), stream |-> stream]

isOwnSource(c, source) ==
  IF c.maxId < 0 THEN source = c.id ELSE source >= c.id /\ source <= c.maxId

overlaps(c, d) ==
  CASE c.maxId < 0 /\ d.maxId < 0 -> c.id = d.id
    [] c.maxId < 0 /\ d.maxId >= 0 -> d.id <= c.id /\ c.id <= d.maxId
    [] c.maxId >= 0 /\ d.maxId < 0 -> c.id <= d.id /\ d.id <= c.maxId
    [] OTHER -> d.maxId >= c.id /\ d.id <= c.maxId

(* GwChannelList::begin: what is created, in this order; the UDP channels  *)
(* if enabled.  The TCP client is added in any case, without an            *)
(* implementation if it is disabled.                                       *)
Created(build) ==
  LET udp(id, enabled) == IF enabled THEN <<createChannel(id, TRUE, "BI")>> ELSE << >>
  IN  (IF build.fallbackSerial THEN << >> ELSE <<createChannel(Usb, TRUE, "BI")>>)
      \o <<createChannel(MinTcp, TRUE, "BI")>>
      \o [i \in DOMAIN build.inits |->
           createChannel(build.inits[i].serial, TRUE, build.inits[i].mode)]
      \o <<createChannel(TcpClient, config[TcpClient].enabled, "BI")>>
      \o udp(UdpWriter, config[UdpWriter].send) \o udp(UdpReader, config[UdpReader].receive)

(* addChannel drops a channel that overlaps one of the list. *)
IsAdded(added) ==
  \A i \in DOMAIN channels :
    i \in added <=> \A j \in added : j < i => ~overlaps(channels[j], channels[i])

(* loopRun: bus messages, the own RMC, the lines of each channel, the      *)
(* Actisense messages of each, and back.  What has no message is passed.   *)
BusStep == 1
RmcStep == 2
ReadStep(i) == 2 + i
ActisenseStep(i) == 2 + Len(channels) + i
GoTo(step) == step >= at /\ at' = step
GoPast(step) == step >= at /\ at' = step + 1

Init ==
  /\ config \in Settings
  /\ \E build \in Builds : channels = Created(build)
  /\ theChannels \in SUBSET (DOMAIN channels) /\ IsAdded(theChannels)
  /\ at = 1 /\ sourceId = Bus /\ full \in SUBSET Slow
  /\ count = 0 /\ routed = {}
  /\ sent = [p \in Port |-> {}]
-----------------------------------------------------------------------------
canSendOut(c, kind, isSeasmart) ==
  /\ c.enabled /\ c.impl /\ ~c.readActisense
  /\ IF isSeasmart THEN c.seaSmartOut ELSE c.NMEAout
  /\ canPass(c.writeFilter, kind)

canReceive(c, kind) == c.enabled /\ c.NMEAin /\ canPass(c.readFilter, kind)

(* The ports a channel writes a message of a source to: its serial line,   *)
(* its connection or its network, each client of the server.               *)
Clients(c, src) ==
  (IF c.id = MinTcp THEN TcpClients ELSE IF c.id = UdpReader THEN {} ELSE {c.id}) \ {src}

HasRoom(p) == p \notin full
By(m, i) == [msg |-> m, by |-> i]

(* Each operator below gives what one call adds to the messages of a port. *)
sendToClients(p, m, src, isSeasmart) ==
  {By(m, i) : i \in {j \in theChannels :
     /\ canSendOut(channels[j], m.kind, isSeasmart)
     /\ p \in Clients(channels[j], src) /\ HasRoom(p)}}

sendActisense(p, m, src) ==
  {By(m, i) : i \in {j \in theChannels :
     LET c == channels[j] IN
     /\ c.enabled /\ c.impl /\ c.writeActisense /\ c.stream
     /\ ~isOwnSource(c, src) /\ p = c.id /\ HasRoom(p)}}

sendOutN2k == config[Bus].send
(* NMEA2000.SendMsg *)
ToBus(p, m, src) == IF p = Bus /\ src # Bus /\ sendOutN2k /\ HasRoom(p) THEN {By(m, 0)} ELSE {}

Lines(p, ms, src) == UNION {sendToClients(p, m, src, FALSE) : m \in ms}

(* The N2K message n in its other forms, and the lines that the converter  *)
(* makes of it: any set of kinds of them.                                  *)
AsSeasmart(n) == [n EXCEPT !.form = "seasmart", !.kind = Din, !.via = "converted"]
AsLines(n, kinds) ==
  {[n EXCEPT !.form = "0183", !.kind = k, !.via = "converted"] : k \in kinds}

handleN2kMessage(p, n, src, isConverted, kinds) ==
  sendToClients(p, AsSeasmart(n), src, TRUE)
  \cup sendActisense(p, n, src)
  \cup (IF isConverted THEN {} ELSE Lines(p, AsLines(n, kinds), src))
  \cup ToBus(p, n, src)

FromN2k(n, isConverted, kinds) ==
  {n, AsSeasmart(n)} \cup (IF isConverted THEN {} ELSE AsLines(n, kinds))

(* A line x of source src, and the N2K message if it is converted to one.  *)
AsN2k(x) == [x EXCEPT !.form = "n2k", !.kind = N2kMsg, !.via = "converted"]

(* Faulty: the converter's message is treated as one that came in as N2K.  *)
parseAndSendAgain(p, x, src, gives) ==
  IF gives THEN handleN2kMessage(p, AsN2k(x), src, FALSE, {x.kind}) ELSE {}

(* parseAndSend: not every line gives a message. *)
parseAndSend(p, x, src, gives) ==
  IF gives THEN handleN2kMessage(p, AsN2k(x), src, TRUE, {}) ELSE {}

(* The next message, and what its handling does to the state. *)
NewMessage(origin, form, kind) ==
  [origin |-> origin, form |-> form, kind |-> kind, via |-> "received"]

Handle(adds, derived) ==
  /\ count < MaxInputs /\ count' = count + 1
  /\ sent' = adds
  /\ routed' = derived
  /\ full' \in SUBSET Slow
  /\ UNCHANGED setup

(* Only messages that are not converted ones reach the 0183 converter. *)
HandleN2k(src, isConverted) ==
  \E kinds \in SUBSET Sentence :
    LET n == NewMessage(src, "n2k", N2kMsg)
        adds == [p \in Port |-> handleN2kMessage(p, n, src, isConverted, kinds)]
    IN  /\ isConverted => kinds = {}
        /\ Handle(adds, FromN2k(n, isConverted, kinds))
        /\ sourceId' = IF isConverted THEN sourceId ELSE src

(* A line that is no SeaSmart line: forwarded, and perhaps converted. *)
HandleLine(src, kind, toN2k) ==
  \E gives \in BOOLEAN :
    LET x == NewMessage(src, "0183", kind)
        adds == [p \in Port |->
                   sendToClients(p, x, src, FALSE) \cup parseAndSend(p, x, src, gives)]
    IN  /\ gives => toN2k
        /\ Handle(adds, {x} \cup (IF gives THEN FromN2k(AsN2k(x), TRUE, {}) ELSE {}))
        /\ UNCHANGED sourceId

(* A SeaSmart line: forwarded to those who take such lines; if it can be   *)
(* decoded, its message is handled like one of the bus.                    *)
HandleSeasmart(src, toN2k) ==
  \E decodes \in BOOLEAN, kinds \in SUBSET Sentence :
    LET x == NewMessage(src, "seasmart", Din)
        n == AsN2k(x)
        adds == [p \in Port |->
                   sendToClients(p, x, src, TRUE)
                   \cup (IF decodes THEN handleN2kMessage(p, n, src, FALSE, kinds) ELSE {})]
    IN  /\ decodes => toN2k
        /\ decodes \/ kinds = {}
        /\ Handle(adds, {x} \cup (IF decodes THEN FromN2k(n, FALSE, kinds) ELSE {}))
        /\ sourceId' = IF decodes THEN src ELSE sourceId
-----------------------------------------------------------------------------
(* A message of the bus; ParseMessages handles all there are. *)
ParseMessages ==
  GoTo(BusStep) /\ HandleN2k(Bus, FALSE)

(* The calls of a user task take mainLock: they come between two rounds.   *)
TaskSendsN2k == \E convert \in BOOLEAN :
  GoTo(BusStep) /\ HandleN2k(TaskId, ~convert)

TaskSendsLine == \E kind \in Sentence, convert \in BOOLEAN :
  GoTo(BusStep) /\ HandleLine(TaskId, kind, convert)

(* The own RMC goes out with the source of the message converted last. *)
OwnRmc == \E kind \in Sentence \ Ais :
  LET x == NewMessage(Gateway, "0183", kind)
      adds == [p \in Port |-> sendToClients(p, x, sourceId, FALSE)]
  IN  /\ GoPast(RmcStep)
      /\ Handle(adds, {x}) /\ UNCHANGED sourceId

(* readMessages of one channel: a line of each of its ports. *)
ReadMessages == \E i \in theChannels, p \in Port :
  LET c == channels[i] IN
  /\ isOwnSource(c, p) /\ c.impl /\ c.id # UdpWriter
  /\ c.enabled /\ c.NMEAin /\ ~c.readActisense
  /\ IF c.maxId < 0 THEN GoPast(ReadStep(i)) ELSE GoTo(ReadStep(i))
  /\ \/ canReceive(c, Din) /\ HandleSeasmart(p, c.toN2k)
     \/ \E kind \in Sentence : canReceive(c, kind) /\ HandleLine(p, kind, c.toN2k)

ParseActisense == \E i \in theChannels :
  LET c == channels[i] IN
  /\ c.enabled /\ c.impl /\ c.readActisense /\ c.stream
  /\ GoTo(ActisenseStep(i)) /\ HandleN2k(c.id, FALSE)

NextRound == at' = 1 /\ UNCHANGED <<setup, sourceId, full, count, routed, sent>>

Next ==
  \/ ParseMessages \/ TaskSendsN2k \/ TaskSendsLine \/ OwnRmc
  \/ ReadMessages \/ ParseActisense \/ NextRound

Spec == Init /\ [][Next]_vars
-----------------------------------------------------------------------------
TypeOK ==
  /\ config \in Settings
  /\ theChannels \subseteq DOMAIN channels
  /\ at \in 1 .. 3 + 2 * Len(channels)
  /\ sourceId \in Port /\ full \in SUBSET Slow
  /\ count \in 0 .. MaxInputs /\ routed \in SUBSET Message
  /\ sent \in [Port -> SUBSET [msg : Message, by : {0} \cup DOMAIN channels]]

(* A message never goes back to where it came from, neither as it was nor  *)
(* as what it was converted to, and whatever way it takes.                 *)
NoEcho == \A p \in Port : \A s \in sent[p] : s.msg.origin # p

(* No port gets the same message twice, although several channels may have *)
(* been created for it.                                                    *)
AtMostOnce == \A p \in Port : \A s, t \in sent[p] : s.msg = t.msg => s.by = t.by

(* What a reader of the settings expects each port to take: of a serial    *)
(* line the first definition counts, a disabled channel takes nothing, and *)
(* on a line in Actisense mode there are no NMEA0183 lines.                *)
ChannelOf(p) == IF p \in TcpClients THEN MinTcp ELSE p
First(id) == CHOOSE i \in DOMAIN channels :
  channels[i].id = id /\ \A j \in 1 .. i - 1 : channels[j].id # id
Takes(p) ==
  LET id == ChannelOf(p)
      actisense == Get(id, "readAct", FALSE)
      passes(k) == canPass(config[id].writeF, k)
  IN  IF p = Bus THEN {<<"n2k", N2kMsg>> : b \in {TRUE} \cap {sendOutN2k}}
      ELSE IF \/ p \in {TaskId, UdpReader} \/ (p = TcpClient /\ ~config[p].enabled)
              \/ \A i \in DOMAIN channels : channels[i].id # id
      THEN {}
      ELSE ({"0183"} \X {k \in Sentence : channels[First(id)].NMEAout /\ ~actisense /\ passes(k)})
           \cup ({"seasmart"} \X {k \in {Din} : Get(id, "sendSeasmart", FALSE) /\ passes(k)})
           \cup ({"n2k"} \X {k \in {N2kMsg} : actisense /\ Get(id, "writeAct", FALSE)})
Converts(p) == p \in {Bus, TaskId} \/ Get(ChannelOf(p), "toN2K", FALSE)

(* The channels and the loop are a router: every port but the one a        *)
(* message came from gets it, in the forms its settings ask for and        *)
(* nothing else, unless its buffer is full; and no NMEA0183 line comes     *)
(* back as another one after a conversion to N2K.                          *)
Router == INSTANCE MessageRouter WITH
  takes <- [p \in Port |-> Takes(p)],
  converts <- [p \in Port |-> Converts(p)],
  got <- [p \in Port |-> {s.msg : s \in sent[p]}]
IsRouter == Router!Spec
=============================================================================

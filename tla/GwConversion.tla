---------------------------- MODULE GwConversion ----------------------------
(***************************************************************************)
(* The two converters with the store they share, as the main loop runs     *)
(* them (src/main.cpp: handleN2kMessage, and loopRun: the lines of the     *)
(* channels, toN2KConverter->loop with the time of the last RMC of         *)
(* another device).  Messages of the families that a configuration gives   *)
(* come in any order, any time apart.  out holds what the last step sent.  *)
(***************************************************************************)
EXTENDS N2kDataToNMEA0183, NMEA0183DataToN2K

CONSTANTS
  Families,   (* a set of sets of messages: one set is used in a behaviour *)
  Steps,      (* the times that may pass, ms                               *)
  Start,      (* the value of millis() at the start                        *)
  MaxMsgs,    (* number of messages of a behaviour                         *)
  MaxTicks,   (* number of times that time passes                          *)
  Memory      (* what may be found in memory that was freed                *)

(* What all messages have: the id of a channel, and fields with numbers.   *)
(* Those that tell more are in the form their handler reads.               *)
HasFields(m) ==
  /\ {"bus", "key", "src", "f"} \subseteq DOMAIN m
  /\ m.src \in Nat /\ "SatInfo" \notin DOMAIN m.f /\ \A i \in DOMAIN m.f : m.f[i] \in Int

IsAisLine(s) ==
  /\ s.count \in Nat /\ s.num \in Nat /\ s.seq \in Nat
  /\ s.frag.parts = s.count /\ s.frag.part = IF s.count = 1 THEN 1 ELSE s.num

IsMessage(m) ==
  /\ HasFields(m)
  /\ m.key \in {"127489", "127488", "127257"} => m.values \in Seq(Int)
  /\ m.key \in {"129540", "GSV"} => m.sats \in Seq(Int)
  /\ m.key \in {"DBK", "DBS", "DBT"} => m.units \in Seq(STRING) /\ m.depth \in Int
  /\ m.key = "XDR" =>
       /\ m.transducers \in Seq({m.transducers[k] : k \in DOMAIN m.transducers})
       /\ \A k \in DOMAIN m.transducers : m.transducers[k].value \in Int
  /\ m.key = "RMB" => m.dest.rank \in Int /\ m.orig.rank \in Int
  /\ m.key \in {"AIVDM", "AIVDO"} => IsAisLine(m.line)

ASSUME ConversionAssumption ==
  /\ \A f \in Families : \A m \in f : IsMessage(m)
  /\ Steps \subseteq Nat \ {0} /\ Start \in 1 .. (Wrap - 1) /\ MaxMsgs \in Nat /\ MaxTicks \in Nat

VARIABLES
  bd, unknown,     (* GwBoatData, the unknown readings of GwXDRMappings     *)
  n183, n2k,       (* the members of the converters                         *)
  now,             (* millis()                                              *)
  out,             (* what was sent in the last step                        *)
  family,          (* the messages of this behaviour                        *)
  msgs, ticks,     (* how much happened so far                              *)
  sentAt,          (* history: when the N2K message with a key was sent     *)
  seenRmc          (* history: when a valid RMC of another device came      *)

vars == <<bd, unknown, n183, n2k, now, out, family, msgs, ticks, sentAt, seenRmc>>

Init ==
  /\ bd = begin /\ unknown = {} /\ n183 = initN183 /\ n2k = initN2k(Start)
  /\ now = Start /\ out = <<>> /\ msgs = 0 /\ ticks = 0
  /\ family \in Families
  /\ sentAt = NoMore /\ seenRmc = Start

Context(memory) ==
  [now |-> now, bd |-> bd, unknown |-> unknown, n183 |-> n183, n2k |-> n2k, out |-> <<>>, memory |-> memory]

Becomes(c) ==
  /\ bd' = c.bd /\ unknown' = c.unknown /\ n183' = c.n183 /\ n2k' = c.n2k /\ out' = c.out
  /\ UNCHANGED <<now, family, ticks>>

Telling(sent, field) == {k \in DOMAIN sent : field \in DOMAIN sent[k].more}
keysOf(sent) == {sent[k].more.key : k \in Telling(sent, "key")}
-----------------------------------------------------------------------------
(* A message of the N2K bus; a converter that does not return stops it all.*)
HandleMsg(m) ==
  /\ m.bus = "n2k" /\ msgs < MaxMsgs /\ ~n183.endless
  /\ \E memory \in Memory : Becomes(HandleN2k(Context(memory), m))
  /\ msgs' = msgs + 1
  /\ UNCHANGED <<sentAt, seenRmc>>

(* A line of a channel.  The names of all waypoints are never used within  *)
(* one millisecond.                                                        *)
Unhurried(m) ==
  m.key = "RMB" =>
    Cardinality({n \in DOMAIN n2k.waypointMap : n2k.waypointMap[n].lastUsed = now}) + 2 <= MAXWAYPOINTS

parseAndSend(m) ==
  /\ m.bus = "n183" /\ msgs < MaxMsgs /\ ~n183.endless /\ Unhurried(m)
  /\ Becomes(ConvertLine(Context(NA), m))
  /\ msgs' = msgs + 1
  /\ sentAt' = [k \in DOMAIN sentAt \cup keysOf(out') |-> IF k \in keysOf(out') THEN now ELSE sentAt[k]]
  /\ seenRmc' = IF m.key = "RMC" /\ m.status = "A" THEN now ELSE seenRmc

(* A pass of the main loop in which an RMC of the gateway is due. *)
loop ==
  /\ ~n183.endless /\ ownRmcDue(Context(NA), n2k.lastRmc)
  /\ Becomes(loopRmc(Context(NA), n2k.lastRmc))
  /\ UNCHANGED <<msgs, sentAt, seenRmc>>

(* The store is shown; it changes only if there are satellites.            *)
BoatDataRequest ==
  /\ ~n183.endless /\ bd["SatInfo"].data # <<>>
  /\ Becomes([Context(NA) EXCEPT !.bd = toJson(@, now)])
  /\ UNCHANGED <<msgs, sentAt, seenRmc>>

Tick(d) ==
  /\ ticks < MaxTicks /\ ticks' = ticks + 1
  /\ now' = Plus(now, d)
  /\ out' = <<>>
  /\ UNCHANGED <<bd, unknown, n183, n2k, family, msgs, sentAt, seenRmc>>

Next ==
  \/ \E m \in family : HandleMsg(m)
  \/ \E m \in family : parseAndSend(m)
  \/ loop
  \/ BoatDataRequest
  \/ \E d \in Steps : Tick(d)

Spec == Init /\ [][Next]_vars
-----------------------------------------------------------------------------
(* Type correctness. *)
TypeOK ==
  /\ IsStore(bd) /\ now \in 0 .. (Wrap - 1) /\ msgs \in 0 .. MaxMsgs /\ ticks \in 0 .. MaxTicks
  /\ Cardinality(unknown) <= MaxUnknown
  /\ n183.endless \in BOOLEAN /\ n183.xdrOpened \in BOOLEAN /\ Len(n183.xdrMessage) <= XdrRoom
  /\ \A k \in DOMAIN n2k.lastSends : n2k.lastSends[k] \in 0 .. (Wrap - 1)
  /\ n2k.waypointId \in 0 .. 255 /\ DOMAIN n2k.slots = 0 .. (MAX_MSG_SEQUENCE_IDS - 1)

(* A source with a lower id wins: while its value is in time no message of *)
(* another source changes it (the maxima apart), and it is in time for     *)
(* exactly the timeout of its kind, for ever if that is 0 (GwBoatData      *)
(* update, lines 168-186).                                                 *)
InTime(store, i) ==
  /\ store[i].lastSet # 0
  /\ invalidTime(i) = 0 \/ now - store[i].lastSet <= invalidTime(i)
LowerIdsWin ==
  [][\A i \in Item \ Kept :
       InTime(bd, i) /\ bd'[i] # bd[i] => bd'[i].src <= bd[i].src]_vars

(* No message is built from values that are too old: every value that is   *)
(* taken from the store when a message of another kind is built is in time *)
(* (the isValid and getDataWithDefault calls of all handlers).             *)
NoStaleValues ==
  \A k \in DOMAIN out : \A i \in out[k].reads : InTime(bd, i)

(* The XDR lines of one message hold the transducers that were accepted in *)
(* it and not held back, each once, whatever the room of a line; nothing of*)
(* a message before is left in them (addToXdr, finalizeXdr).               *)
XdrPlaces(sent) ==
  UNION {{k} \X DOMAIN sent[k].more.transducers : k \in Telling(sent, "transducers")}
nameAt(sent, p) == sent[p[1]].more.transducers[p[2]]
newlyNoted ==
  {t \in DOMAIN n183'.lastSendTransducers :
     \/ t \notin DOMAIN n183.lastSendTransducers
     \/ n183.lastSendTransducers[t] # n183'.lastSendTransducers[t]}
XdrLinesComplete ==
  [][/\ newlyNoted = {nameAt(out', p) : p \in XdrPlaces(out')}
     /\ \A p, q \in XdrPlaces(out') : nameAt(out', p) = nameAt(out', q) => p = q]_<<n183, out>>

(* Two N2K messages with the same key are at least min2KInterval apart     *)
(* (send, lines 75-95).                                                    *)
Throttled ==
  [][/\ \A k \in keysOf(out') \cap DOMAIN sentAt : now - sentAt[k] >= config.min2KInterval
     /\ \A j, k \in Telling(out', "key") : out'[j].more.key = out'[k].more.key => j = k]_<<out, sentAt>>

(* The ids of the waypoints that are known are different, and so are those *)
(* of the two ends of a leg that is sent, also when the table is full and  *)
(* the second name takes an id away (getWaypointId, convertRMB).           *)
WaypointIds ==
  /\ \A a, b \in DOMAIN n2k.waypointMap : n2k.waypointMap[a].id = n2k.waypointMap[b].id => a = b
  /\ \A k \in Telling(out, "dest") :
       LET leg == out[k].more IN leg.names[1] # leg.names[2] => leg.dest # leg.orig

(* An AIS message is made of all its fragments in their order, whatever    *)
(* lines were lost, repeated or mixed, and of one ship if all of them came *)
(* by one channel and no channel uses a sequence id for the messages of two*)
(* ships, which those of Families do not (decodeMsg, addFragment).         *)
AisMessagesWhole ==
  \A k \in Telling(out, "frags") :
    LET frags == out[k].more.frags
    IN /\ Len(frags) = frags[1].parts /\ \A j \in DOMAIN frags : frags[j].part = j
       /\ Cardinality({frags[j].by : j \in DOMAIN frags}) = 1 =>
            Cardinality({frags[j].ship : j \in DOMAIN frags}) = 1

(* The gateway sends its own RMC only when no valid RMC of another device  *)
(* was seen for rmcCheckTime, whether its values were taken or not         *)
(* (convertRMC line 374, loop of the other converter).                     *)
OwnRmcWaits ==
  \A k \in DOMAIN out : out[k].what = "RMC" => now - seenRmc >= config.rmcCheckTime

(* What the gateway encodes as an AIS message its own decoder reads back   *)
(* field by field, also where the message is cut in two (336 and 88 bits)  *)
(* and where part B takes its header from part A.  What fits into a field  *)
(* comes back up to the resolution of the field; what does not is replaced *)
(* as the field's limits say.  The two sides do not agree on these:        *)
(*  - a rate of turn is encoded linearly and decoded as a square           *)
(*    (SameTurn), and none comes back as a number;                         *)
(*  - of the types of the position fix only Chayka, integrated, surveyed   *)
(*    and Galileo come back, and GPS as GLONASS (SameVoyage);              *)
(*  - a position, a speed and a time that are not available come back as   *)
(*    181 and 91 degrees, 102.3 knots, 24:60 (SameMotion, SameVoyage);     *)
(*  - a year comes back as 1970, of a vendor three characters.             *)
(* An N2K field that is not encoded (of 129039 the state, of 129810 the    *)
(* mothership, of 129794 the version) has no value to compare.             *)
Near(a, b, d) == a - b \in -d .. d
Capped(v, max) == Least(Greatest(v, 0), max)

SameShip(s, d) == d.id = InRange(s.id, 0 .. 999999999, 0) /\ d.repeat = s.repeat
SameMotion(s, d) ==
  /\ d.accuracy = s.accuracy /\ d.seconds = s.seconds /\ d.raim = s.raim
  /\ IF s.lon # NoValue THEN Near(d.lon, s.lon, 17) ELSE d.lon = 1810000000
  /\ IF s.lat # NoValue THEN Near(d.lat, s.lat, 17) ELSE d.lat = 910000000
  /\ IF s.sog \in 0 .. 10220 THEN Near(d.sog, s.sog, 5) ELSE d.sog = 10230
  /\ IF s.cog \in 0 .. 35994 THEN Near(d.cog, s.cog, 5) ELSE d.cog = NoValue
  /\ IF s.heading \in 0 .. 35900 THEN Near(d.heading, s.heading, 50) ELSE d.heading = NoValue
SameTurn(s, d) ==
  IF s.rot \in -12749 .. 12749
  THEN \E r \in -127 .. 127 :
         /\ Near(s.rot, 100 * r, 50)
         /\ r # 0 => (d.rot < 0 <=> r < 0)
         /\ IF Magnitude(r) = 127 THEN Magnitude(d.rot) = 1000 ELSE Near(224 * Magnitude(d.rot), 1000 * r * r, 224)
  ELSE d.rot = NoNumber

(* A text ends before its first character that is not in the table. *)
SameText(s, d) ==
  LET Readable(t) == \A k \in DOMAIN t : t[k] > 0 /\ (k = Len(t) => t[k] # Space)
      readable == {t \in Prefixes(s) : Readable(t)}
  IN d \in readable /\ \A t \in readable : Len(t) <= Len(d)
SameSize(s, d) ==
  /\ d.vesselType = InRange(s.vesselType, 0 .. 99, 0) /\ SameText(s.callsign, d.callsign)
  /\ Near(d.bow, Capped(s.bow, 5110), 5) /\ Near(d.stbd, Capped(s.stbd, 630), 5)
  /\ Near(d.length - d.bow, Capped(s.length - Greatest(s.bow, 0), 5110), 5)
  /\ Near(d.beam - d.stbd, Capped(s.beam - Greatest(s.stbd, 0), 630), 5)
SameVoyage(s, d) ==
  /\ d.imo = InRange(s.imo, 999999 .. 1073741823, 0) /\ d.dte = s.dte
  /\ SameText(s.name, d.name) /\ SameText(s.destination, d.destination)
  /\ d.gnss = s.gnss <=> s.gnss \in 5 .. 8
  /\ s.gnss = 0 => d.gnss = 1
  /\ d.draught - Capped(s.draught, 2550) \in 0 .. 9
  /\ d.etaYear = 1970 /\ d.etaMonth = s.etaMonth /\ d.etaDay = s.etaDay
  /\ IF s.etaTime # NoValue THEN Near(d.etaTime, s.etaTime, 59) ELSE d.etaTime = 24 * 3600 + 60 * 60

ReadBack(m, sent) ==
  LET Decoded(j, k) == decode([n \in 1 .. (k - j + 1) |-> sent[j + n - 1].more.line])
      d == Decoded(1, IF m.key = "129794" THEN 2 ELSE 1)
      partB == Decoded(2, 2)
  IN /\ SameShip(m, d)
     /\ m.key \in {"129038", "129039"} => SameMotion(m, d)
     /\ m.key = "129038" => SameTurn(m, d) /\ d.navStatus = m.navStatus
     /\ m.key = "129039" => \A b \in {"unit", "display", "dsc", "band", "msg22", "mode"} : d[b] = m[b]
     /\ m.key = "129794" => SameSize(m, d) /\ SameVoyage(m, d)
     /\ m.key = "129810" =>
          /\ d.part = 0 /\ partB.part = 1 /\ SameShip(m, partB) /\ SameSize(m, partB)
          /\ SameText(SubSeq(m.vendor, 1, Least(Len(m.vendor), 3)), partB.vendor)

aisKeys == {"129038", "129039", "129794", "129810"}
-----------------------------------------------------------------------------
(* What the code's comments say, and it does not do.                       *)

(* The name in a static data report is that of the ship, as its part A     *)
(* told ("store in vector to call on Part B arrivals"), or none.           *)
ShipNames ==
  \A k \in {k \in DOMAIN out : out[k].what = "VDM24A"} :
    LET d == decode(<<out[k].more.line>>)
    IN d.name \in {<<>>} \cup {m.name : m \in {m \in family : m.key = "129809" /\ m.id = d.id}}
=============================================================================

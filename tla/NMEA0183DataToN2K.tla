------------------------- MODULE NMEA0183DataToN2K -------------------------
(***************************************************************************)
(* The conversion of NMEA0183 lines to N2K messages                        *)
(* (lib/nmea0183ton2k/NMEA0183DataToN2K.cpp), one operator per handler.  A *)
(* message m has key, the code of the line, and of the fields that are not *)
(* numbers those a handler looks at; its layout and its units are right.   *)
(***************************************************************************)
EXTENDS GwConverter, AisDecoder

CONSTANT MAXWAYPOINTS   (* names of waypoints that are kept, 100 (and one) *)

ASSUME N183ConverterAssumption == MAXWAYPOINTS \in 1 .. 253     (* ids are bytes *)
-----------------------------------------------------------------------------
(* Faulty variants: the throttle forgets what was sent; the oldest name is *)
(* the one used last.                                                      *)
sendAlways(c, m, what, key, reads, more) == Emit(c, what, m.src, reads, With(more, "key", key))

oldestIsNewest(waypoints) ==
  CHOOSE n \in DOMAIN waypoints : \A o \in DOMAIN waypoints : waypoints[o].lastUsed <= waypoints[n].lastUsed
-----------------------------------------------------------------------------
(* The throttle: one message of each kind every min2KInterval. *)
maySend(c, key) ==
  \/ key \notin DOMAIN c.n2k.lastSends
  \/ Plus(c.n2k.lastSends[key], config.min2KInterval) <= c.now

send(c, m, what, key, reads, more) ==
  IF ~maySend(c, key) THEN c
  ELSE Emit([c EXCEPT !.n2k.lastSends = With(@, key, c.now)], what, m.src, reads, With(more, "key", key))

Send(c, m, pgn, reads) == send(c, m, pgn, pgn, reads, NoMore)
SendAs(c, m, pgn, key, reads) == send(c, m, pgn, key, reads, NoMore)

Used2k(c, items) == {i \in items : Valid(c, i)}
-----------------------------------------------------------------------------
(* getWaypointId: the id of a name, a new one or the one of the name that  *)
(* was not used for the longest time, the first of them by name.           *)
oldest(waypoints) ==
  LET old == {n \in DOMAIN waypoints :
                \A o \in DOMAIN waypoints : waypoints[n].lastUsed <= waypoints[o].lastUsed}
  IN CHOOSE n \in old : \A o \in old : waypoints[n].rank <= waypoints[o].rank

Forget(waypoints, name) == [n \in DOMAIN waypoints \ {name} |-> waypoints[n]]

getWaypointId(c, name) ==
  LET known == c.n2k.waypointMap
      full == Cardinality(DOMAIN known) > MAXWAYPOINTS
      Known(waypoints, id) == With(waypoints, name.text, [id |-> id, lastUsed |-> c.now, rank |-> name.rank])
  IN CASE name.text \in DOMAIN known ->
            [c EXCEPT !.n2k.waypointMap[name.text].lastUsed = c.now]
       [] name.text \notin DOMAIN known /\ full ->
            [c EXCEPT !.n2k.waypointMap = Known(Forget(known, oldest(known)), known[oldest(known)].id)]
       [] name.text \notin DOMAIN known /\ ~full ->
            [c EXCEPT !.n2k.waypointId = (@ + 1) % 256,
                      !.n2k.waypointMap = Known(known, (c.n2k.waypointId + 1) % 256)]
-----------------------------------------------------------------------------
(* XDR.  Each transducer of a line is stored, by its mapping or, if the    *)
(* settings want it, under its own name; for those with a mapping a message*)
(* is built that takes all its fields from the store, its own one, too.    *)
xdrFound(x) == getMapping183(x.name, x.type, x.inst)

xdrItem(x) ==
  LET found == xdrFound(x)
      own == IF x.inst < 0 THEN x.name ELSE Name(x.name, x.inst)
  IN getBoatItemName(IF found = Nothing THEN own ELSE getTransducerName(found, found.instance))

xdrTakes(c, m, x) == (xdrFound(x) # Nothing \/ config.unmappedXdr) /\ Accepts(c, m, xdrItem(x), x.value)

storeXdr(c, m, x) == IF xdrTakes(c, m, x) THEN Update(c, m, xdrItem(x), x.value) ELSE c

OtherItem(found, field) ==
  LET other == getMapping(found.cat, found.sel, field, found.instance)
  IN IF other = Nothing THEN {} ELSE Item \cap {getBoatItemName(getTransducerName(other, other.instance))}

(* The message for a reading, and the fields it has: see convertXDR. *)
Fields(from, to) == [k \in 1 .. (to - from + 1) |-> from + k - 1]
xdrMessage(found) ==
  CASE found.cat = "fluid" -> [pgn |-> "127505", fields |-> Fields(0, 1)]
    [] found.cat = "bat" -> [pgn |-> "127508", fields |-> Fields(0, 2)]
    [] found.cat = "temp" -> [pgn |-> "130312", fields |-> Fields(0, 1)]
    [] found.cat = "humidity" -> [pgn |-> "130313", fields |-> Fields(0, 1)]
    [] found.cat = "pressure" -> [pgn |-> "130314", fields |-> Fields(0, 0)]
    [] found.cat = "engine" /\ found.field <= 9 -> [pgn |-> "127489", fields |-> Fields(0, 9)]
    [] found.cat = "engine" /\ found.field > 9 -> [pgn |-> "127488", fields |-> Fields(10, 12)]
    [] found.cat = "attitude" -> [pgn |-> "127257", fields |-> Fields(0, 2)]
    [] OTHER -> [pgn |-> "none", fields |-> <<>>]

(* A field of the message that no mapping takes is noted. *)
noteField(unknown, found, field) ==
  IF getMapping(found.cat, found.sel, field, found.instance) = Nothing
  THEN addUnknown(unknown, found.cat, found.sel, field, found.instance) ELSE unknown

sendXdr(c, m, x) ==
  LET found == xdrFound(x)
      msg == xdrMessage(found)
      reads == Used2k(c, UNION {OtherItem(found, f) : f \in ToSet(msg.fields)})
      noted == [c EXCEPT !.unknown = FoldLeft(LAMBDA u, f : noteField(u, found, f), @, msg.fields)]
  IN IF reads = {} THEN noted
     ELSE send(noted, m, msg.pgn, msg.pgn \o "." \o ToString(found.sel) \o "." \o ToString(found.instance),
               reads, [inst |-> found.instance, sel |-> found.sel])

takeXdr(a, m, x) ==
  [c |-> storeXdr(a.c, m, x),
   found |-> IF xdrFound(x) # Nothing /\ xdrTakes(a.c, m, x) THEN Append(a.found, x) ELSE a.found]

convertXDR(c, m) ==
  LET stored == FoldLeft(LAMBDA a, x : takeXdr(a, m, x), [c |-> c, found |-> <<>>], m.transducers)
  IN FoldLeft(LAMBDA d, x : sendXdr(d, m, x), stored.c, stored.found)
-----------------------------------------------------------------------------
(* Navigation.  XTE is sent on its own; the names of both waypoints get    *)
(* their ids, whatever becomes of the rest.                                *)
idOf(c, name) == c.n2k.waypointMap[name.text].id

convertRMB(c, m) ==
  LET c1 == IF Takes(c, m, "XTE") THEN Send(UpdateEach(c, m, {"XTE"}), m, "129283", {}) ELSE c
      c2 == getWaypointId(c1, m.dest)
      c3 == getWaypointId(c2, m.orig)
      ids == [dest |-> idOf(c2, m.dest), orig |-> idOf(c3, m.orig), names |-> <<m.dest.text, m.orig.text>>]
      items == <<"DTW", "BTW", "WPLat", "WPLon">>
      c4 == UpdateWhile(c3, m, items)
  IN IF ~TakesAll(c3, m, items) THEN c4
     ELSE send(send(c4, m, "129284", "129284", {}, ids), m, "129285", "129285", {}, ids)

(* Groups of fields: a group is stored in turn until one is refused, and   *)
(* sent if none was.                                                       *)
SendGroup(c, m, items, pgn, reads) ==
  LET c1 == UpdateWhile(c, m, items)
  IN IF TakesAll(c, m, items) THEN Send(c1, m, pgn, Used2k(c1, reads)) ELSE c1

(* Faulty variant: an RMC counts only if its position is stored. *)
convertTakenRMC(c, m) ==
  LET c1 == SendGroup(c, m, <<"LAT", "LON">>, "129025", {})
  IN IF TakesAll(c, m, <<"LAT", "LON">>) THEN [c1 EXCEPT !.n2k.lastRmc = c.now] ELSE c1

convertRMC(c, m) ==
  LET c1 == SendGroup([c EXCEPT !.n2k.lastRmc = c.now], m, <<"GPST", "GPSD">>, "126992", {})
      c2 == SendGroup(c1, m, <<"LAT", "LON">>, "129025", {})
      c3 == SendGroup(c2, m, <<"COG", "SOG">>, "129026", {})
  IN IF m.status = "A" THEN SendGroup(c3, m, <<"VAR">>, "127258", {"GPSD"}) ELSE c

convertVTG(c, m) == SendGroup(c, m, <<"COG", "SOG">>, "129026", {})
convertGLL(c, m) == IF m.status = "A" THEN SendGroup(c, m, <<"LAT", "LON", "GPST">>, "129025", {}) ELSE c
convertROT(c, m) == SendGroup(c, m, <<"ROT">>, "127251", {})
convertXTE(c, m) == IF m.status = "A" THEN SendGroup(c, m, <<"XTE">>, "129283", {}) ELSE c
convertHDT(c, m) == SendGroup(c, m, <<"HDT">>, "127250", {})

(* What was stored is not looked at here. *)
convertMTW(c, m) == IF V(m, "WTemp") = NA THEN c ELSE Send(UpdateEach(c, m, {"WTemp"}), m, "130310", {})
-----------------------------------------------------------------------------
(* Wind.  The maximum is raised even when the values were refused. *)
storeWind(c, m, angle, speed, max) ==
  LET c1 == UpdateWhile(c, m, <<angle, speed>>)
  IN IF V(m, speed) = NA THEN c1
     ELSE [c1 EXCEPT !.bd = updateMax(@, max, V(m, speed), m.src, c.now)]

sendWind(c, m, type, reads) ==
  LET ref == windReferenceOf(type)
  IN IF ref = "none" THEN c ELSE SendAs(c, m, "130306", "130306" \o ref, reads)

convertVWR(c, m) ==
  LET c1 == storeWind(c, m, "AWA", "AWS", "MaxAws")
  IN IF V(m, "AWS") = NA THEN c
     ELSE IF TakesAll(c, m, <<"AWA", "AWS">>) THEN sendWind(c1, m, "awa_aws", {}) ELSE c1

convertMWV(c, m) ==
  LET Wind(angle, speed, max, type) ==
        LET c1 == storeWind(c, m, angle, speed, max)
        IN IF TakesAll(c, m, <<angle, speed>>) THEN sendWind(c1, m, type, {}) ELSE c1
  IN CASE m.ref = "apparent" -> Wind("AWA", "AWS", "MaxAws", "awa_aws")
       [] m.ref = "true" -> Wind("TWA", "TWS", "MaxTws", "twa_tws")
       [] OTHER -> c

(* The true angle from the heading is sent, whoever else gives one. *)
convertMWD(c, m) ==
  LET c1 == storeWind(c, m, "TWD", "TWS", "MaxTws")
      twa == V(m, "TWD")
      c2 == sendWind(Update(c1, m, "TWA", twa), m, "twa_tws", {"HDT"})
  IN IF NA \in {V(m, "TWD"), V(m, "TWS")} THEN c
     ELSE IF TakesAll(c, m, <<"TWD", "TWS">>) /\ Valid(c1, "HDT")
          THEN sendWind(c2, m, "twd_tws", {}) ELSE c1
-----------------------------------------------------------------------------
(* Heading, rudder, speed.  HDG is sent with the deviation and variation   *)
(* of the line, whether they were stored or not.                           *)
convertHDM(c, m) ==
  LET c1 == UpdateEach(c, m, {"HDM"})
  IN IF Takes(c, m, "HDM") THEN SendAs(c1, m, "127250", "127250M", Used2k(c1, {"VAR", "DEV"})) ELSE c

convertHDG(c, m) ==
  IF Takes(c, m, "HDM") THEN SendAs(UpdateEach(c, m, {"HDM", "VAR", "DEV"}), m, "127250", "127250M", {}) ELSE c

convertVHW(c, m) == SendGroup(convertHDM(SendGroup(c, m, <<"HDT">>, "127250", {}), m), m, <<"STW">>, "128259", {})

(* The fields of RSA count with status A only, which m leaves out else. *)
convertRSA(c, m) ==
  LET Rudder(d, item, instance, key) ==
        LET d1 == UpdateEach(d, m, {item})
        IN IF Takes(d, m, item) /\ instance \in 0 .. 253 THEN SendAs(d1, m, "127245", key, {}) ELSE d1
  IN Rudder(Rudder(c, "RPOS", config.starboardRudderInstance, "127245S"),
            "PRPOS", config.portRudderInstance, "127245P")
-----------------------------------------------------------------------------
(* Depth, in metres.  An offset that is not negative is the distance to    *)
(* the surface, the depth with it must be taken before the other is.       *)
convertDPT(c, m) ==
  LET depth == V(m, "DBT")
      surface == IF V(m, "Offset") >= 0 THEN Update(c, m, "DBS", depth + V(m, "Offset")) ELSE c
      key == IF V(m, "Offset") # NA THEN "1282671" ELSE "1282670"
  IN IF depth = NA \/ (V(m, "Offset") >= 0 /\ ~accepts(c.bd, "DBS", m.src, c.now)) THEN c
     ELSE IF ~Takes(c, m, "DBT") THEN surface
     ELSE SendAs(UpdateEach(surface, m, {"DBT"}), m, "128267", key, {})

(* DBK, DBS and DBT tell one depth in up to three units.  The loop over    *)
(* them takes the number of the first every time, in the unit u at hand if *)
(* it knows it, and for DBK and DBS does not end with the first it can use.*)
isKnownUnit(u) == u \in {"f", "M", "F"}
toMetres(v, u) == CASE u = "f" -> v \div 3 [] u = "F" -> 2 * v [] OTHER -> v

convertDBT(c, m) ==
  LET known == {k \in DOMAIN m.units : isKnownUnit(m.units[k])}
      depth == toMetres(m.depth, m.units[CHOOSE k \in known : \A j \in known : k <= j])
  IN IF known = {} \/ ~accepts(c.bd, "DBT", m.src, c.now) THEN c
     ELSE SendAs(Update(c, m, "DBT", depth), m, "128267", "1282670", {})

useUnit(a, m, dt, u) ==
  LET depth == toMetres(m.depth, u)
      offset == depth - a.c.bd["DBT"].data
      key == IF offset >= 0 THEN "1282671" ELSE "1282670"
      stored == IF dt = "DBS" THEN Update(a.c, m, "DBS", depth) ELSE a.c
      stop == \/ a.stop \/ ~Valid(a.c, "DBT")
              \/ IF dt = "DBK" THEN offset >= 0
                 ELSE offset < 0 \/ ~accepts(a.c.bd, "DBS", m.src, a.c.now)
  IN IF ~isKnownUnit(u) THEN a
     ELSE IF stop THEN [a EXCEPT !.stop = TRUE]
     ELSE [a EXCEPT !.c = SendAs(stored, m, "128267", key, {"DBT"})]

DBKx(c, m, dt) == FoldLeft(LAMBDA a, u : useUnit(a, m, dt, u), [c |-> c, stop |-> FALSE], m.units).c

convertDBK(c, m) == DBKx(c, m, "DBK")
convertDBS(c, m) == DBKx(c, m, "DBS")
-----------------------------------------------------------------------------
(* Time, position, satellites. *)
convertZDA(c, m) ==
  LET items == IF V(m, "TZ") = NA THEN <<"GPSD", "GPST">> ELSE <<"GPSD", "GPST", "TZ">>
      c1 == UpdateWhile(c, m, items)
      c2 == IF V(m, "TZ") = NA THEN c1 ELSE Send(c1, m, "129033", {})
  IN IF TakesAll(c, m, items) THEN Send(c2, m, "126992", {}) ELSE c1

convertGGA(c, m) ==
  LET items == <<"GPST", "LAT", "LON", "ALT", "HDOP">>
      c1 == UpdateWhile(c, m, items)
  IN IF ~m.fix THEN c
     ELSE IF TakesAll(c, m, items) /\ Valid(c1, "GPSD")
          THEN Send(c1, m, "129029", {"GPSD"} \cup Used2k(c1, {"PDOP"})) ELSE c1

convertGSA(c, m) ==
  LET items == SelectSeq(<<"PDOP", "HDOP", "VDOP">>, LAMBDA i : V(m, i) # NA)
  IN IF m.fix THEN SendGroup(c, m, items, "129539", {}) ELSE c

(* The satellites of one line of several; with the last one all that are   *)
(* known are sent.                                                         *)
convertGSV(c, m) ==
  LET refused == m.sats # <<>> /\ ~satAccepts(c.bd, m.src, c.now)
      c1 == [c EXCEPT !.bd = satUpdates(@, m.sats, m.src, c.now)]
  IN IF m.total \notin 1 .. 9 \/ m.current \notin 1 .. m.total \/ refused THEN c
     ELSE IF m.current = m.total /\ getNumSats(c1.bd, c.now) > 0
          THEN Send(c1, m, "129540", {"SatInfo"}) ELSE c1

(* AIS: what is decoded is sent at once, without throttle. *)
convertAIVDX(c, m) ==
  LET frags == decoded(c.n2k.slots, m.line)
      c1 == [c EXCEPT !.n2k.slots = slotsAfter(@, m.line)]
  IN IF frags = <<>> \/ decodeMobileAisMsg(frags) = <<>> THEN c1
     ELSE Emit(c1, decodeMobileAisMsg(frags)[1], m.src, {}, [frags |-> frags])
-----------------------------------------------------------------------------
(* registerConverters and parseAndSend. *)
n183Keys ==
  {"RMB", "RMC", "MWV", "MWD", "VWR", "HDM", "HDT", "HDG", "DPT", "DBK", "DBS", "DBT", "RSA", "VHW", "VTG",
   "ZDA", "GGA", "GSA", "GSV", "GLL", "ROT", "XTE", "MTW", "XDR", "AIVDM", "AIVDO"}

n183Converter(c, m) ==
  CASE m.key = "RMB" -> convertRMB(c, m) [] m.key = "RMC" -> convertRMC(c, m)
    [] m.key = "MWV" -> convertMWV(c, m) [] m.key = "MWD" -> convertMWD(c, m)
    [] m.key = "VWR" -> convertVWR(c, m) [] m.key = "HDM" -> convertHDM(c, m)
    [] m.key = "HDT" -> convertHDT(c, m) [] m.key = "HDG" -> convertHDG(c, m)
    [] m.key = "DPT" -> convertDPT(c, m) [] m.key = "DBK" -> convertDBK(c, m)
    [] m.key = "DBS" -> convertDBS(c, m) [] m.key = "DBT" -> convertDBT(c, m)
    [] m.key = "RSA" -> convertRSA(c, m) [] m.key = "VHW" -> convertVHW(c, m)
    [] m.key = "VTG" -> convertVTG(c, m) [] m.key = "ZDA" -> convertZDA(c, m)
    [] m.key = "GGA" -> convertGGA(c, m) [] m.key = "GSA" -> convertGSA(c, m)
    [] m.key = "GSV" -> convertGSV(c, m) [] m.key = "GLL" -> convertGLL(c, m)
    [] m.key = "ROT" -> convertROT(c, m) [] m.key = "XTE" -> convertXTE(c, m)
    [] m.key = "MTW" -> convertMTW(c, m) [] m.key = "XDR" -> convertXDR(c, m)
    [] m.key \in {"AIVDM", "AIVDO"} -> convertAIVDX(c, m)

ConvertLine(c, m) == handleMessage(c, m, n183Keys, n183Converter(c, m))

initN2k(now) ==
  [lastSends |-> NoMore, waypointMap |-> NoMore, waypointId |-> 1, lastRmc |-> now, slots |-> NoMultiSentences]
=============================================================================

------------------------- MODULE N2kDataToNMEA0183 -------------------------
(***************************************************************************)
(* The conversion of N2K messages to NMEA0183 lines                        *)
(* (lib/nmea2kto0183/N2kDataToNMEA0183.cpp), one operator per handler.  A  *)
(* message m has key, its PGN, and of the fields that are not numbers (the *)
(* reference, the instance ...) those a handler looks at.  The parse       *)
(* functions of the NMEA2000 library fail only for another PGN, which the  *)
(* dispatch excludes.                                                      *)
(***************************************************************************)
EXTENDS GwConverter, AisCodec

CONSTANTS
  XdrRoom,    (* number of transducers that fit into one XDR line          *)
  MaxShips,   (* number of ship names that are kept, 200                   *)
  LastIndex   (* the largest value of the index into their table, 255      *)

ASSUME N2kConverterAssumption ==
  XdrRoom \in Nat \ {0} /\ MaxShips \in Nat \ {0} /\ LastIndex \in Nat

SendMessage(c, what, reads) == Emit(c, what, c.n183.sourceId, reads, NoMore)

Used(c, items) == {i \in items : Valid(c, i)}
Has(m, f) == f \in DOMAIN m.f
SendXdr(c) ==
  Emit(c, "XDR", c.n183.sourceId, {}, [transducers |-> c.n183.xdrMessage])
-----------------------------------------------------------------------------
(* Faulty variant: a reading that finds the line full is lost. *)
startXdr(c, transducer) == [SendXdr(c) EXCEPT !.n183.xdrMessage = <<>>]
-----------------------------------------------------------------------------
(* XDR: the transducers of one N2K message go into one line (more if it is *)
(* full), each not more often than every minXdrInterval.                   *)
nextXdr(c, transducer) == [SendXdr(c) EXCEPT !.n183.xdrMessage = <<transducer>>]

addToXdr(c, transducer) ==
  LET last == c.n183.lastSendTransducers
      noted == [c EXCEPT !.n183.lastSendTransducers = With(@, transducer, c.now),
                         !.n183.xdrOpened = TRUE,
                         !.n183.xdrMessage = IF c.n183.xdrOpened THEN @ ELSE <<>>]
  IN IF transducer \in DOMAIN last /\ Plus(last[transducer], config.minXdrInterval) > c.now THEN c
     ELSE IF Len(noted.n183.xdrMessage) < XdrRoom
          THEN [noted EXCEPT !.n183.xdrMessage = Append(@, transducer)]
          ELSE nextXdr(noted, transducer)

finalizeXdr(c) ==
  IF ~c.n183.xdrOpened THEN c
  ELSE [(IF c.n183.xdrMessage = <<>> THEN c ELSE SendXdr(c)) EXCEPT !.n183.xdrOpened = FALSE]

(* One reading r = <<category, selector, field, instance, value>>: stored  *)
(* under the name of its transducer if a mapping takes it, and sent if the *)
(* store takes it.                                                         *)
xdrReading(c, m, r) ==
  LET mapping == getMapping(r[1], r[2], r[3], r[4])
      transducer == getTransducerName(mapping, mapping.instance)
      item == getBoatItemName(transducer)
  IN IF mapping = Nothing THEN [c EXCEPT !.unknown = addUnknown(@, r[1], r[2], r[3], r[4])]
     ELSE IF ~Accepts(c, m, item, r[5]) THEN c
     ELSE addToXdr(Update(c, m, item, r[5]), transducer)

toXdr(c, m, readings) == finalizeXdr(FoldLeft(LAMBDA d, r : xdrReading(d, m, r), c, readings))

setMax(c, m, maxItem, item) ==
  IF Valid(c, item) THEN [c EXCEPT !.bd = updateMax(@, maxItem, c.bd[item].data, m.src, c.now)] ELSE c
-----------------------------------------------------------------------------
HandleHeading(c, m) ==
  LET heading == V(m, "Heading")
      c1 == UpdateEach(c, m, {"VAR", "DEV"})
      variation == IF Has(m, "VAR") THEN V(m, "VAR") ELSE Stored(c1, "VAR")
      used == IF Has(m, "VAR") THEN {} ELSE {"VAR"}
      magnetic == CASE m.ref = "magnetic" -> heading
                    [] m.ref = "true" -> Computed(heading, variation)
                    [] OTHER -> NA
      true == IF m.ref = "magnetic" THEN Computed(heading, variation) ELSE heading
      both == Update(Update(c1, m, "HDM", magnetic), m, "HDT", true)
      hdg == IF magnetic = NA THEN both ELSE SendMessage(both, "HDG", used)
  IN IF variation # NA THEN IF true = NA THEN hdg ELSE SendMessage(hdg, "HDT", used)
     ELSE CASE m.ref = "magnetic" -> SendMessage(Update(c1, m, "HDM", heading), "HDM", {})
            [] m.ref = "true" -> SendMessage(Update(c1, m, "HDT", heading), "HDT", {})
            [] OTHER -> c1

HandleVariation(c, m) == UpdateEach(c, m, {"VAR", "GPSD"})

HandleBoatSpeed(c, m) ==
  LET c1 == UpdateEach(c, m, {"STW"})
  IN SendMessage(c1, "VHW", Used(c1, {"HDT"}) \cup
                            (IF Used(c1, {"HDT", "VAR"}) = {"HDT", "VAR"} THEN {"VAR"} ELSE {}))

HandleDepth(c, m) ==
  LET c1 == SendMessage(UpdateEach(c, m, {"DBT"}), "DPT", {})
      c2 == IF Has(m, "Offset") THEN Update(c1, m, "DBS", V(m, "DBT") + V(m, "Offset")) ELSE c1
  IN IF Takes(c, m, "DBT") THEN SendMessage(c2, "DBx", {}) ELSE c

HandlePosition(c, m) == UpdateEach(c, m, {"LAT", "LON"})

HandleCOGSOG(c, m) ==
  LET c1 == UpdateEach(c, m, {"COG", "SOG"})
      turned == m.ref = "magnetic" /\ Valid(c1, "VAR")
      c2 == IF turned THEN Update(c1, m, "COG", Computed(V(m, "COG"), Stored(c1, "VAR"))) ELSE c1
      used == IF turned \/ (Has(m, "COG") /\ m.ref # "magnetic") THEN Used(c1, {"VAR"}) ELSE {}
  IN SendMessage(c2, "VTG", used)

sendGSA(c) ==
  IF Valid(c, "SatInfo")
  THEN SendMessage(c, "GSA", {"SatInfo"} \cup Used(c, {"PDOP", "HDOP", "VDOP"})) ELSE c

HandleGNSS(c, m) ==
  SendMessage(UpdateEach(c, m, {"LAT", "LON", "ALT", "GPST", "HDOP", "PDOP", "GPSD"}), "GGA", {})

HandleDop(c, m) == sendGSA(UpdateEach(c, m, {"HDOP", "VDOP"}))

(* Without any satellite in the message the list is sent as it is. *)
HandleSats(c, m) ==
  LET c1 == [c EXCEPT !.bd = satUpdates(@, m.sats, m.src, c.now)]
      lines == (getNumSats(c1.bd, c.now) + 3) \div 4
      GSV(d, k) == SendMessage(d, "GSV", {"SatInfo"})
  IN IF m.sats # <<>> /\ ~satAccepts(c.bd, m.src, c.now) THEN c
     ELSE FoldLeft(GSV, c1, [k \in 1 .. (IF lines > 9 THEN 9 ELSE lines) |-> k])
-----------------------------------------------------------------------------
HandleWind(c, m) ==
  LET type == windTypeOf(m.ref)
      Wind(angle, speed, max) ==
        setMax(Update(Update(c, m, angle, V(m, "WindAngle")), m, speed, V(m, "WindSpeed")), m, max, speed)
      awa == Wind("AWA", "AWS", "MaxAws")
      twa == Wind("TWA", "TWS", "MaxTws")
      twd == Wind("TWD", "TWS", "MaxTws")
      other == Computed(V(m, "WindAngle"), Stored(c, "HDT"))
  IN CASE type = "awa_aws" -> SendMessage(SendMessage(awa, "MWV", {}), "VWR", {})
       [] type = "twa_tws" ->
            SendMessage(IF Valid(twa, "HDT") THEN Update(twa, m, "TWD", other) ELSE twa, "MWV", {})
       [] type = "twd_tws" ->
            IF Valid(twd, "HDT") THEN SendMessage(Update(twd, m, "TWA", other), "MWV", {"HDT"}) ELSE twd
       [] OTHER -> c

(* The gateway's own RMC, from what is in the store. *)
SendRMC(c) ==
  IF Valid(c, "LAT") /\ Valid(c, "LON")
  THEN SendMessage([c EXCEPT !.n183.lastRmcSent = c.now], "RMC",
                   {"LAT", "LON"} \cup Used(c, {"GPST", "COG", "SOG", "GPSD", "VAR"}))
  ELSE c

HandleLog(c, m) == SendMessage(UpdateEach(c, m, {"Log", "TripLog", "GPSD"}), "VLW", {})

HandleRudder(c, m) ==
  LET Rudder(item) ==
        LET c1 == Update(c, m, item, V(m, "RudderPosition"))
        IN SendMessage(c1, "RSA", Used(c1, {"RPOS", "PRPOS"}))
  IN CASE m.inst = config.starboardRudderInstance -> Rudder("RPOS")
       [] m.inst # config.starboardRudderInstance /\ m.inst = config.portRudderInstance -> Rudder("PRPOS")
       [] OTHER -> c

HandleSystemTime(c, m) ==
  LET c1 == UpdateEach(c, m, {"GPST", "GPSD"})
  IN IF Valid(c1, "GPSD") /\ Valid(c1, "GPST")
     THEN SendMessage(c1, "ZDA", {"GPST", "GPSD"} \cup Used(c1, {"TZ"})) ELSE c1

HandleTimeOffset(c, m) == UpdateEach(c, m, {"GPST", "GPSD", "TZ"})

HandleROT(c, m) ==
  IF Takes(c, m, "ROT") THEN SendMessage(UpdateEach(c, m, {"ROT"}), "ROT", {}) ELSE c

HandleXTE(c, m) ==
  IF m.terminated \/ ~Takes(c, m, "XTE") THEN c ELSE SendMessage(UpdateEach(c, m, {"XTE"}), "XTE", {})

(* A magnetic bearing needs the variation; the fields are stored in turn.  *)
HandleNavigation(c, m) ==
  LET turned == m.ref = "magnetic"
      m1 == IF turned THEN [m EXCEPT !.f = With(@, "BTW", Computed(V(m, "BTW"), Stored(c, "VAR")))] ELSE m
      items == <<"DTW", "BTW", "WPLat", "WPLon">>
      c1 == UpdateWhile(c, m1, items)
  IN IF \/ ~m.greatCircle \/ m.ref \notin {"true", "magnetic"}
        \/ turned /\ ~Valid(c, "VAR")
     THEN c
     ELSE IF TakesAll(c, m1, items)
          THEN SendMessage(c1, "RMB", Used(c1, {"XTE"}) \cup (IF turned THEN {"VAR"} ELSE {}))
          ELSE c1
-----------------------------------------------------------------------------
HandleFluidLevel(c, m) ==
  toXdr(c, m, <<<<"fluid", m.sel, 0, m.inst, V(m, "Level")>>, <<"fluid", m.sel, 1, m.inst, V(m, "Capacity")>>>>)

HandleBatteryStatus(c, m) ==
  toXdr(c, m, <<<<"bat", 0, 0, m.inst, V(m, "Voltage")>>, <<"bat", 0, 1, m.inst, V(m, "Current")>>,
                <<"bat", 0, 2, m.inst, V(m, "Temperature")>>>>)

OutsideTemperature == 1
SeaTemperature == 0
Atmospheric == 0

MTW(c, m, f) == SendMessage(Update(c, m, "WTemp", V(m, f)), "MTW", {})

Handle130310(c, m) ==
  toXdr(MTW(c, m, "WTemp"), m,
        <<<<"temp", OutsideTemperature, 0, 0, V(m, "Outside")>>, <<"pressure", Atmospheric, 0, 0, V(m, "Pressure")>>>>)

Handle130311(c, m) ==
  toXdr(IF m.sel = SeaTemperature THEN MTW(c, m, "Temperature") ELSE c, m,
        <<<<"temp", m.sel, 0, 0, V(m, "Temperature")>>, <<"humidity", m.sel2, 0, 0, V(m, "Humidity")>>,
          <<"pressure", Atmospheric, 0, 0, V(m, "Pressure")>>>>)

Temperatures(m) ==
  <<<<"temp", m.sel, 0, m.inst, V(m, "Temperature")>>, <<"temp", m.sel, 1, m.inst, V(m, "Set")>>>>

Handle130312(c, m) ==
  toXdr(IF m.sel = SeaTemperature /\ config.winst312 \in {m.inst, 256} THEN MTW(c, m, "Temperature") ELSE c,
        m, Temperatures(m))

Handle130316(c, m) == toXdr(c, m, Temperatures(m))

Handle130313(c, m) ==
  toXdr(c, m, <<<<"humidity", m.sel, 0, m.inst, V(m, "Humidity")>>, <<"humidity", m.sel, 1, m.inst, V(m, "Set")>>>>)

Handle130314(c, m) == toXdr(c, m, <<<<"pressure", m.sel, 0, m.inst, V(m, "Pressure")>>>>)

(* The values of the engine are fields 0 to 9 and 10 to 12, those of the   *)
(* attitude fields 0 to 2; m.values is the sequence of them.               *)
Numbered(m, cat, from) ==
  [k \in DOMAIN m.values |-> <<cat, 0, from + k - 1, m.inst, m.values[k]>>]

Handle127489(c, m) == toXdr(c, m, Numbered(m, "engine", 0))
Handle127257(c, m) == toXdr(c, m, Numbered(m, "attitude", 0))
Handle127488(c, m) ==
  LET c1 == toXdr(c, m, Numbered(m, "engine", 10))
  IN IF m.values[1] = NA THEN c1 ELSE SendMessage(c1, "RPM", {})
-----------------------------------------------------------------------------
(* AIS messages are sent with the data of the message.  Part A of the      *)
(* static data of a class B ship only names it, if it has no name yet.     *)
(* Part B is sent as two lines, the first with the name.  Only then, and   *)
(* after the name was looked up, the oldest name is deleted when there are *)
(* too many; and the search does not end when its index cannot reach the   *)
(* size of the table.                                                      *)
SendVdm(c, what, line) == Emit(c, what, c.n183.sourceId, {}, [line |-> line])

HandleAISClassAPosReport(c, m) == SendVdm(c, "VDM1", VDM(1, 1, SetAISClassABMessage1(m), 0))
HandleAISClassBMessage18(c, m) == SendVdm(c, "VDM18", VDM(1, 1, SetAISClassBMessage18(m), 0))
HandleAISClassAMessage5(c, m) ==
  LET bits == SetAISClassAMessage5(m)
  IN SendVdm(SendVdm(c, "VDM5", BuildMsg5Part1(bits)), "VDM5", BuildMsg5Part2(bits))

Positions(ships, id) == {k \in DOMAIN ships : ships[k].id = id}

SetAISClassBMessage24PartA(ships, m) ==
  IF Positions(ships, m.id) # {} THEN ships ELSE Append(ships, [id |-> m.id, name |-> m.name])
HandleAISClassBMessage24A(c, m) == [c EXCEPT !.n183.vships = SetAISClassBMessage24PartA(@, m)]

tooMany(ships) == Len(ships) > MaxShips
nameOf(ships, id, memory) ==
  LET found == Positions(ships, id)
  IN CASE found = {} -> <<Space>>
       [] found # {} /\ 1 \in found /\ tooMany(ships) -> memory
       [] OTHER -> ships[CHOOSE k \in found : TRUE].name

(* There is room for three of the seven characters of the vendor. *)
parsedPartB(m) == [m EXCEPT !.vendor = SubSeq(@, 1, Least(Len(@), 3))]

HandleAISClassBMessage24B(c, m) ==
  LET ships == c.n183.vships
      name == nameOf(ships, m.id, c.memory)
      bits == SetAISClassBMessage24(parsedPartB(m), name)
      c1 == [c EXCEPT !.n183.vships = IF tooMany(ships) THEN Tail(@) ELSE @]
  IN IF Len(ships) > LastIndex THEN [c EXCEPT !.n183.endless = TRUE]
     ELSE SendVdm(SendVdm(c1, "VDM24A", BuildMsg24PartA(bits)), "VDM24B", BuildMsg24PartB(bits))
-----------------------------------------------------------------------------
(* registerConverters, HandleMsg and the own RMC in loop. *)
n2kKeys ==
  {"127250", "127258", "128259", "128267", "129025", "129026", "129029", "130306", "128275", "127245",
   "126992", "129033", "129539", "129540", "127251", "127505", "127508", "129283", "129284", "130310",
   "130311", "130312", "130313", "130314", "127489", "127488", "130316", "127257", "129038", "129039",
   "129794", "129809", "129810"}

n2kConverter(c, m) ==
  CASE m.key = "127250" -> HandleHeading(c, m) [] m.key = "127258" -> HandleVariation(c, m)
    [] m.key = "128259" -> HandleBoatSpeed(c, m) [] m.key = "128267" -> HandleDepth(c, m)
    [] m.key = "129025" -> HandlePosition(c, m) [] m.key = "129026" -> HandleCOGSOG(c, m)
    [] m.key = "129029" -> HandleGNSS(c, m) [] m.key = "130306" -> HandleWind(c, m)
    [] m.key = "128275" -> HandleLog(c, m) [] m.key = "127245" -> HandleRudder(c, m)
    [] m.key = "126992" -> HandleSystemTime(c, m) [] m.key = "129033" -> HandleTimeOffset(c, m)
    [] m.key = "129539" -> HandleDop(c, m) [] m.key = "129540" -> HandleSats(c, m)
    [] m.key = "127251" -> HandleROT(c, m) [] m.key = "127505" -> HandleFluidLevel(c, m)
    [] m.key = "127508" -> HandleBatteryStatus(c, m) [] m.key = "129283" -> HandleXTE(c, m)
    [] m.key = "129284" -> HandleNavigation(c, m) [] m.key = "130310" -> Handle130310(c, m)
    [] m.key = "130311" -> Handle130311(c, m) [] m.key = "130312" -> Handle130312(c, m)
    [] m.key = "130313" -> Handle130313(c, m) [] m.key = "130314" -> Handle130314(c, m)
    [] m.key = "127489" -> Handle127489(c, m) [] m.key = "127488" -> Handle127488(c, m)
    [] m.key = "130316" -> Handle130316(c, m) [] m.key = "127257" -> Handle127257(c, m)
    [] m.key = "129038" -> HandleAISClassAPosReport(c, m) [] m.key = "129039" -> HandleAISClassBMessage18(c, m)
    [] m.key = "129794" -> HandleAISClassAMessage5(c, m) [] m.key = "129809" -> HandleAISClassBMessage24A(c, m)
    [] m.key = "129810" -> HandleAISClassBMessage24B(c, m)

HandleN2k(c, m) ==
  LET c1 == [c EXCEPT !.n183.sourceId = m.src] IN handleMessage(c1, m, n2kKeys, n2kConverter(c1, m))

ownRmcDue(c, lastExtRmc) ==
  /\ config.rmcInterval > 0
  /\ Plus(lastExtRmc, config.rmcCheckTime) <= c.now
  /\ Plus(c.n183.lastRmcSent, config.rmcInterval) <= c.now

loopRmc(c, lastExtRmc) == IF ownRmcDue(c, lastExtRmc) THEN SendRMC(c) ELSE c

initN183 ==
  [sourceId |-> 0, lastSendTransducers |-> NoMore, xdrOpened |-> FALSE, xdrMessage |-> <<>>,
   lastRmcSent |-> 0, vships |-> <<>>, endless |-> FALSE]
=============================================================================

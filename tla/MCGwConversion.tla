--------------------------- MODULE MCGwConversion ---------------------------
(* The settings and the messages of the runs of GwConversion. *)
EXTENDS GwConversion

MCSettings ==
  [minXdrInterval |-> 100, stbRudderI |-> 0, portRudderI |-> 1, min2KInterval |-> 50, checkRMCt |-> 4000,
   sendRMCi |-> 1000, unknownXdr |-> TRUE, winst312 |-> 256,
   wind |-> [apparent |-> "awa_aws", true_boat |-> "twa_tws", magnetic |-> "off", true_north |-> "twd_tws",
            true_water |-> "twa_tws"]]

Mapping(cat, sel, field, mode, inst, name) ==
  [cat |-> cat, sel |-> sel, field |-> field, mode |-> mode, inst |-> inst, name |-> name, dir |-> "bidir"]
MCXdr ==
  <<Mapping("temp", 1, 0, "auto", 0, "Air"), Mapping("temp", 1, 0, "single", 2, "Cabin"),
    Mapping("bat", 0, 0, "auto", 0, "Batt"), Mapping("bat", 0, 1, "ignore", 0, "Amps"),
    Mapping("pressure", 0, 0, "single", 0, "Baro"), Mapping("humidity", 1, 0, "ignore", 0, "Hum"),
    Mapping("fluid", 1, 0, "auto", 0, "Tank"), Mapping("engine", 0, 1, "auto", 0, "Oil"),
    Mapping("engine", 0, 10, "auto", 0, "Eng"), Mapping("attitude", 0, 1, "ignore", 0, "PTCH")>>
MCXdrItem ==
  {"xdrAir#0", "xdrAir#1", "xdrCabin", "xdrBatt#0", "xdrBatt#1", "xdrAmps", "xdrBaro", "xdrHum",
   "xdrTank#0", "xdrOil#0", "xdrEng#0", "xdrPTCH", "xdrOwn#3"}

N2k(pgn, src, f) == [bus |-> "n2k", key |-> pgn, src |-> src, f |-> f]
Line(key, src, f) == [bus |-> "n183", key |-> key, src |-> src, f |-> f]
Ref(r) == [ref |-> r]
Inst(i) == [inst |-> i]
Sel(s, i) == [sel |-> s, sel2 |-> s, inst |-> i]
Status(s) == [status |-> s]
All(fields, v) == [x \in fields |-> v]

Headings ==
  {N2k("127250", 0, All({"Heading"}, 1)) @@ Ref("magnetic"),
   N2k("127250", 1, All({"Heading", "VAR"}, 2)) @@ Ref("true"),
   Line("HDG", 2, All({"HDM", "VAR", "DEV"}, 3)), Line("HDM", 3, All({"HDM"}, 3))}
Speeds ==
  {N2k("127258", 0, All({"VAR", "GPSD"}, 1)), Line("VHW", 2, All({"HDT", "HDM", "STW"}, 3)),
   N2k("128259", 0, All({"STW"}, 1)), Line("HDT", 1, All({"HDT"}, 2))}
Depths ==
  {N2k("128267", 0, All({"DBT", "Offset"}, 1)), Line("DPT", 2, All({"DBT"}, 2)),
   Line("DPT", 1, All({"DBT", "Offset"}, 3)),
   Line("DBK", 2, NoMore) @@ [depth |-> 3, units |-> <<"f">>]}
DepthLines ==
  {Line("DBT", 1, NoMore) @@ [depth |-> 6, units |-> <<"f", "2", "M">>],
   Line("DBS", 1, NoMore) @@ [depth |-> 30, units |-> <<"f", "1", "M">>]}
Positions2 ==
  {N2k("129025", 1, All({"LAT", "LON"}, 1)), N2k("129026", 0, All({"COG", "SOG"}, 1)) @@ Ref("magnetic"),
   Line("RMC", 2, All({"GPST", "GPSD", "LAT", "LON", "COG", "SOG", "VAR"}, 2)) @@ Status("A"),
   Line("RMC", 3, All({"LAT", "LON"}, 3)) @@ Status("V")}
Times ==
  {N2k("126992", 1, All({"GPST", "GPSD"}, 1)), N2k("129033", 0, All({"GPST", "GPSD", "TZ"}, 1)),
   Line("ZDA", 2, All({"GPST", "GPSD", "TZ"}, 2)),
   Line("GGA", 2, All({"GPST", "LAT", "LON", "ALT", "HDOP"}, 2)) @@ [fix |-> TRUE]}
Fixes ==
  {N2k("129029", 1, All({"LAT", "LON", "ALT", "GPST", "GPSD", "HDOP", "PDOP"}, 1)),
   Line("GLL", 2, All({"LAT", "LON", "GPST"}, 2)) @@ Status("A"), Line("VTG", 2, All({"COG", "SOG"}, 2)),
   N2k("129026", 0, All({"COG", "SOG"}, 1)) @@ Ref("true")}
Satellites ==
  {N2k("129539", 0, All({"HDOP", "VDOP"}, 1)), N2k("129540", 1, NoMore) @@ [sats |-> <<1, 2>>],
   Line("GSV", 2, NoMore) @@ [total |-> 2, current |-> 1, sats |-> <<2>>],
   Line("GSV", 0, NoMore) @@ [total |-> 2, current |-> 2, sats |-> <<3>>],
   Line("GSA", 2, All({"PDOP", "HDOP", "VDOP"}, 2)) @@ [fix |-> TRUE]}
Winds ==
  {N2k("130306", 0, All({"WindAngle", "WindSpeed"}, 1)) @@ Ref("true_boat"),
   N2k("130306", 1, All({"WindAngle", "WindSpeed"}, 2)) @@ Ref("true_north"),
   Line("MWV", 2, All({"TWA", "TWS"}, 3)) @@ Ref("true"), Line("MWD", 1, All({"TWD", "TWS"}, 4)),
   Line("HDT", 1, All({"HDT"}, 2))}
Apparent ==
  {N2k("130306", 0, All({"WindAngle", "WindSpeed"}, 1)) @@ Ref("apparent"),
   Line("MWV", 2, All({"AWA", "AWS"}, 3)) @@ Ref("apparent"), Line("VWR", 1, All({"AWA", "AWS"}, 2))}
Steering ==
  {N2k("127245", 0, All({"RudderPosition"}, 1)) @@ Inst(0), N2k("127245", 1, All({"RudderPosition"}, 1)) @@ Inst(1),
   Line("RSA", 2, All({"RPOS", "PRPOS"}, 2)), N2k("127251", 0, All({"ROT"}, 1)), Line("ROT", 1, All({"ROT"}, 2))}
Courses ==
  {N2k("129284", 0, All({"DTW", "BTW", "WPLat", "WPLon"}, 1)) @@ Ref("magnetic") @@ [greatCircle |-> TRUE],
   N2k("127258", 1, All({"VAR"}, 1)), N2k("129283", 1, All({"XTE"}, 1)) @@ [terminated |-> FALSE],
   Line("XTE", 2, All({"XTE"}, 2)) @@ Status("A")}
Leg(a, i, b, j, f) == Line("RMB", 1, f) @@ [dest |-> [text |-> a, rank |-> i], orig |-> [text |-> b, rank |-> j]]
Legs ==
  {Leg("a", 1, "b", 2, All({"XTE", "DTW", "BTW", "WPLat", "WPLon"}, 1)),
   Leg("c", 3, "a", 1, All({"DTW", "BTW", "WPLat", "WPLon"}, 1)),
   Leg("d", 4, "e", 5, All({"DTW", "BTW", "WPLat", "WPLon"}, 1))}
Waters ==
  {N2k("130310", 0, All({"WTemp", "Outside", "Pressure"}, 1)), Line("MTW", 1, All({"WTemp"}, 2)),
   N2k("130311", 0, All({"Temperature", "Humidity", "Pressure"}, 1)) @@ Sel(1, 0),
   N2k("130312", 0, All({"Temperature", "Set"}, 1)) @@ Sel(1, 2), N2k("128275", 0, All({"Log", "TripLog"}, 1))}
X(name, type, inst, value) == [name |-> name, type |-> type, inst |-> inst, value |-> value]
Xdrs(src, list) == Line("XDR", src, NoMore) @@ [transducers |-> list]
Supply ==
  {N2k("127508", 0, All({"Voltage", "Current", "Temperature"}, 1)) @@ Inst(0),
   N2k("127508", 1, All({"Voltage", "Current"}, 2)) @@ Inst(1),
   Xdrs(2, <<X("Batt", "U,V", 0, 3), X("Amps", "I,A", -1, 3), X("Own", "C,C", 3, 3)>>),
   N2k("127505", 0, All({"Level", "Capacity"}, 1)) @@ Sel(1, 0)}
Engines ==
  {N2k("127489", 0, NoMore) @@ Inst(0) @@ [values |-> <<1, 1, NA>>],
   N2k("127488", 0, NoMore) @@ Inst(0) @@ [values |-> <<1, NA, NA>>],
   N2k("127257", 0, NoMore) @@ Inst(0) @@ [values |-> <<NA, 1, NA>>],
   Xdrs(1, <<X("Eng", "T,R", 0, 3), X("Oil", "C,C", 0, 3), X("PTCH", "A,D", -1, 3)>>)}
Airs ==
  {N2k("130313", 0, All({"Humidity", "Set"}, 1)) @@ Sel(1, 0), N2k("130314", 0, All({"Pressure"}, 1)) @@ Sel(0, 0),
   N2k("130316", 0, All({"Temperature"}, 1)) @@ Sel(1, 1),
   Xdrs(1, <<X("Air", "C,C", 1, 3), X("Hum", "H,P", -1, 3), X("Baro", "P,B", -1, 3)>>)}
Frag(ship, type, part, parts, bits, by) ==
  [ship |-> ship, type |-> type, part |-> part, parts |-> parts, bits |-> bits, by |-> by]
Ais(src, count, num, seq, frag) ==
  Line("AIVDM", src, NoMore) @@ [line |-> [valid |-> TRUE, count |-> count, num |-> num, seq |-> seq, frag |-> frag]]
AisLines ==
  {Ais(1, 2, 1, 1, Frag("A", "5", 1, 2, 360, 1)), Ais(1, 2, 2, 1, Frag("A", "5", 2, 2, 66, 1)),
   Ais(2, 2, 1, 1, Frag("B", "5", 1, 2, 360, 2)), Ais(1, 3, 3, 2, Frag("C", "19", 3, 3, 120, 1)),
   Ais(1, 3, 1, 2, Frag("C", "19", 1, 3, 120, 1)), Ais(1, 3, 2, 2, Frag("C", "19", 2, 3, 120, 1)),
   Ais(2, 1, 1, 0, Frag("D", "1", 1, 1, 168, 2))}
Moving(repeat, lon, lat, cog, heading, sog, flag) ==
  [id |-> 999999999 + flag, repeat |-> repeat, lon |-> lon, lat |-> lat, cog |-> cog, heading |-> heading, sog |-> sog,
   rot |-> -500, navStatus |-> 5, seconds |-> 59, accuracy |-> flag, raim |-> 1 - flag, unit |-> flag,
   display |-> 1 - flag, dsc |-> flag, band |-> flag, msg22 |-> 1 - flag, mode |-> flag]
Turning(rot) == [Moving(1, 1799999999, -1, 35994, 35990, NoValue, 1) EXCEPT !.rot = rot]
AisMotions ==
  {N2k("129038", 0, NoMore) @@ Moving(0, -1800000000, 900000000, 35996, 35900, 10220, 0),
   N2k("129039", 0, NoMore) @@ Moving(2, NoValue, NoValue, NoValue, NoValue, 7, 0),
   N2k("129039", 0, NoMore) @@ Moving(3, 77, -899999999, 0, 49, 0, 1)}
    \cup {N2k("129038", 0, NoMore) @@ Turning(rot) : rot \in {49, 12649, -12749, 12750, NoValue}}
Vessel ==
  [id |-> 211000007, repeat |-> 3, imo |-> 9074729, callsign |-> <<4, 1, 49, 50, 51, 32, 32>>, name |-> <<1, 32, 26>>,
   vesselType |-> 36, length |-> 1234, beam |-> 316, bow |-> 1000, stbd |-> 4, gnss |-> 0, etaYear |-> 2026,
   etaMonth |-> 12, etaDay |-> 31, etaTime |-> 86399, draught |-> 255, destination |-> [k \in 1 .. 20 |-> 63],
   dte |-> 1, vendor |-> <<7, 1, 18, 13, 9, 14, 49>>]
Huge ==
  [Vessel EXCEPT !.repeat = 0, !.bow = 5200, !.length = 12000, !.stbd = 640, !.beam = 1300, !.vesselType = 100,
                 !.draught = 2551, !.gnss = 6, !.imo = 7, !.name = <<1, -1, 26>>, !.vendor = <<7>>]
Unknown ==
  [Vessel EXCEPT !.bow = NoValue, !.length = NoValue, !.stbd = NoValue, !.beam = NoValue, !.vesselType = 0,
                 !.draught = NoValue, !.gnss = 15, !.imo = 0, !.callsign = <<>>, !.name = <<>>, !.destination = <<0>>,
                 !.etaMonth = 0, !.etaDay = 0, !.etaTime = NoValue, !.vendor = <<>>]
AisStatics ==
  {N2k("129809", 0, NoMore) @@ [id |-> 211000007, name |-> <<19, 5, 1>>]}
    \cup {N2k(pgn, 0, NoMore) @@ s : pgn \in {"129794", "129810"}, s \in {Vessel, Huge, Unknown}}

MCFamilies ==
  {Headings, Speeds, Depths, DepthLines, Positions2, Times, Fixes, Satellites, Winds, Apparent, Steering,
   Courses, Legs, Waters, Supply, Engines, Airs, AisLines, AisMotions, AisStatics}
MCSteps == {50, 3950}
MCMemory == {<<63>>}

(* For the runs that show what the comments do not tell. *)
MCShips ==
  {{N2k("129809", 0, NoMore) @@ [id |-> i, name |-> <<i>>] : i \in 1 .. 3}
     \cup {N2k("129810", 0, NoMore) @@ [Vessel EXCEPT !.id = i] : i \in 1 .. 3}}
=============================================================================

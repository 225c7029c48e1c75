------------------------------ MODULE AisCodec ------------------------------
(***************************************************************************)
(* AIS messages as sequences of bits: how they are made of the data of an  *)
(* N2K message (lib/nmea2ktoais), and what the decoder of the gateway      *)
(* reads in them (lib/aisparser) and puts into an N2K message              *)
(* (lib/nmea0183ton2k/NMEA0183AIStoNMEA2000.h).                            *)
(*                                                                         *)
(* The data of a ship is a record.  Positions are in 1e-7 degrees, angles  *)
(* in 0.01 degrees, the turn in 0.01 degrees per minute, speeds in 0.01    *)
(* knots, lengths in 0.1 m, the draught in cm, the time of arrival in s,   *)
(* its date is a year, a month and a day (0: none).  A text is a sequence  *)
(* of the places of its characters in the table of AIS, -1 for those it    *)
(* has not.                                                                *)
(***************************************************************************)
EXTENDS Integers, Sequences, SequencesExt

NoValue == -2000000000        (* N2kDoubleNA, below all values *)
NoNumber == NoValue - 1       (* N2kDoubleNA times a factor, which N2kIsNA does not recognise *)
Space == 32

Least(a, b) == IF a < b THEN a ELSE b
Greatest(a, b) == IF a > b THEN a ELSE b
Magnitude(x) == IF x < 0 THEN -x ELSE x
Signed(x, v) == IF x < 0 THEN -v ELSE v
Round(x, unit) == Signed(x, (Magnitude(x) + unit \div 2) \div unit)                      (* aRoundToInt *)
Toward0(x, n, d) ==                                                          (* (int) (x * n / d) *)
  Signed(x, (Magnitude(x) \div d) * n + ((Magnitude(x) % d) * n) \div d)
-----------------------------------------------------------------------------
(* The fields, most significant bit first.  What is out of its range is    *)
(* replaced by the value for "not available" of the field.                 *)
AddInt(v, n) == [k \in 1 .. n |-> (v \div 2^(n - k)) % 2]
AddText(text, n) ==
  FlattenSeq([k \in 1 .. (n \div 6) |-> AddInt(IF k <= Len(text) /\ text[k] >= 0 THEN text[k] ELSE 0, 6)])
InRange(v, range, other) == IF v \in range THEN v ELSE other

AddMessageType(type) == AddInt(InRange(type, 0 .. 24, 1), 6)
AddRepeat(repeat) == AddInt(InRange(repeat, 0 .. 3, 0), 2)
AddUserID(id) == AddInt(InRange(id, 0 .. 999999999, 0), 30)
AddIMONumber(imo) == AddInt(InRange(imo, 999999 .. 1073741823, 0), 30)
AddNavStatus(status) == AddInt(InRange(status, 0 .. 15, 15), 4)
AddROT(rot) == AddInt(IF rot \in -12799 .. 12799 THEN Round(rot, 100) ELSE 128, 8)
AddSOG(sog) == AddInt(IF sog \in 0 .. 10220 THEN Round(sog, 10) ELSE 1023, 10)
AddLongitude(lon) == AddInt(IF lon \in -1800000000 .. 1800000000 THEN Toward0(lon, 3, 50) ELSE 108600000, 28)
AddLatitude(lat) == AddInt(IF lat \in -900000000 .. 900000000 THEN Toward0(lat, 3, 50) ELSE 54600000, 27)
AddHeading(heading) == AddInt(IF heading \in 0 .. 35900 THEN Round(heading, 100) ELSE 511, 9)
AddCOG(cog) == AddInt(IF cog \in 0 .. 35999 THEN Round(cog, 10) ELSE 3600, 12)
AddSeconds(seconds) == AddInt(InRange(seconds, 0 .. 63, 60), 6)

AddDimensions(s) ==
  LET bow == Greatest(s.bow, 0)
      stbd == Greatest(s.stbd, 0)
      Rest(all, part) == IF all >= part THEN Round(all - part, 10) ELSE 0
  IN AddInt(Least(Round(bow, 10), 511), 9) \o AddInt(Least(Rest(s.length, bow), 511), 9)
       \o AddInt(Least(Rest(s.beam, stbd), 63), 6) \o AddInt(Least(Round(stbd, 10), 63), 6)

(* A GNSS type of N2K as a type of a position fix of AIS. *)
fixType(gnss) ==
  CASE gnss \in {0, 3, 4} -> 1 [] gnss = 1 -> 2 [] gnss = 2 -> 3 [] gnss \in 5 .. 8 -> gnss [] OTHER -> 0
AddEPFDFixType(gnss) == AddInt(fixType(gnss), 4)
AddStaticDraught(draught) ==
  AddInt(IF draught < 0 THEN 0 ELSE IF draught > 2550 THEN 255 ELSE (draught + 9) \div 10, 8)
AddETADateTime(s) ==
  AddInt(s.etaMonth, 4) \o AddInt(s.etaDay, 5)
    \o AddInt(IF s.etaTime < 0 THEN 24 ELSE s.etaTime \div 3600, 5)
    \o AddInt(IF s.etaTime < 0 THEN 60 ELSE (s.etaTime % 3600) \div 60, 6)
-----------------------------------------------------------------------------
(* The messages: all bits of a message, with those of both parts.          *)
Common(type, s) == AddMessageType(type) \o AddRepeat(s.repeat) \o AddUserID(s.id)

SetAISClassABMessage1(s) ==
  Common(1, s) \o AddNavStatus(s.navStatus) \o AddROT(s.rot) \o AddSOG(s.sog) \o AddInt(s.accuracy, 1)
    \o AddLongitude(s.lon) \o AddLatitude(s.lat) \o AddCOG(s.cog) \o AddHeading(s.heading)
    \o AddSeconds(s.seconds) \o AddInt(0, 2) \o AddInt(0, 3) \o AddInt(s.raim, 1) \o AddInt(0, 19)

SetAISClassAMessage5(s) ==
  Common(5, s) \o AddInt(1, 2) \o AddIMONumber(s.imo) \o AddText(s.callsign, 42) \o AddText(s.name, 120)
    \o AddInt(s.vesselType, 8) \o AddDimensions(s) \o AddEPFDFixType(s.gnss) \o AddETADateTime(s)
    \o AddStaticDraught(s.draught) \o AddText(s.destination, 120) \o AddInt(s.dte, 1) \o AddInt(0, 1)

SetAISClassBMessage18(s) ==
  Common(18, s) \o AddInt(0, 8) \o AddSOG(s.sog) \o AddInt(s.accuracy, 1) \o AddLongitude(s.lon)
    \o AddLatitude(s.lat) \o AddCOG(s.cog) \o AddHeading(s.heading) \o AddSeconds(s.seconds)
    \o AddInt(0, 2) \o AddInt(s.unit, 1) \o AddInt(s.display, 1) \o AddInt(s.dsc, 1) \o AddInt(s.band, 1)
    \o AddInt(s.msg22, 1) \o AddInt(s.mode, 1) \o AddInt(s.raim, 1) \o AddInt(0, 20)

SetAISClassBMessage24(s, name) ==
  Common(24, s) \o AddInt(0, 2) \o AddText(name, 120) \o AddInt(0, 8)
    \o AddInt(s.vesselType, 8) \o AddText(s.vendor, 42) \o AddText(s.callsign, 42)
    \o AddDimensions(s) \o AddInt(0, 6)

(* A line with one or two parts, and the bits that only fill its payload.  *)
VDM(part, parts, bits, fill) == [part |-> part, parts |-> parts, bits |-> bits, fill |-> fill]
BuildMsg5Part1(bits) == VDM(1, 2, SubSeq(bits, 1, 336), 0)
BuildMsg5Part2(bits) == VDM(2, 2, SubSeq(bits, 337, 424) \o <<0, 0>>, 2)
BuildMsg24PartA(bits) == VDM(1, 1, SubSeq(bits, 1, 168), 0)
-----------------------------------------------------------------------------
-----------------------------------------------------------------------------
BuildMsg24PartB(bits) == VDM(1, 1, SubSeq(bits, 1, 39) \o <<1>> \o SubSeq(bits, 169, 296), 0)

(* decodeAscii: the bits of all parts, without those that only fill.       *)
payloadOf(lines) ==
  LET all == FlattenSeq([k \in DOMAIN lines |-> lines[k].bits])
  IN SubSeq(all, 1, Len(all) - Last(lines).fill)
-----------------------------------------------------------------------------
(* The decoder: fields <<name, kind, bits>> are read one after the other.  *)
getUnsignedValue(bits) == FoldLeft(LAMBDA v, b : 2 * v + b, 0, bits)
getSignedValue(bits) == getUnsignedValue(Tail(bits)) - bits[1] * 2^(Len(bits) - 1)
getString(bits) ==
  LET code == [k \in 1 .. (Len(bits) \div 6) |-> getUnsignedValue(SubSeq(bits, 6 * k - 5, 6 * k))]
      Shown(k) == code[k] # Space /\ \A j \in 1 .. k : code[j] # 0
  IN SubSeq(code, 1, FoldLeft(LAMBDA last, k : IF Shown(k) THEN k ELSE last, 0, [k \in DOMAIN code |-> k]))

Read(kind, bits) ==
  CASE kind = "u" -> getUnsignedValue(bits) [] kind = "s" -> getSignedValue(bits) [] kind = "t" -> getString(bits)

fieldsOf(layout, bits) ==
  LET ends == FoldLeft(LAMBDA e, field : Append(e, (IF e = <<>> THEN 0 ELSE Last(e)) + field[3]), <<>>, layout)
      Value(k) == Read(layout[k][2], SubSeq(bits, ends[k] - layout[k][3] + 1, ends[k]))
  IN [name \in {layout[k][1] : k \in DOMAIN layout} \ {"spare"} |->
        Value(CHOOSE k \in DOMAIN layout : layout[k][1] = name)]

Header == <<<<"type", "u", 6>>, <<"repeat", "u", 2>>, <<"id", "u", 30>>>>
Motion ==
  <<<<"sog", "u", 10>>, <<"accuracy", "u", 1>>, <<"lon", "s", 28>>, <<"lat", "s", 27>>, <<"cog", "u", 12>>,
    <<"heading", "u", 9>>, <<"seconds", "u", 6>>>>
Dimensions == <<<<"toBow", "u", 9>>, <<"toStern", "u", 9>>, <<"toPort", "u", 6>>, <<"toStarboard", "u", 6>>>>

decodeType123 ==
  Header \o <<<<"navStatus", "u", 4>>, <<"rot", "s", 8>>>> \o Motion
    \o <<<<"spare", "u", 2>>, <<"spare", "u", 3>>, <<"raim", "u", 1>>, <<"spare", "u", 19>>>>
decodeType5 ==
  Header \o <<<<"version", "u", 2>>, <<"imo", "u", 30>>, <<"callsign", "t", 42>>, <<"name", "t", 120>>,
              <<"vesselType", "u", 8>>>>
    \o Dimensions
    \o <<<<"gnss", "u", 4>>, <<"etaMonth", "u", 4>>, <<"etaDay", "u", 5>>, <<"etaHour", "u", 5>>,
         <<"etaMinute", "u", 6>>, <<"draught", "u", 8>>, <<"destination", "t", 120>>, <<"dte", "u", 1>>,
         <<"spare", "u", 1>>>>
decodeType18 ==
  Header \o <<<<"spare", "u", 8>>>> \o Motion
    \o <<<<"spare", "u", 2>>, <<"unit", "u", 1>>, <<"display", "u", 1>>, <<"dsc", "u", 1>>, <<"band", "u", 1>>,
         <<"msg22", "u", 1>>, <<"mode", "u", 1>>, <<"raim", "u", 1>>, <<"state", "u", 20>>>>
decodeType24A == Header \o <<<<"part", "u", 2>>, <<"name", "t", 120>>, <<"spare", "u", 8>>>>
decodeType24B ==
  Header \o <<<<"part", "u", 2>>, <<"vesselType", "u", 8>>, <<"vendor", "t", 18>>, <<"spare", "u", 4>>,
              <<"spare", "u", 20>>, <<"callsign", "t", 42>>>>
    \o Dimensions \o <<<<"spare", "u", 6>>>>

(* What becomes of the fields in the N2K message.  A position, a speed and *)
(* a time that are not available are not recognised; a turn is scaled even *)
(* if it is N2kDoubleNA; the year is that of DaysSince1970, always 0.      *)
decodeCog(cog) == IF cog < 3600 THEN 10 * cog ELSE NoValue
decodeHeading(heading) == IF heading <= 359 THEN 100 * heading ELSE NoValue
decodeRot(rot) ==
  CASE rot \in {127, -127} -> Signed(rot, 1000)
    [] rot \in -126 .. 126 -> Signed(rot, (rot * rot * 1000) \div 224)
    [] OTHER -> NoNumber

onMotion(d) ==
  [d EXCEPT !.lon = Toward0(@, 50, 3), !.lat = Toward0(@, 50, 3), !.sog = 10 * @,
            !.cog = decodeCog(@), !.heading = decodeHeading(@)]
onDimensions(d) ==
  [length |-> 10 * (d.toBow + d.toStern), beam |-> 10 * (d.toPort + d.toStarboard),
   bow |-> 10 * d.toBow, stbd |-> 10 * d.toStarboard] @@ [d EXCEPT !.vesselType = InRange(@, 0 .. 99, 0)]

onType123(d) == [onMotion(d) EXCEPT !.rot = decodeRot(@)]
onType5(d) ==
  [etaTime |-> d.etaHour * 3600 + d.etaMinute * 60, etaYear |-> 1970]
    @@ [onDimensions(d) EXCEPT !.draught = 10 * @]

decode(lines) ==
  LET bits == payloadOf(lines)
      type == getUnsignedValue(SubSeq(bits, 1, 6))
      part == getUnsignedValue(SubSeq(bits, 39, 40))
  IN CASE type = 1 -> onType123(fieldsOf(decodeType123, bits))
       [] type = 5 -> onType5(fieldsOf(decodeType5, bits))
       [] type = 18 -> onMotion(fieldsOf(decodeType18, bits))
       [] type = 24 /\ part = 0 -> fieldsOf(decodeType24A, bits)
       [] type = 24 /\ part = 1 -> onDimensions(fieldsOf(decodeType24B, bits))
=============================================================================

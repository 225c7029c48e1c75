----------------------------- MODULE GwBoatData -----------------------------
(***************************************************************************)
(* The store of the last values of everything the gateway has seen         *)
(* (lib/boatData/GwBoatData.cpp, GwBoatData.h): for every item the value,  *)
(* when it was set, and by which source.  A store is a function of the     *)
(* item names; an item that was never set stands for one that was never    *)
(* created, too.  Values are numbers, those of SatInfo lists of satellites.*)
(***************************************************************************)
EXTENDS Integers, Sequences, SequencesExt

CONSTANTS
  TimoDefault, TimoLong, TimoSensor,  (* the timeouts of the settings, ms  *)
  Wrap,                               (* millis() runs modulo this (2^32)  *)
  XdrItem                             (* names of the items of transducers *)

ASSUME BoatDataAssumption ==
  /\ TimoDefault \in Nat /\ TimoLong \in Nat /\ TimoSensor \in Nat
  /\ Wrap \in Nat \ {0}

NA == -1                    (* N2kDoubleNA, NMEA0183DoubleNA and the like  *)
NoSource == -1

Fixed ==
  {"COG", "SOG", "HDT", "HDM", "STW", "VAR", "DEV", "AWA", "AWS", "MaxAws", "TWD", "TWA", "TWS",
   "MaxTws", "ROT", "RPOS", "PRPOS", "LAT", "LON", "ALT", "HDOP", "PDOP", "VDOP", "DBS", "DBT",
   "GPST", "GPSD", "TZ", "WTemp", "Log", "TripLog", "DTW", "BTW", "XTE", "WPLat", "WPLon", "SatInfo"}
Item == Fixed \cup XdrItem
Kept == {"MaxAws", "MaxTws"}

(* setInvalidTime; an item of a transducer has the time of its provider. *)
invalidTime(i) ==
  CASE i \in Kept -> 0
    [] i \in {"TZ", "Log", "TripLog", "SatInfo"} -> TimoLong
    [] i \in XdrItem -> TimoSensor
    [] OTHER -> TimoDefault

Plus(t, d) == (t + d) % Wrap

begin == [i \in Item |-> [lastSet |-> 0, src |-> NoSource, data |-> IF i = "SatInfo" THEN <<>> ELSE 0]]
-----------------------------------------------------------------------------
(* Faulty variants: without a look at the source, whatever the age.        *)
acceptsAll(bd, i, source, now) == TRUE

isSet(bd, i, now) == bd[i].lastSet # 0
-----------------------------------------------------------------------------
isValid(bd, i, now) ==
  /\ bd[i].lastSet # 0
  /\ invalidTime(i) = 0 \/ Plus(bd[i].lastSet, invalidTime(i)) >= now

getDataWithDefault(bd, i, default, now) == IF isValid(bd, i, now) THEN bd[i].data ELSE default

(* Sources with lower ids win as long as their value is valid. *)
accepts(bd, i, source, now) ==
  ~ (isValid(bd, i, now) /\ bd[i].src < source /\ bd[i].src >= 0)

update(bd, i, nv, source, now) ==
  IF accepts(bd, i, source, now)
  THEN [bd EXCEPT ![i] = [lastSet |-> now, src |-> source, data |-> nv]]
  ELSE bd

updateMax(bd, i, nv, source, now) ==
  IF ~isValid(bd, i, now) THEN update(bd, i, nv, source, now)
  ELSE IF bd[i].data < nv
       THEN [bd EXCEPT ![i] = [lastSet |-> now, src |-> source, data |-> nv]]
       ELSE bd
-----------------------------------------------------------------------------
(* Satellites: entries of the list become too old on their own, but are    *)
(* only removed when one is updated (or the list is shown).                *)
houseKeeping(sats, now) ==
  FoldLeft(LAMBDA kept, s : IF s.validTill >= now THEN Append(kept, s) ELSE kept, <<>>, sats)

listUpdate(sats, prn, validTill, now) ==
  IF \E k \in DOMAIN sats : sats[k].prn = prn
  THEN houseKeeping([k \in DOMAIN sats |->
                       IF /\ sats[k].prn = prn
                          /\ \A j \in 1 .. (k - 1) : sats[j].prn # prn
                       THEN [prn |-> prn, validTill |-> validTill] ELSE sats[k]], now)
  ELSE Append(houseKeeping(sats, now), [prn |-> prn, validTill |-> validTill])

satAccepts(bd, source, now) == ~ (isValid(bd, "SatInfo", now) /\ bd["SatInfo"].src < source)

satUpdate(bd, prn, source, now) ==
  IF satAccepts(bd, source, now)
  THEN [bd EXCEPT !["SatInfo"] =
          [lastSet |-> now, src |-> source,
           data |-> listUpdate(@.data, prn, Plus(now, invalidTime("SatInfo")), now)]]
  ELSE bd

satUpdates(bd, prns, source, now) == FoldLeft(LAMBDA b, prn : satUpdate(b, prn, source, now), bd, prns)

getNumSats(bd, now) == IF isValid(bd, "SatInfo", now) THEN Len(bd["SatInfo"].data) ELSE 0
-----------------------------------------------------------------------------
(* The store as it is shown by the web page: toJson cleans the list. *)
toJson(bd, now) == [bd EXCEPT !["SatInfo"].data = houseKeeping(@, now)]

IsStore(bd) ==
  /\ DOMAIN bd = Item
  /\ \A i \in Item :
       /\ bd[i].lastSet \in 0 .. (Wrap - 1) /\ bd[i].src \in Int
       /\ IF i # "SatInfo" THEN bd[i].data \in Int
          ELSE \A k \in DOMAIN bd[i].data : bd[i].data[k].validTill \in 0 .. (Wrap - 1)
=============================================================================

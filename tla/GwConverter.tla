---------------------------- MODULE GwConverter ----------------------------
(***************************************************************************)
(* What the two converters have in common: their settings                  *)
(* (lib/config/GwConverterConfig.h), the dispatch of messages              *)
(* (lib/converterlist/ConverterList.h), and the state they work on.        *)
(*                                                                         *)
(* A converter is described by functions of a record c, that holds         *)
(*   now      the value of millis() while the message is handled           *)
(*   bd       the store of GwBoatData                                      *)
(*   unknown  the readings without mapping of GwXDRMappings                *)
(*   n183     the members of the N2K to NMEA0183 converter                 *)
(*   n2k      the members of the NMEA0183 to N2K converter                 *)
(*   out      the messages sent for the one that is handled                *)
(*   memory   what is found in memory that was just freed                  *)
(* and gives the record after each step.  A message m has src, the id of   *)
(* the channel it comes from, and f, a function that gives the values of   *)
(* the fields that are there (all others are NA).                          *)
(***************************************************************************)
EXTENDS GwXDRMappings

CONSTANT ConverterSettings    (* the settings of the category converter    *)

WindReference == {"true_north", "magnetic", "apparent", "true_boat", "true_water"}
WindType == {"awa_aws", "twa_tws", "twd_tws"}

ASSUME ConverterAssumption ==
  /\ DOMAIN ConverterSettings =
       {"minXdrInterval", "stbRudderI", "portRudderI", "min2KInterval", "checkRMCt", "sendRMCi",
        "unknownXdr", "winst312", "wind"}
  /\ DOMAIN ConverterSettings.wind = WindReference
  /\ \A s \in DOMAIN ConverterSettings \ {"unknownXdr", "wind"} : ConverterSettings[s] \in Int

(* init: the settings, with too small intervals replaced. *)
AtLeast(v, min) == IF v < min THEN min ELSE v
config ==
  [minXdrInterval |-> ConverterSettings.minXdrInterval,
   starboardRudderInstance |-> ConverterSettings.stbRudderI,
   portRudderInstance |-> ConverterSettings.portRudderI,
   min2KInterval |-> AtLeast(ConverterSettings.min2KInterval, 10),
   rmcCheckTime |-> AtLeast(ConverterSettings.checkRMCt, 1000),
   rmcInterval |-> IF ConverterSettings.sendRMCi <= 0 THEN 0
                   ELSE AtLeast(ConverterSettings.sendRMCi, 100),
   unmappedXdr |-> ConverterSettings.unknownXdr,
   winst312 |-> ConverterSettings.winst312]

(* findWindMapping in both directions: the first in the order of windConfigs. *)
windConfigs == <<"true_north", "magnetic", "apparent", "true_boat", "true_water">>
windMappings == SelectSeq(windConfigs, LAMBDA r : ConverterSettings.wind[r] \in WindType)
windTypeOf(ref) == ConverterSettings.wind[ref]
windReferenceOf(type) ==
  LET those == SelectSeq(windMappings, LAMBDA r : ConverterSettings.wind[r] = type)
  IN IF those = <<>> THEN "none" ELSE those[1]
-----------------------------------------------------------------------------
(* Values.  A sum with NA is a number like any other: the code does not    *)
(* recognise it as NA any more.                                            *)
Garbage == -2
V(m, f) == IF f \in DOMAIN m.f THEN m.f[f] ELSE NA
Computed(a, b) == IF NA \in {a, b} \/ Garbage \in {a, b} THEN Garbage ELSE a

Valid(c, i) == isValid(c.bd, i, c.now)
Stored(c, i) == getDataWithDefault(c.bd, i, NA, c.now)

(* updateDouble and the like: NA is not stored. *)
Accepts(c, m, i, v) == v # NA /\ accepts(c.bd, i, m.src, c.now)
Update(c, m, i, v) == IF v = NA THEN c ELSE [c EXCEPT !.bd = update(@, i, v, m.src, c.now)]

Takes(c, m, i) == Accepts(c, m, i, V(m, i))
TakesAll(c, m, is) == \A k \in DOMAIN is : Takes(c, m, is[k])

(* The fields of m with the names of items are stored: all, or in turn     *)
(* until one is refused.                                                   *)
UpdateEach(c, m, items) ==
  [c EXCEPT !.bd = [i \in Item |-> IF i \in items /\ Takes(c, m, i)
                                   THEN [lastSet |-> c.now, src |-> m.src, data |-> V(m, i)]
                                   ELSE @[i]]]
UpdateWhile(c, m, is) ==
  UpdateEach(c, m, {is[k] : k \in {k \in DOMAIN is : TakesAll(c, m, SubSeq(is, 1, k))}})

(* A function with the value v for k. *)
With(f, k, v) == [x \in DOMAIN f \cup {k} |-> IF x = k THEN v ELSE f[x]]

(* A message that is sent: what it is and for which source, the items      *)
(* whose stored values are in it, and a record of what else is told of it. *)
Emit(c, what, source, reads, more) ==
  [c EXCEPT !.out = Append(@, [what |-> what, src |-> source, reads |-> reads, more |-> more])]
NoMore == [x \in {} |-> {}]

(* handleMessage: what no converter is registered for is not converted. *)
handleMessage(c, m, keys, converted) == IF m.key \in keys THEN converted ELSE c
=============================================================================

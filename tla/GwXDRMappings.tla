--------------------------- MODULE GwXDRMappings ---------------------------
(***************************************************************************)
(* The mappings between the readings of N2K messages and the transducers   *)
(* of XDR lines (lib/xdrmappings/GwXDRMappings.cpp, GwXDRMappings.h).      *)
(*                                                                         *)
(* A mapping belongs to one reading - category, selector, field - and a    *)
(* transducer name, and its mode says what becomes of the instance id:     *)
(* "single" is for one instance, "auto" adds it to the name as #id,        *)
(* "ignore" gives all instances the same name.                             *)
(***************************************************************************)
EXTENDS GwBoatData, TLC, FiniteSets, SequencesExt

CONSTANTS
  XdrSettings,  (* the mappings of the settings, in order                  *)
  MaxUnknown    (* number of readings without mapping that are kept, 200   *)

Mode == {"single", "auto", "ignore"}
Direction == {"disabled", "bidir", "toN2K", "fromN2K"}

(* The kinds of quantities of the fields of a category (web/xdrconfig.json,*)
(* compiled into typeMappings), fields counted from 0.                     *)
TypeCodes ==
  [temp |-> <<"temp", "temp">>, humidity |-> <<"humid", "humid">>, pressure |-> <<"press">>,
   fluid |-> <<"volpercent", "volume">>, bat |-> <<"volt", "amp", "temp">>,
   engine |-> <<"press", "temp", "temp", "volt", "flow", "generic", "press", "press", "generic",
                "generic", "rpm", "press", "displacement">>,
   attitude |-> <<"displacementd", "displacementd", "displacementd">>]
Category == DOMAIN TypeCodes

findTypeMapping(cat, field) ==
  IF field + 1 \in DOMAIN TypeCodes[cat] THEN TypeCodes[cat][field + 1] ELSE "unknown"

(* The types and units an XDR line may give such a quantity in. *)
findType ==
  [press |-> <<"P,P", "P,B">>, volt |-> <<"U,V">>, amp |-> <<"I,A">>, temp |-> <<"C,K", "C,C">>,
   humid |-> <<"H,P">>, volpercent |-> <<"V,P">>, volume |-> <<"V,M">>, flow |-> <<"R,I">>,
   generic |-> <<"G,">>, displacement |-> <<"A,P">>, displacementd |-> <<"A,D">>, rpm |-> <<"T,R">>]

ASSUME XdrAssumption ==
  /\ MaxUnknown \in Nat
  /\ \A k \in DOMAIN XdrSettings : LET d == XdrSettings[k] IN
       /\ d.cat \in Category /\ d.mode \in Mode /\ d.dir \in Direction
       /\ d.sel \in Int /\ d.field \in Int /\ d.inst \in Int

Nothing == [name |-> "", mode |-> "ignore", inst |-> NA]
-----------------------------------------------------------------------------
(* fromString and addMapping: what of the settings becomes a mapping. *)
mappings ==
  SelectSeq(XdrSettings, LAMBDA d : /\ d.dir # "disabled" /\ d.name # ""
                                    /\ findTypeMapping(d.cat, d.field) # "unknown")

Byte(n) == IF n < 0 THEN 0 ELSE n % 256
n2kMap(cat, sel, field) ==
  SelectSeq(mappings,
            LAMBDA d : d.cat = cat /\ Byte(d.sel) = Byte(sel) /\ Byte(d.field) = Byte(field))

typesOf(d) == {findType[findTypeMapping(d.cat, d.field)][k] :
                 k \in DOMAIN findType[findTypeMapping(d.cat, d.field)]}
n183Map(name, type) == SelectSeq(mappings, LAMBDA d : d.name = name /\ type \in typesOf(d))

(* The name of a transducer: with the id of the instance in mode auto. *)
Name(name, instance) == name \o "#" \o ToString(instance)
getTransducerName(d, instance) == IF d.mode = "auto" THEN Name(d.name, instance) ELSE d.name
getBoatItemName(transducer) == "xdr" \o transducer
-----------------------------------------------------------------------------
(* Faulty variant: every reading without a mapping is remembered. *)
addUnknownAlways(unknown, cat, sel, field, instance) ==
  unknown \cup {<<cat, sel, field, instance>>}
-----------------------------------------------------------------------------
(* The first mapping for exactly this instance; without one a candidate:   *)
(* with an instance the last that is not "ignore" - a "single" one for     *)
(* another instance, too, as its case runs into that of "auto" -, without  *)
(* one the first that is not "auto".  Only then an "ignore" one.           *)
selectMapping(list, instance) ==
  LET Those(P(_)) == {k \in DOMAIN list : P(list[k])}
      exact == Those(LAMBDA d : d.mode = "single" /\ d.inst = instance)
      taking == Those(LAMBDA d : d.mode \in {"single", "auto"})
      first(S) == CHOOSE k \in S : \A j \in S : k <= j
      last(S) == CHOOSE k \in S : \A j \in S : k >= j
      candidates == Those(LAMBDA d : d.mode # "auto")
      Found(k) == list[k] @@ [instance |-> IF instance >= 0 THEN instance ELSE list[k].inst]
  IN IF exact # {} THEN Found(first(exact))
     ELSE IF instance >= 0 /\ taking # {} THEN Found(last(taking))
     ELSE IF candidates # {} THEN Found(first(candidates))
     ELSE Nothing

(* getMapping for a reading of an N2K message, and for an XDR transducer   *)
(* with or without (-1) an instance in its name.                           *)
getMapping(cat, sel, field, instance) == selectMapping(n2kMap(cat, sel, field), instance)
getMapping183(name, type, instance) ==
  IF name = "" THEN Nothing ELSE selectMapping(n183Map(name, type), instance)

(* What is remembered of a reading no mapping takes. *)
addUnknown(unknown, cat, sel, field, instance) ==
  IF Cardinality(unknown) >= MaxUnknown THEN unknown
  ELSE unknown \cup {<<cat, IF sel < 0 THEN 0 ELSE sel % 128, IF field < 0 THEN 0 ELSE field % 128,
                       IF instance \in 0 .. 255 THEN instance ELSE 256>>}
=============================================================================
